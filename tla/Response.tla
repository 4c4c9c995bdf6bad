------------------------------- MODULE Response -------------------------------
(***************************************************************************)
(* Response and ChunkedHTTPResponseBuf of http_audio_server/server.cpp,    *)
(* with the way event_handler() uses them: what goes over the wire for one *)
(* request after the other.  A handler sends a header and prints bytes;    *)
(* they gather in a buffer, which goes out as a chunk when it is full,     *)
(* flushed or destroyed.  When a handler throws, event_handler() answers   *)
(* with a second Response on the same connection.                          *)
(*                                                                         *)
(* Bytes are only counted.  On the wire a natural number is a chunk of     *)
(* that size, and 0 the empty chunk that ends a response.                  *)
(***************************************************************************)
EXTENDS Integers, Sequences, SequencesExt

CONSTANTS
    BufSize,      \* the 4096 bytes between pbase() and epptr()
    ErrorChunks,  \* how often an error message fills the buffer and its spare cell
    ErrorRest,    \* bytes of the message that are in the buffer after that
    MaxBody,      \* bound: bytes printed by a handler
    Kinds         \* the kinds of handlers: see handler

ASSUME ResponseAssumption ==
    /\ BufSize \in Nat \ {0}
    /\ ErrorChunks \in Nat /\ ErrorRest \in 0..BufSize
    /\ ErrorChunks > 0 \/ ErrorRest > 0
    /\ MaxBody \in Nat
    /\ Kinds \subseteq {"message", "data", "page", "failing data", "failing request", "none"}

\* "message": ok(), error() and handle_stream_create end in std::endl;
\* "data": handle_stream_advance; "page": handle_index flushes line by line;
\* "failing data": advance() throws before it prints; "failing request": the
\* handler throws before its header; "none": no handler matches.
VARIABLES
    handler,      \* kind of the handler that runs
    pc,           \* "idle", "header", "body" or "destroy"
    header_sent,  \* m_header_sent
    buffered,     \* pptr() - pbase()
    printed,      \* bytes printed by the handler
    wire          \* what has been sent for the request

vars == <<handler, pc, header_sent, buffered, printed, wire>>

Header == -1  \* the response line and headers of mg_send_head
Empty  == 0   \* the empty chunk

Init ==
    /\ handler = "none" /\ pc = "idle"
    /\ header_sent = FALSE /\ buffered = 0 /\ printed = 0 /\ wire = <<>>

-----------------------------------------------------------------------------

FullChunks == [i \in 1..ErrorChunks |-> BufSize + 1]

\* What-if: the destructor is left to end the response, and the message is
\* not flushed before.
ErrorReplyBare == <<Header>> \o FullChunks \o <<ErrorRest>>

\* What Response(nc).error() sends from its constructor to its destructor: the
\* header, a chunk whenever the message fills the buffer, the chunk of
\* std::endl, the empty buffer, and the last chunk.  A 404 repeats the client's
\* URI, which may be longer than the buffer.
ErrorReply == <<Header>> \o FullChunks \o <<ErrorRest, Empty, Empty>>

\* event_handler() finds the handler, or answers with a 404 itself.
Request(kind) ==
    /\ pc = "idle"
    /\ handler' = kind
    /\ header_sent' = FALSE /\ buffered' = 0 /\ printed' = 0
    /\ IF kind = "none"
         THEN pc' = "idle" /\ wire' = ErrorReply
         ELSE pc' = "header" /\ wire' = <<>>

SendHeader ==
    /\ pc = "header"
    /\ handler # "failing request"
    /\ header_sent' = TRUE
    /\ wire' = Append(wire, Header)
    /\ pc' = "body"
    /\ UNCHANGED <<handler, buffered, printed>>

\* What-if: the byte that did not fit is not put into the chunk.
PutDropsOverflow ==
    /\ pc = "body"
    /\ printed < MaxBody
    /\ handler # "failing data"
    /\ printed' = printed + 1
    /\ \/ /\ buffered < BufSize
          /\ buffered' = buffered + 1
          /\ UNCHANGED wire
       \/ /\ buffered = BufSize
          /\ buffered' = 0
          /\ wire' = Append(wire, BufSize)
    /\ UNCHANGED <<handler, pc, header_sent>>

\* What-if: overflow() does not empty the buffer.
PutKeepsBuffer ==
    /\ pc = "body"
    /\ printed < MaxBody
    /\ handler # "failing data"
    /\ printed' = printed + 1
    /\ buffered' = buffered + 1
    /\ wire' = IF buffered = BufSize THEN Append(wire, BufSize + 1) ELSE wire
    /\ UNCHANGED <<handler, pc, header_sent>>

\* A byte goes into the buffer; the one that does not fit any more goes into
\* the spare cell behind it, and overflow() sends them all.
Put ==
    /\ pc = "body"
    /\ printed < MaxBody
    /\ handler # "failing data"
    /\ printed' = printed + 1
    /\ \/ /\ buffered < BufSize
          /\ buffered' = buffered + 1
          /\ UNCHANGED wire
       \/ /\ buffered = BufSize /\ handler # "page"
          /\ buffered' = 0
          /\ wire' = Append(wire, BufSize + 1)
    /\ UNCHANGED <<handler, pc, header_sent>>

\* sync(): also an empty buffer is sent as a chunk.
Flush == wire' = Append(wire, buffered) /\ buffered' = 0

\* A line of a page has been printed: generic_pipe flushes.  It passes on at
\* most its 4096 bytes, and only when it has some.
FlushLine ==
    /\ pc = "body"
    /\ handler = "page"
    /\ buffered > 0
    /\ Flush
    /\ UNCHANGED <<handler, pc, header_sent, printed>>

\* The handler returns, after std::endl if it prints a message.
HandlerReturns ==
    /\ pc = "body"
    /\ handler # "failing data"
    /\ handler = "page" => buffered = 0
    /\ IF handler = "message"
         THEN printed > 0 /\ Flush
         ELSE UNCHANGED <<buffered, wire>>
    /\ pc' = "destroy"
    /\ UNCHANGED <<handler, header_sent, printed>>

\* The handler throws and event_handler() answers with another Response.
HandlerThrows ==
    /\ \/ pc = "header" /\ handler = "failing request"
       \/ pc = "body" /\ handler = "failing data"
    /\ wire' = wire \o ErrorReply
    /\ pc' = "destroy"
    /\ UNCHANGED <<handler, header_sent, buffered, printed>>

\* What-if: the destructor relies on the flush to end the response.
DestroyFlushOnly ==
    /\ pc = "destroy"
    /\ wire' = IF header_sent THEN wire \o <<buffered>> ELSE wire
    /\ buffered' = 0
    /\ pc' = "idle"
    /\ UNCHANGED <<handler, header_sent, printed>>

\* ~Response: flush, then the empty chunk, if a header was sent.
Destroy ==
    /\ pc = "destroy"
    /\ wire' = IF header_sent THEN wire \o <<buffered, Empty>> ELSE wire
    /\ buffered' = 0
    /\ pc' = "idle"
    /\ UNCHANGED <<handler, header_sent, printed>>

Call == \E kind \in Kinds : Request(kind)
Step == SendHeader \/ Put \/ FlushLine \/ HandlerReturns \/ HandlerThrows \/ Destroy
Next == Call \/ Step

Spec == Init /\ [][Next]_vars

-----------------------------------------------------------------------------
(***************************************************************************)
(* Properties.                                                             *)
(***************************************************************************)

\* In particular the buffer never holds more than epptr() - pbase().
TypeOK ==
    /\ handler \in Kinds \cup {"none"}
    /\ pc \in {"idle", "header", "body", "destroy"}
    /\ header_sent \in BOOLEAN
    /\ buffered \in 0..BufSize
    /\ printed \in Nat
    /\ wire \in Seq({Header} \cup 0..(BufSize + 1))

\* What the client takes for the response: up to the first empty chunk.
Answer == SubSeq(wire, 1, SelectInSeq(wire, LAMBDA item : item = Empty))

IsChunk(item) == item > 0

\* One header, then chunks, then an empty one.
Framed ==
    /\ Len(Answer) >= 2 /\ Answer[1] = Header
    /\ \A i \in 2..(Len(Answer) - 1) : IsChunk(Answer[i])

\* Whether the handler returned, threw before its header, or was missing, the
\* client finds a framed answer, and neither hangs nor loses track.  A handler
\* that throws after its header, as handle_stream_advance does when advance()
\* fails, is the one exception, and always is: where the client looks for a
\* chunk it finds the second header (see HeaderSentOnce).
AnswerIsFramed ==
    pc = "idle" /\ wire # <<>> => (Framed <=> handler # "failing data")

\* The client receives every byte that the handler printed, although an empty
\* buffer that is flushed looks like the end: the chunks before the first empty
\* one hold them all.
Bytes(items) ==
    LET bytes[n \in 0..Len(items)] ==
            IF n = 0 THEN 0 ELSE bytes[n - 1] + (IF IsChunk(items[n]) THEN items[n] ELSE 0)
    IN  bytes

Received == Bytes(Answer)[Len(Answer)]

BodyArrives ==
    pc = "idle" /\ header_sent /\ handler # "failing data" => Received = printed

\* mongoose.h asks for "an empty chunk at the end of the response, to tell the
\* client that everything was sent".
EmptyChunkIsLast ==
    \A i \in 1..(Len(wire) - 1) : wire[i] = Empty => wire[i + 1] = Header

\* Response::header is there to "ensure the header is only sent once".
HeaderSentOnce == Len(SelectSeq(wire, LAMBDA item : item = Header)) <= 1
=============================================================================

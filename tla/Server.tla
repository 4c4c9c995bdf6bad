-------------------------------- MODULE Server --------------------------------
(***************************************************************************)
(* The way of a request through the server: the event loop of main.cpp     *)
(* with SIGINT and the destruction that follows, the connections of        *)
(* lib/mongoose.c below it, and the handlers of main.cpp with the streams  *)
(* they share above it.                                                    *)
(*                                                                         *)
(* A request travels as a head, which stands for the request line and all  *)
(* headers, and a body if it has one; TCP delivers them in portions of any *)
(* size.  Bytes of an incomplete head change nothing anywhere and count as *)
(* not sent yet.  An answer is one message: module Response shows what it  *)
(* consists of.  A stream is the number of files appended to it and of     *)
(* chunks taken from it: module Stream shows what is in them.  A handler   *)
(* is one step, because everything runs on one thread.                     *)
(***************************************************************************)
EXTENDS Integers, Sequences, SequencesExt, FiniteSets

CONSTANTS
    Clients,   \* each has one connection
    Polite,    \* those who read their answers, and ask again when they have them
    Ids,       \* what random_alphanum_string() can return
    Scripts,   \* Scripts[c]: the sequences of requests client c may send
    NoId       \* in place of an identifier: none

\* In a request: `route` is the handler that its method and path lead to, "none"
\* if there is no such handler, "garbage" if the head is not HTTP; `body` is
\* what the body holds; `sized` tells whether its length is known, from a
\* Content-Length header or because the method is neither POST nor PUT.
RequestRecord ==
    [route : {"index", "create", "append", "advance", "destroy", "none", "garbage"},
     id    : Ids \cup {NoId},
     body  : {"file", "no file", "no JSON", "none"},
     sized : BOOLEAN]

\* The connection that others are accepted from.
Listener == "listener"

ASSUME ServerAssumption ==
    /\ Polite \subseteq Clients
    /\ Listener \notin Clients
    /\ NoId \notin Ids
    /\ DOMAIN Scripts = Clients
    /\ \A c \in Clients : \A script \in Scripts[c] : script \in Seq(RequestRecord)

VARIABLES
    \* the clients and the network
    asked,               \* the requests a client has begun to send
    due,                 \* clients that have not sent the body of the last one
    to_server,           \* what is in the socket buffer of the server
    received,            \* the answers that have arrived at a client
    peer,                \* "there", "half" (sends no more) or "gone"
    \* mongoose
    conn,                \* "none", "queued", "active" or "closed"
    active_connections,  \* the list, newest first; behind them is the Listener
    recv_mbuf,
    send_mbuf,
    flags,               \* MG_F_SEND_AND_CLOSE, MG_F_CLOSE_IMMEDIATELY
    todo,                \* the connections this pass over the list has still to visit
    can_read,            \* fd_flags: connections that select() found readable
    can_write,           \* and writable
    \* main()
    cancel,
    pc,                  \* "loop", "handle" in mg_mgr_poll(), "free" in mg_mgr_free(), "exited"
    last,                \* this poll is the one in mg_mgr_free()
    streams,             \* the map: files and chunks of every stream
    answers              \* all the answers of the handlers so far

clients    == <<asked, due, to_server, received, peer>>
connection == <<conn, active_connections, recv_mbuf, send_mbuf, flags>>
poll       == <<todo, can_read, can_write, last>>
vars       == <<clients, connection, poll, cancel, pc, streams, answers>>

Init ==
    /\ asked = [c \in Clients |-> <<>>] /\ due = {}
    /\ to_server = asked /\ received = asked /\ answers = asked
    /\ peer = [c \in Clients |-> "there"]
    /\ conn = [c \in Clients |-> "none"] /\ active_connections = <<>>
    /\ recv_mbuf = asked /\ send_mbuf = asked /\ flags = [c \in Clients |-> {}]
    /\ todo = {} /\ can_read = {} /\ can_write = {} /\ last = FALSE
    /\ cancel = FALSE /\ pc = "loop"
    /\ streams = <<>>

-----------------------------------------------------------------------------
(***************************************************************************)
(* The clients.                                                            *)
(***************************************************************************)

Unit(k, part) == [no |-> k, part |-> part]

Ask(c) ==
    /\ conn[c] # "closed" /\ pc # "exited"
    /\ peer[c] = "there" /\ c \notin due
    /\ c \in Polite => Len(received[c]) = Len(asked[c])
    /\ \E script \in {s \in Scripts[c] : Len(s) > Len(asked[c]) /\ IsPrefix(asked[c], s)} :
          LET r == script[Len(asked[c]) + 1]
          IN  /\ asked' = [asked EXCEPT ![c] = Append(@, r)]
              /\ due' = IF r.body = "none" THEN due ELSE due \cup {c}
    /\ to_server' = [to_server EXCEPT ![c] = Append(@, Unit(Len(asked[c]) + 1, "head"))]
    /\ conn' = [conn EXCEPT ![c] = IF @ = "none" THEN "queued" ELSE @]
    /\ UNCHANGED <<received, peer, active_connections, recv_mbuf, send_mbuf, flags,
                   poll, cancel, pc, streams, answers>>

SendBody(c) ==
    /\ conn[c] # "closed" /\ pc # "exited"
    /\ peer[c] = "there" /\ c \in due
    /\ due' = due \ {c}
    /\ to_server' = [to_server EXCEPT ![c] = Append(@, Unit(Len(asked[c]), "body"))]
    /\ UNCHANGED <<asked, received, peer, connection, poll, cancel, pc, streams, answers>>

\* The client closes its connection, or only its own direction of it.
HangUp(c) ==
    /\ conn[c] \in {"queued", "active"} /\ pc # "exited"
    /\ \/ peer[c] # "gone" /\ peer' = [peer EXCEPT ![c] = "gone"]
       \/ peer[c] = "there" /\ peer' = [peer EXCEPT ![c] = "half"]
    /\ UNCHANGED <<asked, due, to_server, received, connection, poll, cancel, pc,
                   streams, answers>>

-----------------------------------------------------------------------------
(***************************************************************************)
(* The handlers: the answers they can give to a request with a given body, *)
(* each with what becomes of the streams.                                  *)
(***************************************************************************)

Answer(code, id, chunk) == [code |-> code, id |-> id, chunk |-> chunk]
Plain(code) == Answer(code, NoId, 0)
Outcome(answer, new) == [answer |-> answer, streams |-> new]

NewStream == [files |-> 0, chunks |-> 0]

IndexOutcomes == {Outcome(Plain(200), streams)}

\* What-if: the new stream replaces the one that has the identifier.
CreateReplaces ==
    {Outcome(Answer(200, id, 0),
             [i \in DOMAIN streams \cup {id} |-> IF i = id THEN NewStream ELSE streams[i]]) :
        id \in Ids}

\* emplace() leaves an entry that exists alone.
Emplaced(id) ==
    [i \in DOMAIN streams \cup {id} |-> IF i \in DOMAIN streams THEN streams[i] ELSE NewStream]

CreateOutcomes == {Outcome(Answer(200, id, 0), Emplaced(id)) : id \in Ids}

NotFound == Outcome(Plain(404), streams)

\* What-if: what can be made of the body is taken for the request.
AppendLenient(id, body) ==
    {CASE id \notin DOMAIN streams -> NotFound
       [] id \in DOMAIN streams /\ body \in {"none", "no file"} -> Outcome(Plain(400), streams)
       [] id \in DOMAIN streams /\ body \in {"file", "no JSON"} ->
              Outcome(Plain(200), [streams EXCEPT ![id].files = @ + 1])}

\* A body that is not JSON makes json::parse() throw.
AppendOutcomes(id, body) ==
    {CASE id \notin DOMAIN streams -> NotFound
       [] id \in DOMAIN streams /\ body \in {"none", "no JSON"} -> Outcome(Plain(500), streams)
       [] id \in DOMAIN streams /\ body = "no file" -> Outcome(Plain(400), streams)
       [] id \in DOMAIN streams /\ body = "file" ->
              Outcome(Plain(200), [streams EXCEPT ![id].files = @ + 1])}

\* An exception that leaves Stream::advance() costs the client this answer.  The
\* 500 stands for all that goes out then: the answer of event_handler() follows
\* the header of the 200 (see HeaderSentOnce in module Response).
AdvanceOutcomes(id) ==
    IF id \in DOMAIN streams
      THEN {Outcome(Answer(200, NoId, streams[id].chunks + 1),
                    [streams EXCEPT ![id].chunks = @ + 1]),
            Outcome(Plain(500), streams)}
      ELSE {NotFound}

DestroyOutcomes(id) ==
    {IF id \in DOMAIN streams
       THEN Outcome(Plain(200), [i \in DOMAIN streams \ {id} |-> streams[i]])
       ELSE NotFound}

\* event_handler(): the first entry of the request map that matches.
Outcomes(r, body) ==
    CASE r.route = "index"   -> IndexOutcomes
      [] r.route = "create"  -> CreateOutcomes
      [] r.route = "append"  -> AppendOutcomes(r.id, body)
      [] r.route = "advance" -> AdvanceOutcomes(r.id)
      [] r.route = "destroy" -> DestroyOutcomes(r.id)
      [] r.route = "none"    -> {NotFound}

-----------------------------------------------------------------------------
(***************************************************************************)
(* The connections.                                                        *)
(***************************************************************************)

Request(c, io) == asked[c][Head(io).no]

\* What-if: only the head is counted.
MessageLenHead(r) == 1

\* How much of a buffer the request at its front takes up.
MessageLen(r) == IF r.body = "none" THEN 1 ELSE 2

\* What-if: the request has to be followed by something.
CompleteIfFollowed(c, io) == LET r == Request(c, io) IN r.sized /\ MessageLen(r) < Len(io)

\* hm->message.len <= io->len
Complete(c, io) == LET r == Request(c, io) IN r.sized /\ MessageLen(r) <= Len(io)

\* What-if: the request that has been handled is not removed.
RestWhole(c, io) == io

\* mbuf_remove(io, hm->message.len)
Rest(c, io) == SubSeq(io, MessageLen(Request(c, io)) + 1, Len(io))

\* MG_EV_RECV with the buffer io: one request is handled, if there is a complete
\* one, and others stay in the buffer until something else is received.
HttpReceive(c, io) ==
    IF Request(c, io).route = "garbage"
      THEN /\ flags' = [flags EXCEPT ![c] = @ \cup {"CLOSE_IMMEDIATELY"}]
           /\ recv_mbuf' = [recv_mbuf EXCEPT ![c] = io]
           /\ UNCHANGED <<send_mbuf, streams, answers>>
      ELSE /\ IF Complete(c, io)
                THEN \E o \in Outcomes(Request(c, io), Request(c, io).body) :
                        /\ streams' = o.streams
                        /\ answers' = [answers EXCEPT ![c] = Append(@, o.answer)]
                        /\ send_mbuf' = [send_mbuf EXCEPT ![c] = Append(@, o.answer)]
                        /\ recv_mbuf' = [recv_mbuf EXCEPT ![c] = Rest(c, io)]
                ELSE /\ recv_mbuf' = [recv_mbuf EXCEPT ![c] = io]
                     /\ UNCHANGED <<send_mbuf, streams, answers>>
           /\ UNCHANGED flags

\* What the request at the front has for a body when all that follows is it.
BodyAtClose(c, io) ==
    LET r == Request(c, io)
    IN  IF Len(io) = MessageLen(r) THEN r.body
        ELSE IF Len(io) = 1 THEN "none" ELSE "no JSON"

\* MG_EV_CLOSE: what is in the buffer is handled as a request if its head is
\* there; the answer goes nowhere.
HttpClose(c) ==
    LET io == recv_mbuf[c]
    IN  IF io # <<>> /\ Request(c, io).route # "garbage"
          THEN \E o \in Outcomes(Request(c, io), BodyAtClose(c, io)) :
                  /\ streams' = o.streams
                  /\ answers' = [answers EXCEPT ![c] = Append(@, o.answer)]
          ELSE UNCHANGED <<streams, answers>>

\* mg_close_conn(), of the connection at place i of the list.
CloseConn(i) ==
    LET c == active_connections[i]
    IN  /\ active_connections' = RemoveAt(active_connections, i)
        /\ conn' = [conn EXCEPT ![c] = "closed"]
        /\ HttpClose(c)
        /\ recv_mbuf' = [recv_mbuf EXCEPT ![c] = <<>>]
        /\ send_mbuf' = [send_mbuf EXCEPT ![c] = <<>>]
        /\ UNCHANGED flags

-----------------------------------------------------------------------------
(***************************************************************************)
(* mg_mgr_poll(): one pass over the connections, then another that closes. *)
(***************************************************************************)

Readable(c) == to_server[c] # <<>> \/ peer[c] # "there"

Queued == {c \in Clients : conn[c] = "queued"}
Active == {c \in Clients : conn[c] = "active"}

\* What-if: select() waits without a limit also when SIGINT has come before it.
ReturnsWhenReady(ready) == Queued # {} \/ ready # {}

\* select() returns when there is something to do, or after a second, which
\* matters when SIGINT has come in between; the poll in mg_mgr_free() does not
\* wait at all.
Returns(ready) == cancel \/ Queued # {} \/ ready # {}

\* Only a client that does not read can keep its socket from being writable.
\* The pass visits the connections for which there is something to do; for the
\* others it calls the handlers with MG_EV_POLL, which they ignore.
Select ==
    /\ pc = "loop"
    /\ \E full \in SUBSET {c \in Active : c \notin Polite /\ peer[c] # "gone"} :
          /\ can_read' = {c \in Active : Readable(c)}
          /\ can_write' = {c \in Active \ full : send_mbuf[c] # <<>>}
          /\ Returns(can_read' \cup can_write')
          /\ todo' = can_read' \cup can_write' \cup (IF Queued = {} THEN {} ELSE {Listener})
    /\ last' = cancel
    /\ pc' = "handle"
    /\ UNCHANGED <<clients, connection, cancel, streams, answers>>

\* The pass goes through the list from its front; the listener is the last.
Visit(c) ==
    /\ pc = "handle"
    /\ c \in todo
    /\ \/ c = Listener /\ todo = {Listener}
       \/ \E i \in 1..Len(active_connections) :
              /\ active_connections[i] = c
              /\ \A j \in 1..(i - 1) : active_connections[j] \notin todo

\* mg_accept_conn(): one at a time, at the front of the list.
Accept ==
    /\ Visit(Listener)
    /\ todo' = {}
    /\ \E c \in Queued :
           /\ conn' = [conn EXCEPT ![c] = "active"]
           /\ active_connections' = <<c>> \o active_connections
    /\ UNCHANGED <<clients, recv_mbuf, send_mbuf, flags, can_read, can_write, last, cancel,
                   pc, streams, answers>>

\* A connection that has been read from is written to in the same visit.
ReadDone(c) ==
    /\ Visit(c)
    /\ c \in can_read
    /\ can_read' = can_read \ {c}
    /\ todo' = IF c \in can_write /\ "CLOSE_IMMEDIATELY" \notin flags'[c]
                 THEN todo ELSE todo \ {c}

\* mg_handle_tcp_read() with data.
ReadData(c) ==
    /\ \E n \in 1..Len(to_server[c]) :
           /\ to_server' = [to_server EXCEPT ![c] = SubSeq(@, n + 1, Len(@))]
           /\ HttpReceive(c, recv_mbuf[c] \o SubSeq(to_server[c], 1, n))
    /\ ReadDone(c)
    /\ UNCHANGED <<asked, due, received, peer, conn, active_connections, can_write, last,
                   cancel, pc>>

\* mg_handle_tcp_read() without: the end of what the client sends, or an error.
ReadEnd(c) ==
    /\ \/ /\ to_server[c] = <<>>
          /\ flags' = [flags EXCEPT ![c] = @ \cup {"SEND_AND_CLOSE"}]
       \/ /\ peer[c] = "gone"
          /\ flags' = [flags EXCEPT ![c] = @ \cup {"CLOSE_IMMEDIATELY"}]
    /\ ReadDone(c)
    /\ UNCHANGED <<clients, conn, active_connections, recv_mbuf, send_mbuf, can_write, last,
                   cancel, pc, streams, answers>>

\* mg_write_to_socket(): as much as the socket takes.  Nobody receives what is
\* written to a client that is gone.
WriteData(c) ==
    /\ Visit(c)
    /\ c \notin can_read
    /\ \E n \in 1..Len(send_mbuf[c]) :
           /\ send_mbuf' = [send_mbuf EXCEPT ![c] = SubSeq(@, n + 1, Len(@))]
           /\ received' = IF peer[c] = "gone"
                            THEN received
                            ELSE [received EXCEPT ![c] = @ \o SubSeq(send_mbuf[c], 1, n)]
    /\ todo' = todo \ {c}
    /\ UNCHANGED <<asked, due, to_server, peer, conn, active_connections, recv_mbuf, flags,
                   can_read, can_write, last, cancel, pc, streams, answers>>

\* ... or an error.
WriteFails(c) ==
    /\ Visit(c)
    /\ c \notin can_read
    /\ peer[c] = "gone"
    /\ flags' = [flags EXCEPT ![c] = @ \cup {"CLOSE_IMMEDIATELY"}]
    /\ todo' = todo \ {c}
    /\ UNCHANGED <<clients, conn, active_connections, recv_mbuf, send_mbuf, can_read, can_write,
                   last, cancel, pc, streams, answers>>

\* What-if: what is left to be sent is waited for in any case.
ToBeClosedWhenSent(c) == flags[c] # {} /\ send_mbuf[c] = <<>>

ToBeClosed(c) ==
    \/ "CLOSE_IMMEDIATELY" \in flags[c]
    \/ "SEND_AND_CLOSE" \in flags[c] /\ send_mbuf[c] = <<>>

\* The places in the list of the connections to be closed.
Closing == {i \in 1..Len(active_connections) : ToBeClosed(active_connections[i])}

\* The second pass over the list.
Sweep ==
    /\ pc = "handle"
    /\ todo = {}
    /\ \E i \in Closing : (\A j \in Closing : i <= j) /\ CloseConn(i)
    /\ UNCHANGED <<clients, poll, cancel, pc>>

\* What-if: the streams are destroyed before the server.
EndPollStreamsFirst ==
    /\ pc = "handle"
    /\ todo = {}
    /\ Closing = {}
    /\ IF last
         THEN pc' = "free" /\ streams' = <<>>
         ELSE pc' = "loop" /\ UNCHANGED streams
    /\ can_write' = {}
    /\ UNCHANGED <<clients, connection, todo, can_read, last, cancel, answers>>

EndPoll ==
    /\ pc = "handle"
    /\ todo = {}
    /\ Closing = {}
    /\ pc' = IF last THEN "free" ELSE "loop"
    /\ can_write' = {}
    /\ UNCHANGED <<clients, connection, todo, can_read, last, cancel, streams, answers>>

-----------------------------------------------------------------------------
(***************************************************************************)
(* SIGINT, and the end of main().                                          *)
(***************************************************************************)

\* The process has ended, and what the system kept for it is gone.
Exit ==
    /\ pc' = "exited"
    /\ streams' = <<>>
    /\ conn' = [c \in Clients |-> "closed"] /\ active_connections' = <<>>
    /\ to_server' = [c \in Clients |-> <<>>]
    /\ recv_mbuf' = to_server' /\ send_mbuf' = to_server' /\ flags' = [c \in Clients |-> {}]
    /\ todo' = {} /\ can_read' = {} /\ can_write' = {}
    /\ UNCHANGED <<asked, due, received, peer, last, cancel, answers>>

\* signal_handler(): the second signal calls exit(1).
Signal ==
    /\ pc # "exited"
    /\ \/ /\ ~cancel
          /\ cancel' = TRUE
          /\ UNCHANGED <<clients, connection, poll, pc, streams, answers>>
       \/ cancel /\ Exit

\* The server is destroyed first: mg_mgr_free() closes every connection.
FreeConn ==
    /\ pc = "free"
    /\ active_connections # <<>>
    /\ CloseConn(1)
    /\ UNCHANGED <<clients, poll, cancel, pc>>

\* Then the streams are.
DestroyStreams ==
    /\ pc = "free"
    /\ active_connections = <<>>
    /\ Exit

Server ==
    \/ Select \/ Accept \/ Sweep \/ EndPoll \/ FreeConn \/ DestroyStreams
    \/ \E c \in Clients :
           ReadData(c) \/ ReadEnd(c) \/ WriteData(c) \/ WriteFails(c)

Client == \E c \in Clients : Ask(c) \/ SendBody(c) \/ HangUp(c)

Next == Server \/ Client \/ Signal

\* The loop goes on as long as it has something to do.
Spec == Init /\ [][Next]_vars /\ WF_vars(Server)

-----------------------------------------------------------------------------
(***************************************************************************)
(* Properties.                                                             *)
(***************************************************************************)

AnswerRecord == [code : {200, 400, 404, 500}, id : Ids \cup {NoId}, chunk : Nat]
UnitRecord   == [no : Nat \ {0}, part : {"head", "body"}]

\* The list holds the connections that have been accepted and not been closed,
\* and whatever is left in a receive buffer begins with a head.
TypeOK ==
    /\ asked \in [Clients -> Seq(RequestRecord)]
    /\ due \subseteq Clients
    /\ to_server \in [Clients -> Seq(UnitRecord)] /\ recv_mbuf \in [Clients -> Seq(UnitRecord)]
    /\ \A c \in Clients : recv_mbuf[c] # <<>> => Head(recv_mbuf[c]).part = "head"
    /\ received \in [Clients -> Seq(AnswerRecord)] /\ send_mbuf \in [Clients -> Seq(AnswerRecord)]
    /\ answers \in [Clients -> Seq(AnswerRecord)]
    /\ peer \in [Clients -> {"there", "half", "gone"}]
    /\ conn \in [Clients -> {"none", "queued", "active", "closed"}]
    /\ active_connections \in Seq({c \in Clients : conn[c] = "active"})
    /\ Len(active_connections) = Cardinality({c \in Clients : conn[c] = "active"})
    /\ flags \in [Clients -> SUBSET {"SEND_AND_CLOSE", "CLOSE_IMMEDIATELY"}]
    /\ todo \subseteq Clients \cup {Listener}
    /\ can_read \subseteq Clients /\ can_write \subseteq Clients
    /\ cancel \in BOOLEAN /\ last \in BOOLEAN
    /\ pc \in {"loop", "handle", "free", "exited"}
    /\ DOMAIN streams \subseteq Ids
    /\ streams \in [DOMAIN streams -> [files : Nat, chunks : Nat]]

S == INSTANCE Service WITH Requests <- UNION {UNION {Range(s) : s \in Scripts[c]} : c \in Clients},
                           over <- [c \in Clients |-> conn[c] = "closed"],
                           up <- pc # "exited"

\* Whatever arrives in which portions, and whenever a connection or the server
\* ends: requests take effect in the order in which they were sent, none twice
\* and none in part; answers belong to them and come in the same order, with
\* none missing; nothing is done after the streams have been destroyed; and a
\* request of one client changes no stream but the one it names.
Served == S!Spec

\* A request that has been sent completely is answered, as long as the client
\* listens, whatever the other clients do; a client that does not wait for its
\* answers has no such promise, since of two requests that arrive together the
\* second stays in the buffer.
Proper(r) == r.sized /\ r.route # "garbage"

Answered ==
    \A c \in Polite :
        (Len(received[c]) < Len(asked[c]) /\ c \notin due /\ Proper(asked[c][Len(asked[c])]))
            ~> (Len(received[c]) = Len(asked[c]) \/ peer[c] = "gone" \/ pc = "exited")

\* A connection whose client is gone is closed, with answers still to be sent
\* as well as in the middle of a request.
HangUpIsNoticed ==
    \A c \in Clients :
        (conn[c] # "none" /\ peer[c] = "gone") ~> (conn[c] = "closed" \/ pc = "exited")

\* SIGINT ends the program wherever it arrives.
SigintStops == cancel ~> (pc = "exited")
=============================================================================

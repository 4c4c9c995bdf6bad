-------------------------------- MODULE Service --------------------------------
(***************************************************************************)
(* What http_audio_server promises its clients: the requests of a client   *)
(* are served one after the other in the order in which it asked, each at  *)
(* most once and as a whole, and their answers reach it in this order.     *)
(* Only when a connection ends may an answer get lost, and the request     *)
(* that is served then may be refused without any effect.                  *)
(***************************************************************************)
EXTENDS Integers, Sequences

CONSTANTS
    Clients,   \* those who send requests, each over one connection
    Ids,       \* stream identifiers
    Requests,  \* what they may ask for
    NoId       \* in an answer that gives no identifier

VARIABLES
    asked,     \* the requests of every client
    answers,   \* the answers to them, in the same order
    received,  \* the answers that have reached the client
    over,      \* the connection has ended
    streams,   \* the streams: how many files were appended, how many chunks taken
    up         \* the server runs

vars == <<asked, answers, received, over, streams, up>>

Init ==
    /\ asked = [c \in Clients |-> <<>>]
    /\ answers = asked /\ received = asked
    /\ over = [c \in Clients |-> FALSE]
    /\ streams = <<>>
    /\ up = TRUE

Ask(c) ==
    /\ \E r \in Requests : asked' = [asked EXCEPT ![c] = Append(@, r)]
    /\ UNCHANGED <<answers, received, over, streams, up>>

Answer(code, id, chunk) == [code |-> code, id |-> id, chunk |-> chunk]
Plain(code) == Answer(code, NoId, 0)

NewStream == [files |-> 0, chunks |-> 0]

\* What may come of a request: the answer, and what becomes of the streams.  A
\* new stream is empty; an identifier in use stands for the stream that has it.
Outcomes(r) ==
    LET given == r.id \in DOMAIN streams
    IN  CASE r.route = "index"  -> {<<Plain(200), streams>>}
          [] r.route = "create" ->
                 {<<Answer(200, id, 0),
                    [i \in DOMAIN streams \cup {id} |->
                        IF i \in DOMAIN streams THEN streams[i] ELSE NewStream]>> : id \in Ids}
          [] r.route = "append" /\ given /\ r.body = "file" ->
                 {<<Plain(200), [streams EXCEPT ![r.id].files = @ + 1]>>}
          [] r.route = "append" /\ given /\ r.body = "no file" -> {<<Plain(400), streams>>}
          [] r.route = "append" /\ given /\ r.body \notin {"file", "no file"} ->
                 {<<Plain(500), streams>>}
          [] r.route = "advance" /\ given ->
                 {<<Answer(200, NoId, streams[r.id].chunks + 1),
                    [streams EXCEPT ![r.id].chunks = @ + 1]>>,
                  <<Plain(500), streams>>}
          [] r.route = "destroy" /\ given ->
                 {<<Plain(200), [id \in DOMAIN streams \ {r.id} |-> streams[id]]>>}
          [] OTHER -> {<<Plain(404), streams>>}

\* The next request of a client takes effect.
Serve(c) ==
    LET k == Len(answers[c]) + 1
    IN  /\ up
        /\ k <= Len(asked[c])
        /\ \E outcome \in Outcomes(asked[c][k]) :
               /\ answers' = [answers EXCEPT ![c] = Append(@, outcome[1])]
               /\ streams' = outcome[2]

ServeOpen(c) ==
    /\ ~over[c]
    /\ Serve(c)
    /\ UNCHANGED <<asked, received, over, up>>

Deliver(c) ==
    /\ ~over[c]
    /\ \E n \in Len(received[c])..Len(answers[c]) :
           received' = [received EXCEPT ![c] = SubSeq(answers[c], 1, n)]
    /\ UNCHANGED <<asked, answers, over, streams, up>>

\* The next request of a client is turned down.
Refuse(c) ==
    /\ up
    /\ Len(answers[c]) < Len(asked[c])
    /\ answers' = [answers EXCEPT ![c] = Append(@, Plain(500))]
    /\ UNCHANGED streams

\* The connection ends; its next request may still be served, or be refused.
End(c) ==
    /\ ~over[c]
    /\ over' = [over EXCEPT ![c] = TRUE]
    /\ Serve(c) \/ Refuse(c) \/ UNCHANGED <<answers, streams>>
    /\ UNCHANGED <<asked, received, up>>

\* The server goes, and with it the streams and the connections.
Stop ==
    /\ up' = FALSE
    /\ streams' = <<>>
    /\ over' = [c \in Clients |-> TRUE]
    /\ UNCHANGED <<asked, answers, received>>

Next ==
    \/ \E c \in Clients : Ask(c) \/ ServeOpen(c) \/ Deliver(c) \/ End(c)
    \/ Stop

Spec == Init /\ [][Next]_vars
=============================================================================

------------------------------- MODULE Decoder -------------------------------
(***************************************************************************)
(* DecoderImpl of http_audio_server/decoder.cpp: ffmpeg runs as a child,   *)
(* the thread of the server reads its standard output on demand, a second  *)
(* thread collects its standard error.  The hard part is the end: read()   *)
(* must tell the end of the file, and the destructor must get rid of a     *)
(* child that is busy, blocked on a full pipe, dead, or not even started.  *)
(***************************************************************************)
EXTENDS Process

CONSTANTS
    ReadSizes,  \* the sizes that callers pass to read()
    DrainSize   \* the 4096 bytes that wait() reads at a time

ASSUME DecoderAssumption ==
    /\ ReadSizes \subseteq Nat \ {0}
    /\ DrainSize \in Nat \ {0}
    /\ Collected = {"stderr"}

VARIABLES
    pc,        \* what the server's thread does in the decoder
    caller,    \* the operation it is in: "read", "wait" or "destroy"
    good,      \* is.good()
    n_bytes,   \* the argument of read()
    got,       \* bytes read by this call of read()
    waited,    \* a caller has used wait(), which the server does not
    reads,     \* size and result of the last read() of a caller
    signalled  \* whom kill() was last sent to: "none", "child" or "group"

server == <<pc, caller, good, n_bytes, got, waited, reads, signalled>>
vars   == <<kernel, handle, threads, server>>

Init ==
    /\ InitProcess
    /\ pc = "idle" /\ caller = "none"
    /\ good = TRUE
    /\ n_bytes = 0 /\ got = 0
    /\ waited = FALSE
    /\ reads = [asked |-> 0, got |-> 0]
    /\ signalled = "none"

-----------------------------------------------------------------------------

Read(n) ==
    /\ pc = "idle"
    /\ pc' = "read" /\ caller' = "read"
    /\ n_bytes' = n /\ got' = 0
    /\ UNCHANGED <<kernel, handle, threads, good, waited, reads, signalled>>

\* m_process.signal(2): with the process id 0 kill() reaches the process group
\* of the server.
Signal ==
    IF m_pid = "child"
      THEN Interrupt /\ signalled' = "child"
      ELSE signalled' = "group" /\ UNCHANGED kernel

\* What-if: the rest of the output is not read before the child is waited for.
WaitUndrained(operation) ==
    /\ pc = "idle"
    /\ Signal
    /\ pc' = "waitpid" /\ caller' = operation
    /\ n_bytes' = DrainSize /\ got' = 0
    /\ UNCHANGED <<handle, threads, good, waited, reads>>

\* wait(), called by the user or by the destructor: signal, then drain.
Wait(operation) ==
    /\ pc = "idle"
    /\ Signal
    /\ pc' = "read" /\ caller' = operation
    /\ n_bytes' = DrainSize /\ got' = 0
    /\ UNCHANGED <<handle, threads, good, waited, reads>>

\* is.read() blocks until it has something, all of it or the end of the file.
ReadSome ==
    /\ pc = "read"
    /\ good /\ got < n_bytes
    /\ LET room == n_bytes - got
           k    == IF pipe["stdout"] < room THEN pipe["stdout"] ELSE room
       IN  /\ k > 0
           /\ got' = got + k
           /\ pipe' = [pipe EXCEPT !["stdout"] = @ - k]
    /\ UNCHANGED <<child, plan, printed, interrupted, found, status, handle, threads,
                   pc, caller, good, n_bytes, waited, reads, signalled>>

\* What-if: an empty pipe is taken for the end of the file.
ReadEofWhenEmpty ==
    /\ pc = "read"
    /\ good /\ got < n_bytes
    /\ pipe["stdout"] = 0
    /\ good' = FALSE
    /\ UNCHANGED <<kernel, handle, threads, pc, caller, n_bytes, got, waited, reads, signalled>>

\* What-if: read() asks running() when it meets the end of the file.
ReadEofPolls ==
    /\ pc = "read"
    /\ good /\ got < n_bytes
    /\ Eof("stdout")
    /\ good' = FALSE
    /\ Reap \/ (m_pid = "none" /\ UNCHANGED <<kernel, handle>>)
    /\ UNCHANGED <<threads, pc, caller, n_bytes, got, waited, reads, signalled>>

ReadEof ==
    /\ pc = "read"
    /\ good /\ got < n_bytes
    /\ Eof("stdout")
    /\ good' = FALSE
    /\ UNCHANGED <<kernel, handle, threads, pc, caller, n_bytes, got, waited, reads, signalled>>

\* read() returns: to the caller, or to the loop of wait(), which goes on
\* until nothing comes any more.
ReadReturn ==
    /\ pc = "read"
    /\ ~good \/ got = n_bytes
    /\ \/ /\ caller = "read"
          /\ pc' = "idle"
          /\ reads' = [asked |-> n_bytes, got |-> got]
          /\ UNCHANGED got
       \/ /\ caller # "read" /\ got > 0
          /\ got' = 0
          /\ UNCHANGED <<pc, reads>>
       \/ /\ caller # "read" /\ got = 0
          /\ pc' = "waitpid"
          /\ UNCHANGED <<got, reads>>
    /\ UNCHANGED <<kernel, handle, threads, caller, good, n_bytes, waited, signalled>>

\* The blocking update_status() at the end of wait().
WaitReturn ==
    /\ pc = "waitpid"
    /\ \/ Reap \/ AlreadyReaped
       \/ WaitThrows /\ UNCHANGED <<kernel, handle>>
    /\ pc' = CASE WaitThrows         -> "terminated"
               [] caller = "wait"    -> "idle"
               [] caller = "destroy" -> "join"
    /\ waited' = (waited \/ caller = "wait")
    /\ UNCHANGED <<threads, caller, good, n_bytes, got, reads, signalled>>

\* ~DecoderImpl joins the collecting thread, then ~ProcessImpl waits again.
Join ==
    /\ pc = "join"
    /\ collecting = {}
    /\ pc' = IF WaitThrows THEN "terminated" ELSE "gone"
    /\ UNCHANGED <<kernel, handle, threads, caller, good, n_bytes, got, waited, reads, signalled>>

Call == (\E n \in ReadSizes : Read(n)) \/ Wait("destroy") \/ Wait("wait")
ServerStep == ReadSome \/ ReadEof \/ ReadReturn \/ WaitReturn \/ Join
Gone == pc = "gone" /\ UNCHANGED vars

Next ==
    \/ Call
    \/ ServerStep
    \/ ChildStep /\ UNCHANGED server
    \/ CollectStep /\ UNCHANGED server
    \/ Gone

\* Every thread and the child are scheduled; nobody need call anything.
Spec ==
    /\ Init /\ [][Next]_vars
    /\ WF_vars(ServerStep)
    /\ WF_vars(ChildStep /\ UNCHANGED server)
    /\ WF_vars(CollectStep /\ UNCHANGED server)

-----------------------------------------------------------------------------
(***************************************************************************)
(* Properties.                                                             *)
(***************************************************************************)

TypeOK ==
    /\ ProcessType
    /\ pc \in {"idle", "read", "waitpid", "join", "gone", "terminated"}
    /\ caller \in {"none", "read", "wait", "destroy"}
    /\ good \in BOOLEAN
    /\ n_bytes \in Nat /\ got \in 0..n_bytes
    /\ waited \in BOOLEAN
    /\ reads \in [asked : Nat, got : Nat]
    /\ signalled \in {"none", "child", "group"}

\* read() returns less than it was asked for only when the child is gone and
\* all that it printed has been read, never because the child is slow.  Stream
\* takes a short read for the end of the file.
ShortReadMeansEof ==
    reads.got < reads.asked => Ended /\ pipe["stdout"] = 0

\* A decoder that is gone leaves no zombie and no blocked thread behind, and
\* its messages are complete.
NothingLeft ==
    pc = "gone" => /\ child = "reaped" /\ pipe["stdout"] = 0
                   /\ collected["stderr"] = printed["stderr"]

\* The three calls of waitpid() on the way out never wait for a child that has
\* been waited for: an exception in a destructor would end the server.
StaysAlive == pc # "terminated"

\* As long as nobody uses wait(), and the server does not, kill() only ever
\* gets the id of a child that has not been waited for.
SignalsReachTheChild == signalled = "group" => waited

\* kill() is never called with the process id 0, which would send the SIGINT
\* to the server and its children: signal() is said to report that the child no
\* longer exists.
OnlyTheChildIsSignalled == signalled # "group"

\* The destructor returns, whatever state the child is in: a child that is
\* blocked on a full pipe does not notice the SIGINT before the drain.
Teardown == (caller = "destroy") ~> (pc = "gone")

=============================================================================

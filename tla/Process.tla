------------------------------- MODULE Process -------------------------------
(***************************************************************************)
(* A child process of http_audio_server/process.cpp with its pipes, the    *)
(* operations of ProcessImpl on it, and the threads running generic_pipe,  *)
(* which collect what it prints.  Modules Decoder and ProcessExec add the  *)
(* threads that use them.                                                  *)
(*                                                                         *)
(* Bytes are only counted: a pipe delivers them in order.  The child is    *)
(* any program that prints a finite amount in any order, blocks while a    *)
(* pipe is full, and ends by itself, or earlier after a SIGINT.            *)
(***************************************************************************)
EXTENDS Integers

CONSTANTS
    PipeSize,   \* bytes a pipe holds
    MaxOutput,  \* bound: bytes a child prints on one descriptor
    LineSize,   \* BUF_SIZE of generic_pipe
    Collected   \* the descriptors that a thread running generic_pipe reads

ASSUME ProcessAssumption ==
    /\ PipeSize \in Nat \ {0}
    /\ MaxOutput \in Nat
    /\ LineSize \in Nat \ {0}
    /\ Collected \subseteq {"stdout", "stderr"}

Outputs == {"stdout", "stderr"}

VARIABLES
    child,        \* what the child is doing: see ChildStates
    plan,         \* bytes it will print on each descriptor
    printed,      \* bytes it has printed
    interrupted,  \* it has noticed a SIGINT
    found,        \* execvp() has found the command
    status,       \* what waitpid() will report of its end
    pipe,         \* bytes in the pipes
    m_pid,        \* "child", or "none" (0) when its end is known
    m_exitcode,
    buffered,     \* generic_pipe: buf_ptr
    collected,    \* generic_pipe: bytes written to the output stream
    collecting    \* the threads that have not left generic_pipe

kernel  == <<child, plan, printed, interrupted, found, status, pipe>>
handle  == <<m_pid, m_exitcode>>
threads == <<buffered, collected, collecting>>

\* "forked": before execvp(), with the handlers of the server; "starting":
\* before ffmpeg has installed its own; "writing ...": inside of write().
ChildStates == {"forked", "starting", "running", "writing stdout", "writing stderr",
                "exited", "reaped"}

Ended == child \in {"exited", "reaped"}

NoStatus    == -1
Killed      == -2  \* -WTERMSIG(status) of SIGINT
ExitSuccess == 0
ExitFailure == 1

\* What-if: the parent keeps its copies of the write ends open.
EofKeptOpen(fd) == FALSE

\* The parent has closed its copies of the write ends, the child was the last
\* writer.
Eof(fd) == pipe[fd] = 0 /\ Ended

InitProcess ==
    /\ child = "forked"
    /\ plan \in [Outputs -> 0..MaxOutput]
    /\ printed = [fd \in Outputs |-> 0]
    /\ interrupted = FALSE
    /\ found = TRUE
    /\ status = NoStatus
    /\ pipe = [fd \in Outputs |-> 0]
    /\ m_pid = "child" /\ m_exitcode = 0
    /\ buffered = [fd \in Collected |-> 0]
    /\ collected = [fd \in Collected |-> 0]
    /\ collecting = Collected

-----------------------------------------------------------------------------
(***************************************************************************)
(* The child.                                                              *)
(***************************************************************************)

\* execvp() succeeds, or the child says that the command was not found.
Execvp ==
    /\ child = "forked"
    /\ \/ child' = "starting" /\ UNCHANGED <<plan, found>>
       \/ /\ child' = "writing stderr" /\ plan' = [stdout |-> 0, stderr |-> 1]
          /\ found' = FALSE
    /\ UNCHANGED <<printed, interrupted, status, pipe>>

Started ==
    /\ child = "starting"
    /\ child' = "running"
    /\ UNCHANGED <<plan, printed, interrupted, found, status, pipe>>

WritingTo(fd) == IF fd = "stdout" THEN "writing stdout" ELSE "writing stderr"

BeginWrite(fd) ==
    /\ child = "running"
    /\ printed[fd] < plan[fd]
    /\ child' = WritingTo(fd)
    /\ UNCHANGED <<plan, printed, interrupted, found, status, pipe>>

\* write() blocks while the pipe is full, also when a signal arrives.
Write(fd) ==
    /\ child = WritingTo(fd)
    /\ pipe[fd] < PipeSize
    /\ child' = "running"
    /\ printed' = [printed EXCEPT ![fd] = @ + 1]
    /\ pipe' = [pipe EXCEPT ![fd] = @ + 1]
    /\ UNCHANGED <<plan, interrupted, found, status>>

Exit ==
    /\ child = "running"
    /\ interrupted \/ printed = plan
    /\ child' = "exited"
    /\ status' \in IF found THEN {ExitSuccess, ExitFailure} ELSE {ExitFailure}
    /\ UNCHANGED <<plan, printed, interrupted, found, pipe>>

ChildStep ==
    /\ Execvp \/ Started \/ Exit \/ \E fd \in Outputs : BeginWrite(fd) \/ Write(fd)
    /\ UNCHANGED <<handle, threads>>

-----------------------------------------------------------------------------
(***************************************************************************)
(* The operations of ProcessImpl.                                          *)
(***************************************************************************)

\* What-if: the process id is only cleared after a normal exit.
ReapKilledStays ==
    /\ m_pid = "child" /\ child = "exited"
    /\ child' = "reaped"
    /\ m_pid' = IF status = Killed THEN "child" ELSE "none"
    /\ m_exitcode' = status
    /\ UNCHANGED <<plan, printed, interrupted, found, status, pipe>>

\* waitpid() in update_status() returns: the exit code or, negative, the signal.
Reap ==
    /\ m_pid = "child" /\ child = "exited"
    /\ child' = "reaped"
    /\ m_pid' = "none"
    /\ m_exitcode' = status
    /\ UNCHANGED <<plan, printed, interrupted, found, status, pipe>>

\* update_status() knows already that there is no child.
AlreadyReaped == m_pid = "none" /\ UNCHANGED <<kernel, handle>>

\* waitpid() fails for a child that has been waited for: update_status()
\* throws, out of a destructor.
WaitThrows == m_pid = "child" /\ child = "reaped"

\* The child still has the handler of the server.
ServerHandler == child = "forked" \/ ~found

\* What kill(m_pid, SIGINT) does to the child.  The handler of the server lets
\* the first SIGINT pass, which sets cancel, and exits at the next; the child
\* has cancel as it was in the server when it was forked.
Interrupt ==
    /\ m_pid = "child"
    /\ \/ (Ended \/ ServerHandler) /\ UNCHANGED <<child, interrupted, status>>
       \/ /\ ~Ended /\ ServerHandler
          /\ child' = "exited" /\ status' = ExitFailure /\ UNCHANGED interrupted
       \/ /\ child = "starting"
          /\ child' = "exited" /\ status' = Killed /\ UNCHANGED interrupted
       \/ /\ child \in {"running", "writing stdout", "writing stderr"} /\ ~ServerHandler
          /\ interrupted' = TRUE /\ UNCHANGED <<child, status>>
    /\ UNCHANGED <<plan, printed, found, pipe>>

-----------------------------------------------------------------------------
(***************************************************************************)
(* A thread running generic_pipe.                                          *)
(***************************************************************************)

\* What-if: the buffer is passed on one byte too late.
CollectLate(fd) ==
    /\ fd \in collecting
    /\ pipe[fd] > 0
    /\ pipe' = [pipe EXCEPT ![fd] = @ - 1]
    /\ \/ /\ buffered[fd] < LineSize
          /\ buffered' = [buffered EXCEPT ![fd] = @ + 1]
          /\ UNCHANGED collected
       \/ /\ collected' = [collected EXCEPT ![fd] = @ + buffered[fd] + 1]
          /\ buffered' = [buffered EXCEPT ![fd] = 0]
    /\ UNCHANGED <<child, plan, printed, interrupted, found, status, handle, collecting>>

\* A byte is read; a full buffer or the end of a line is passed on.
Collect(fd) ==
    /\ fd \in collecting
    /\ pipe[fd] > 0
    /\ pipe' = [pipe EXCEPT ![fd] = @ - 1]
    /\ \/ /\ buffered[fd] + 1 < LineSize
          /\ buffered' = [buffered EXCEPT ![fd] = @ + 1]
          /\ UNCHANGED collected
       \/ /\ collected' = [collected EXCEPT ![fd] = @ + buffered[fd] + 1]
          /\ buffered' = [buffered EXCEPT ![fd] = 0]
    /\ UNCHANGED <<child, plan, printed, interrupted, found, status, handle, collecting>>

\* What-if: a last line without a line break is not passed on.
CollectEndDropsRest(fd) ==
    /\ fd \in collecting
    /\ Eof(fd)
    /\ collecting' = collecting \ {fd}
    /\ UNCHANGED <<kernel, handle, buffered, collected>>

CollectEnd(fd) ==
    /\ fd \in collecting
    /\ Eof(fd)
    /\ collected' = [collected EXCEPT ![fd] = @ + buffered[fd]]
    /\ buffered' = [buffered EXCEPT ![fd] = 0]
    /\ collecting' = collecting \ {fd}
    /\ UNCHANGED <<kernel, handle>>

CollectStep == \E fd \in Collected : Collect(fd) \/ CollectEnd(fd)

ProcessType ==
    /\ child \in ChildStates
    /\ plan \in [Outputs -> Nat] /\ printed \in [Outputs -> Nat]
    /\ interrupted \in BOOLEAN /\ found \in BOOLEAN
    /\ status \in {NoStatus, Killed, ExitSuccess, ExitFailure}
    /\ pipe \in [Outputs -> 0..PipeSize]
    /\ m_pid \in {"child", "none"} /\ m_exitcode \in Int
    /\ buffered \in [Collected -> 0..(LineSize - 1)]
    /\ collected \in [Collected -> Nat]
    /\ collecting \subseteq Collected
=============================================================================

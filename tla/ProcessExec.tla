----------------------------- MODULE ProcessExec -----------------------------
(***************************************************************************)
(* Process::exec of http_audio_server/process.cpp: the calling thread      *)
(* waits for the child while three threads write its standard input and    *)
(* collect its standard output and error.  Whichever pipe fills up first,  *)
(* nobody may wait for a thread that waits for him.                        *)
(*                                                                         *)
(* The child may print before it reads, while it reads and afterwards; one *)
(* that leaves early breaks the pipe of t1.  SIGPIPE is ignored, as it is  *)
(* once mg_mgr_init() has run; before that the server passes no input.     *)
(* Module Metadata adds a caller and states the specification.             *)
(***************************************************************************)
EXTENDS Process

CONSTANT MaxInput  \* bound: bytes of the argument cin

ASSUME ExecAssumption == MaxInput \in Nat /\ Collected = Outputs

VARIABLES
    pc,       \* what the calling thread does: "waitpid", "join" or "returned"
    res,      \* the exit code that exec() returns
    input,    \* bytes of cin that are not written yet
    stdin,    \* bytes in the pipe
    patient,  \* the child does not end before the end of its input
    writing   \* generic_writer has not closed the child's standard input yet

io   == <<input, stdin, patient, writing>>
vars == <<kernel, handle, threads, pc, res, io>>

InitExec ==
    /\ InitProcess
    /\ pc = "waitpid" /\ res = 0
    /\ input \in 0..MaxInput
    /\ stdin = 0
    /\ patient \in BOOLEAN
    /\ writing = TRUE

-----------------------------------------------------------------------------

\* t1, running generic_writer: write() blocks while the pipe is full, and
\* fails, which ends the loop, when the child is gone.
WriteInput ==
    /\ writing /\ input > 0
    /\ \/ /\ ~Ended /\ stdin < PipeSize
          /\ input' = input - 1
          /\ stdin' = stdin + 1
       \/ /\ Ended
          /\ input' = 0
          /\ UNCHANGED stdin
    /\ UNCHANGED <<kernel, handle, threads, pc, res, patient, writing>>

CloseInput ==
    /\ writing /\ input = 0
    /\ writing' = FALSE
    /\ UNCHANGED <<kernel, handle, threads, pc, res, input, stdin, patient>>

ReadInput ==
    /\ child = "running"
    /\ stdin > 0
    /\ stdin' = stdin - 1
    /\ UNCHANGED <<kernel, handle, threads, pc, res, input, patient, writing>>

Child ==
    \/ /\ ChildStep
       /\ child' = "exited" /\ found /\ patient => stdin = 0 /\ ~writing
       /\ UNCHANGED <<pc, res, io>>
    \/ ReadInput

Collector == CollectStep /\ UNCHANGED <<pc, res, io>>

\* What-if: the exit code is taken before the child has been waited for.
WaitReturnEarly ==
    /\ pc = "waitpid"
    /\ Reap
    /\ res' = m_exitcode
    /\ pc' = "join"
    /\ UNCHANGED <<threads, io>>

WaitReturn ==
    /\ pc = "waitpid"
    /\ Reap
    /\ res' = m_exitcode'
    /\ pc' = "join"
    /\ UNCHANGED <<threads, io>>

\* What-if: only the thread that collects the standard output is joined.
JoinStdout ==
    /\ pc = "join"
    /\ ~writing /\ "stdout" \notin collecting
    /\ pc' = "returned"
    /\ UNCHANGED <<kernel, handle, threads, res, io>>

Join ==
    /\ pc = "join"
    /\ ~writing /\ collecting = {}
    /\ pc' = "returned"
    /\ UNCHANGED <<kernel, handle, threads, res, io>>

Writer == WriteInput \/ CloseInput
Caller == WaitReturn \/ Join

Exec == Writer \/ Child \/ Collector \/ Caller

\* Every thread and the child are scheduled.
ExecFairness ==
    /\ WF_vars(Writer) /\ WF_vars(Child) /\ WF_vars(Caller)
    /\ \A fd \in Collected : WF_vars((Collect(fd) \/ CollectEnd(fd)) /\ UNCHANGED <<pc, res, io>>)

-----------------------------------------------------------------------------
(***************************************************************************)
(* Properties.                                                             *)
(***************************************************************************)

ExecType ==
    /\ ProcessType
    /\ pc \in {"waitpid", "join", "returned"} /\ res \in Int
    /\ input \in Nat /\ stdin \in 0..PipeSize
    /\ patient \in BOOLEAN /\ writing \in BOOLEAN

\* exec() returns all that the child printed on either descriptor, the last
\* line included if it is not ended, and has no thread left behind.
OutputComplete ==
    pc = "returned" => collected = printed /\ collecting = {} /\ ~writing

\* The code that exec() returns is that of the child; main() and
\* metadata_from_file() take a 0 to mean that the command exists and ran well.
ResultIsTheChilds ==
    pc = "returned" => res = status /\ (res = 0 => found)

\* exec() returns, in whatever order the child reads and prints.
ExecReturns == <>(pc = "returned")
=============================================================================

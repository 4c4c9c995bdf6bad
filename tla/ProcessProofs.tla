----------------------------- MODULE ProcessProofs -----------------------------
(***************************************************************************)
(* What every step of a child, of its collecting threads and of            *)
(* ProcessImpl keeps, for any sizes of the pipes and buffers.  Modules     *)
(* DecoderProofs and MetadataProofs build the theorems on it.              *)
(***************************************************************************)
EXTENDS Process, TLAPS

-----------------------------------------------------------------------------
(***************************************************************************)
(* The invariant.                                                          *)
(***************************************************************************)

\* What the child has printed on a collected descriptor is in the output
\* stream, in the first buf_ptr bytes of the line buffer, or in the pipe.
PrintedIsAccounted ==
    \A fd \in Collected : printed[fd] = collected[fd] + buffered[fd] + pipe[fd]

\* A thread leaves generic_pipe with nothing in its buffer, when nothing can
\* come any more.
CollectorsAreDone ==
    \A fd \in Collected \ collecting : buffered[fd] = 0 /\ pipe[fd] = 0 /\ Ended

\* m_pid tells whether waitpid() has returned the child: neither is it waited
\* for twice nor forgotten.
PidIsTheChilds == m_pid = "none" <=> child = "reaped"

\* An end has a status, which m_exitcode becomes when the child is reaped; and
\* a command that was not found never gets as far as a successful one.
EndHasItsStatus ==
    /\ status = NoStatus <=> ~Ended
    /\ m_pid = "none" => m_exitcode = status
    /\ ~found => child \notin {"forked", "starting"} /\ status \in {NoStatus, ExitFailure}

ProcessInv ==
    /\ ProcessType
    /\ PrintedIsAccounted
    /\ CollectorsAreDone
    /\ PidIsTheChilds
    /\ EndHasItsStatus

-----------------------------------------------------------------------------
(***************************************************************************)
(* The steps.                                                              *)
(***************************************************************************)

\* It holds for the process that has just been started.
LEMMA InitProcessInv == InitProcess => ProcessInv
<1>. SUFFICES ASSUME InitProcess PROVE ProcessInv
  OBVIOUS
<1>. USE ProcessAssumption DEF InitProcess
<1>1. ProcessType
  <2>1. plan \in [Outputs -> Nat]
    OBVIOUS
  <2>2. /\ printed \in [Outputs -> Nat] /\ pipe \in [Outputs -> 0..PipeSize]
        /\ buffered \in [Collected -> 0..(LineSize - 1)] /\ collected \in [Collected -> Nat]
    OBVIOUS
  <2>3. /\ child \in ChildStates /\ interrupted \in BOOLEAN /\ found \in BOOLEAN
        /\ status \in {NoStatus, Killed, ExitSuccess, ExitFailure}
        /\ m_pid \in {"child", "none"} /\ collecting \subseteq Collected
    BY Zenon DEF ChildStates
  <2>4. m_exitcode \in Int
    OBVIOUS
  <2>. HIDE DEF InitProcess
  <2>. QED  BY <2>1, <2>2, <2>3, <2>4 DEF ProcessType
<1>2. PrintedIsAccounted /\ CollectorsAreDone
  BY DEF PrintedIsAccounted, CollectorsAreDone, Outputs
<1>3. PidIsTheChilds /\ EndHasItsStatus
  BY DEF PidIsTheChilds, EndHasItsStatus, Ended
<1>. QED  BY <1>1, <1>2, <1>3 DEF ProcessInv

\* The child only ever adds to what it has printed and to the pipe at once.
LEMMA ChildInv ==
    ASSUME ProcessInv, ChildStep
    PROVE  ProcessInv'
<1>. USE ProcessAssumption DEF ProcessInv, ProcessType, ChildStep, handle, threads
<1>1. CASE Execvp
  <2>1. [stdout |-> 0, stderr |-> 1] \in [Outputs -> Nat]
    BY DEF Outputs
  <2>2. ProcessType'
    BY <1>1, <2>1 DEF Execvp, ChildStates
  <2>. QED  BY <1>1, <2>2 DEF Execvp, PrintedIsAccounted, CollectorsAreDone, PidIsTheChilds,
                             EndHasItsStatus, Ended
<1>2. CASE Started
  BY <1>2 DEF Started, PrintedIsAccounted, CollectorsAreDone, PidIsTheChilds,
              EndHasItsStatus, Ended, ChildStates
<1>3. CASE Exit
  BY <1>3 DEF Exit, PrintedIsAccounted, CollectorsAreDone, PidIsTheChilds,
              EndHasItsStatus, Ended, ChildStates, NoStatus, Killed, ExitSuccess, ExitFailure
<1>4. ASSUME NEW fd \in Outputs, BeginWrite(fd) PROVE ProcessInv'
  BY <1>4 DEF BeginWrite, WritingTo, PrintedIsAccounted, CollectorsAreDone, PidIsTheChilds,
              EndHasItsStatus, Ended, ChildStates
<1>5. ASSUME NEW fd \in Outputs, Write(fd) PROVE ProcessInv'
  <2>1. ProcessType'
    <3>1. printed' \in [Outputs -> Nat] /\ pipe' \in [Outputs -> 0..PipeSize]
      BY <1>5 DEF Write
    <3>. QED  BY <1>5, <3>1 DEF Write, ChildStates
  <2>2. ~Ended /\ ~Ended'
    BY <1>5 DEF Write, WritingTo, Ended
  <2>3. CollectorsAreDone'
    BY <1>5, <2>2 DEF Write, CollectorsAreDone
  <2>4. PrintedIsAccounted'
    BY <1>5 DEF Write, PrintedIsAccounted, Outputs
  <2>5. PidIsTheChilds' /\ EndHasItsStatus'
    BY <1>5, <2>2 DEF Write, WritingTo, PidIsTheChilds, EndHasItsStatus, Ended
  <2>. QED  BY <2>1, <2>3, <2>4, <2>5
<1>. QED  BY <1>1, <1>2, <1>3, <1>4, <1>5

\* A collecting thread moves bytes on and keeps their number.
LEMMA CollectInv ==
    ASSUME ProcessInv, CollectStep
    PROVE  ProcessInv'
<1>. USE ProcessAssumption DEF ProcessInv, ProcessType, kernel, handle
<1>1. ASSUME NEW fd \in Collected, Collect(fd) PROVE ProcessInv'
  <2>1. ProcessType'
    BY <1>1 DEF Collect, Outputs
  <2>2. PrintedIsAccounted'
    BY <1>1 DEF Collect, PrintedIsAccounted, Outputs
  <2>3. CollectorsAreDone'
    BY <1>1 DEF Collect, CollectorsAreDone, Ended
  <2>4. PidIsTheChilds' /\ EndHasItsStatus'
    BY <1>1 DEF Collect, PidIsTheChilds, EndHasItsStatus, Ended
  <2>. QED  BY <2>1, <2>2, <2>3, <2>4
<1>2. ASSUME NEW fd \in Collected, CollectEnd(fd) PROVE ProcessInv'
  <2>1. ProcessType'
    BY <1>2 DEF CollectEnd
  <2>2. PrintedIsAccounted'
    BY <1>2 DEF CollectEnd, PrintedIsAccounted, Outputs
  <2>3. CollectorsAreDone'
    BY <1>2 DEF CollectEnd, CollectorsAreDone, Eof, Ended
  <2>4. PidIsTheChilds' /\ EndHasItsStatus'
    BY <1>2 DEF CollectEnd, PidIsTheChilds, EndHasItsStatus, Ended
  <2>. QED  BY <2>1, <2>2, <2>3, <2>4
<1>. QED  BY <1>1, <1>2 DEF CollectStep

\* waitpid() takes the child and its status together.
LEMMA ReapInv ==
    ASSUME ProcessInv, Reap, UNCHANGED threads
    PROVE  ProcessInv'
BY ProcessAssumption DEF ProcessInv, ProcessType, Reap, threads, PrintedIsAccounted, CollectorsAreDone,
       PidIsTheChilds, EndHasItsStatus, Ended, ChildStates, NoStatus, Killed, ExitSuccess, ExitFailure

\* A SIGINT ends the child at once or makes it leave later.
LEMMA InterruptInv ==
    ASSUME ProcessInv, Interrupt, UNCHANGED <<handle, threads>>
    PROVE  ProcessInv'
<1>1. /\ plan' = plan /\ printed' = printed /\ found' = found /\ pipe' = pipe
      /\ m_pid' = m_pid /\ m_exitcode' = m_exitcode /\ m_pid = "child"
      /\ buffered' = buffered /\ collected' = collected /\ collecting' = collecting
  BY Zenon DEF Interrupt, handle, threads
<1>2. CASE child' = child /\ status' = status /\ (interrupted' = interrupted \/ interrupted' = TRUE)
  <2>1. interrupted' \in BOOLEAN
    BY <1>2, Zenon DEF ProcessInv, ProcessType
  <2>. QED  BY <1>1, <1>2, <2>1, Zenon DEF ProcessInv, ProcessType, PrintedIsAccounted,
            CollectorsAreDone, PidIsTheChilds, EndHasItsStatus, Ended
<1>3. CASE /\ ~Ended /\ child' = "exited" /\ interrupted' = interrupted
           /\ status' = ExitFailure \/ (found /\ status' = Killed)
  <2>1. Ended' /\ child' \in ChildStates
    BY <1>3 DEF Ended, ChildStates
  <2>2. status' \in {NoStatus, Killed, ExitSuccess, ExitFailure} /\ status' # NoStatus
    BY <1>3 DEF NoStatus, Killed, ExitSuccess, ExitFailure
  <2>3. ProcessType'
    BY <1>1, <1>3, <2>1, <2>2, Zenon DEF ProcessInv, ProcessType
  <2>4. EndHasItsStatus'
    BY <1>1, <1>3, <2>1, <2>2, Zenon DEF ProcessInv, EndHasItsStatus
  <2>5. PrintedIsAccounted' /\ CollectorsAreDone' /\ PidIsTheChilds'
    BY <1>1, <1>3, <2>1 DEF ProcessInv, PrintedIsAccounted, CollectorsAreDone, PidIsTheChilds, Ended
  <2>. QED  BY <2>3, <2>4, <2>5 DEF ProcessInv
<1>4. child = "starting" => found
  BY DEF ProcessInv, EndHasItsStatus
<1>5. child = "starting" => ~Ended
  BY DEF Ended
<1>6. \/ child' = child /\ status' = status /\ (interrupted' = interrupted \/ interrupted' = TRUE)
      \/ /\ ~Ended /\ child' = "exited" /\ interrupted' = interrupted
         /\ status' = ExitFailure \/ (found /\ status' = Killed)
  BY <1>4, <1>5, Zenon DEF Interrupt
<1>. QED  BY <1>2, <1>3, <1>6, Zenon

\* waitpid() is never called for a child that has been waited for.
LEMMA WaitDoesNotThrow == ProcessInv => ~WaitThrows
BY DEF ProcessInv, PidIsTheChilds, WaitThrows
=============================================================================

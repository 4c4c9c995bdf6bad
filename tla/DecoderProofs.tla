----------------------------- MODULE DecoderProofs -----------------------------
(***************************************************************************)
(* Proofs about Decoder, for every child, every size of its pipes and      *)
(* every sequence of calls.                                                *)
(***************************************************************************)
EXTENDS Decoder, ProcessProofs

-----------------------------------------------------------------------------
(***************************************************************************)
(* The inductive invariant.                                                *)
(***************************************************************************)

\* read() and the loop of wait() ask for something.
AsksForSomething ==
    /\ pc = "read" => n_bytes > 0 /\ caller \in {"read", "wait", "destroy"}
    /\ pc = "waitpid" => caller \in {"wait", "destroy"}

\* Only the end of the output makes the stream of the decoder bad, and that
\* end is final; what follows the loop of wait() comes after it.
BadMeansEof ==
    /\ ~good => Eof("stdout")
    /\ pc \in {"waitpid", "join", "gone"} => ~good

\* The child is waited for on the way out, or earlier only by wait().
PidGoneMeansWaited ==
    /\ pc \in {"join", "gone"} => child = "reaped"
    /\ m_pid = "none" /\ pc \in {"idle", "read", "waitpid"} => waited

\* The collecting thread is joined.
GoneMeansJoined == pc = "gone" => collecting = {}

IInv ==
    /\ TypeOK
    /\ ProcessInv
    /\ AsksForSomething
    /\ BadMeansEof
    /\ ShortReadMeansEof
    /\ PidGoneMeansWaited
    /\ GoneMeansJoined
    /\ StaysAlive
    /\ SignalsReachTheChild

-----------------------------------------------------------------------------
(***************************************************************************)
(* The inductive step.                                                     *)
(***************************************************************************)

\* It holds before the first call.
LEMMA InitIInv == Init => IInv
<1>. SUFFICES ASSUME Init PROVE IInv
  OBVIOUS
<1>1. ProcessInv
  BY InitProcessInv DEF Init
<1>2. TypeOK
  <2>1. reads \in [asked : Nat, got : Nat] /\ n_bytes \in Nat /\ got \in 0..n_bytes
    BY DEF Init
  <2>. QED  BY <1>1, <2>1 DEF Init, TypeOK, ProcessInv
<1>. QED  BY <1>1, <1>2 DEF Init, InitProcess, IInv, AsksForSomething, BadMeansEof, ShortReadMeansEof,
                 PidGoneMeansWaited, GoneMeansJoined, StaysAlive, SignalsReachTheChild

\* The end of the output is final: a child that has ended prints nothing more.
LEMMA EofIsFinal ==
    ASSUME IInv, ChildStep \/ CollectStep
    PROVE  /\ Eof("stdout") => Eof("stdout")'
           /\ child = "reaped" => child' = "reaped"
           /\ m_pid' = m_pid /\ collecting' \subseteq collecting
<1>1. CASE ChildStep
  BY <1>1 DEF ChildStep, handle, threads, Execvp, Started, Exit, BeginWrite, Write, WritingTo, Eof, Ended
<1>2. ASSUME NEW fd \in Collected, Collect(fd) \/ CollectEnd(fd)
      PROVE  /\ child' = child /\ pipe'["stdout"] = pipe["stdout"]
             /\ m_pid' = m_pid /\ collecting' \subseteq collecting
  BY <1>2, DecoderAssumption
     DEF IInv, ProcessInv, ProcessType, Outputs, Collect, CollectEnd, kernel, handle
<1>. QED  BY <1>1, <1>2 DEF CollectStep, Eof, Ended

\* The child and the thread that collects its messages.
LEMMA OthersStep ==
    ASSUME IInv, ChildStep \/ CollectStep, UNCHANGED server
    PROVE  IInv'
<1>. USE DEF IInv, server
<1>1. ProcessInv'
  BY ChildInv, CollectInv
<1>2. TypeOK'
  BY <1>1 DEF TypeOK, ProcessInv
<1>3. BadMeansEof' /\ ShortReadMeansEof'
  BY EofIsFinal DEF BadMeansEof, ShortReadMeansEof, Eof
<1>4. PidGoneMeansWaited' /\ GoneMeansJoined'
  BY EofIsFinal DEF PidGoneMeansWaited, GoneMeansJoined
<1>5. AsksForSomething' /\ StaysAlive' /\ SignalsReachTheChild'
  BY DEF AsksForSomething, StaysAlive, SignalsReachTheChild
<1>. QED  BY <1>1, <1>2, <1>3, <1>4, <1>5

\* A call of read() with any number of bytes keeps it.
LEMMA ReadStep ==
    ASSUME IInv, NEW n \in ReadSizes, Read(n)
    PROVE  IInv'
<1>. USE DEF IInv, Read, kernel, handle, threads
<1>0. n \in Nat \ {0}
  BY DecoderAssumption
<1>1. ProcessInv' /\ ProcessType'
  BY DEF ProcessInv, ProcessType, PrintedIsAccounted, CollectorsAreDone, PidIsTheChilds,
         EndHasItsStatus, Ended
<1>2. TypeOK'
  BY <1>0, <1>1 DEF TypeOK
<1>. QED  BY <1>0, <1>1, <1>2 DEF AsksForSomething, BadMeansEof, ShortReadMeansEof, Eof, Ended,
                 PidGoneMeansWaited, GoneMeansJoined, StaysAlive, SignalsReachTheChild

\* A signal is sent to the child, or the child has been waited for by wait().
LEMMA WaitStep ==
    ASSUME IInv, NEW operation \in {"wait", "destroy"}, Wait(operation)
    PROVE  IInv'
<1>. USE DEF IInv, Wait, handle, threads
<1>0. DrainSize \in Nat \ {0}
  BY DecoderAssumption
<1>1. /\ ProcessInv'
      /\ pipe' = pipe /\ (Ended => child' = child)
      /\ m_pid = "child" => signalled' = "child"
      /\ m_pid = "none" => signalled' = "group"
      /\ m_pid = "child" \/ m_pid = "none"
  <2>1. CASE m_pid = "child"
    <3>1. Interrupt /\ signalled' = "child"
      BY <2>1 DEF Signal
    <3>2. ProcessInv'
      BY <3>1, InterruptInv
    <3>. QED  BY <2>1, <3>1, <3>2 DEF Interrupt, Ended
  <2>2. CASE m_pid = "none"
    <3>1. UNCHANGED kernel /\ signalled' = "group"
      BY <2>2 DEF Signal
    <3>2. ProcessInv'
      BY <3>1 DEF kernel, ProcessInv, ProcessType, PrintedIsAccounted, CollectorsAreDone,
                  PidIsTheChilds, EndHasItsStatus, Ended
    <3>. QED  BY <2>2, <3>1, <3>2 DEF kernel, Ended
  <2>. QED  BY <2>1, <2>2 DEF ProcessInv, ProcessType
<1>2. TypeOK'
  BY <1>0, <1>1 DEF TypeOK, ProcessInv
<1>3. BadMeansEof' /\ ShortReadMeansEof'
  BY <1>1 DEF BadMeansEof, ShortReadMeansEof, Eof, Ended
<1>4. PidGoneMeansWaited' /\ SignalsReachTheChild'
  BY <1>1 DEF PidGoneMeansWaited, SignalsReachTheChild
<1>5. AsksForSomething' /\ GoneMeansJoined' /\ StaysAlive'
  BY <1>0 DEF AsksForSomething, GoneMeansJoined, StaysAlive
<1>. QED  BY <1>1, <1>2, <1>3, <1>4, <1>5

\* Reading takes bytes out of the pipe that no thread collects from.
LEMMA ReadSomeStep ==
    ASSUME IInv, ReadSome
    PROVE  IInv'
<1>. USE DEF IInv, ReadSome, handle, threads
<1>1. PICK k \in Nat : /\ got' = got + k /\ got' <= n_bytes /\ k <= pipe["stdout"]
                       /\ pipe' = [pipe EXCEPT !["stdout"] = @ - k]
  <2>. DEFINE room == n_bytes - got
              k    == IF pipe["stdout"] < room THEN pipe["stdout"] ELSE room
  <2>1. pipe["stdout"] \in Nat /\ n_bytes \in Nat /\ got \in 0..n_bytes
    BY ProcessAssumption DEF TypeOK, ProcessType, Outputs
  <2>2. k \in Nat /\ got + k <= n_bytes /\ k <= pipe["stdout"]
    BY <2>1
  <2>. QED  BY <2>2
<1>2. pipe' \in [Outputs -> 0..PipeSize] /\ pipe'["stderr"] = pipe["stderr"]
  BY <1>1, ProcessAssumption DEF ProcessInv, ProcessType, Outputs
<1>3. ProcessInv'
  <2>1. ProcessType'
    BY <1>2 DEF ProcessInv, ProcessType
  <2>2. PrintedIsAccounted' /\ CollectorsAreDone'
    BY <1>2, DecoderAssumption DEF ProcessInv, PrintedIsAccounted, CollectorsAreDone, Ended
  <2>3. PidIsTheChilds' /\ EndHasItsStatus'
    BY DEF ProcessInv, PidIsTheChilds, EndHasItsStatus, Ended
  <2>. QED  BY <2>1, <2>2, <2>3 DEF ProcessInv
<1>4. TypeOK'
  BY <1>1, <1>3 DEF TypeOK, ProcessInv
<1>5. ShortReadMeansEof'
  BY <1>1 DEF ShortReadMeansEof, TypeOK, ProcessType, Outputs, Ended
<1>. QED  BY <1>3, <1>4, <1>5 DEF AsksForSomething, BadMeansEof, PidGoneMeansWaited,
                 GoneMeansJoined, StaysAlive, SignalsReachTheChild

\* So does the read that meets the end of the pipe.
LEMMA ReadEofStep ==
    ASSUME IInv, ReadEof
    PROVE  IInv'
<1>. USE DEF IInv, ReadEof, kernel, handle, threads
<1>1. ProcessInv'
  BY DEF ProcessInv, ProcessType, PrintedIsAccounted, CollectorsAreDone, PidIsTheChilds,
         EndHasItsStatus, Ended
<1>2. TypeOK'
  BY <1>1 DEF TypeOK, ProcessInv
<1>. QED  BY <1>1, <1>2 DEF AsksForSomething, BadMeansEof, ShortReadMeansEof, Eof, Ended,
                 PidGoneMeansWaited, GoneMeansJoined, StaysAlive, SignalsReachTheChild

\* A read that comes back short has met the end, and so has one that comes
\* back with nothing.
LEMMA ReadReturnStep ==
    ASSUME IInv, ReadReturn
    PROVE  IInv'
<1>. USE DEF IInv, ReadReturn, kernel, handle, threads
<1>1. ProcessInv'
  BY DEF ProcessInv, ProcessType, PrintedIsAccounted, CollectorsAreDone, PidIsTheChilds,
         EndHasItsStatus, Ended
<1>2. TypeOK'
  BY <1>1 DEF TypeOK, ProcessInv
<1>3. ShortReadMeansEof'
  BY DEF ShortReadMeansEof, BadMeansEof, Eof, Ended, TypeOK
<1>4. BadMeansEof'
  BY DEF BadMeansEof, AsksForSomething, Eof, Ended
<1>5. AsksForSomething'
  BY DEF AsksForSomething
<1>6. PidGoneMeansWaited' /\ GoneMeansJoined' /\ StaysAlive' /\ SignalsReachTheChild'
  BY DEF PidGoneMeansWaited, GoneMeansJoined, StaysAlive, SignalsReachTheChild
<1>. QED  BY <1>1, <1>2, <1>3, <1>4, <1>5, <1>6

\* waitpid() returns, and does not throw.
LEMMA WaitReturnStep ==
    ASSUME IInv, WaitReturn
    PROVE  IInv'
<1>. USE DEF IInv, WaitReturn
<1>0. ~WaitThrows
  BY WaitDoesNotThrow
<1>1. /\ ProcessInv' /\ UNCHANGED <<pipe, collecting>> /\ child' = "reaped"
      /\ Ended
  <2>1. CASE Reap
    BY <2>1, ReapInv DEF Reap, Ended, threads
  <2>2. CASE AlreadyReaped
    BY <2>2 DEF AlreadyReaped, kernel, handle, threads, ProcessInv, ProcessType, PrintedIsAccounted,
                CollectorsAreDone, PidIsTheChilds, EndHasItsStatus, Ended
  <2>. QED  BY <1>0, <2>1, <2>2
<1>2. \/ caller = "wait" /\ pc' = "idle" /\ waited' = TRUE
      \/ caller = "destroy" /\ pc' = "join" /\ waited' = waited
  BY <1>0 DEF AsksForSomething, TypeOK
<1>3. TypeOK'
  BY <1>1, <1>2 DEF TypeOK, ProcessInv
<1>4. BadMeansEof' /\ ShortReadMeansEof'
  BY <1>1, <1>2 DEF BadMeansEof, ShortReadMeansEof, Eof, Ended
<1>5. PidGoneMeansWaited' /\ SignalsReachTheChild'
  BY <1>1, <1>2 DEF PidGoneMeansWaited, SignalsReachTheChild, TypeOK
<1>6. AsksForSomething' /\ GoneMeansJoined' /\ StaysAlive'
  BY <1>2 DEF AsksForSomething, GoneMeansJoined, StaysAlive
<1>. QED  BY <1>1, <1>3, <1>4, <1>5, <1>6

\* So does the destruction of the decoder with its thread.
LEMMA JoinStep ==
    ASSUME IInv, Join
    PROVE  IInv'
<1>. USE DEF IInv, Join, kernel, handle, threads
<1>0. pc' = "gone"
  BY WaitDoesNotThrow
<1>1. ProcessInv'
  BY DEF ProcessInv, ProcessType, PrintedIsAccounted, CollectorsAreDone, PidIsTheChilds,
         EndHasItsStatus, Ended
<1>2. TypeOK'
  BY <1>0, <1>1 DEF TypeOK, ProcessInv
<1>. QED  BY <1>0, <1>1, <1>2 DEF AsksForSomething, BadMeansEof, ShortReadMeansEof, Eof, Ended,
                 PidGoneMeansWaited, GoneMeansJoined, StaysAlive, SignalsReachTheChild

\* So does every step, of the child and the collecting thread too.
LEMMA NextIInv == IInv /\ [Next]_vars => IInv'
<1>. SUFFICES ASSUME IInv, [Next]_vars PROVE IInv'
  OBVIOUS
<1>1. CASE Call
  BY <1>1, ReadStep, WaitStep DEF Call
<1>2. CASE ServerStep
  BY <1>2, ReadSomeStep, ReadEofStep, ReadReturnStep, WaitReturnStep, JoinStep DEF ServerStep
<1>3. CASE (ChildStep \/ CollectStep) /\ UNCHANGED server
  BY <1>3, OthersStep
<1>4. CASE UNCHANGED vars
  BY <1>4 DEF vars, kernel, handle, threads, server, IInv, ProcessInv, TypeOK, ProcessType,
              PrintedIsAccounted, CollectorsAreDone, PidIsTheChilds, EndHasItsStatus,
              AsksForSomething, BadMeansEof, ShortReadMeansEof, Eof, Ended,
              PidGoneMeansWaited, GoneMeansJoined, StaysAlive, SignalsReachTheChild
<1>. QED  BY <1>1, <1>2, <1>3, <1>4 DEF Next, Gone

-----------------------------------------------------------------------------
(***************************************************************************)
(* The theorems.                                                           *)
(***************************************************************************)

\* The parts of the invariant hold together in every state of a decoder.
THEOREM DecoderInvariant == Spec => []IInv
<1>1. Init => IInv
  BY InitIInv
<1>2. IInv /\ [Next]_vars => IInv'
  BY NextIInv
<1>. QED  BY <1>1, <1>2, PTL DEF Spec

\* The variables have their types; in particular no pipe and no line buffer of
\* generic_pipe holds more than it can.
THEOREM DecoderTypeCorrect == Spec => []TypeOK
<1>1. IInv => TypeOK
  BY DEF IInv
<1>. QED  BY <1>1, DecoderInvariant, PTL

\* read() comes back short only at the end of what ffmpeg prints, which is what
\* Stream::advance() takes it for.
THEOREM ShortReadIsTheEnd == Spec => []ShortReadMeansEof
<1>1. IInv => ShortReadMeansEof
  BY DEF IInv
<1>. QED  BY <1>1, DecoderInvariant, PTL

\* ~DecoderImpl leaves no zombie, no blocked child and no lost message.
THEOREM DecoderLeavesNothing == Spec => []NothingLeft
<1>1. IInv => NothingLeft
  <2>. SUFFICES ASSUME IInv, pc = "gone"
                PROVE  /\ child = "reaped" /\ pipe["stdout"] = 0
                       /\ collected["stderr"] = printed["stderr"]
    BY DEF NothingLeft
  <2>1. child = "reaped" /\ collecting = {}
    BY DEF IInv, PidGoneMeansWaited, GoneMeansJoined
  <2>2. pipe["stdout"] = 0
    BY DEF IInv, BadMeansEof, Eof
  <2>3. /\ buffered["stderr"] = 0 /\ pipe["stderr"] = 0
        /\ printed["stderr"] = collected["stderr"] + buffered["stderr"] + pipe["stderr"]
    BY <2>1, DecoderAssumption DEF IInv, ProcessInv, CollectorsAreDone, PrintedIsAccounted
  <2>4. collected["stderr"] \in Nat
    BY DecoderAssumption DEF IInv, ProcessInv, ProcessType
  <2>. QED  BY <2>1, <2>2, <2>3, <2>4
<1>. QED  BY <1>1, DecoderInvariant, PTL

\* update_status() never waits for a child that has been waited for: it would
\* throw out of a destructor.
THEOREM DecoderStaysAlive == Spec => []StaysAlive
<1>1. IInv => StaysAlive
  BY DEF IInv
<1>. QED  BY <1>1, DecoderInvariant, PTL

\* A SIGINT goes to the process group of the server only after wait(), which
\* the server does not call.
THEOREM SignalsAreAimed == Spec => []SignalsReachTheChild
<1>1. IInv => SignalsReachTheChild
  BY DEF IInv
<1>. QED  BY <1>1, DecoderInvariant, PTL
=============================================================================

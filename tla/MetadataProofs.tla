---------------------------- MODULE MetadataProofs ----------------------------
(***************************************************************************)
(* Proofs about Process::exec and metadata_from_file(), for every child,   *)
(* every size of the pipes, and every document and list of fields.         *)
(***************************************************************************)
EXTENDS Metadata, ProcessProofs, WellFoundedInduction

-----------------------------------------------------------------------------
(***************************************************************************)
(* What LookUps() computes.                                                *)
(***************************************************************************)

\* Induction over the naturals: a set with 0 in it and with every successor of
\* a member holds them all, since what it lacked would have a least element.
LEMMA NatSetInduction ==
    ASSUME NEW T, 0 \in T, \A n \in Nat : n \in T => n + 1 \in T
    PROVE  Nat \subseteq T
<1>. DEFINE R == {p \in Nat \X Nat : p[1] < p[2]}
            U == Nat \ T
<1>. SUFFICES ASSUME U # {} PROVE FALSE
  OBVIOUS
<1>1. IsWellFoundedOn(R, Nat)
  <2>1. R = OpToRel(<, Nat)
    BY Zenon DEF OpToRel
  <2>. QED  BY <2>1, NatLessThanWellFounded
<1>2. PICK x \in U : \A y \in U : ~(<<y, x>> \in R)
  <2>1. U \subseteq Nat
    OBVIOUS
  <2>. HIDE DEF R, U
  <2>. QED  BY <1>1, <2>1, WFMin
<1>3. x \in Nat /\ x # 0
  BY <1>2
<1>4. x - 1 \in Nat /\ x - 1 \notin T
  <2>1. ASSUME x - 1 \in T PROVE FALSE
    <3>1. (x - 1) + 1 \in T
      BY <2>1, <1>3
    <3>. QED  BY <3>1, <1>3, (x - 1) + 1 = x
  <2>. QED  BY <2>1, <1>3
<1>5. <<x - 1, x>> \in R
  BY <1>3
<1>. QED  BY <1>2, <1>4, <1>5

\* The queries are strings at the places of their list.
LEMMA QueriesType == Len(Queries) \in Nat /\ \A k \in 1..Len(Queries) : Queries[k] \in ToSet(Queries)
BY MetadataAssumption DEF ToSet

Untouched(data) == [data |-> data, fields |-> Defaults, throws |-> FALSE]

\* There is a function that satisfies the recursive definition of LookUps():
\* one for the first n queries can be extended by the next one.
LEMMA LookUpsDef ==
    ASSUME NEW data
    PROVE  LookUps(data) =
               [k \in 0..Len(Queries) |->
                    IF k = 0 THEN Untouched(data) ELSE LookUp(LookUps(data)[k - 1], Queries[k])]
<1>. DEFINE Def(n, f) ==
                f = [k \in 0..n |-> IF k = 0 THEN Untouched(data) ELSE LookUp(f[k - 1], Queries[k])]
            T == {n \in Nat : \E f : Def(n, f)}
<1>1. 0 \in T
  <2>1. Def(0, [k \in 0..0 |-> Untouched(data)])
    OBVIOUS
  <2>. QED  BY <2>1
<1>2. ASSUME NEW n \in Nat, n \in T PROVE n + 1 \in T
  <2>1. PICK f : Def(n, f)
    BY <1>2
  <2>. DEFINE g == [k \in 0..(n + 1) |-> IF k <= n THEN f[k] ELSE LookUp(f[n], Queries[n + 1])]
  <2>2. ASSUME NEW k \in 0..(n + 1)
        PROVE  g[k] = IF k = 0 THEN Untouched(data) ELSE LookUp(g[k - 1], Queries[k])
    <3>1. CASE k = 0
      BY <3>1, <2>1
    <3>2. CASE k \in 1..n
      <4>1. g[k] = f[k] /\ g[k - 1] = f[k - 1]
        BY <3>2
      <4>2. f[k] = LookUp(f[k - 1], Queries[k])
        BY <3>2, <2>1
      <4>. QED  BY <4>1, <4>2, <3>2
    <3>3. CASE k = n + 1
      BY <3>3
    <3>. QED  BY <3>1, <3>2, <3>3
  <2>3. Def(n + 1, g)
    BY <2>2
  <2>4. \E h : Def(n + 1, h)
    <3>. HIDE DEF Def, g
    <3>. QED  BY <2>3
  <2>. QED  BY <2>4
<1>3. PICK f : Def(Len(Queries), f)
  <2>1. Nat \subseteq T
    <3>. HIDE DEF T
    <3>. QED  BY <1>1, <1>2, NatSetInduction
  <2>. QED  BY <2>1, QueriesType
<1>. QED  BY <1>3 DEF LookUps, Untouched

-----------------------------------------------------------------------------
(***************************************************************************)
(* What the queries find in a document.                                    *)
(***************************************************************************)

Documents == UNION {[keys -> Values] : keys \in SUBSET Keys}

KeysOf(data, field) == {key \in DOMAIN data : key[1] = field}

FieldRecord == [type : {"string", "number"}, tenths : Int]

\* A key of the document is a query in one of its spellings.
LEMMA KeyType ==
    ASSUME NEW key \in Keys
    PROVE  key = <<key[1], key[2]>> /\ key[1] \in ToSet(Queries) /\ key[2] \in Spellings
BY MetadataAssumption

\* Of the spellings of a field that there are, std::map has one in front.
LEMMA FirstMatchIsOne ==
    ASSUME NEW keys \in SUBSET Keys, keys # {}, NEW field, \A key \in keys : key[1] = field
    PROVE  FirstMatch(keys) \in keys
<1>1. \E key \in keys : key[2] = "lower" => keys = {key}
  <2>1. CASE \E key \in keys : key[2] # "lower"
    BY <2>1
  <2>2. CASE \A key \in keys : key[2] = "lower"
    <3>1. \A key \in keys : key = <<field, "lower">>
      BY <2>2, KeyType
    <3>. QED  BY <3>1
  <2>. QED  BY <2>1, <2>2
<1>. QED  BY <1>1 DEF FirstMatch

\* A default is a field, and so is what a value is converted to.
LEMMA ConvertedType ==
    ASSUME NEW field, NEW value \in Values
    PROVE  Default(field) \in FieldRecord /\ Converted(field, value) \in FieldRecord
<1>1. value.tenths \in Int
  BY MetadataAssumption
<1>2. Truncated(value.tenths) \in Int
  <2>1. \A n \in Int : 10 * (n \div 10) \in Int
    OBVIOUS
  <2>. QED  BY <1>1, <2>1 DEF Truncated
<1>. QED  BY <1>1, <1>2 DEF Default, Converted, Text, Number, FieldRecord

IsState(state) == state = [data |-> state.data, fields |-> state.fields, throws |-> state.throws]

\* A state of the loop over the queries, of which the first k have been made:
\* no field is without its value unless it is still to be looked for or is not
\* there, and no key has been taken but by the query that it answers.
LookedUp(data, k, state) ==
    /\ state.fields \in [ToSet(Queries) -> FieldRecord]
    /\ state.throws \in BOOLEAN
    /\ DOMAIN state.data \subseteq DOMAIN data
    /\ \A key \in DOMAIN state.data : state.data[key] = data[key]
    /\ \A key \in DOMAIN data \ DOMAIN state.data : \E i \in 1..k : Queries[i] = key[1]
    /\ state.throws => \E key \in DOMAIN data : key[1] \notin Textual /\ data[key] = Text(NoNumber)
    /\ \A field \in ToSet(Queries) :
           \/ /\ state.fields[field] = Default(field)
              /\ \/ KeysOf(data, field) = {} \/ state.throws
                 \/ \A i \in 1..k : Queries[i] # field
           \/ \E key \in KeysOf(data, field) : state.fields[field] = Converted(field, data[key])

\* One more query leaves a state in which that many have been looked up.
LEMMA LookUpStep ==
    ASSUME NEW data \in Documents, NEW k \in Nat, k + 1 \in 1..Len(Queries), NEW state,
           IsState(state), LookedUp(data, k, state)
    PROVE  LET next == LookUp(state, Queries[k + 1])
           IN  IsState(next) /\ LookedUp(data, k + 1, next)
<1>. DEFINE field   == Queries[k + 1]
            matches == {key \in DOMAIN state.data : Matches(field, key)}
            first   == FirstMatch(matches)
            value   == state.data[first]
            next    == LookUp(state, field)
<1>0. field \in ToSet(Queries)
  BY QueriesType
<1>1. /\ DOMAIN data \subseteq Keys
      /\ \A key \in DOMAIN data : data[key] \in Values
  BY DEF Documents
<1>2. CASE state.throws \/ matches = {}
  <2>1. next = state
    BY <1>2 DEF LookUp
  <2>2. ~state.throws => \A key \in KeysOf(data, field) : \E i \in 1..k : Queries[i] = field
    BY <1>2 DEF LookedUp, Matches, KeysOf
  <2>3. LookedUp(data, k + 1, state)
    <3>. HIDE DEF field
    <3>1. \A i \in 1..(k + 1) : i \in 1..k \/ i = k + 1
      OBVIOUS
    <3>2. \A i \in 1..k : i \in 1..(k + 1)
      OBVIOUS
    <3>. QED  BY <2>2, <3>1, <3>2 DEF LookedUp, field
  <2>. HIDE DEF next
  <2>4. IsState(next) /\ LookedUp(data, k + 1, next)
    BY <2>1, <2>3
  <2>. QED  BY <2>4 DEF next, field
<1>3. CASE ~state.throws /\ matches # {}
  <2>1. first \in matches
    <3>1. matches \in SUBSET Keys /\ \A key \in matches : key[1] = field
      BY <1>1 DEF LookedUp, Matches
    <3>. QED  BY <1>3, <3>1, FirstMatchIsOne
  <2>2. /\ first \in DOMAIN data /\ first[1] = field /\ value = data[first] /\ value \in Values
        /\ first \in KeysOf(data, field)
    BY <1>1, <2>1 DEF LookedUp, Matches, KeysOf
  <2>3. CASE Throws(field, value)
    <3>1. next = [state EXCEPT !.throws = TRUE]
      BY <1>3, <2>3 DEF LookUp
    <3>2. next = [data |-> state.data, fields |-> state.fields, throws |-> TRUE]
      BY <3>1 DEF IsState
    <3>3. value = Text(NoNumber) /\ field \notin Textual
      BY <2>2, <2>3, MetadataAssumption DEF Throws, Text
    <3>. HIDE DEF next, field, value, first
    <3>4. IsState(next)
      BY <3>2 DEF IsState
    <3>5. next.data = state.data /\ next.fields = state.fields /\ next.throws
      BY <3>2
    <3>6. \A f \in ToSet(Queries) :
              \/ next.fields[f] = Default(f)
              \/ \E key \in KeysOf(data, f) : next.fields[f] = Converted(f, data[key])
      BY <3>5 DEF LookedUp
    <3>7. \A i \in 1..k : i \in 1..(k + 1)
      OBVIOUS
    <3>8. LookedUp(data, k + 1, next)
      BY <2>2, <3>2, <3>3, <3>5, <3>6, <3>7 DEF LookedUp
    <3>. QED  BY <3>4, <3>8 DEF next, field
  <2>4. CASE ~Throws(field, value)
    <3>1. next = [data   |-> [key \in DOMAIN state.data \ {first} |-> state.data[key]],
                  fields |-> [state.fields EXCEPT ![field] = Converted(field, value)],
                  throws |-> FALSE]
      BY <1>3, <2>4 DEF LookUp
    <3>2. Converted(field, value) \in FieldRecord
      BY <2>2, ConvertedType
    <3>. HIDE DEF next, field, value, first
    <3>3. next.fields \in [ToSet(Queries) -> FieldRecord]
      BY <3>1, <3>2 DEF LookedUp
    <3>4. ASSUME NEW f \in ToSet(Queries)
          PROVE  \/ /\ next.fields[f] = Default(f)
                    /\ \/ KeysOf(data, f) = {} \/ next.throws
                       \/ \A i \in 1..(k + 1) : Queries[i] # f
                 \/ \E key \in KeysOf(data, f) : next.fields[f] = Converted(f, data[key])
      <4>1. CASE f = field
        <5>1. next.fields[f] = Converted(f, data[first])
          BY <1>0, <2>2, <3>1, <4>1 DEF LookedUp
        <5>. QED  BY <2>2, <4>1, <5>1
      <4>2. CASE f # field
        <5>1. next.fields[f] = state.fields[f]
          BY <3>1, <4>2 DEF LookedUp
        <5>2. \A i \in 1..(k + 1) : i \in 1..k \/ Queries[i] # f
          <6>1. \A i \in 1..(k + 1) : i \in 1..k \/ i = k + 1
            OBVIOUS
          <6>. QED  BY <4>2, <6>1 DEF field
        <5>. QED  BY <1>3, <5>1, <5>2 DEF LookedUp
      <4>. QED  BY <4>1, <4>2
    <3>5. \A key \in DOMAIN data \ DOMAIN next.data : \E i \in 1..(k + 1) : Queries[i] = key[1]
      <4>1. \A key \in DOMAIN data \ DOMAIN next.data :
                key \in DOMAIN data \ DOMAIN state.data \/ key = first
        BY <3>1
      <4>2. \A i \in 1..k : i \in 1..(k + 1)
        OBVIOUS
      <4>3. k + 1 \in 1..(k + 1) /\ Queries[k + 1] = first[1]
        BY <2>2 DEF field
      <4>. QED  BY <4>1, <4>2, <4>3 DEF LookedUp
    <3>6. IsState(next)
      BY <3>1 DEF IsState
    <3>7. /\ next.throws = FALSE
          /\ DOMAIN next.data \subseteq DOMAIN data
          /\ \A key \in DOMAIN next.data : next.data[key] = data[key]
      BY <3>1 DEF LookedUp
    <3>8. LookedUp(data, k + 1, next)
      BY <3>3, <3>4, <3>5, <3>7 DEF LookedUp
    <3>. QED  BY <3>6, <3>8 DEF next, field
  <2>. QED  BY <2>3, <2>4
<1>. QED  BY <1>2, <1>3

\* After all the queries.
LEMMA LookUpAllFinds ==
    ASSUME NEW data \in Documents
    PROVE  LookedUp(data, Len(Queries), LookUpAll(data))
<1>. DEFINE state(k) == LookUps(data)[k]
            T == {n \in Nat : n <= Len(Queries) => IsState(state(n)) /\ LookedUp(data, n, state(n))}
<1>1. 0 \in T
  <2>1. state(0) = Untouched(data)
    BY LookUpsDef, QueriesType
  <2>2. Defaults \in [ToSet(Queries) -> FieldRecord]
    BY DEF Defaults, Default, Number, FieldRecord
  <2>3. LookedUp(data, 0, Untouched(data))
    BY <2>2 DEF LookedUp, Untouched, Defaults
  <2>. QED  BY <2>1, <2>3 DEF Untouched, IsState
<1>2. ASSUME NEW n \in Nat, n \in T PROVE n + 1 \in T
  <2>. SUFFICES ASSUME n + 1 <= Len(Queries)
                PROVE  IsState(state(n + 1)) /\ LookedUp(data, n + 1, state(n + 1))
    OBVIOUS
  <2>1. n + 1 \in 1..Len(Queries) /\ IsState(state(n)) /\ LookedUp(data, n, state(n))
    BY <1>2, QueriesType
  <2>2. state(n + 1) = LookUp(state(n), Queries[n + 1])
    BY <2>1, LookUpsDef, QueriesType
  <2>. HIDE DEF state
  <2>. QED  BY <2>1, <2>2, LookUpStep
<1>3. Nat \subseteq T
  <2>. HIDE DEF T
  <2>. QED  BY <1>1, <1>2, NatSetInduction
<1>. QED  BY <1>3, QueriesType DEF LookUpAll

-----------------------------------------------------------------------------
(***************************************************************************)
(* The inductive invariant.                                                *)
(***************************************************************************)

\* Nobody signals the child: it ends after it has printed everything.
PrintsToTheEnd == ~interrupted /\ (Ended => printed = plan)

\* The child is waited for before the threads are joined, and they are joined
\* before exec() returns.
JoinsInOrder ==
    /\ pc \in {"join", "returned"} => child = "reaped" /\ res = status
    /\ pc = "returned" => collecting = {} /\ ~writing

\* metadata_from_file() works on what exec() has returned.
ResultsFollowExec ==
    /\ outcome # "none" => pc = "returned"
    /\ outcome = "none" => document = NoDocument /\ fields = Defaults

IInv ==
    /\ TypeOK
    /\ ProcessInv
    /\ PrintsToTheEnd
    /\ JoinsInOrder
    /\ ResultsFollowExec
    /\ TagsAreFound
    /\ ThrowsForNumbersOnly

-----------------------------------------------------------------------------
(***************************************************************************)
(* The inductive step.                                                     *)
(***************************************************************************)

\* The fields before the first look-up.
LEMMA DefaultsType == Defaults \in [ToSet(Queries) -> FieldRecord]
BY DEF Defaults, Default, Number, FieldRecord

\* It holds before exec() is called.
LEMMA InitIInv == Init => IInv
<1>. SUFFICES ASSUME Init PROVE IInv
  OBVIOUS
<1>1. ProcessInv
  BY InitProcessInv DEF Init, InitExec
<1>2. TypeOK
  <2>1. ExecType
    BY <1>1, ProcessAssumption, ExecAssumption DEF Init, InitExec, ExecType, ProcessInv
  <2>2. DOMAIN document \subseteq Keys
    BY DEF Init, NoDocument
  <2>. QED  BY <2>1, <2>2, DefaultsType DEF Init, TypeOK, FieldRecord
<1>3. PrintsToTheEnd /\ JoinsInOrder /\ ResultsFollowExec
  BY DEF Init, InitExec, InitProcess, PrintsToTheEnd, JoinsInOrder, ResultsFollowExec, Ended
<1>4. TagsAreFound /\ ThrowsForNumbersOnly
  BY DEF Init, TagsAreFound, ThrowsForNumbersOnly
<1>. QED  BY <1>1, <1>2, <1>3, <1>4 DEF IInv

\* A step of exec() leaves metadata_from_file() as it is; what the latter has
\* found out stays true because a child that has been reaped does not change.
LEMMA ResultsStay ==
    ASSUME IInv, UNCHANGED call, outcome # "none" => pc' = pc /\ status' = status /\ plan' = plan
    PROVE  ResultsFollowExec' /\ TagsAreFound' /\ ThrowsForNumbersOnly'
BY DEF IInv, call, ResultsFollowExec, TagsAreFound, ThrowsForNumbersOnly

\* t1 does not touch the child.
LEMMA WriterStep ==
    ASSUME IInv, Writer, UNCHANGED call
    PROVE  IInv'
<1>1. /\ UNCHANGED <<kernel, handle, threads, pc, res, patient>>
      /\ input' \in Nat /\ stdin' \in 0..PipeSize
      /\ writing' \in BOOLEAN /\ (~writing => ~writing')
  <2>. USE DEF IInv, TypeOK, ExecType
  <2>1. CASE WriteInput
    <3>1. input - 1 \in Nat \/ input = 0
      OBVIOUS
    <3>2. stdin < PipeSize => stdin + 1 \in 0..PipeSize
      BY ProcessAssumption
    <3>. QED  BY <2>1, <3>1, <3>2 DEF WriteInput
  <2>2. CASE CloseInput
    BY <2>2 DEF CloseInput
  <2>. QED  BY <2>1, <2>2 DEF Writer
<1>. USE <1>1 DEF kernel, handle, threads
<1>2. ProcessInv' /\ ProcessType'
  BY DEF IInv, ProcessInv, ProcessType, PrintedIsAccounted, CollectorsAreDone, PidIsTheChilds,
         EndHasItsStatus, Ended
<1>3. TypeOK'
  BY <1>2 DEF IInv, TypeOK, ExecType, call
<1>4. PrintsToTheEnd' /\ JoinsInOrder'
  BY DEF IInv, PrintsToTheEnd, JoinsInOrder, Ended
<1>. QED  BY <1>2, <1>3, <1>4, ResultsStay DEF IInv

\* The child keeps it.
LEMMA ChildExecStep ==
    ASSUME IInv, Child, UNCHANGED call
    PROVE  IInv'
<1>1. CASE ChildStep /\ UNCHANGED <<pc, res, io>>
  <2>1. ProcessInv'
    BY <1>1, ChildInv DEF IInv
  <2>2. TypeOK'
    BY <1>1, <2>1 DEF IInv, TypeOK, ExecType, ProcessInv, call, io
  <2>3. PrintsToTheEnd'
    <3>1. CASE Exit
      BY <3>1 DEF IInv, PrintsToTheEnd, Exit, Ended
    <3>2. CASE ~Exit
      <4>1. interrupted' = interrupted /\ ~Ended'
        BY <1>1, <3>2 DEF ChildStep, Execvp, Started, BeginWrite, Write, WritingTo, Ended
      <4>. QED  BY <4>1 DEF IInv, PrintsToTheEnd
    <3>. QED  BY <3>1, <3>2
  <2>4. child # "reaped"
    BY <1>1 DEF ChildStep, Execvp, Started, Exit, BeginWrite, Write, WritingTo
  <2>5. JoinsInOrder'
    BY <1>1, <2>4 DEF IInv, JoinsInOrder
  <2>6. outcome = "none"
    BY <2>4 DEF IInv, JoinsInOrder, ResultsFollowExec
  <2>. QED  BY <2>1, <2>2, <2>3, <2>5, <2>6, ResultsStay DEF IInv
<1>2. CASE ReadInput
  <2>. USE <1>2 DEF ReadInput, kernel, handle, threads
  <2>1. ProcessInv' /\ ProcessType'
    BY DEF IInv, ProcessInv, ProcessType, PrintedIsAccounted, CollectorsAreDone, PidIsTheChilds,
           EndHasItsStatus, Ended
  <2>2. TypeOK'
    BY <2>1, ProcessAssumption DEF IInv, TypeOK, ExecType, call
  <2>3. PrintsToTheEnd' /\ JoinsInOrder'
    BY DEF IInv, PrintsToTheEnd, JoinsInOrder, Ended
  <2>. QED  BY <2>1, <2>2, <2>3, ResultsStay DEF IInv
<1>. QED  BY <1>1, <1>2 DEF Child

\* The threads that read its output keep it.
LEMMA CollectorStep ==
    ASSUME IInv, Collector, UNCHANGED call
    PROVE  IInv'
<1>. USE DEF Collector, io
<1>1. ProcessInv'
  BY CollectInv DEF IInv
<1>2. /\ UNCHANGED <<child, plan, printed, interrupted, status>> /\ collecting' \subseteq collecting
  BY DEF CollectStep, Collect, CollectEnd, kernel
<1>3. TypeOK'
  BY <1>1 DEF IInv, TypeOK, ExecType, ProcessInv, call
<1>4. PrintsToTheEnd' /\ JoinsInOrder'
  BY <1>2 DEF IInv, PrintsToTheEnd, JoinsInOrder, Ended
<1>. QED  BY <1>1, <1>2, <1>3, <1>4, ResultsStay DEF IInv

\* The exit code is that of the child, which has then been reaped.
LEMMA WaitReturnStep ==
    ASSUME IInv, WaitReturn, UNCHANGED call
    PROVE  IInv'
<1>. USE DEF WaitReturn, io
<1>1. ProcessInv'
  BY ReapInv DEF IInv
<1>2. /\ child = "exited" /\ child' = "reaped" /\ res' = status /\ res' \in Int
      /\ UNCHANGED <<plan, printed, interrupted, status>>
  BY <1>1 DEF Reap, ProcessInv, ProcessType
<1>3. TypeOK'
  BY <1>1, <1>2 DEF IInv, TypeOK, ExecType, ProcessInv, call
<1>4. PrintsToTheEnd' /\ JoinsInOrder'
  BY <1>2 DEF IInv, PrintsToTheEnd, JoinsInOrder, Ended
<1>5. outcome = "none"
  BY DEF IInv, ResultsFollowExec
<1>. QED  BY <1>1, <1>3, <1>4, <1>5, ResultsStay DEF IInv

\* exec() keeps it when it has joined them.
LEMMA JoinStep ==
    ASSUME IInv, Join, UNCHANGED call
    PROVE  IInv'
<1>. USE DEF Join, kernel, handle, threads, io
<1>1. ProcessInv' /\ ProcessType'
  BY DEF IInv, ProcessInv, ProcessType, PrintedIsAccounted, CollectorsAreDone, PidIsTheChilds,
         EndHasItsStatus, Ended
<1>2. TypeOK'
  BY <1>1 DEF IInv, TypeOK, ExecType, call
<1>3. PrintsToTheEnd' /\ JoinsInOrder'
  BY DEF IInv, PrintsToTheEnd, JoinsInOrder, Ended
<1>4. outcome = "none"
  BY DEF IInv, ResultsFollowExec
<1>. QED  BY <1>1, <1>2, <1>3, <1>4, ResultsStay DEF IInv

\* What exec() has returned is everything that the child was to print.
LEMMA ReturnedMeansComplete ==
    ASSUME IInv, pc = "returned"
    PROVE  collected = printed /\ collecting = {} /\ ~writing /\ printed = plan /\ res = status
<1>1. collecting = {} /\ ~writing /\ child = "reaped" /\ res = status
  BY DEF IInv, JoinsInOrder
<1>2. ASSUME NEW fd \in Outputs PROVE collected[fd] = printed[fd]
  BY <1>1, ExecAssumption
     DEF IInv, ProcessInv, ProcessType, PrintedIsAccounted, CollectorsAreDone
<1>3. collected \in [Outputs -> Nat] /\ printed \in [Outputs -> Nat]
  BY ExecAssumption DEF IInv, ProcessInv, ProcessType
<1>. QED  BY <1>1, <1>2, <1>3 DEF IInv, PrintsToTheEnd, Ended

\* So does what is made of the document afterwards.
LEMMA MetadataStep ==
    ASSUME IInv, MetadataFromFile
    PROVE  IInv'
<1>. USE DEF MetadataFromFile
<1>0. /\ UNCHANGED <<kernel, handle, threads, pc, res, io, caller>>
      /\ outcome' \in {"result", "thrown"}
      /\ pc = "returned" /\ collected = printed /\ printed = plan /\ res = status
      /\ outcome = "none" /\ document = NoDocument /\ fields = Defaults
  <2>1. outcome' \in {"result", "thrown"} /\ UNCHANGED <<kernel, handle, threads, pc, res, io, caller>>
    BY DEF ExecFailed, ParseThrows, ReadDocument, Finish
  <2>. QED  BY <2>1, ReturnedMeansComplete DEF IInv, ResultsFollowExec
<1>. USE <1>0 DEF kernel, handle, threads, io
<1>1. ProcessInv' /\ ProcessType' /\ ExecType' /\ PrintsToTheEnd' /\ JoinsInOrder'
  <2>1. ProcessInv' /\ ProcessType'
    BY DEF IInv, ProcessInv, ProcessType, PrintedIsAccounted, CollectorsAreDone, PidIsTheChilds,
           EndHasItsStatus, Ended
  <2>. QED  BY <2>1 DEF IInv, TypeOK, ExecType, PrintsToTheEnd, JoinsInOrder, Ended
<1>2. ResultsFollowExec'
  BY DEF ResultsFollowExec
<1>3. DOMAIN NoDocument = {}
  BY DEF NoDocument
<1>4. CASE ExecFailed
  <2>1. status # 0 /\ document' = NoDocument /\ fields' = Defaults /\ outcome' = "result"
    BY <1>4 DEF ExecFailed, HasDocument, Finish
  <2>2. TypeOK'
    BY <1>1, <1>3, <2>1, DefaultsType DEF IInv, TypeOK, FieldRecord
  <2>3. TagsAreFound' /\ ThrowsForNumbersOnly'
    BY <2>1 DEF TagsAreFound, ThrowsForNumbersOnly, Defaults
  <2>. QED  BY <1>1, <1>2, <2>2, <2>3 DEF IInv
<1>5. CASE ParseThrows
  <2>1. /\ status = 0 /\ plan["stdout"] = 0
        /\ document' = NoDocument /\ fields' = Defaults /\ outcome' = "thrown"
    BY <1>5 DEF ParseThrows, HasDocument, Unreadable, Finish
  <2>2. TypeOK'
    BY <1>1, <1>3, <2>1, DefaultsType DEF IInv, TypeOK, FieldRecord
  <2>3. TagsAreFound' /\ ThrowsForNumbersOnly'
    BY <2>1 DEF TagsAreFound, ThrowsForNumbersOnly
  <2>. QED  BY <1>1, <1>2, <2>2, <2>3 DEF IInv
<1>6. ASSUME NEW keys \in SUBSET Keys, NEW data \in [keys -> Values], ReadDocument(data)
      PROVE  IInv'
  <2>. DEFINE lookup == LookUpAll(data)
  <2>0. data \in Documents
    BY DEF Documents
  <2>1. LookedUp(data, Len(Queries), lookup)
    BY <2>0, LookUpAllFinds
  <2>2. /\ status = 0 /\ document' = data /\ fields' = lookup.fields
        /\ outcome' = IF lookup.throws THEN "thrown" ELSE "result"
    BY <1>6 DEF ReadDocument, HasDocument, Finish
  <2>. HIDE DEF lookup
  <2>3. TypeOK'
    BY <1>1, <2>1, <2>2 DEF IInv, TypeOK, LookedUp, FieldRecord
  <2>4. ThrowsForNumbersOnly'
    BY <2>1, <2>2 DEF ThrowsForNumbersOnly, LookedUp
  <2>5. ASSUME NEW field \in ToSet(Queries), ~lookup.throws
        PROVE  LET values == {data[key] : key \in {k \in DOMAIN data : k[1] = field}}
               IN  IF values = {} THEN lookup.fields[field] = Default(field)
                   ELSE lookup.fields[field] \in {Converted(field, value) : value \in values}
    <3>1. \E i \in 1..Len(Queries) : Queries[i] = field
      BY MetadataAssumption DEF ToSet
    <3>2. \/ lookup.fields[field] = Default(field) /\ KeysOf(data, field) = {}
          \/ \E key \in KeysOf(data, field) : lookup.fields[field] = Converted(field, data[key])
      BY <2>1, <2>5, <3>1 DEF LookedUp
    <3>. QED  BY <3>2 DEF KeysOf
  <2>6. TagsAreFound'
    BY <2>2, <2>5 DEF TagsAreFound
  <2>. QED  BY <1>1, <1>2, <2>3, <2>4, <2>6 DEF IInv
<1>. QED  BY <1>4, <1>5, <1>6

\* Every step keeps it.
LEMMA NextIInv == IInv /\ [Next]_<<vars, call>> => IInv'
<1>. SUFFICES ASSUME IInv, [Next]_<<vars, call>> PROVE IInv'
  OBVIOUS
<1>1. CASE Exec /\ UNCHANGED call
  BY <1>1, WriterStep, ChildExecStep, CollectorStep, WaitReturnStep, JoinStep DEF Exec, Caller
<1>2. CASE MetadataFromFile
  BY <1>2, MetadataStep
<1>3. CASE UNCHANGED <<vars, call>>
  BY <1>3 DEF vars, call, kernel, handle, threads, io, IInv, ProcessInv, TypeOK, ExecType, ProcessType,
              PrintedIsAccounted, CollectorsAreDone, PidIsTheChilds, EndHasItsStatus, Ended,
              PrintsToTheEnd, JoinsInOrder, ResultsFollowExec, TagsAreFound, ThrowsForNumbersOnly
<1>. QED  BY <1>1, <1>2, <1>3 DEF Next, Returned

-----------------------------------------------------------------------------
(***************************************************************************)
(* The theorems.                                                           *)
(***************************************************************************)

\* The parts of the invariant hold together in every state.
THEOREM MetadataInvariant == Spec => []IInv
<1>1. Init => IInv
  BY InitIInv
<1>2. IInv /\ [Next]_<<vars, call>> => IInv'
  BY NextIInv
<1>. QED  BY <1>1, <1>2, PTL DEF Spec

\* The variables have their types, those of the child and of the threads that
\* exec() starts among them.
THEOREM MetadataTypeCorrect == Spec => []TypeOK
<1>1. IInv => TypeOK
  BY DEF IInv
<1>. QED  BY <1>1, MetadataInvariant, PTL

\* exec() returns everything that the child printed on either descriptor.
THEOREM ExecReturnsAll == Spec => []OutputComplete
<1>1. IInv => OutputComplete
  BY ReturnedMeansComplete DEF OutputComplete
<1>. QED  BY <1>1, MetadataInvariant, PTL

\* The code that exec() returns is that of the child, and 0 only if the command
\* was found.
THEOREM ExecReturnsTheStatus == Spec => []ResultIsTheChilds
<1>1. IInv => ResultIsTheChilds
  <2>. SUFFICES ASSUME IInv, pc = "returned" PROVE res = status /\ (res = 0 => found)
    BY DEF ResultIsTheChilds
  <2>1. res = status
    BY ReturnedMeansComplete
  <2>2. ~found => status \in {NoStatus, ExitFailure}
    BY DEF IInv, ProcessInv, EndHasItsStatus
  <2>3. found \in BOOLEAN
    BY DEF IInv, ProcessInv, ProcessType
  <2>. QED  BY <2>1, <2>2, <2>3 DEF NoStatus, ExitFailure
<1>. QED  BY <1>1, MetadataInvariant, PTL

\* metadata_from_file() finds the tags of a file in whichever case they are
\* spelled, and nothing that is not there.
THEOREM MetadataIsFound == Spec => []TagsAreFound
<1>1. IInv => TagsAreFound
  BY DEF IInv
<1>. QED  BY <1>1, MetadataInvariant, PTL

\* metadata_from_file() throws for a number field that holds none and for an
\* ffprobe that succeeds without a word, and for nothing else.
THEOREM MetadataSeldomThrows == Spec => []ThrowsForNumbersOnly
<1>1. IInv => ThrowsForNumbersOnly
  BY DEF IInv
<1>. QED  BY <1>1, MetadataInvariant, PTL
=============================================================================

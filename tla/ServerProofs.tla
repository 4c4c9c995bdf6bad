----------------------------- MODULE ServerProofs -----------------------------
(***************************************************************************)
(* Proofs about Server, for any clients, scripts and stream identifiers:   *)
(* its type invariant, and that it implements Service.                     *)
(***************************************************************************)
EXTENDS Server, SequenceTheorems, FiniteSetTheorems, TLAPS

-----------------------------------------------------------------------------
(***************************************************************************)
(* Parts of sequences.                                                     *)
(***************************************************************************)

\* What is taken from the front of the second buffer is found behind the first.
LEMMA MoveOver ==
    ASSUME NEW T, NEW s \in Seq(T), NEW t \in Seq(T), NEW n \in 0..Len(t)
    PROVE  /\ s \o SubSeq(t, 1, n) \in Seq(T) /\ SubSeq(t, n + 1, Len(t)) \in Seq(T)
           /\ (s \o SubSeq(t, 1, n)) \o SubSeq(t, n + 1, Len(t)) = s \o t
<1>1. SubSeq(t, 1, n) \in Seq(T) /\ Len(SubSeq(t, 1, n)) = n
      /\ \A i \in 1..n : SubSeq(t, 1, n)[i] = t[i]
  OBVIOUS
<1>2. SubSeq(t, n + 1, Len(t)) \in Seq(T) /\ Len(SubSeq(t, n + 1, Len(t))) = Len(t) - n
      /\ \A i \in 1..(Len(t) - n) : SubSeq(t, n + 1, Len(t))[i] = t[n + i]
  OBVIOUS
<1>. DEFINE p == SubSeq(t, 1, n)
            q == SubSeq(t, n + 1, Len(t))
<1>. HIDE DEF p, q
<1>3. /\ p \in Seq(T) /\ Len(p) = n /\ \A i \in 1..n : p[i] = t[i]
      /\ q \in Seq(T) /\ Len(q) = Len(t) - n /\ \A i \in 1..(Len(t) - n) : q[i] = t[n + i]
  BY <1>1, <1>2 DEF p, q
<1>4. p \o q = t
  <2>1. p \o q \in Seq(T) /\ Len(p \o q) = Len(t)
    <3>1. p \in Seq(T) /\ q \in Seq(T) /\ Len(p) = n /\ Len(q) = Len(t) - n /\ Len(t) \in Nat
      BY <1>3
    <3>2. p \o q \in Seq(T) /\ Len(p \o q) = Len(p) + Len(q)
      BY <3>1, ConcatProperties
    <3>. QED  BY <3>1, <3>2
  <2>2. ASSUME NEW i \in 1..Len(t) PROVE (p \o q)[i] = t[i]
    <3>1. CASE i <= n
      BY <1>3, <3>1
    <3>2. CASE ~(i <= n)
      <4>1. (p \o q)[i] = q[i - n]
        BY <1>3, <3>2
      <4>2. i - n \in 1..(Len(t) - n) /\ n + (i - n) = i
        BY <3>2
      <4>. QED  BY <1>3, <4>1, <4>2
    <3>. QED  BY <3>1, <3>2
  <2>. QED  BY <2>1, <2>2, SeqEqual
<1>5. (s \o p) \o q = s \o (p \o q)
  BY SMTT(30), <1>3, ConcatAssociative
<1>6. s \o p \in Seq(T)
  BY <1>3
<1>. QED
  <2>1. s \o p \in Seq(T) /\ q \in Seq(T) /\ (s \o p) \o q = s \o t
    BY <1>3, <1>4, <1>5, <1>6
  <2>. QED  BY <2>1 DEF p, q

\* What is removed from the front of the first buffer leaves the rest of both.
LEMMA FrontGone ==
    ASSUME NEW T, NEW s \in Seq(T), NEW t \in Seq(T), NEW m \in 0..Len(s)
    PROVE  /\ SubSeq(s, m + 1, Len(s)) \in Seq(T)
           /\ SubSeq(s, m + 1, Len(s)) \o t = SubSeq(s \o t, m + 1, Len(s \o t))
<1>. DEFINE p == SubSeq(s, m + 1, Len(s))
            q == SubSeq(s \o t, m + 1, Len(s \o t))
<1>1. p \in Seq(T) /\ Len(p) = Len(s) - m /\ \A i \in 1..(Len(s) - m) : p[i] = s[m + i]
  OBVIOUS
<1>2. s \o t \in Seq(T) /\ Len(s \o t) = Len(s) + Len(t)
      /\ \A i \in 1..Len(s \o t) : (s \o t)[i] = IF i <= Len(s) THEN s[i] ELSE t[i - Len(s)]
  OBVIOUS
<1>3. q \in Seq(T) /\ Len(q) = Len(s) + Len(t) - m
      /\ \A i \in 1..(Len(s) + Len(t) - m) : q[i] = (s \o t)[m + i]
  <2>. DEFINE u == s \o t
  <2>1. u \in Seq(T) /\ Len(u) = Len(s) + Len(t) /\ q = SubSeq(u, m + 1, Len(u))
    BY <1>2
  <2>. HIDE DEF u, q
  <2>2. q \in Seq(T) /\ Len(q) = Len(u) - m /\ \A i \in 1..(Len(u) - m) : q[i] = u[m + i]
    BY <2>1
  <2>. QED  BY <2>1, <2>2 DEF u
<1>. HIDE DEF p, q
<1>4. p \o t = q
  <2>1. p \o t \in Seq(T) /\ Len(p \o t) = Len(q)
    <3>1. p \o t \in Seq(T) /\ Len(p \o t) = (Len(s) - m) + Len(t)
      BY <1>1, ConcatProperties
    <3>2. Len(q) = Len(s) + Len(t) - m
      BY <1>3
    <3>. QED  BY <3>1, <3>2
  <2>2. ASSUME NEW i \in 1..Len(q) PROVE (p \o t)[i] = q[i]
    <3>0. i \in Nat /\ Len(q) = Len(s) + Len(t) - m /\ Len(s) \in Nat /\ Len(t) \in Nat
      BY <1>3
    <3>1. CASE i <= Len(s) - m
      BY <1>1, <1>2, <1>3, <3>0, <3>1
    <3>2. CASE i > Len(s) - m
      <4>1. (p \o t)[i] = t[i - (Len(s) - m)]
        BY <1>1, <3>0, <3>2
      <4>2. q[i] = t[(m + i) - Len(s)]
        BY <1>2, <1>3, <3>0, <3>2
      <4>. QED  BY <3>0, <4>1, <4>2
    <3>. QED  BY <1>1, <3>0, <3>1, <3>2
  <2>. QED  BY <1>3, <2>1, <2>2, SeqEqual
<1>. QED  BY <1>1, <1>4 DEF p, q

\* What has been written is the front of what was to be written.
LEMMA FrontOf ==
    ASSUME NEW T, NEW s \in Seq(T), NEW t \in Seq(T), NEW n \in 0..Len(t)
    PROVE  s \o SubSeq(t, 1, n) = SubSeq(s \o t, 1, Len(s) + n)
<1>. DEFINE p == SubSeq(t, 1, n)
            u == s \o t
<1>1. p \in Seq(T) /\ Len(p) = n /\ \A i \in 1..n : p[i] = t[i]
  OBVIOUS
<1>2. u \in Seq(T) /\ Len(u) = Len(s) + Len(t)
      /\ \A i \in 1..Len(u) : u[i] = IF i <= Len(s) THEN s[i] ELSE t[i - Len(s)]
  OBVIOUS
<1>. HIDE DEF p, u
<1>3. SubSeq(u, 1, Len(s) + n) \in Seq(T) /\ Len(SubSeq(u, 1, Len(s) + n)) = Len(s) + n
      /\ \A i \in 1..(Len(s) + n) : SubSeq(u, 1, Len(s) + n)[i] = u[i]
  BY <1>2
<1>4. s \o p \in Seq(T) /\ Len(s \o p) = Len(s) + n
  BY <1>1, ConcatProperties
<1>5. ASSUME NEW i \in 1..(Len(s) + n) PROVE (s \o p)[i] = u[i]
  <2>1. CASE i <= Len(s)
    BY <1>1, <1>2, <2>1
  <2>2. CASE ~(i <= Len(s))
    <3>1. (s \o p)[i] = p[i - Len(s)]
      BY <1>1, <2>2
    <3>2. u[i] = t[i - Len(s)]
      BY <1>2, <2>2
    <3>. QED  BY <1>1, <2>2, <3>1, <3>2
  <2>. QED  BY <2>1, <2>2
<1>. QED  BY <1>3, <1>4, <1>5, SeqEqual DEF p, u

\* An element behind the second of two sequences is behind both.
LEMMA AppendOver ==
    ASSUME NEW T, NEW s \in Seq(T), NEW t \in Seq(T), NEW e \in T
    PROVE  s \o t \in Seq(T) /\ s \o Append(t, e) = Append(s \o t, e)
BY ConcatProperties, AppendProperties, SeqEqual

\* A list without the element at one of its places.
LEMMA WithoutPlace ==
    ASSUME NEW T, NEW s \in Seq(T), NEW i \in 1..Len(s)
    PROVE  /\ RemoveAt(s, i) \in Seq(T) /\ Len(RemoveAt(s, i)) = Len(s) - 1
           /\ \A k \in 1..(Len(s) - 1) : RemoveAt(s, i)[k] = IF k < i THEN s[k] ELSE s[k + 1]
<1>. DEFINE p == SubSeq(s, 1, i - 1)
            q == SubSeq(s, i + 1, Len(s))
<1>1. p \in Seq(T) /\ Len(p) = i - 1 /\ \A k \in 1..(i - 1) : p[k] = s[k]
  OBVIOUS
<1>2. q \in Seq(T) /\ Len(q) = Len(s) - i /\ \A k \in 1..(Len(s) - i) : q[k] = s[i + k]
  OBVIOUS
<1>3. RemoveAt(s, i) = p \o q
  BY DEF RemoveAt
<1>. HIDE DEF p, q
<1>4. p \o q \in Seq(T) /\ Len(p \o q) = Len(s) - 1
  <2>1. p \o q \in Seq(T) /\ Len(p \o q) = Len(p) + Len(q)
    BY <1>1, <1>2, ConcatProperties
  <2>2. Len(p) = i - 1 /\ Len(q) = Len(s) - i
    BY <1>1, <1>2
  <2>. QED  BY <2>1, <2>2
<1>5. ASSUME NEW k \in 1..(Len(s) - 1) PROVE (p \o q)[k] = IF k < i THEN s[k] ELSE s[k + 1]
  <2>1. CASE k < i
    BY <1>1, <1>2, <2>1
  <2>2. CASE ~(k < i)
    <3>1. (p \o q)[k] = q[k - (i - 1)]
      BY <1>1, <1>2, <2>2
    <3>2. k - (i - 1) \in 1..(Len(s) - i) /\ i + (k - (i - 1)) = k + 1
      BY <2>2
    <3>. QED  BY <1>2, <2>2, <3>1, <3>2
  <2>. QED  BY <2>1, <2>2
<1>. QED  BY <1>3, <1>4, <1>5
-----------------------------------------------------------------------------
(***************************************************************************)
(* The requests on their way.                                              *)
(***************************************************************************)

\* What a client sends after the unit u, which belongs to the request r.
After(r, u) ==
    IF u.part = "head" /\ r.body # "none" THEN Unit(u.no, "body") ELSE Unit(u.no + 1, "head")

\* Units that a client with these requests has sent and of which a number has
\* been served: they begin with the head of the next one, go on without a gap
\* and end inside of the last one.
InSequence(requests, served, units) ==
    /\ units = <<>> => served = Len(requests)
    /\ units # <<>> => /\ units[1] = Unit(served + 1, "head")
                       /\ units[Len(units)].no = Len(requests)
    /\ \A i \in 1..Len(units) : units[i].no \in 1..Len(requests)
    /\ \A i \in 1..(Len(units) - 1) : units[i + 1] = After(requests[units[i].no], units[i])

\* The body of the last request has still to be sent.
BodyMissing(requests, units) ==
    units # <<>> /\ units[Len(units)].part = "head" /\ requests[Len(requests)].body # "none"

\* The head of another request comes after all the units that are on the way.
LEMMA NewHead ==
    ASSUME NEW requests \in Seq(RequestRecord), NEW served \in Nat, NEW r \in RequestRecord,
           NEW units \in Seq(UnitRecord), InSequence(requests, served, units),
           ~BodyMissing(requests, units)
    PROVE  /\ Append(units, Unit(Len(requests) + 1, "head")) \in Seq(UnitRecord)
           /\ InSequence(Append(requests, r), served, Append(units, Unit(Len(requests) + 1, "head")))
           /\ BodyMissing(Append(requests, r), Append(units, Unit(Len(requests) + 1, "head")))
                <=> r.body # "none"
<1>. DEFINE n == Len(requests)
            k == Len(units)
            u == Unit(n + 1, "head")
            more == Append(requests, r)
            us == Append(units, u)
<1>0. n \in Nat /\ k \in Nat
  OBVIOUS
<1>1. u \in UnitRecord /\ u.no = n + 1 /\ u.part = "head"
  BY <1>0 DEF Unit, UnitRecord
<1>2. /\ more \in Seq(RequestRecord) /\ Len(more) = n + 1 /\ more[n + 1] = r
      /\ \A i \in 1..n : more[i] = requests[i]
  OBVIOUS
<1>3. /\ us \in Seq(UnitRecord) /\ Len(us) = k + 1 /\ us # <<>> /\ us[k + 1] = u
      /\ \A i \in 1..k : us[i] = units[i]
  <2>. HIDE DEF u
  <2>. QED  BY <1>1, AppendProperties
<1>4. /\ units = <<>> => served = n
      /\ units # <<>> => units[1] = Unit(served + 1, "head") /\ units[k].no = n /\ k >= 1
      /\ \A i \in 1..k : units[i].no \in 1..n
      /\ \A i \in 1..(k - 1) : units[i + 1] = After(requests[units[i].no], units[i])
      /\ units # <<>> => units[k].part # "head" \/ requests[n].body = "none"
      /\ units = <<>> => k = 0
  BY DEF InSequence, BodyMissing
<1>. HIDE DEF n, k, u, more, us
<1>5. us[1] = Unit(served + 1, "head")
  <2>1. CASE units = <<>>
    <3>1. k + 1 = 1 /\ served = n
      BY <1>4, <2>1
    <3>. QED  BY <1>3, <3>1 DEF u
  <2>2. CASE units # <<>>
    <3>1. 1 \in 1..k
      BY <1>0, <1>4, <2>2
    <3>. QED  BY <1>3, <1>4, <2>2, <3>1
  <2>. QED  BY <2>1, <2>2
<1>6. ASSUME NEW i \in 1..(k + 1) PROVE us[i].no \in 1..(n + 1)
  <2>1. CASE i \in 1..k
    <3>1. us[i] = units[i] /\ units[i].no \in 1..n
      BY <1>3, <1>4, <2>1
    <3>. QED  BY <1>0, <3>1
  <2>2. CASE i = k + 1
    BY <1>0, <1>1, <1>3, <2>2
  <2>. QED  BY <1>0, <2>1, <2>2
<1>7. ASSUME NEW i \in 1..k PROVE us[i + 1] = After(more[us[i].no], us[i])
  <2>1. us[i] = units[i] /\ units[i].no \in 1..n /\ more[units[i].no] = requests[units[i].no]
    BY <1>2, <1>3, <1>4
  <2>2. CASE i \in 1..(k - 1)
    <3>1. i + 1 \in 1..k /\ us[i + 1] = units[i + 1]
      BY <1>0, <1>3, <2>2
    <3>. QED  BY <1>4, <2>1, <2>2, <3>1
  <2>3. CASE i = k
    <3>1. units # <<>>
      BY <1>0, <1>4, <2>3
    <3>2. units[k].no = n /\ (units[k].part # "head" \/ requests[n].body = "none")
      BY <1>4, <3>1
    <3>3. us[i + 1] = Unit(n + 1, "head")
      BY <1>3, <2>3 DEF u
    <3>. QED  BY <2>1, <2>3, <3>2, <3>3 DEF After
  <2>. QED  BY <1>0, <2>2, <2>3
<1>8. InSequence(more, served, us)
  <2>1. us[Len(us)].no = Len(more)
    BY <1>1, <1>2, <1>3
  <2>2. \A i \in 1..Len(us) : us[i].no \in 1..Len(more)
    BY <1>2, <1>3, <1>6
  <2>3. \A i \in 1..(Len(us) - 1) : us[i + 1] = After(more[us[i].no], us[i])
    <3>1. Len(us) - 1 = k
      BY <1>0, <1>3
    <3>. QED  BY <1>7, <3>1
  <2>. QED  BY <1>3, <1>5, <2>1, <2>2, <2>3 DEF InSequence
<1>9. BodyMissing(more, us) <=> r.body # "none"
  BY <1>1, <1>2, <1>3 DEF BodyMissing
<1>. QED  BY <1>3, <1>8, <1>9 DEF us, u, more, n

\* The body of the last request comes after its head.
LEMMA NewBody ==
    ASSUME NEW requests \in Seq(RequestRecord), NEW served \in Nat,
           NEW units \in Seq(UnitRecord), InSequence(requests, served, units),
           BodyMissing(requests, units)
    PROVE  /\ Append(units, Unit(Len(requests), "body")) \in Seq(UnitRecord)
           /\ InSequence(requests, served, Append(units, Unit(Len(requests), "body")))
           /\ ~BodyMissing(requests, Append(units, Unit(Len(requests), "body")))
<1>. DEFINE n == Len(requests)
            k == Len(units)
            u == Unit(n, "body")
            us == Append(units, u)
<1>0. n \in Nat /\ k \in Nat
  OBVIOUS
<1>1. /\ units # <<>> /\ k >= 1
      /\ units[1] = Unit(served + 1, "head") /\ units[k].no = n
      /\ \A i \in 1..k : units[i].no \in 1..n
      /\ \A i \in 1..(k - 1) : units[i + 1] = After(requests[units[i].no], units[i])
      /\ units[k].part = "head" /\ requests[n].body # "none"
  BY DEF InSequence, BodyMissing
<1>2. u \in UnitRecord /\ u.no = n /\ u.part = "body" /\ n >= 1
  <2>1. n \in 1..n
    BY <1>0, <1>1
  <2>. QED  BY <1>0, <2>1 DEF Unit, UnitRecord
<1>3. /\ us \in Seq(UnitRecord) /\ Len(us) = k + 1 /\ us # <<>> /\ us[k + 1] = u
      /\ \A i \in 1..k : us[i] = units[i]
  <2>. HIDE DEF u
  <2>. QED  BY <1>2, AppendProperties
<1>. HIDE DEF n, k, u, us
<1>4. us[1] = Unit(served + 1, "head")
  BY <1>0, <1>1, <1>3
<1>5. ASSUME NEW i \in 1..(k + 1) PROVE us[i].no \in 1..n
  <2>1. CASE i \in 1..k
    BY <1>1, <1>3, <2>1
  <2>2. CASE i = k + 1
    BY <1>0, <1>2, <1>3, <2>2
  <2>. QED  BY <1>0, <2>1, <2>2
<1>6. ASSUME NEW i \in 1..k PROVE us[i + 1] = After(requests[us[i].no], us[i])
  <2>1. us[i] = units[i]
    BY <1>3
  <2>2. CASE i \in 1..(k - 1)
    <3>1. i + 1 \in 1..k /\ us[i + 1] = units[i + 1]
      BY <1>0, <1>3, <2>2
    <3>. QED  BY <1>1, <2>1, <2>2, <3>1
  <2>3. CASE i = k
    <3>1. us[i + 1] = Unit(n, "body")
      BY <1>3, <2>3 DEF u
    <3>. QED  BY <1>1, <2>1, <2>3, <3>1 DEF After
  <2>. QED  BY <1>0, <2>2, <2>3
<1>7. InSequence(requests, served, us)
  <2>1. us[Len(us)].no = Len(requests)
    BY <1>2, <1>3 DEF n
  <2>2. \A i \in 1..Len(us) : us[i].no \in 1..Len(requests)
    BY <1>3, <1>5 DEF n
  <2>3. \A i \in 1..(Len(us) - 1) : us[i + 1] = After(requests[us[i].no], us[i])
    <3>1. Len(us) - 1 = k
      BY <1>0, <1>3
    <3>. QED  BY <1>6, <3>1
  <2>. QED  BY <1>3, <1>4, <2>1, <2>2, <2>3 DEF InSequence
<1>8. ~BodyMissing(requests, us)
  BY <1>2, <1>3 DEF BodyMissing
<1>. QED  BY <1>3, <1>7, <1>8 DEF us, u, n

\* When the units of the first request are taken away, the next one is first.
LEMMA OneServed ==
    ASSUME NEW requests \in Seq(RequestRecord), NEW served \in Nat,
           NEW units \in Seq(UnitRecord), InSequence(requests, served, units), units # <<>>,
           MessageLen(requests[units[1].no]) <= Len(units)
    PROVE  LET m == MessageLen(requests[units[1].no])
               rest == SubSeq(units, m + 1, Len(units))
           IN  /\ rest \in Seq(UnitRecord)
               /\ InSequence(requests, served + 1, rest)
               /\ BodyMissing(requests, rest) <=> BodyMissing(requests, units)
<1>. DEFINE n == Len(requests)
            k == Len(units)
            m == MessageLen(requests[units[1].no])
            rest == SubSeq(units, m + 1, k)
<1>0. n \in Nat /\ k \in Nat /\ k >= 1 /\ m \in {1, 2} /\ m <= k
  BY DEF MessageLen
<1>1. /\ units[1] = Unit(served + 1, "head") /\ units[1].no = served + 1
      /\ units[1].part = "head" /\ units[k].no = n
      /\ \A i \in 1..k : units[i].no \in 1..n
      /\ \A i \in 1..(k - 1) : units[i + 1] = After(requests[units[i].no], units[i])
  BY DEF InSequence, Unit
<1>2. IF requests[served + 1].body = "none" THEN m = 1 ELSE m = 2
  BY <1>1 DEF MessageLen
<1>3. /\ rest \in Seq(UnitRecord) /\ Len(rest) = k - m
      /\ \A i \in 1..(k - m) : rest[i] = units[m + i]
  <2>. HIDE DEF m
  <2>. QED  BY <1>0
<1>. HIDE DEF n, k, m, rest
\* The last unit of the first request, and what follows it.
<1>4. /\ units[m].no = served + 1
      /\ m = 1 => units[m].part = "head" /\ requests[served + 1].body = "none"
      /\ m = 2 => units[m].part = "body"
      /\ m < k => units[m + 1] = Unit(served + 2, "head")
  <2>1. CASE m = 1
    <3>1. m < k => units[1 + 1] = After(requests[units[1].no], units[1])
      BY SMTT(30), <1>0, <1>1, <2>1
    <3>2. requests[served + 1].body = "none"
      BY <1>2, <2>1
    <3>. QED  BY <1>1, <2>1, <3>1, <3>2 DEF After
  <2>2. CASE m = 2
    <3>0. requests[served + 1].body # "none"
      BY <1>2, <2>2
    <3>1. units[1 + 1] = After(requests[units[1].no], units[1])
      BY SMTT(30), <1>0, <1>1, <2>2
    <3>2. units[2] = Unit(served + 1, "body")
      BY <1>1, <3>0, <3>1 DEF After
    <3>3. units[2].no = served + 1 /\ units[2].part = "body"
      BY <3>2 DEF Unit
    <3>4. m < k => units[2 + 1] = After(requests[units[2].no], units[2])
      BY <1>0, <1>1, <2>2
    <3>. QED  BY <2>2, <3>3, <3>4 DEF After
  <2>. QED  BY <1>0, <2>1, <2>2
<1>5. CASE m = k
  <2>1. rest = <<>> /\ Len(rest) = 0
    BY <1>0, <1>3, <1>5
  <2>2. served + 1 = n
    BY <1>1, <1>4, <1>5
  <2>3. ~BodyMissing(requests, units)
    <3>1. units[k].part # "head" \/ requests[n].body = "none"
      BY <1>0, <1>4, <1>5, <2>2
    <3>. QED  BY <3>1 DEF BodyMissing, n, k
  <2>4. InSequence(requests, served + 1, rest) /\ ~BodyMissing(requests, rest)
    BY <2>1, <2>2 DEF InSequence, BodyMissing, n
  <2>. QED  BY <1>3, <2>3, <2>4 DEF rest, k, m
<1>6. CASE m < k
  <2>1. rest # <<>> /\ Len(rest) = k - m /\ k - m >= 1 /\ k - m \in Nat
    BY <1>0, <1>3, <1>6
  <2>2. rest[1] = Unit(served + 1 + 1, "head")
    BY <1>0, <1>3, <1>4, <1>6
  <2>3. rest[Len(rest)] = units[k]
    <3>1. k - m \in 1..(k - m) /\ m + (k - m) = k
      BY <1>0, <2>1
    <3>. QED  BY <1>3, <2>1, <3>1
  <2>4. ASSUME NEW i \in 1..Len(rest) PROVE rest[i].no \in 1..n
    <3>1. m + i \in 1..k /\ rest[i] = units[m + i]
      BY <1>0, <1>3, <2>1
    <3>. QED  BY <1>1, <3>1
  <2>5. ASSUME NEW i \in 1..(Len(rest) - 1)
        PROVE  rest[i + 1] = After(requests[rest[i].no], rest[i])
    <3>1. m + i \in 1..(k - 1) /\ rest[i] = units[m + i] /\ rest[i + 1] = units[m + (i + 1)]
      BY <1>0, <1>3, <2>1
    <3>2. m + (i + 1) = (m + i) + 1
      BY <1>0, <2>1
    <3>. QED  BY <1>1, <3>1, <3>2
  <2>6. InSequence(requests, served + 1, rest)
    BY <1>1, <2>1, <2>2, <2>3, <2>4, <2>5 DEF InSequence, n
  <2>7. BodyMissing(requests, rest) <=> BodyMissing(requests, units)
    BY <2>1, <2>3 DEF BodyMissing, k
  <2>. QED  BY <1>3, <2>6, <2>7 DEF rest, k, m
<1>. QED  BY <1>0, <1>5, <1>6
-----------------------------------------------------------------------------
(***************************************************************************)
(* The inductive invariant.                                                *)
(***************************************************************************)

StreamRecord == [files : Nat, chunks : Nat]

ClientTypes ==
    /\ asked \in [Clients -> Seq(RequestRecord)] /\ due \subseteq Clients
    /\ to_server \in [Clients -> Seq(UnitRecord)] /\ received \in [Clients -> Seq(AnswerRecord)]
    /\ peer \in [Clients -> {"there", "half", "gone"}]

ConnTypes ==
    /\ recv_mbuf \in [Clients -> Seq(UnitRecord)] /\ send_mbuf \in [Clients -> Seq(AnswerRecord)]
    /\ answers \in [Clients -> Seq(AnswerRecord)]
    /\ conn \in [Clients -> {"none", "queued", "active", "closed"}]
    /\ flags \in [Clients -> SUBSET {"SEND_AND_CLOSE", "CLOSE_IMMEDIATELY"}]

StreamTypes == DOMAIN streams \subseteq Ids /\ streams \in [DOMAIN streams -> StreamRecord]

PollTypes ==
    /\ todo \subseteq Clients \cup {Listener} /\ can_read \subseteq Clients
    /\ can_write \subseteq Clients /\ pc \in {"loop", "handle", "free", "exited"}

SignalTypes == cancel \in BOOLEAN /\ last \in BOOLEAN

\* The list holds every active connection once, and nothing else.
ListIsActive ==
    /\ active_connections \in Seq(Clients)
    /\ \A i \in 1..Len(active_connections) : conn[active_connections[i]] = "active"
    /\ \A i, j \in 1..Len(active_connections) :
           active_connections[i] = active_connections[j] => i = j
    /\ \A c \in Clients :
           conn[c] = "active" => \E i \in 1..Len(active_connections) : active_connections[i] = c

\* A pass has only active connections left to visit; between two polls none.
PassIsActive ==
    /\ \A c \in Clients : c \in todo => conn[c] = "active"
    /\ pc # "handle" => todo = {}

\* What the server and the network hold of a client's requests is what has not
\* been served, in the order in which it was sent, and as long as the client
\* can receive something the server holds the answers that it has not got.
Tidy(c) ==
    /\ conn[c] # "active" => recv_mbuf[c] = <<>> /\ send_mbuf[c] = <<>>
    /\ conn[c] # "closed" =>
           /\ InSequence(asked[c], Len(answers[c]), recv_mbuf[c] \o to_server[c])
           /\ c \in due <=> BodyMissing(asked[c], recv_mbuf[c] \o to_server[c])
           /\ peer[c] # "gone" => received[c] \o send_mbuf[c] = answers[c]

IInv ==
    /\ ClientTypes /\ ConnTypes /\ StreamTypes /\ PollTypes /\ SignalTypes
    /\ ListIsActive
    /\ PassIsActive
    /\ \A c \in Clients : Tidy(c)
-----------------------------------------------------------------------------
(***************************************************************************)
(* The handlers.                                                           *)
(***************************************************************************)

\* The answers that consist of a code.
LEMMA PlainType ==
    /\ Plain(200) \in AnswerRecord /\ Plain(400) \in AnswerRecord
    /\ Plain(404) \in AnswerRecord /\ Plain(500) \in AnswerRecord
BY DEF Plain, Answer, AnswerRecord

\* A file appended or a chunk taken leaves a map of streams.
LEMMA CountedOn ==
    ASSUME StreamTypes, NEW id \in DOMAIN streams
    PROVE  /\ streams[id].chunks + 1 \in Nat
           /\ [streams EXCEPT ![id].files = @ + 1] \in [DOMAIN streams -> StreamRecord]
           /\ [streams EXCEPT ![id].chunks = @ + 1] \in [DOMAIN streams -> StreamRecord]
<1>1. streams \in [DOMAIN streams -> [files : Nat, chunks : Nat]]
  BY DEF StreamTypes, StreamRecord
<1>2. streams[id] \in [files : Nat, chunks : Nat]
  BY <1>1
<1>3. streams[id].files \in Nat /\ streams[id].chunks \in Nat
  BY <1>2
<1>4. /\ [streams[id] EXCEPT !.files = @ + 1] \in [files : Nat, chunks : Nat]
      /\ [streams[id] EXCEPT !.chunks = @ + 1] \in [files : Nat, chunks : Nat]
  BY <1>2, <1>3
<1>5. ASSUME NEW e \in [files : Nat, chunks : Nat]
      PROVE  [streams EXCEPT ![id] = e] \in [DOMAIN streams -> [files : Nat, chunks : Nat]]
  BY <1>1
<1>6. /\ [streams EXCEPT ![id].files = @ + 1] = [streams EXCEPT ![id] = [streams[id] EXCEPT !.files = @ + 1]]
      /\ [streams EXCEPT ![id].chunks = @ + 1] = [streams EXCEPT ![id] = [streams[id] EXCEPT !.chunks = @ + 1]]
  OBVIOUS
<1>7. streams[id].chunks + 1 \in Nat
  BY <1>3
<1>. QED  BY <1>4, <1>5, <1>6, <1>7 DEF StreamRecord

\* Whatever a handler does, its answer is one and the streams remain a map.
LEMMA OutcomeType ==
    ASSUME StreamTypes, NEW r \in RequestRecord, r.route # "garbage",
           NEW body \in {"file", "no file", "no JSON", "none"}, NEW o \in Outcomes(r, body)
    PROVE  /\ o.answer \in AnswerRecord
           /\ DOMAIN o.streams \subseteq Ids
           /\ o.streams \in [DOMAIN o.streams -> StreamRecord]
<1>. DEFINE Good(x) == /\ x.answer \in AnswerRecord
                       /\ DOMAIN x.streams \subseteq Ids
                       /\ x.streams \in [DOMAIN x.streams -> StreamRecord]
<1>. SUFFICES Good(o)
  OBVIOUS
<1>1. ASSUME NEW answer \in AnswerRecord PROVE Good(Outcome(answer, streams))
  BY DEF Outcome, StreamTypes
<1>2. /\ Good(Outcome(Plain(200), streams)) /\ Good(Outcome(Plain(400), streams))
      /\ Good(Outcome(Plain(404), streams)) /\ Good(Outcome(Plain(500), streams))
  <2>. HIDE DEF Good
  <2>. QED  BY ZenonT(60), <1>1, PlainType
<1>3. ASSUME NEW answer \in AnswerRecord, NEW new \in [DOMAIN streams -> StreamRecord]
      PROVE  Good(Outcome(answer, new))
  <2>1. DOMAIN new = DOMAIN streams
    OBVIOUS
  <2>. QED  BY <2>1 DEF Outcome, StreamTypes
<1>. HIDE DEF Good
<1>4. r.route \in {"index", "create", "append", "advance", "destroy", "none"}
  BY DEF RequestRecord
<1>5. CASE r.route = "index"
  <2>1. o = Outcome(Plain(200), streams)
    BY <1>5 DEF Outcomes, IndexOutcomes
  <2>. QED  BY <1>2, <2>1
<1>6. CASE r.route = "create"
  <2>1. o \in CreateOutcomes
    BY <1>6 DEF Outcomes
  <2>2. PICK id \in Ids : o = Outcome(Answer(200, id, 0), Emplaced(id))
    BY <2>1 DEF CreateOutcomes
  <2>3. Answer(200, id, 0) \in AnswerRecord
    BY DEF Answer, AnswerRecord
  <2>4. NewStream \in StreamRecord
    BY DEF NewStream, StreamRecord
  <2>5. /\ DOMAIN Emplaced(id) = DOMAIN streams \cup {id}
        /\ Emplaced(id) \in [DOMAIN streams \cup {id} -> StreamRecord]
    BY <2>4 DEF Emplaced, StreamTypes
  <2>. QED  BY <2>2, <2>3, <2>5 DEF Outcome, StreamTypes, Good
<1>7. CASE r.route = "append"
  <2>1. o \in AppendOutcomes(r.id, body)
    BY <1>7 DEF Outcomes
  <2>2. CASE r.id \notin DOMAIN streams
    <3>1. o = Outcome(Plain(404), streams)
      BY <2>1, <2>2 DEF AppendOutcomes, NotFound
    <3>. QED  BY <1>2, <3>1
  <2>3. CASE r.id \in DOMAIN streams /\ body = "file"
    <3>. DEFINE new == [streams EXCEPT ![r.id].files = @ + 1]
    <3>1. o = Outcome(Plain(200), new)
      BY <2>1, <2>3 DEF AppendOutcomes
    <3>2. new \in [DOMAIN streams -> StreamRecord]
      BY <2>3, CountedOn
    <3>3. Plain(200) \in AnswerRecord
      BY PlainType
    <3>. QED  BY <1>3, <3>1, <3>2, <3>3
  <2>4. CASE r.id \in DOMAIN streams /\ body = "no file"
    <3>1. o = Outcome(Plain(400), streams)
      BY <2>1, <2>4 DEF AppendOutcomes
    <3>. QED  BY <1>2, <3>1
  <2>5. CASE r.id \in DOMAIN streams /\ body \in {"none", "no JSON"}
    <3>1. o = Outcome(Plain(500), streams)
      BY <2>1, <2>5 DEF AppendOutcomes
    <3>. QED  BY <1>2, <3>1
  <2>. QED  BY <2>2, <2>3, <2>4, <2>5
<1>8. CASE r.route = "advance"
  <2>1. o \in AdvanceOutcomes(r.id)
    BY <1>8 DEF Outcomes
  <2>2. CASE r.id \in DOMAIN streams
    <3>. DEFINE new == [streams EXCEPT ![r.id].chunks = @ + 1]
                next == Answer(200, NoId, streams[r.id].chunks + 1)
    <3>1. o = Outcome(next, new) \/ o = Outcome(Plain(500), streams)
      BY <2>1, <2>2 DEF AdvanceOutcomes
    <3>2. new \in [DOMAIN streams -> StreamRecord]
      BY <2>2, CountedOn
    <3>3. next \in AnswerRecord
      <4>1. streams[r.id].chunks + 1 \in Nat
        BY <2>2, CountedOn
      <4>. QED  BY <4>1 DEF Answer, AnswerRecord
    <3>. HIDE DEF new, next
    <3>. QED  BY ZenonT(60), <1>2, <1>3, <3>1, <3>2, <3>3
  <2>3. CASE r.id \notin DOMAIN streams
    <3>1. o = Outcome(Plain(404), streams)
      BY <2>1, <2>3 DEF AdvanceOutcomes, NotFound
    <3>. QED  BY <1>2, <3>1
  <2>. QED  BY <2>2, <2>3
<1>9. CASE r.route = "destroy"
  <2>1. o \in DestroyOutcomes(r.id)
    BY <1>9 DEF Outcomes
  <2>2. CASE r.id \in DOMAIN streams
    <3>. DEFINE new == [i \in DOMAIN streams \ {r.id} |-> streams[i]]
    <3>1. o = Outcome(Plain(200), new)
      BY <2>1, <2>2 DEF DestroyOutcomes
    <3>2. /\ DOMAIN new = DOMAIN streams \ {r.id}
          /\ new \in [DOMAIN streams \ {r.id} -> StreamRecord]
      BY DEF StreamTypes
    <3>3. Plain(200) \in AnswerRecord
      BY PlainType
    <3>. HIDE DEF new
    <3>. QED  BY <3>1, <3>2, <3>3 DEF Outcome, StreamTypes, Good
  <2>3. CASE r.id \notin DOMAIN streams
    <3>1. o = Outcome(Plain(404), streams)
      BY <2>1, <2>3 DEF DestroyOutcomes, NotFound
    <3>. QED  BY <1>2, <3>1
  <2>. QED  BY <2>2, <2>3
<1>10. CASE r.route = "none"
  <2>1. o = Outcome(Plain(404), streams)
    BY <1>10 DEF Outcomes, NotFound
  <2>. QED  BY <1>2, <2>1
<1>. QED  BY <1>4, <1>5, <1>6, <1>7, <1>8, <1>9, <1>10

\* What the body of a request may be taken for.
Taken(r) == {r.body, "none", "no JSON"}

\* What Service allows, or, for a body that is not the one that was sent, a
\* refusal without effect.
Allowed(r, body, o) ==
    \/ <<o.answer, o.streams>> \in S!Outcomes(r)
    \/ body # r.body /\ o.answer = S!Plain(500) /\ o.streams = streams

\* A handler does nothing that Service does not allow.
LEMMA OutcomeAllowed ==
    ASSUME NEW r \in RequestRecord, r.route # "garbage",
           NEW body \in Taken(r), NEW o \in Outcomes(r, body)
    PROVE  Allowed(r, body, o)
<1>. USE DEF Taken, Allowed
<1>. DEFINE given == r.id \in DOMAIN streams
<1>0. /\ r.route \in {"index", "create", "append", "advance", "destroy", "none"}
      /\ r.body \in {"file", "no file", "no JSON", "none"}
  BY DEF RequestRecord
<1>1. \A code : Plain(code) = S!Plain(code)
  BY DEF Plain, Answer, S!Plain, S!Answer
<1>2. \A code, id, chunk : Answer(code, id, chunk) = S!Answer(code, id, chunk)
  BY DEF Answer, S!Answer
<1>3. ASSUME NEW answer, NEW new, o = Outcome(answer, new)
      PROVE  o.answer = answer /\ o.streams = new
  BY <1>3 DEF Outcome
<1>n. ASSUME o = Outcome(Plain(404), streams)
      PROVE  o.answer = S!Plain(404) /\ o.streams = streams
  BY ZenonT(60), <1>1, <1>3, <1>n
<1>4. CASE r.route = "index"
  <2>1. o = Outcome(Plain(200), streams)
    BY <1>4 DEF Outcomes, IndexOutcomes
  <2>2. S!Outcomes(r) = {<<S!Plain(200), streams>>}
    BY <1>4 DEF S!Outcomes
  <2>. QED  BY <1>1, <1>3, <2>1, <2>2
<1>5. CASE r.route = "create"
  <2>1. o \in CreateOutcomes
    BY <1>5 DEF Outcomes
  <2>2. PICK id \in Ids : o = Outcome(Answer(200, id, 0), Emplaced(id))
    BY <2>1 DEF CreateOutcomes
  <2>3. S!Outcomes(r) = {<<S!Answer(200, i, 0), Emplaced(i)>> : i \in Ids}
    BY <1>5 DEF S!Outcomes, Emplaced, NewStream, S!NewStream
  <2>4. o.answer = S!Answer(200, id, 0) /\ o.streams = Emplaced(id)
    BY <1>2, <1>3, <2>2
  <2>. QED  BY <2>3, <2>4
<1>6. CASE r.route = "append"
  <2>1. o \in AppendOutcomes(r.id, body)
    BY <1>6 DEF Outcomes
  <2>2. CASE ~given
    <3>1. o = Outcome(Plain(404), streams)
      BY <2>1, <2>2 DEF AppendOutcomes, NotFound
    <3>2. S!Outcomes(r) = {<<S!Plain(404), streams>>}
      BY ZenonT(60), <1>6, <2>2 DEF S!Outcomes
    <3>3. o.answer = S!Plain(404) /\ o.streams = streams
      BY <1>n, <3>1
    <3>. QED  BY <3>2, <3>3
  <2>3. CASE given /\ body = "file"
    <3>1. o = Outcome(Plain(200), [streams EXCEPT ![r.id].files = @ + 1])
      BY <2>1, <2>3 DEF AppendOutcomes
    <3>2. S!Outcomes(r) = {<<S!Plain(200), [streams EXCEPT ![r.id].files = @ + 1]>>}
      BY <1>6, <2>3 DEF S!Outcomes
    <3>. QED  BY <1>1, <1>3, <3>1, <3>2
  <2>4. CASE given /\ body = "no file"
    <3>1. o = Outcome(Plain(400), streams)
      BY <2>1, <2>4 DEF AppendOutcomes
    <3>2. o.answer = S!Plain(400) /\ o.streams = streams
      BY <1>1, <1>3, <3>1
    <3>3. r.body = "no file"
      BY <2>4
    <3>4. S!Outcomes(r) = {<<S!Plain(400), streams>>}
      BY ZenonT(60), <1>6, <2>4, <3>3 DEF S!Outcomes
    <3>. QED  BY <3>2, <3>4
  <2>5. CASE given /\ body \in {"none", "no JSON"}
    <3>1. o = Outcome(Plain(500), streams)
      BY <2>1, <2>5 DEF AppendOutcomes
    <3>2. o.answer = S!Plain(500) /\ o.streams = streams
      BY ZenonT(60), <1>1, <1>3, <3>1
    <3>3. CASE body = r.body
      <4>1. S!Outcomes(r) = {<<S!Plain(500), streams>>}
        BY ZenonT(60), <1>6, <2>5, <3>3 DEF S!Outcomes
      <4>. QED  BY <3>2, <4>1
    <3>. QED  BY <3>2, <3>3
  <2>. QED  BY <1>0, <2>2, <2>3, <2>4, <2>5
<1>7. CASE r.route = "advance"
  <2>1. o \in AdvanceOutcomes(r.id)
    BY <1>7 DEF Outcomes
  <2>2. CASE ~given
    <3>1. o = Outcome(Plain(404), streams)
      BY <2>1, <2>2 DEF AdvanceOutcomes, NotFound
    <3>2. S!Outcomes(r) = {<<S!Plain(404), streams>>}
      BY ZenonT(60), <1>7, <2>2 DEF S!Outcomes
    <3>3. o.answer = S!Plain(404) /\ o.streams = streams
      BY <1>n, <3>1
    <3>. QED  BY <3>2, <3>3
  <2>3. CASE given
    <3>. DEFINE new == [streams EXCEPT ![r.id].chunks = @ + 1]
                n == streams[r.id].chunks + 1
    <3>1. o = Outcome(Answer(200, NoId, n), new) \/ o = Outcome(Plain(500), streams)
      BY <2>1, <2>3 DEF AdvanceOutcomes
    <3>3. \/ o.answer = S!Answer(200, NoId, n) /\ o.streams = new
          \/ o.answer = S!Plain(500) /\ o.streams = streams
      <4>. HIDE DEF new, n
      <4>. QED  BY <1>1, <1>2, <1>3, <3>1
    <3>4. S!Outcomes(r) = {<<S!Answer(200, NoId, n), new>>, <<S!Plain(500), streams>>}
      BY ZenonT(60), <1>7, <2>3 DEF S!Outcomes
    <3>. HIDE DEF new, n
    <3>. QED  BY <3>3, <3>4
  <2>. QED  BY <2>2, <2>3
<1>8. CASE r.route = "destroy"
  <2>1. o \in DestroyOutcomes(r.id)
    BY <1>8 DEF Outcomes
  <2>2. CASE ~given
    <3>1. o = Outcome(Plain(404), streams)
      BY <2>1, <2>2 DEF DestroyOutcomes, NotFound
    <3>2. S!Outcomes(r) = {<<S!Plain(404), streams>>}
      BY ZenonT(60), <1>8, <2>2 DEF S!Outcomes
    <3>3. o.answer = S!Plain(404) /\ o.streams = streams
      BY <1>n, <3>1
    <3>. QED  BY <3>2, <3>3
  <2>3. CASE given
    <3>. DEFINE new == [i \in DOMAIN streams \ {r.id} |-> streams[i]]
    <3>1. o = Outcome(Plain(200), new)
      BY <2>1, <2>3 DEF DestroyOutcomes
    <3>2. S!Outcomes(r) = {<<S!Plain(200), new>>}
      BY <1>8, <2>3 DEF S!Outcomes
    <3>. HIDE DEF new
    <3>. QED  BY <1>1, <1>3, <3>1, <3>2
  <2>. QED  BY <2>2, <2>3
<1>9. CASE r.route = "none"
  <2>1. o = Outcome(Plain(404), streams)
    BY <1>9 DEF Outcomes, NotFound
  <2>2. S!Outcomes(r) = {<<S!Plain(404), streams>>}
    BY ZenonT(60), <1>9 DEF S!Outcomes
  <2>3. o.answer = S!Plain(404) /\ o.streams = streams
    BY <1>n, <2>1
  <2>. QED  BY <2>2, <2>3
<1>. QED  BY <1>0, <1>4, <1>5, <1>6, <1>7, <1>8, <1>9
-----------------------------------------------------------------------------
(***************************************************************************)
(* What a step leaves alone.                                               *)
(***************************************************************************)

\* A client of whom nothing has changed stays tidy.
LEMMA SameTidy ==
    ASSUME NEW d \in Clients, Tidy(d), asked'[d] = asked[d], answers'[d] = answers[d],
           recv_mbuf'[d] = recv_mbuf[d], to_server'[d] = to_server[d],
           send_mbuf'[d] = send_mbuf[d], received'[d] = received[d],
           peer'[d] = peer[d], conn'[d] = conn[d], d \in due' <=> d \in due
    PROVE  Tidy(d)'
BY DEF Tidy

\* A list of which nothing has changed is still the list of the active connections.
LEMMA SameList ==
    ASSUME ListIsActive, PassIsActive, UNCHANGED active_connections,
           \A d \in Clients : conn'[d] = "active" <=> conn[d] = "active",
           \A d \in Clients : d \in todo' => d \in todo,
           pc' # "handle" => todo' = {}
    PROVE  ListIsActive' /\ PassIsActive'
<1>1. ListIsActive'
  <2>1. \A i \in 1..Len(active_connections) : active_connections[i] \in Clients
    BY DEF ListIsActive
  <2>2. \A i \in 1..Len(active_connections) : conn'[active_connections[i]] = "active"
    BY <2>1 DEF ListIsActive
  <2>. QED  BY <2>2 DEF ListIsActive
<1>2. PassIsActive'
  BY DEF PassIsActive
<1>. QED  BY <1>1, <1>2

\* No connection ends as long as none is closed.
LEMMA SameOver ==
    ASSUME \A d \in Clients : conn'[d] = "closed" <=> conn[d] = "closed"
    PROVE  [d \in Clients |-> conn'[d] = "closed"] = [d \in Clients |-> conn[d] = "closed"]
<1>1. \A d \in Clients : (conn'[d] = "closed") = (conn[d] = "closed")
  OBVIOUS
<1>. QED  BY Zenon, <1>1

-----------------------------------------------------------------------------
(***************************************************************************)
(* The clients.                                                            *)
(***************************************************************************)

\* A client that begins a request asks in Service.
LEMMA AskStep ==
    ASSUME IInv, NEW c \in Clients, Ask(c)
    PROVE  IInv' /\ S!Ask(c)
<1>. USE DEF Ask
<1>0. /\ ClientTypes /\ ConnTypes /\ StreamTypes /\ PollTypes /\ SignalTypes
      /\ ListIsActive /\ PassIsActive /\ \A d \in Clients : Tidy(d)
  BY DEF IInv
<1>1. PICK script \in Scripts[c] :
        /\ Len(script) > Len(asked[c])
        /\ asked' = [asked EXCEPT ![c] = Append(@, script[Len(asked[c]) + 1])]
        /\ due' = IF script[Len(asked[c]) + 1].body = "none" THEN due ELSE due \cup {c}
  OBVIOUS
<1>. DEFINE k == Len(asked[c]) + 1
            r == script[k]
            head == Unit(k, "head")
            P == recv_mbuf[c] \o to_server[c]
<1>2. asked[c] \in Seq(RequestRecord) /\ k \in Nat
  BY <1>0 DEF ClientTypes
<1>3. script \in Seq(RequestRecord) /\ r \in RequestRecord /\ r \in Range(script)
  <2>1. script \in Seq(RequestRecord)
    BY ServerAssumption DEF ServerAssumption
  <2>2. k \in 1..Len(script)
    BY <1>1, <1>2, <2>1
  <2>. QED  BY <2>1, <2>2 DEF Range
<1>4. head \in UnitRecord
  BY <1>2 DEF Unit, UnitRecord
<1>5. recv_mbuf[c] \in Seq(UnitRecord) /\ to_server[c] \in Seq(UnitRecord)
  BY <1>0 DEF ClientTypes, ConnTypes
<1>6. P \in Seq(UnitRecord) /\ recv_mbuf[c] \o Append(to_server[c], head) = Append(P, head)
  <2>. HIDE DEF head
  <2>1. \A s, t \in Seq(UnitRecord), e \in UnitRecord :
            s \o t \in Seq(UnitRecord) /\ s \o Append(t, e) = Append(s \o t, e)
    BY AppendOver
  <2>. QED  BY Zenon, <1>4, <1>5, <2>1
<1>7. answers[c] \in Seq(AnswerRecord) /\ Len(answers[c]) \in Nat
  BY <1>0 DEF ConnTypes
<1>. USE <1>1
<1>a. ClientTypes' /\ ConnTypes' /\ StreamTypes' /\ PollTypes' /\ SignalTypes'
  <2>1. asked' \in [Clients -> Seq(RequestRecord)]
    BY <1>0, <1>2, <1>3 DEF ClientTypes
  <2>2. to_server' \in [Clients -> Seq(UnitRecord)]
    BY <1>0, <1>4, <1>5 DEF ClientTypes
  <2>3. due' \subseteq Clients
    BY <1>0 DEF ClientTypes
  <2>4. conn' \in [Clients -> {"none", "queued", "active", "closed"}]
    BY <1>0 DEF ConnTypes
  <2>5. SignalTypes'
    BY Zenon, <1>0 DEF SignalTypes, poll
  <2>6. ClientTypes' /\ ConnTypes'
    BY <1>0, <2>1, <2>2, <2>3, <2>4 DEF ClientTypes, ConnTypes
  <2>. QED  BY <1>0, <2>5, <2>6 DEF StreamTypes, PollTypes, poll
<1>b. \A d \in Clients : conn'[d] = IF d = c /\ conn[c] = "none" THEN "queued" ELSE conn[d]
  BY <1>0 DEF ConnTypes
<1>c. ListIsActive' /\ PassIsActive'
  <2>1. \A d \in Clients : conn'[d] = "active" <=> conn[d] = "active"
    BY <1>b
  <2>. QED  BY <1>0, <2>1, SameList DEF poll, PassIsActive
<1>d. ASSUME NEW d \in Clients PROVE Tidy(d)'
  <2>1. CASE d # c
    <3>1. /\ asked'[d] = asked[d] /\ to_server'[d] = to_server[d] /\ conn'[d] = conn[d]
          /\ d \in due' <=> d \in due
      BY <1>0, <1>b, <2>1 DEF ClientTypes
    <3>. QED  BY <1>0, <3>1, SameTidy
  <2>2. CASE d = c
    <3>1. asked'[c] = Append(asked[c], r) /\ to_server'[c] = Append(to_server[c], head)
      BY <1>0 DEF ClientTypes
    <3>2. /\ InSequence(asked[c], Len(answers[c]), P) /\ ~BodyMissing(asked[c], P)
          /\ peer[c] # "gone" => received[c] \o send_mbuf[c] = answers[c]
          /\ conn[c] # "active" => recv_mbuf[c] = <<>> /\ send_mbuf[c] = <<>>
      BY <1>0 DEF Tidy
    <3>. HIDE DEF P, r, head, Ask
    <3>3. /\ InSequence(Append(asked[c], r), Len(answers[c]), Append(P, head))
          /\ BodyMissing(Append(asked[c], r), Append(P, head)) <=> r.body # "none"
      BY <1>2, <1>3, <1>6, <1>7, <3>2, NewHead DEF head, k
    <3>4. recv_mbuf' = recv_mbuf /\ send_mbuf' = send_mbuf /\ answers' = answers
          /\ received' = received /\ peer' = peer
      BY DEF Ask
    <3>5. recv_mbuf'[c] \o to_server'[c] = Append(P, head)
      BY <1>6, <3>1, <3>4
    <3>6. c \in due' <=> r.body # "none"
      BY DEF Ask, r, k
    <3>7. conn'[c] # "active" => conn[c] # "active"
      BY <1>b
    <3>. QED  BY <2>2, <3>1, <3>2, <3>3, <3>4, <3>5, <3>6, <3>7 DEF Tidy
  <2>. QED  BY <2>1, <2>2
<1>e. S!Ask(c)
  <2>1. r \in UNION {UNION {Range(s) : s \in Scripts[x]} : x \in Clients}
    BY <1>3
  <2>2. asked' = [asked EXCEPT ![c] = Append(@, r)]
    OBVIOUS
  <2>3. \A d \in Clients : conn'[d] = "closed" <=> conn[d] = "closed"
    BY <1>b
  <2>4. (pc' # "exited") = (pc # "exited")
    OBVIOUS
  <2>5. UNCHANGED <<answers, received, streams>>
    OBVIOUS
  <2>. HIDE DEF r, Ask
  <2>6. [d \in Clients |-> conn'[d] = "closed"] = [d \in Clients |-> conn[d] = "closed"]
    BY <2>3, SameOver
  <2>. QED  BY Zenon, <2>1, <2>2, <2>4, <2>5, <2>6 DEF S!Ask
<1>. QED  BY <1>a, <1>c, <1>d, <1>e DEF IInv

\* The body of a request changes nothing in Service.
LEMMA SendBodyStep ==
    ASSUME IInv, NEW c \in Clients, SendBody(c)
    PROVE  IInv' /\ UNCHANGED S!vars
<1>. USE DEF SendBody
<1>0. /\ ClientTypes /\ ConnTypes /\ StreamTypes /\ PollTypes /\ SignalTypes
      /\ ListIsActive /\ PassIsActive /\ \A d \in Clients : Tidy(d)
  BY DEF IInv
<1>. DEFINE body == Unit(Len(asked[c]), "body")
            P == recv_mbuf[c] \o to_server[c]
<1>1. asked[c] \in Seq(RequestRecord) /\ answers[c] \in Seq(AnswerRecord)
  BY <1>0 DEF ClientTypes, ConnTypes
<1>2. recv_mbuf[c] \in Seq(UnitRecord) /\ to_server[c] \in Seq(UnitRecord)
  BY <1>0 DEF ClientTypes, ConnTypes
<1>3. P \in Seq(UnitRecord)
  BY <1>2, ConcatProperties
<1>4. /\ InSequence(asked[c], Len(answers[c]), P) /\ BodyMissing(asked[c], P)
      /\ peer[c] # "gone" => received[c] \o send_mbuf[c] = answers[c]
      /\ conn[c] # "active" => recv_mbuf[c] = <<>> /\ send_mbuf[c] = <<>>
  BY <1>0 DEF Tidy
<1>5. body \in UnitRecord
  <2>. HIDE DEF P
  <2>1. Len(P) \in 1..Len(P)
    BY <1>3, <1>4 DEF BodyMissing
  <2>2. P[Len(P)].no = Len(asked[c]) /\ P[Len(P)].no \in 1..Len(asked[c])
    BY <1>4, <2>1 DEF InSequence, BodyMissing
  <2>. QED  BY <1>1, <2>2 DEF Unit, UnitRecord
<1>6. recv_mbuf[c] \o Append(to_server[c], body) = Append(P, body)
  <2>. HIDE DEF body
  <2>1. \A s, t \in Seq(UnitRecord), e \in UnitRecord : s \o Append(t, e) = Append(s \o t, e)
    BY AppendOver
  <2>. QED  BY Zenon, <1>2, <1>5, <2>1
<1>7. InSequence(asked[c], Len(answers[c]), Append(P, body)) /\ ~BodyMissing(asked[c], Append(P, body))
  <2>1. Len(answers[c]) \in Nat
    BY <1>1
  <2>. HIDE DEF P
  <2>. QED  BY <1>1, <1>3, <1>4, <2>1, NewBody
<1>a. ClientTypes' /\ ConnTypes' /\ StreamTypes' /\ PollTypes' /\ SignalTypes'
  <2>1. to_server' \in [Clients -> Seq(UnitRecord)]
    BY <1>0, <1>2, <1>5 DEF ClientTypes
  <2>2. due' \subseteq Clients
    BY <1>0 DEF ClientTypes
  <2>3. SignalTypes'
    BY Zenon, <1>0 DEF SignalTypes, poll
  <2>4. ClientTypes' /\ ConnTypes'
    BY <1>0, <2>1, <2>2 DEF ClientTypes, ConnTypes, connection
  <2>. QED  BY <1>0, <2>3, <2>4 DEF StreamTypes, PollTypes, poll
<1>b. ListIsActive' /\ PassIsActive'
  BY <1>0, SameList DEF poll, connection, PassIsActive
<1>c. ASSUME NEW d \in Clients PROVE Tidy(d)'
  <2>1. CASE d # c
    <3>1. to_server'[d] = to_server[d] /\ (d \in due' <=> d \in due)
      BY <1>0, <2>1 DEF ClientTypes
    <3>. QED  BY <1>0, <3>1, SameTidy DEF connection
  <2>2. CASE d = c
    <3>1. to_server'[c] = Append(to_server[c], body) /\ c \notin due'
      BY <1>0 DEF ClientTypes
    <3>2. /\ recv_mbuf' = recv_mbuf /\ send_mbuf' = send_mbuf /\ answers' = answers
          /\ received' = received /\ peer' = peer /\ asked' = asked /\ conn' = conn
      BY DEF connection
    <3>. HIDE DEF SendBody, P, body
    <3>3. recv_mbuf'[c] \o to_server'[c] = Append(P, body)
      BY <1>6, <3>1, <3>2
    <3>. QED  BY <1>4, <1>7, <2>2, <3>1, <3>2, <3>3 DEF Tidy
  <2>. QED  BY <2>1, <2>2
<1>d. UNCHANGED S!vars
  BY DEF S!vars, connection
<1>. QED  BY <1>a, <1>b, <1>c, <1>d DEF IInv

\* Nor does a client that hangs up.
LEMMA HangUpStep ==
    ASSUME IInv, NEW c \in Clients, HangUp(c)
    PROVE  IInv' /\ UNCHANGED S!vars
<1>. USE DEF HangUp
<1>0. /\ ClientTypes /\ ConnTypes /\ StreamTypes /\ PollTypes /\ SignalTypes
      /\ ListIsActive /\ PassIsActive /\ \A d \in Clients : Tidy(d)
  BY DEF IInv
<1>a. ClientTypes' /\ ConnTypes' /\ StreamTypes' /\ PollTypes' /\ SignalTypes'
  <2>1. SignalTypes'
    BY Zenon, <1>0 DEF SignalTypes, poll
  <2>2. ClientTypes'
    BY <1>0 DEF ClientTypes
  <2>3. ConnTypes'
    BY <1>0 DEF ConnTypes, connection
  <2>. QED  BY <1>0, <2>1, <2>2, <2>3 DEF StreamTypes, PollTypes, poll
<1>b. ListIsActive' /\ PassIsActive'
  BY <1>0, SameList DEF poll, connection, PassIsActive
<1>c. ASSUME NEW d \in Clients PROVE Tidy(d)'
  <2>1. peer'[d] # "gone" => peer[d] # "gone"
    BY <1>0 DEF ClientTypes
  <2>2. /\ recv_mbuf' = recv_mbuf /\ send_mbuf' = send_mbuf /\ answers' = answers
        /\ received' = received /\ to_server' = to_server /\ asked' = asked /\ conn' = conn
        /\ due' = due
    BY DEF connection
  <2>. HIDE DEF HangUp
  <2>. QED  BY <1>0, <2>1, <2>2 DEF Tidy
<1>d. UNCHANGED S!vars
  BY DEF S!vars, connection
<1>. QED  BY <1>a, <1>b, <1>c, <1>d DEF IInv

-----------------------------------------------------------------------------
(***************************************************************************)
(* The pass over the connections.                                          *)
(***************************************************************************)

\* The choice of the connections to visit changes nothing in Service.
LEMMA SelectStep ==
    ASSUME IInv, Select
    PROVE  IInv' /\ UNCHANGED S!vars
<1>. USE DEF Select
<1>0. /\ ClientTypes /\ ConnTypes /\ StreamTypes /\ PollTypes /\ SignalTypes
      /\ ListIsActive /\ PassIsActive /\ \A d \in Clients : Tidy(d)
  BY DEF IInv
<1>1. /\ can_read' \subseteq Active /\ can_write' \subseteq Active
      /\ todo' \subseteq Active \cup {Listener}
  OBVIOUS
<1>2. Active \subseteq Clients /\ \A d \in Active : conn[d] = "active"
  BY DEF Active
<1>3. Listener \notin Clients
  BY ServerAssumption DEF ServerAssumption
<1>a. ClientTypes' /\ ConnTypes' /\ StreamTypes' /\ PollTypes' /\ SignalTypes'
  <2>1. SignalTypes'
    BY Zenon, <1>0 DEF SignalTypes
  <2>2. PollTypes'
    BY <1>0, <1>1, <1>2 DEF PollTypes
  <2>. QED  BY <1>0, <2>1, <2>2 DEF ClientTypes, ConnTypes, StreamTypes, clients, connection
<1>b. ListIsActive' /\ PassIsActive'
  BY <1>0, <1>1, <1>2, <1>3 DEF ListIsActive, PassIsActive, connection
<1>c. ASSUME NEW d \in Clients PROVE Tidy(d)'
  BY <1>0, SameTidy DEF clients, connection
<1>d. UNCHANGED S!vars
  BY DEF S!vars, clients, connection
<1>. QED  BY <1>a, <1>b, <1>c, <1>d DEF IInv

\* Nor does another active connection.
LEMMA AcceptStep ==
    ASSUME IInv, Accept
    PROVE  IInv' /\ UNCHANGED S!vars
<1>. USE DEF Accept
<1>0. /\ ClientTypes /\ ConnTypes /\ StreamTypes /\ PollTypes /\ SignalTypes
      /\ ListIsActive /\ PassIsActive /\ \A d \in Clients : Tidy(d)
  BY DEF IInv
<1>1. PICK c \in Clients :
        /\ conn[c] = "queued"
        /\ conn' = [conn EXCEPT ![c] = "active"]
        /\ active_connections' = <<c>> \o active_connections
  BY DEF Queued
<1>2. \A d \in Clients : conn'[d] = IF d = c THEN "active" ELSE conn[d]
  BY <1>0, <1>1 DEF ConnTypes
<1>3. pc = "handle"
  BY DEF Visit
<1>a. ClientTypes' /\ ConnTypes' /\ StreamTypes' /\ PollTypes' /\ SignalTypes'
  <2>1. SignalTypes'
    BY Zenon, <1>0 DEF SignalTypes
  <2>2. conn' \in [Clients -> {"none", "queued", "active", "closed"}]
    BY <1>0, <1>1 DEF ConnTypes
  <2>3. ConnTypes'
    BY <1>0, <2>2 DEF ConnTypes
  <2>. QED  BY <1>0, <2>1, <2>3 DEF ClientTypes, StreamTypes, PollTypes, clients
<1>b. ListIsActive'
  <2>. DEFINE s == active_connections
              t == <<c>> \o s
  <2>0. s \in Seq(Clients) /\ Len(s) \in Nat /\ \A i \in 1..Len(s) : s[i] \in Clients
    BY <1>0 DEF ListIsActive
  <2>1. /\ t \in Seq(Clients) /\ Len(t) = Len(s) + 1 /\ t[1] = c
        /\ \A i \in 2..(Len(s) + 1) : t[i] = s[i - 1]
    BY <2>0
  <2>2. /\ \A i \in 1..Len(s) : conn[s[i]] = "active"
        /\ \A i, j \in 1..Len(s) : s[i] = s[j] => i = j
        /\ \A d \in Clients : conn[d] = "active" => \E i \in 1..Len(s) : s[i] = d
    BY <1>0 DEF ListIsActive
  <2>. HIDE DEF s, t, Accept
  <2>3. ASSUME NEW i \in 1..(Len(s) + 1) PROVE conn'[t[i]] = "active"
    <3>1. CASE i = 1
      BY <1>2, <2>1, <3>1
    <3>2. CASE i # 1
      <4>1. i - 1 \in 1..Len(s) /\ t[i] = s[i - 1]
        BY <2>0, <2>1, <3>2
      <4>. QED  BY <1>2, <2>0, <2>2, <4>1
    <3>. QED  BY <3>1, <3>2
  <2>4. \A i \in 1..Len(s) : s[i] # c
    BY <1>1, <2>2
  <2>5. ASSUME NEW i \in 1..(Len(s) + 1), NEW j \in 1..(Len(s) + 1), t[i] = t[j]
        PROVE  i = j
    <3>1. i # 1 => i - 1 \in 1..Len(s) /\ t[i] = s[i - 1]
      BY <2>0, <2>1
    <3>2. j # 1 => j - 1 \in 1..Len(s) /\ t[j] = s[j - 1]
      BY <2>0, <2>1
    <3>3. CASE i = 1 /\ j # 1
      BY <2>1, <2>4, <2>5, <3>2, <3>3
    <3>4. CASE i # 1 /\ j = 1
      BY <2>1, <2>4, <2>5, <3>1, <3>4
    <3>5. CASE i # 1 /\ j # 1
      <4>1. i - 1 = j - 1
        BY <2>2, <2>5, <3>1, <3>2, <3>5
      <4>. QED  BY <4>1
    <3>. QED  BY <3>3, <3>4, <3>5
  <2>6. ASSUME NEW d \in Clients, conn'[d] = "active"
        PROVE  \E i \in 1..(Len(s) + 1) : t[i] = d
    <3>1. CASE d = c
      <4>1. 1 \in 1..(Len(s) + 1)
        BY <2>0
      <4>. QED  BY <2>1, <3>1, <4>1
    <3>2. CASE d # c
      <4>1. PICK i \in 1..Len(s) : s[i] = d
        BY <1>2, <2>2, <2>6, <3>2
      <4>2. i + 1 \in 2..(Len(s) + 1) /\ (i + 1) - 1 = i
        BY <2>0
      <4>3. t[i + 1] = s[i]
        BY <2>1, <4>2
      <4>4. i + 1 \in 1..(Len(s) + 1)
        BY <2>0
      <4>. QED  BY <4>1, <4>3, <4>4
    <3>. QED  BY <3>1, <3>2
  <2>7. active_connections' = t /\ Len(t) = Len(s) + 1
    BY <1>1, <2>1 DEF t, s
  <2>. QED  BY <2>1, <2>3, <2>5, <2>6, <2>7 DEF ListIsActive
<1>c. PassIsActive'
  BY DEF PassIsActive
<1>d. ASSUME NEW d \in Clients PROVE Tidy(d)'
  <2>1. CASE d # c
    <3>1. conn'[d] = conn[d]
      BY <1>2, <2>1
    <3>. QED  BY <1>0, <3>1, SameTidy DEF clients
  <2>2. CASE d = c
    <3>1. conn'[d] = "active" /\ conn[d] = "queued"
      BY <1>1, <1>2, <2>2
    <3>2. /\ recv_mbuf' = recv_mbuf /\ send_mbuf' = send_mbuf /\ answers' = answers
          /\ received' = received /\ to_server' = to_server /\ asked' = asked /\ peer' = peer
          /\ due' = due
      BY DEF clients
    <3>. HIDE DEF Accept
    <3>. QED  BY <1>0, <3>1, <3>2 DEF Tidy
  <2>. QED  BY <2>1, <2>2
<1>e. UNCHANGED S!vars
  <2>1. \A d \in Clients : conn'[d] = "closed" <=> conn[d] = "closed"
    BY <1>1, <1>2
  <2>2. [d \in Clients |-> conn'[d] = "closed"] = [d \in Clients |-> conn[d] = "closed"]
    BY <2>1, SameOver
  <2>3. UNCHANGED <<asked, answers, received, streams, pc>>
    BY DEF clients
  <2>4. (pc' # "exited") = (pc # "exited")
    BY <2>3
  <2>. QED  BY Zenon, <2>2, <2>3, <2>4 DEF S!vars
<1>. QED  BY <1>a, <1>b, <1>c, <1>d, <1>e DEF IInv

\* Only active connections are visited.
LEMMA Visited ==
    ASSUME IInv, NEW c \in Clients, Visit(c)
    PROVE  conn[c] = "active" /\ pc = "handle"
BY DEF IInv, PassIsActive, Visit

\* A request takes effect in Service: the next one of the client, if it is
\* open, and the answer is the next one.
Effect(c) ==
    \E outcome \in S!Outcomes(asked[c][Len(answers[c]) + 1]) :
        /\ answers' = [answers EXCEPT ![c] = Append(@, outcome[1])]
        /\ streams' = outcome[2]

\* Receiving leaves everything in order, and serves the next request or none.
LEMMA ReceiveStep ==
    ASSUME IInv, NEW c \in Clients, conn[c] = "active", NEW n \in 1..Len(to_server[c]),
           to_server' = [to_server EXCEPT ![c] = SubSeq(@, n + 1, Len(@))],
           HttpReceive(c, recv_mbuf[c] \o SubSeq(to_server[c], 1, n)),
           UNCHANGED <<asked, due, received, peer, conn>>
    PROVE  /\ ClientTypes' /\ ConnTypes' /\ StreamTypes'
           /\ \A d \in Clients : Tidy(d)'
           /\ \/ UNCHANGED <<answers, streams>>
              \/ Len(answers[c]) + 1 <= Len(asked[c]) /\ Effect(c)
<1>. DEFINE io == recv_mbuf[c] \o SubSeq(to_server[c], 1, n)
            later == SubSeq(to_server[c], n + 1, Len(to_server[c]))
            P == recv_mbuf[c] \o to_server[c]
            k == Len(answers[c]) + 1
            r == Request(c, io)
<1>0. /\ ClientTypes /\ ConnTypes /\ StreamTypes /\ \A d \in Clients : Tidy(d)
  BY DEF IInv
<1>1. /\ asked[c] \in Seq(RequestRecord) /\ answers[c] \in Seq(AnswerRecord)
      /\ recv_mbuf[c] \in Seq(UnitRecord) /\ to_server[c] \in Seq(UnitRecord)
      /\ received[c] \in Seq(AnswerRecord) /\ send_mbuf[c] \in Seq(AnswerRecord)
      /\ Len(answers[c]) \in Nat
  BY <1>0 DEF ClientTypes, ConnTypes
<1>2. io \in Seq(UnitRecord) /\ later \in Seq(UnitRecord) /\ io \o later = P
  <2>1. n \in 0..Len(to_server[c])
    BY <1>1
  <2>2. \A s, t \in Seq(UnitRecord) : \A j \in 0..Len(t) :
            /\ s \o SubSeq(t, 1, j) \in Seq(UnitRecord)
            /\ SubSeq(t, j + 1, Len(t)) \in Seq(UnitRecord)
            /\ (s \o SubSeq(t, 1, j)) \o SubSeq(t, j + 1, Len(t)) = s \o t
    BY ZenonT(60), MoveOver
  <2>. QED  BY Zenon, <1>1, <2>1, <2>2
<1>3. /\ InSequence(asked[c], Len(answers[c]), P) /\ (c \in due <=> BodyMissing(asked[c], P))
      /\ peer[c] # "gone" => received[c] \o send_mbuf[c] = answers[c]
  BY <1>0 DEF Tidy
<1>4. Len(io) >= 1 /\ io # <<>>
  <2>. DEFINE new == SubSeq(to_server[c], 1, n)
  <2>1. new \in Seq(UnitRecord) /\ Len(new) = n
    BY <1>1
  <2>. HIDE DEF new
  <2>2. Len(recv_mbuf[c] \o new) = Len(recv_mbuf[c]) + Len(new) /\ Len(recv_mbuf[c]) \in Nat
    <3>1. recv_mbuf[c] \in Seq(UnitRecord) /\ new \in Seq(UnitRecord)
      BY <1>1, <2>1
    <3>. QED  BY <3>1, ConcatProperties
  <2>3. Len(recv_mbuf[c] \o new) >= 1
    BY <2>1, <2>2
  <2>. QED  BY <2>3 DEF new
<1>5. P \in Seq(UnitRecord) /\ Len(P) = Len(io) + Len(later) /\ P # <<>> /\ io[1] = P[1]
  <2>. HIDE DEF io, later, P
  <2>1. P \in Seq(UnitRecord) /\ Len(P) = Len(io) + Len(later)
    BY <1>2, ConcatProperties
  <2>2. Len(io) \in Nat /\ Len(later) \in Nat
    BY <1>2
  <2>3. (io \o later)[1] = io[1]
    BY <1>2, <1>4, <2>2
  <2>. QED  BY <1>2, <1>4, <2>1, <2>2, <2>3
<1>6. to_server'[c] = later /\ \A d \in Clients : d # c => to_server'[d] = to_server[d]
  BY <1>0 DEF ClientTypes
<1>7. P[1].no = k /\ k \in 1..Len(asked[c]) /\ r = asked[c][k] /\ r \in RequestRecord
  <2>. HIDE DEF P, io
  <2>1. P[1] = Unit(Len(answers[c]) + 1, "head") /\ 1 \in 1..Len(P)
    BY <1>3, <1>5 DEF InSequence
  <2>2. P[1].no = k /\ k \in 1..Len(asked[c])
    BY <1>3, <2>1 DEF InSequence, Unit
  <2>3. Head(io) = io[1]
    BY <1>2, <1>4
  <2>. QED  BY SMTT(30), <1>1, <1>5, <2>2, <2>3 DEF Request
<1>8. ClientTypes'
  <2>1. to_server' \in [Clients -> Seq(UnitRecord)]
    <3>. HIDE DEF later
    <3>. QED  BY <1>0, <1>2 DEF ClientTypes, later
  <2>. QED  BY <1>0, <2>1 DEF ClientTypes
\* Nothing is served: what has arrived waits in the buffer.
<1>9. ASSUME recv_mbuf' = [recv_mbuf EXCEPT ![c] = io],
             flags' = [flags EXCEPT ![c] = @ \cup {"CLOSE_IMMEDIATELY"}] \/ UNCHANGED flags,
             UNCHANGED <<send_mbuf, streams, answers>>
      PROVE  ConnTypes' /\ StreamTypes' /\ \A d \in Clients : Tidy(d)'
  <2>. HIDE DEF io, later, P
  <2>1. recv_mbuf' \in [Clients -> Seq(UnitRecord)] /\ recv_mbuf'[c] = io
        /\ \A d \in Clients : d # c => recv_mbuf'[d] = recv_mbuf[d]
    BY <1>0, <1>2, <1>9 DEF ConnTypes
  <2>2. flags' \in [Clients -> SUBSET {"SEND_AND_CLOSE", "CLOSE_IMMEDIATELY"}]
    <3>1. flags[c] \cup {"CLOSE_IMMEDIATELY"} \in SUBSET {"SEND_AND_CLOSE", "CLOSE_IMMEDIATELY"}
      BY <1>0 DEF ConnTypes
    <3>2. flags \in [Clients -> SUBSET {"SEND_AND_CLOSE", "CLOSE_IMMEDIATELY"}]
      BY <1>0 DEF ConnTypes
    <3>. QED  BY <1>9, <3>1, <3>2
  <2>3. ConnTypes' /\ StreamTypes'
    BY <1>0, <1>9, <2>1, <2>2 DEF ConnTypes, StreamTypes
  <2>4. ASSUME NEW d \in Clients PROVE Tidy(d)'
    <3>1. CASE d # c
      BY <1>0, <1>6, <1>9, <2>1, <3>1, SameTidy
    <3>2. CASE d = c
      <4>1. recv_mbuf'[c] \o to_server'[c] = P
        BY <1>2, <1>6, <2>1
      <4>. QED  BY <1>3, <1>9, <3>2, <4>1 DEF Tidy
    <3>. QED  BY <3>1, <3>2
  <2>. QED  BY <2>3, <2>4
<1>10. CASE r.route = "garbage"
  <2>1. /\ recv_mbuf' = [recv_mbuf EXCEPT ![c] = io]
        /\ flags' = [flags EXCEPT ![c] = @ \cup {"CLOSE_IMMEDIATELY"}]
        /\ UNCHANGED <<send_mbuf, streams, answers>>
    BY <1>10 DEF HttpReceive
  <2>. HIDE DEF io
  <2>. QED  BY <1>8, <1>9, <2>1
<1>11. CASE r.route # "garbage" /\ ~Complete(c, io)
  <2>1. /\ recv_mbuf' = [recv_mbuf EXCEPT ![c] = io]
        /\ UNCHANGED <<send_mbuf, streams, answers, flags>>
    BY <1>11 DEF HttpReceive
  <2>. HIDE DEF io
  <2>. QED  BY <1>8, <1>9, <2>1
<1>12. CASE r.route # "garbage" /\ Complete(c, io)
  <2>1. PICK o \in Outcomes(r, r.body) :
          /\ streams' = o.streams
          /\ answers' = [answers EXCEPT ![c] = Append(@, o.answer)]
          /\ send_mbuf' = [send_mbuf EXCEPT ![c] = Append(@, o.answer)]
          /\ recv_mbuf' = [recv_mbuf EXCEPT ![c] = Rest(c, io)]
    BY <1>12 DEF HttpReceive
  <2>2. flags' = flags
    BY <1>12 DEF HttpReceive
  <2>. DEFINE m == MessageLen(r)
              rest == SubSeq(io, m + 1, Len(io))
  <2>3. Rest(c, io) = rest /\ m <= Len(io) /\ m \in {1, 2}
    BY <1>12 DEF Rest, Complete, MessageLen
  <2>. HIDE DEF io, later, P, r, m
  <2>4. /\ o.answer \in AnswerRecord /\ DOMAIN o.streams \subseteq Ids
        /\ o.streams \in [DOMAIN o.streams -> StreamRecord]
    <3>1. r.body \in {"file", "no file", "no JSON", "none"}
      BY <1>7 DEF RequestRecord
    <3>. QED  BY <1>0, <1>7, <1>12, <3>1, OutcomeType
  <2>5. <<o.answer, o.streams>> \in S!Outcomes(r)
    <3>1. r.body \in Taken(r)
      BY DEF Taken
    <3>2. Allowed(r, r.body, o)
      BY <1>7, <1>12, <3>1, OutcomeAllowed
    <3>. QED  BY <3>2 DEF Allowed
  <2>6. rest \in Seq(UnitRecord) /\ rest \o later = SubSeq(P, m + 1, Len(P))
    <3>1. m \in 0..Len(io)
      BY <1>2, <2>3
    <3>. QED  BY ZenonT(60), <1>2, <3>1, FrontGone
  <2>7. /\ InSequence(asked[c], k, rest \o later)
        /\ BodyMissing(asked[c], rest \o later) <=> BodyMissing(asked[c], P)
    <3>1. asked[c][P[1].no] = r
      BY <1>7
    <3>2. m <= Len(P)
      <4>1. Len(io) \in Nat /\ Len(later) \in Nat
        BY <1>2
      <4>. QED  BY <1>5, <2>3, <4>1
    <3>3. MessageLen(asked[c][P[1].no]) = m
      BY <3>1 DEF m
    <3>4. LET l == MessageLen(asked[c][P[1].no])
              left == SubSeq(P, l + 1, Len(P))
          IN  /\ InSequence(asked[c], Len(answers[c]) + 1, left)
              /\ BodyMissing(asked[c], left) <=> BodyMissing(asked[c], P)
      <4>1. MessageLen(asked[c][P[1].no]) <= Len(P)
        BY <3>2, <3>3
      <4>. QED  BY <1>1, <1>3, <1>5, <4>1, OneServed
    <3>. QED  BY Zenon, <2>6, <3>3, <3>4
  <2>. HIDE DEF rest
  <2>8. /\ recv_mbuf' \in [Clients -> Seq(UnitRecord)] /\ recv_mbuf'[c] = rest
        /\ \A d \in Clients : d # c => recv_mbuf'[d] = recv_mbuf[d]
    BY <1>0, <2>1, <2>3, <2>6 DEF ConnTypes
  <2>9. Append(answers[c], o.answer) \in Seq(AnswerRecord)
        /\ Append(send_mbuf[c], o.answer) \in Seq(AnswerRecord)
    BY <1>1, <2>4
  <2>10. /\ answers' \in [Clients -> Seq(AnswerRecord)]
         /\ answers'[c] = Append(answers[c], o.answer)
         /\ \A d \in Clients : d # c => answers'[d] = answers[d]
    BY <1>0, <2>1, <2>9 DEF ConnTypes
  <2>11. /\ send_mbuf' \in [Clients -> Seq(AnswerRecord)]
         /\ send_mbuf'[c] = Append(send_mbuf[c], o.answer)
         /\ \A d \in Clients : d # c => send_mbuf'[d] = send_mbuf[d]
    BY <1>0, <2>1, <2>9 DEF ConnTypes
  <2>12. ConnTypes' /\ StreamTypes'
    BY <1>0, <2>1, <2>2, <2>4, <2>8, <2>10, <2>11 DEF ConnTypes, StreamTypes
  <2>13. ASSUME NEW d \in Clients PROVE Tidy(d)'
    <3>1. CASE d # c
      BY <1>0, <1>6, <2>8, <2>10, <2>11, <3>1, SameTidy
    <3>2. CASE d = c
      <4>1. recv_mbuf'[c] \o to_server'[c] = rest \o later
        BY <1>6, <2>8
      <4>2. Len(answers'[c]) = k
        BY <1>1, <2>4, <2>10
      <4>3. peer[c] # "gone" => received[c] \o send_mbuf'[c] = answers'[c]
        <5>1. received[c] \o Append(send_mbuf[c], o.answer)
                = Append(received[c] \o send_mbuf[c], o.answer)
          <6>1. \A s, t \in Seq(AnswerRecord), e \in AnswerRecord :
                    s \o Append(t, e) = Append(s \o t, e)
            BY AppendOver
          <6>. QED  BY Zenon, <1>1, <2>4, <6>1
        <5>. QED  BY <1>3, <2>10, <2>11, <5>1
      <4>. QED  BY <1>3, <2>7, <3>2, <4>1, <4>2, <4>3 DEF Tidy
    <3>. QED  BY <3>1, <3>2
  <2>14. k <= Len(asked[c]) /\ Effect(c)
    <3>1. <<o.answer, o.streams>> \in S!Outcomes(asked[c][Len(answers[c]) + 1])
      BY <1>7, <2>5
    <3>. DEFINE out == <<o.answer, o.streams>>
    <3>2. /\ answers' = [answers EXCEPT ![c] = Append(@, out[1])]
          /\ streams' = out[2]
      BY <2>1
    <3>3. k <= Len(asked[c])
      BY <1>1, <1>7
    <3>. HIDE DEF out
    <3>4. out \in S!Outcomes(asked[c][Len(answers[c]) + 1])
      BY <3>1 DEF out
    <3>. QED  BY <3>2, <3>3, <3>4 DEF Effect
  <2>. QED  BY <1>8, <2>12, <2>13, <2>14
<1>. QED  BY <1>10, <1>11, <1>12

\* What arrives lets a request take effect, or waits in the buffer.
LEMMA ReadDataStep ==
    ASSUME IInv, NEW c \in Clients, ReadData(c)
    PROVE  IInv' /\ (S!ServeOpen(c) \/ UNCHANGED S!vars)
<1>. USE DEF ReadData
<1>0. /\ ClientTypes /\ ConnTypes /\ StreamTypes /\ PollTypes /\ SignalTypes
      /\ ListIsActive /\ PassIsActive /\ \A d \in Clients : Tidy(d)
  BY DEF IInv
<1>1. PICK n \in 1..Len(to_server[c]) :
        /\ to_server' = [to_server EXCEPT ![c] = SubSeq(@, n + 1, Len(@))]
        /\ HttpReceive(c, recv_mbuf[c] \o SubSeq(to_server[c], 1, n))
  OBVIOUS
<1>2. conn[c] = "active" /\ pc = "handle"
  BY Visited DEF ReadDone
<1>3. /\ ClientTypes' /\ ConnTypes' /\ StreamTypes'
      /\ \A d \in Clients : Tidy(d)'
      /\ \/ UNCHANGED <<answers, streams>>
         \/ Len(answers[c]) + 1 <= Len(asked[c]) /\ Effect(c)
  BY <1>1, <1>2, ReceiveStep
<1>4. /\ UNCHANGED <<asked, received, conn, active_connections, can_write, pc>>
      /\ can_read' = can_read \ {c} /\ todo' \subseteq todo
  BY DEF ReadDone
<1>5. UNCHANGED <<last, cancel>>
  OBVIOUS
<1>. HIDE DEF ReadData
<1>a. PollTypes'
  BY <1>0, <1>4 DEF PollTypes
<1>b. SignalTypes'
  BY Zenon, <1>0, <1>5 DEF SignalTypes
<1>c. ListIsActive' /\ PassIsActive'
  <2>1. \A d \in Clients : conn'[d] = "active" <=> conn[d] = "active"
    BY <1>4
  <2>. QED  BY <1>0, <1>2, <1>4, <2>1, SameList
<1>d. [d \in Clients |-> conn'[d] = "closed"] = [d \in Clients |-> conn[d] = "closed"]
  BY <1>4
<1>e. (pc' # "exited") = (pc # "exited")
  BY <1>4
<1>f. CASE UNCHANGED <<answers, streams>>
  <2>1. UNCHANGED S!vars
    BY Zenon, <1>4, <1>d, <1>e, <1>f DEF S!vars
  <2>. QED  BY <1>3, <1>a, <1>b, <1>c, <2>1 DEF IInv
<1>g. CASE Len(answers[c]) + 1 <= Len(asked[c]) /\ Effect(c)
  <2>1. ~([d \in Clients |-> conn[d] = "closed"][c]) /\ pc # "exited"
    BY <1>2
  <2>2. S!Serve(c)
    BY <1>g, <2>1 DEF S!Serve, Effect
  <2>3. UNCHANGED <<asked, received>>
    BY <1>4
  <2>4. S!ServeOpen(c)
    BY Zenon, <1>d, <1>e, <2>1, <2>2, <2>3 DEF S!ServeOpen
  <2>. QED  BY <1>3, <1>a, <1>b, <1>c, <2>4 DEF IInv
<1>. QED  BY <1>3, <1>f, <1>g

\* Only a flag is set.
LEMMA FlagStep ==
    ASSUME IInv, NEW c \in Clients, Visit(c), ReadEnd(c) \/ WriteFails(c)
    PROVE  IInv' /\ UNCHANGED S!vars
<1>0. /\ ClientTypes /\ ConnTypes /\ StreamTypes /\ PollTypes /\ SignalTypes
      /\ ListIsActive /\ PassIsActive /\ \A d \in Clients : Tidy(d)
  BY DEF IInv
<1>1. PICK f \in {"SEND_AND_CLOSE", "CLOSE_IMMEDIATELY"} : flags' = [flags EXCEPT ![c] = @ \cup {f}]
  BY DEF ReadEnd, WriteFails
<1>2. /\ UNCHANGED <<clients, conn, active_connections, recv_mbuf, send_mbuf, can_write, pc,
                     streams, answers>>
      /\ can_read' \subseteq can_read /\ todo' \subseteq todo
  BY DEF ReadEnd, WriteFails, ReadDone
<1>3. UNCHANGED <<last, cancel>>
  BY DEF ReadEnd, WriteFails
<1>4. pc = "handle"
  BY Visited
<1>5. UNCHANGED <<asked, due, to_server, received, peer>>
  BY <1>2 DEF clients
<1>a. ClientTypes' /\ ConnTypes' /\ StreamTypes' /\ PollTypes' /\ SignalTypes'
  <2>1. flags' \in [Clients -> SUBSET {"SEND_AND_CLOSE", "CLOSE_IMMEDIATELY"}]
    <3>1. flags \in [Clients -> SUBSET {"SEND_AND_CLOSE", "CLOSE_IMMEDIATELY"}]
      BY <1>0 DEF ConnTypes
    <3>2. flags[c] \cup {f} \in SUBSET {"SEND_AND_CLOSE", "CLOSE_IMMEDIATELY"}
      BY <3>1
    <3>. QED  BY <1>1, <3>1, <3>2
  <2>2. SignalTypes'
    BY Zenon, <1>0, <1>3 DEF SignalTypes
  <2>3. ClientTypes' /\ ConnTypes'
    BY <1>0, <1>2, <1>5, <2>1 DEF ClientTypes, ConnTypes
  <2>4. StreamTypes' /\ PollTypes'
    BY <1>0, <1>2 DEF StreamTypes, PollTypes
  <2>. QED  BY <2>2, <2>3, <2>4
<1>b. ListIsActive' /\ PassIsActive'
  BY <1>0, <1>2, <1>4, SameList
<1>c. ASSUME NEW d \in Clients PROVE Tidy(d)'
  BY <1>0, <1>2, <1>5, SameTidy
<1>d. UNCHANGED S!vars
  <2>1. [d \in Clients |-> conn'[d] = "closed"] = [d \in Clients |-> conn[d] = "closed"]
    BY <1>2
  <2>2. (pc' # "exited") = (pc # "exited")
    BY <1>2
  <2>. QED  BY Zenon, <1>2, <1>5, <2>1, <2>2 DEF S!vars
<1>. QED  BY <1>a, <1>b, <1>c, <1>d DEF IInv

\* What is written is received, if anybody is there to receive it.
LEMMA WriteDataStep ==
    ASSUME IInv, NEW c \in Clients, WriteData(c)
    PROVE  IInv' /\ (S!Deliver(c) \/ UNCHANGED S!vars)
<1>. USE DEF WriteData
<1>0. /\ ClientTypes /\ ConnTypes /\ StreamTypes /\ PollTypes /\ SignalTypes
      /\ ListIsActive /\ PassIsActive /\ \A d \in Clients : Tidy(d)
  BY DEF IInv
<1>1. PICK n \in 1..Len(send_mbuf[c]) :
        /\ send_mbuf' = [send_mbuf EXCEPT ![c] = SubSeq(@, n + 1, Len(@))]
        /\ received' = IF peer[c] = "gone"
                         THEN received
                         ELSE [received EXCEPT ![c] = @ \o SubSeq(send_mbuf[c], 1, n)]
  OBVIOUS
<1>2. conn[c] = "active" /\ pc = "handle"
  BY Visited
<1>3. /\ UNCHANGED <<asked, due, to_server, peer, conn, active_connections, recv_mbuf, flags,
                     can_read, can_write, pc, streams, answers>>
      /\ todo' \subseteq todo
  OBVIOUS
<1>4. UNCHANGED <<last, cancel>>
  OBVIOUS
<1>. HIDE DEF WriteData
<1>. DEFINE front == SubSeq(send_mbuf[c], 1, n)
            back == SubSeq(send_mbuf[c], n + 1, Len(send_mbuf[c]))
<1>5. received[c] \in Seq(AnswerRecord) /\ send_mbuf[c] \in Seq(AnswerRecord)
  BY <1>0 DEF ClientTypes, ConnTypes
<1>6. n \in 0..Len(send_mbuf[c])
  BY <1>5
<1>7. /\ received[c] \o front \in Seq(AnswerRecord) /\ back \in Seq(AnswerRecord)
      /\ (received[c] \o front) \o back = received[c] \o send_mbuf[c]
      /\ received[c] \o front = SubSeq(received[c] \o send_mbuf[c], 1, Len(received[c]) + n)
  <2>1. \A s, t \in Seq(AnswerRecord) : \A j \in 0..Len(t) :
            /\ s \o SubSeq(t, 1, j) \in Seq(AnswerRecord)
            /\ SubSeq(t, j + 1, Len(t)) \in Seq(AnswerRecord)
            /\ (s \o SubSeq(t, 1, j)) \o SubSeq(t, j + 1, Len(t)) = s \o t
    BY ZenonT(60), MoveOver
  <2>2. \A s, t \in Seq(AnswerRecord) : \A j \in 0..Len(t) :
            s \o SubSeq(t, 1, j) = SubSeq(s \o t, 1, Len(s) + j)
    BY FrontOf
  <2>. QED  BY Zenon, <1>5, <1>6, <2>1, <2>2
<1>8. /\ send_mbuf' \in [Clients -> Seq(AnswerRecord)] /\ send_mbuf'[c] = back
      /\ \A d \in Clients : d # c => send_mbuf'[d] = send_mbuf[d]
  <2>1. send_mbuf' = [send_mbuf EXCEPT ![c] = back] /\ back \in Seq(AnswerRecord)
    BY <1>1, <1>7
  <2>. HIDE DEF back
  <2>. QED  BY <1>0, <2>1 DEF ConnTypes
<1>9. /\ received' \in [Clients -> Seq(AnswerRecord)]
      /\ \A d \in Clients : d # c => received'[d] = received[d]
      /\ peer[c] # "gone" => received'[c] = received[c] \o front
  <2>1. received[c] \o front \in Seq(AnswerRecord)
    BY <1>7
  <2>2. received' = IF peer[c] = "gone" THEN received ELSE [received EXCEPT ![c] = received[c] \o front]
    BY <1>1
  <2>. HIDE DEF front
  <2>. QED  BY <1>0, <2>1, <2>2 DEF ClientTypes
<1>. HIDE DEF front, back
<1>a. ClientTypes' /\ ConnTypes' /\ StreamTypes' /\ PollTypes' /\ SignalTypes'
  <2>1. SignalTypes'
    BY Zenon, <1>0, <1>4 DEF SignalTypes
  <2>2. ClientTypes'
    BY <1>0, <1>3, <1>9 DEF ClientTypes
  <2>3. ConnTypes'
    BY <1>0, <1>3, <1>8 DEF ConnTypes
  <2>4. StreamTypes' /\ PollTypes'
    BY <1>0, <1>3 DEF StreamTypes, PollTypes
  <2>. QED  BY <2>1, <2>2, <2>3, <2>4
<1>b. ListIsActive' /\ PassIsActive'
  BY <1>0, <1>2, <1>3, SameList
<1>c. ASSUME NEW d \in Clients PROVE Tidy(d)'
  <2>1. CASE d # c
    BY <1>0, <1>3, <1>8, <1>9, <2>1, SameTidy
  <2>2. CASE d = c
    <3>1. peer[c] # "gone" => received'[c] \o send_mbuf'[c] = answers[c]
      BY <1>0, <1>2, <1>7, <1>8, <1>9 DEF Tidy
    <3>. QED  BY <1>0, <1>2, <1>3, <2>2, <3>1 DEF Tidy
  <2>. QED  BY <2>1, <2>2
<1>d. [d \in Clients |-> conn'[d] = "closed"] = [d \in Clients |-> conn[d] = "closed"]
  BY <1>3
<1>e. (pc' # "exited") = (pc # "exited")
  BY <1>3
<1>f. CASE peer[c] = "gone"
  <2>1. UNCHANGED <<asked, answers, received, streams>>
    BY <1>1, <1>3, <1>f
  <2>2. UNCHANGED S!vars
    BY Zenon, <1>d, <1>e, <2>1 DEF S!vars
  <2>. QED  BY <1>a, <1>b, <1>c, <2>2 DEF IInv
<1>g. CASE peer[c] # "gone"
  <2>1. received[c] \o send_mbuf[c] = answers[c]
    BY <1>0, <1>2, <1>g DEF Tidy
  <2>2. /\ Len(received[c]) \in Nat /\ Len(send_mbuf[c]) \in Nat
        /\ Len(answers[c]) = Len(received[c]) + Len(send_mbuf[c])
    <3>1. Len(received[c] \o send_mbuf[c]) = Len(received[c]) + Len(send_mbuf[c])
      BY <1>5, ConcatProperties
    <3>2. Len(received[c]) \in Nat /\ Len(send_mbuf[c]) \in Nat
      BY <1>5
    <3>. QED  BY <2>1, <3>1, <3>2
  <2>3. Len(received[c]) + n \in Len(received[c])..Len(answers[c])
    <3>. DEFINE a == Len(received[c])
                b == Len(send_mbuf[c])
    <3>1. a \in Nat /\ b \in Nat /\ n \in 0..b /\ Len(answers[c]) = a + b
      BY <1>6, <2>2
    <3>. HIDE DEF a, b
    <3>2. a + n \in a..Len(answers[c])
      BY <3>1
    <3>. QED  BY <3>2 DEF a
  <2>4. received' = [received EXCEPT ![c] = SubSeq(answers[c], 1, Len(received[c]) + n)]
    BY <1>1, <1>7, <1>g, <2>1 DEF front
  <2>5. ~([d \in Clients |-> conn[d] = "closed"][c])
    BY <1>2
  <2>6. UNCHANGED <<asked, answers, streams>>
    BY <1>3
  <2>7. S!Deliver(c)
    BY Zenon, <1>d, <1>e, <2>3, <2>4, <2>5, <2>6 DEF S!Deliver
  <2>. QED  BY <1>a, <1>b, <1>c, <2>7 DEF IInv
<1>. QED  BY <1>f, <1>g
-----------------------------------------------------------------------------
(***************************************************************************)
(* The end of a connection.                                                *)
(***************************************************************************)

\* A list without one of its connections is the list of the others.
LEMMA Unlisted ==
    ASSUME ListIsActive, NEW i \in 1..Len(active_connections),
           active_connections' = RemoveAt(active_connections, i),
           \A d \in Clients :
               conn'[d] = IF d = active_connections[i] THEN "closed" ELSE conn[d]
    PROVE  ListIsActive'
<1>. DEFINE s == active_connections
            t == RemoveAt(s, i)
            c == s[i]
<1>0. s \in Seq(Clients) /\ Len(s) \in Nat /\ i \in 1..Len(s) /\ \A j \in 1..Len(s) : s[j] \in Clients
  BY DEF ListIsActive
<1>1. /\ \A j \in 1..Len(s) : conn[s[j]] = "active"
      /\ \A j, k \in 1..Len(s) : s[j] = s[k] => j = k
      /\ \A d \in Clients : conn[d] = "active" => \E j \in 1..Len(s) : s[j] = d
  BY DEF ListIsActive
<1>2. /\ t \in Seq(Clients) /\ Len(t) = Len(s) - 1
      /\ \A k \in 1..(Len(s) - 1) : t[k] = IF k < i THEN s[k] ELSE s[k + 1]
  BY <1>0, WithoutPlace
<1>3. \A d \in Clients : conn'[d] = IF d = c THEN "closed" ELSE conn[d]
  OBVIOUS
<1>. HIDE DEF s, t, c
\* Where an element of the new list was.
<1>4. ASSUME NEW k \in 1..Len(t)
      PROVE  \E j \in 1..Len(s) : j # i /\ t[k] = s[j] /\ j = IF k < i THEN k ELSE k + 1
  <2>1. k \in 1..(Len(s) - 1)
    BY <1>2
  <2>2. CASE k < i
    BY <1>0, <1>2, <2>1, <2>2
  <2>3. CASE ~(k < i)
    <3>1. k + 1 \in 1..Len(s) /\ k + 1 # i /\ t[k] = s[k + 1]
      BY <1>0, <1>2, <2>1, <2>3
    <3>. QED  BY <2>3, <3>1
  <2>. QED  BY <2>2, <2>3
<1>5. ASSUME NEW k \in 1..Len(t) PROVE conn'[t[k]] = "active"
  <2>1. PICK j \in 1..Len(s) : j # i /\ t[k] = s[j]
    BY <1>4
  <2>2. s[j] # c
    BY <1>0, <1>1, <2>1 DEF c
  <2>. QED  BY <1>0, <1>1, <1>3, <2>1, <2>2
<1>6. ASSUME NEW k \in 1..Len(t), NEW l \in 1..Len(t), t[k] = t[l] PROVE k = l
  <2>1. PICK j \in 1..Len(s) : t[k] = s[j] /\ j = IF k < i THEN k ELSE k + 1
    BY <1>4
  <2>2. PICK m \in 1..Len(s) : t[l] = s[m] /\ m = IF l < i THEN l ELSE l + 1
    BY <1>4
  <2>3. j = m
    <3>1. s[j] = s[m]
      BY <1>6, <2>1, <2>2
    <3>. QED  BY <1>1, <3>1
  <2>4. k \in Int /\ l \in Int /\ i \in Int
    BY <1>0
  <2>5. (IF k < i THEN k ELSE k + 1) = (IF l < i THEN l ELSE l + 1)
    BY <2>1, <2>2, <2>3
  <2>. QED  BY <2>4, <2>5
<1>7. ASSUME NEW d \in Clients, conn'[d] = "active"
      PROVE  \E k \in 1..Len(t) : t[k] = d
  <2>1. d # c /\ conn[d] = "active"
    BY <1>3, <1>7
  <2>2. PICK j \in 1..Len(s) : s[j] = d
    BY <1>1, <2>1
  <2>3. j # i
    BY <2>1, <2>2 DEF c
  <2>4. CASE j < i
    <3>1. j \in 1..(Len(s) - 1) /\ t[j] = s[j]
      BY <1>0, <1>2, <2>4
    <3>. QED  BY <1>2, <2>2, <3>1
  <2>5. CASE ~(j < i)
    <3>1. j - 1 \in 1..(Len(s) - 1) /\ ~(j - 1 < i) /\ (j - 1) + 1 = j
      BY <1>0, <2>3, <2>5
    <3>2. t[j - 1] = s[j]
      BY <1>2, <3>1
    <3>. QED  BY <1>2, <2>2, <3>1, <3>2
  <2>. QED  BY <2>4, <2>5
<1>8. active_connections' = t
  BY DEF t, s
<1>. QED  BY <1>2, <1>5, <1>6, <1>7, <1>8 DEF ListIsActive

\* A connection that ends takes its next request with it: served, refused, or
\* not looked at.
LEMMA HttpCloseStep ==
    ASSUME IInv, NEW c \in Clients, conn[c] = "active", pc # "exited", HttpClose(c)
    PROVE  /\ answers' \in [Clients -> Seq(AnswerRecord)] /\ StreamTypes'
           /\ \A d \in Clients : d # c => answers'[d] = answers[d]
           /\ S!Serve(c) \/ S!Refuse(c) \/ UNCHANGED <<answers, streams>>
<1>. DEFINE io == recv_mbuf[c]
            k == Len(answers[c]) + 1
            r == Request(c, io)
            P == recv_mbuf[c] \o to_server[c]
<1>0. ClientTypes /\ ConnTypes /\ StreamTypes /\ Tidy(c)
  BY DEF IInv
<1>1. /\ asked[c] \in Seq(RequestRecord) /\ answers[c] \in Seq(AnswerRecord)
      /\ io \in Seq(UnitRecord) /\ to_server[c] \in Seq(UnitRecord)
      /\ Len(answers[c]) \in Nat /\ answers \in [Clients -> Seq(AnswerRecord)]
  BY <1>0 DEF ClientTypes, ConnTypes
<1>2. CASE ~(io # <<>> /\ r.route # "garbage")
  <2>1. UNCHANGED <<answers, streams>>
    BY <1>2 DEF HttpClose
  <2>. QED  BY <1>0, <1>1, <2>1 DEF StreamTypes
<1>3. CASE io # <<>> /\ r.route # "garbage"
  <2>1. PICK o \in Outcomes(r, BodyAtClose(c, io)) :
          /\ streams' = o.streams
          /\ answers' = [answers EXCEPT ![c] = Append(@, o.answer)]
    BY <1>3 DEF HttpClose
  <2>2. InSequence(asked[c], Len(answers[c]), P)
    BY <1>0 DEF Tidy
  <2>3. P # <<>> /\ P[1] = io[1] /\ 1 \in 1..Len(P) /\ Head(io) = io[1]
    <3>1. Len(io) \in Nat /\ Len(io) >= 1 /\ Len(to_server[c]) \in Nat
      BY <1>1, <1>3
    <3>2. P \in Seq(UnitRecord) /\ Len(P) = Len(io) + Len(to_server[c])
      BY <1>1, ConcatProperties
    <3>3. P[1] = io[1]
      <4>1. \A a, b \in Seq(UnitRecord) : \A n \in 1..Len(a) : (a \o b)[n] = a[n]
        BY ConcatProperties
      <4>2. 1 \in 1..Len(io)
        BY <3>1
      <4>. HIDE DEF io
      <4>. QED  BY <1>1, <4>1, <4>2 DEF io
    <3>4. Head(io) = io[1]
      BY <1>1, <1>3
    <3>. HIDE DEF P, io
    <3>. QED  BY <3>1, <3>2, <3>3, <3>4
  <2>4. P[1].no = k /\ k \in 1..Len(asked[c])
    <3>. HIDE DEF P, io
    <3>1. P[1] = Unit(Len(answers[c]) + 1, "head")
      BY <2>2, <2>3 DEF InSequence
    <3>. QED  BY <2>2, <2>3, <3>1 DEF InSequence, Unit
  <2>5. r = asked[c][k] /\ r \in RequestRecord
    <3>. HIDE DEF P, io, k
    <3>. QED  BY <1>1, <2>3, <2>4 DEF Request
  <2>. HIDE DEF P, io, k, r
  <2>6. BodyAtClose(c, io) \in {r.body, "none", "no JSON"}
    BY DEF BodyAtClose, r
  <2>7. BodyAtClose(c, io) \in {"file", "no file", "no JSON", "none"}
    BY <2>5, <2>6 DEF RequestRecord
  <2>8. /\ o.answer \in AnswerRecord /\ DOMAIN o.streams \subseteq Ids
        /\ o.streams \in [DOMAIN o.streams -> StreamRecord]
    BY <1>0, <1>3, <2>5, <2>7, OutcomeType
  <2>9. \/ <<o.answer, o.streams>> \in S!Outcomes(r)
        \/ o.answer = S!Plain(500) /\ o.streams = streams
    <3>1. PICK q \in RequestRecord : q = r /\ q.route # "garbage"
      BY Zenon, <1>3, <2>5 DEF r
    <3>2. PICK b \in Taken(q) : b = BodyAtClose(c, io) /\ o \in Outcomes(q, b)
      BY Zenon, <2>1, <2>6, <3>1 DEF Taken
    <3>3. Allowed(q, b, o)
      BY Zenon, <3>1, <3>2, OutcomeAllowed
    <3>. QED  BY Zenon, <3>1, <3>3 DEF Allowed
  <2>10. /\ answers' \in [Clients -> Seq(AnswerRecord)]
         /\ \A d \in Clients : d # c => answers'[d] = answers[d]
    <3>1. Append(answers[c], o.answer) \in Seq(AnswerRecord)
      BY <1>1, <2>8
    <3>. QED  BY <1>1, <2>1, <3>1
  <2>11. StreamTypes'
    BY <2>1, <2>8 DEF StreamTypes
  <2>12. k <= Len(asked[c]) /\ Len(answers[c]) < Len(asked[c])
    BY <1>1, <2>4 DEF k
  <2>13. CASE <<o.answer, o.streams>> \in S!Outcomes(r)
    <3>. DEFINE out == <<o.answer, o.streams>>
    <3>1. answers' = [answers EXCEPT ![c] = Append(@, out[1])] /\ streams' = out[2]
      BY <2>1
    <3>2. out \in S!Outcomes(asked[c][Len(answers[c]) + 1])
      BY <2>5, <2>13 DEF k
    <3>. HIDE DEF out
    <3>3. S!Serve(c)
      BY <2>12, <3>1, <3>2 DEF S!Serve, k
    <3>. QED  BY <2>10, <2>11, <3>3
  <2>14. CASE o.answer = S!Plain(500) /\ o.streams = streams
    <3>1. S!Refuse(c)
      BY <2>1, <2>12, <2>14 DEF S!Refuse
    <3>. QED  BY <2>10, <2>11, <3>1
  <2>. QED  BY <2>9, <2>13, <2>14
<1>. QED  BY <1>2, <1>3

\* A connection that is closed ends in Service.
LEMMA CloseStep ==
    ASSUME IInv, NEW i \in 1..Len(active_connections), CloseConn(i),
           UNCHANGED <<clients, poll, cancel, pc>>, todo = {}, pc # "exited"
    PROVE  IInv' /\ \E c \in Clients : S!End(c)
<1>0. /\ ClientTypes /\ ConnTypes /\ StreamTypes /\ PollTypes /\ SignalTypes
      /\ ListIsActive /\ PassIsActive /\ \A d \in Clients : Tidy(d)
  BY DEF IInv
<1>1. PICK c \in Clients : c = active_connections[i] /\ conn[c] = "active"
  BY <1>0 DEF ListIsActive
<1>2. /\ active_connections' = RemoveAt(active_connections, i)
      /\ conn' = [conn EXCEPT ![c] = "closed"]
      /\ HttpClose(c)
      /\ recv_mbuf' = [recv_mbuf EXCEPT ![c] = <<>>]
      /\ send_mbuf' = [send_mbuf EXCEPT ![c] = <<>>]
      /\ UNCHANGED flags
  BY <1>1 DEF CloseConn
<1>3. /\ answers' \in [Clients -> Seq(AnswerRecord)] /\ StreamTypes'
      /\ \A d \in Clients : d # c => answers'[d] = answers[d]
      /\ S!Serve(c) \/ S!Refuse(c) \/ UNCHANGED <<answers, streams>>
  BY <1>1, <1>2, HttpCloseStep
<1>4. /\ conn' \in [Clients -> {"none", "queued", "active", "closed"}]
      /\ \A d \in Clients : conn'[d] = IF d = c THEN "closed" ELSE conn[d]
  BY <1>0, <1>2 DEF ConnTypes
<1>5. /\ recv_mbuf' \in [Clients -> Seq(UnitRecord)] /\ recv_mbuf'[c] = <<>>
      /\ \A d \in Clients : d # c => recv_mbuf'[d] = recv_mbuf[d]
  <2>1. <<>> \in Seq(UnitRecord)
    OBVIOUS
  <2>. QED  BY <1>0, <1>1, <1>2, <2>1 DEF ConnTypes
<1>6. /\ send_mbuf' \in [Clients -> Seq(AnswerRecord)] /\ send_mbuf'[c] = <<>>
      /\ \A d \in Clients : d # c => send_mbuf'[d] = send_mbuf[d]
  <2>1. <<>> \in Seq(AnswerRecord)
    OBVIOUS
  <2>. QED  BY <1>0, <1>1, <1>2, <2>1 DEF ConnTypes
<1>7. UNCHANGED <<asked, due, to_server, received, peer, todo, can_read, can_write, last, pc, cancel>>
  BY DEF clients, poll
<1>a. ClientTypes' /\ ConnTypes' /\ PollTypes' /\ SignalTypes'
  <2>1. SignalTypes'
    BY Zenon, <1>0, <1>7 DEF SignalTypes
  <2>2. ClientTypes' /\ PollTypes'
    BY <1>0, <1>7 DEF ClientTypes, PollTypes
  <2>3. ConnTypes'
    BY <1>0, <1>2, <1>3, <1>4, <1>5, <1>6 DEF ConnTypes
  <2>. QED  BY <2>1, <2>2, <2>3
<1>b. ListIsActive'
  BY <1>0, <1>1, <1>2, <1>4, Unlisted
<1>c. PassIsActive'
  BY <1>7 DEF PassIsActive
<1>d. ASSUME NEW d \in Clients PROVE Tidy(d)'
  <2>1. CASE d # c
    BY <1>0, <1>3, <1>4, <1>5, <1>6, <1>7, <2>1, SameTidy
  <2>2. CASE d = c
    BY <1>1, <1>4, <1>5, <1>6, <2>2 DEF Tidy
  <2>. QED  BY <2>1, <2>2
<1>e. S!End(c)
  <2>1. ~([d \in Clients |-> conn[d] = "closed"][c])
    BY <1>1
  <2>2. [d \in Clients |-> conn'[d] = "closed"]
           = [[d \in Clients |-> conn[d] = "closed"] EXCEPT ![c] = TRUE]
    BY <1>1, <1>4
  <2>3. UNCHANGED <<asked, received>> /\ ((pc' # "exited") = (pc # "exited"))
    BY <1>7
  <2>. QED  BY Zenon, <1>3, <2>1, <2>2, <2>3 DEF S!End
<1>. QED  BY <1>1, <1>3, <1>a, <1>b, <1>c, <1>d, <1>e DEF IInv

\* The second pass closes connections.
LEMMA SweepStep ==
    ASSUME IInv, Sweep
    PROVE  IInv' /\ \E c \in Clients : S!End(c)
<1>1. /\ pc = "handle" /\ todo = {}
      /\ \E i \in Closing : CloseConn(i)
      /\ UNCHANGED <<clients, poll, cancel, pc>>
  BY DEF Sweep
<1>2. PICK i \in Closing : CloseConn(i)
  BY <1>1
<1>3. i \in 1..Len(active_connections) /\ pc # "exited"
  BY <1>1 DEF Closing
<1>. QED  BY <1>1, <1>2, <1>3, CloseStep

\* So does mg_mgr_free().
LEMMA FreeConnStep ==
    ASSUME IInv, FreeConn
    PROVE  IInv' /\ \E c \in Clients : S!End(c)
<1>1. /\ pc = "free" /\ active_connections # <<>> /\ CloseConn(1)
      /\ UNCHANGED <<clients, poll, cancel, pc>>
  BY DEF FreeConn
<1>2. 1 \in 1..Len(active_connections)
  BY <1>1 DEF IInv, ListIsActive
<1>3. todo = {} /\ pc # "exited"
  BY <1>1 DEF IInv, PassIsActive
<1>. QED  BY <1>1, <1>2, <1>3, CloseStep

\* The end of a poll changes nothing in Service.
LEMMA EndPollStep ==
    ASSUME IInv, EndPoll
    PROVE  IInv' /\ UNCHANGED S!vars
<1>0. /\ ClientTypes /\ ConnTypes /\ StreamTypes /\ PollTypes /\ SignalTypes
      /\ ListIsActive /\ PassIsActive /\ \A d \in Clients : Tidy(d)
  BY DEF IInv
<1>1. /\ pc = "handle" /\ todo = {} /\ can_write' = {}
      /\ UNCHANGED <<asked, due, to_server, received, peer, conn, active_connections,
                     recv_mbuf, send_mbuf, flags, todo, can_read, last, cancel, streams,
                     answers>>
  BY DEF EndPoll, clients, connection
<1>2. pc' = "free" \/ pc' = "loop"
  BY Zenon DEF EndPoll
<1>a. ClientTypes' /\ ConnTypes' /\ StreamTypes' /\ PollTypes' /\ SignalTypes'
  <2>1. SignalTypes'
    BY Zenon, <1>0, <1>1 DEF SignalTypes
  <2>2. PollTypes'
    BY <1>0, <1>1, <1>2 DEF PollTypes
  <2>. QED  BY <1>0, <1>1, <2>1, <2>2 DEF ClientTypes, ConnTypes, StreamTypes
<1>b. ListIsActive' /\ PassIsActive'
  BY <1>0, <1>1, SameList
<1>c. ASSUME NEW d \in Clients PROVE Tidy(d)'
  BY <1>0, <1>1, SameTidy
<1>d. UNCHANGED S!vars
  <2>1. ((pc' # "exited") = (pc # "exited"))
    BY <1>1, <1>2
  <2>. QED  BY Zenon, <1>1, <2>1 DEF S!vars
<1>. QED  BY <1>a, <1>b, <1>c, <1>d DEF IInv

-----------------------------------------------------------------------------
(***************************************************************************)
(* The end.                                                                *)
(***************************************************************************)

\* The map without streams.
LEMMA NoStreams == <<>> \in [{} -> StreamRecord] /\ DOMAIN <<>> = {}
OBVIOUS

\* When the program ends, so does Service.
LEMMA ExitStep ==
    ASSUME IInv, Exit
    PROVE  IInv' /\ S!Stop
<1>0. /\ ClientTypes /\ ConnTypes /\ StreamTypes /\ PollTypes /\ SignalTypes
      /\ ListIsActive /\ PassIsActive /\ \A d \in Clients : Tidy(d)
  BY DEF IInv
<1>1. /\ pc' = "exited" /\ streams' = <<>> /\ active_connections' = <<>>
      /\ conn' = [c \in Clients |-> "closed"]
      /\ to_server' = [c \in Clients |-> <<>>]
      /\ recv_mbuf' = [c \in Clients |-> <<>>] /\ send_mbuf' = [c \in Clients |-> <<>>]
      /\ flags' = [c \in Clients |-> {}]
      /\ todo' = {} /\ can_read' = {} /\ can_write' = {}
      /\ UNCHANGED <<asked, due, received, peer, last, cancel, answers>>
  BY DEF Exit
<1>a. ClientTypes' /\ ConnTypes' /\ PollTypes' /\ SignalTypes'
  <2>1. SignalTypes'
    BY Zenon, <1>0, <1>1 DEF SignalTypes
  <2>2. to_server' \in [Clients -> Seq(UnitRecord)] /\ recv_mbuf' \in [Clients -> Seq(UnitRecord)]
    <3>1. <<>> \in Seq(UnitRecord)
      OBVIOUS
    <3>. QED  BY <1>1, <3>1
  <2>3. send_mbuf' \in [Clients -> Seq(AnswerRecord)]
    <3>1. <<>> \in Seq(AnswerRecord)
      OBVIOUS
    <3>. QED  BY <1>1, <3>1
  <2>4. /\ conn' \in [Clients -> {"none", "queued", "active", "closed"}]
        /\ flags' \in [Clients -> SUBSET {"SEND_AND_CLOSE", "CLOSE_IMMEDIATELY"}]
    BY <1>1
  <2>5. ClientTypes'
    BY <1>0, <1>1, <2>2 DEF ClientTypes
  <2>6. ConnTypes'
    BY <1>0, <1>1, <2>2, <2>3, <2>4 DEF ConnTypes
  <2>7. PollTypes'
    BY <1>1 DEF PollTypes
  <2>. QED  BY <2>1, <2>5, <2>6, <2>7
<1>b. StreamTypes'
  <2>1. DOMAIN streams' = {} /\ streams' \in [{} -> StreamRecord]
    BY <1>1, NoStreams
  <2>. QED  BY <2>1 DEF StreamTypes
<1>c. ListIsActive' /\ PassIsActive'
  <2>1. Len(active_connections') = 0 /\ active_connections' \in Seq(Clients)
    BY <1>1
  <2>2. \A c \in Clients : conn'[c] # "active"
    BY <1>1
  <2>3. ListIsActive'
    BY <2>1, <2>2 DEF ListIsActive
  <2>. QED  BY <1>1, <2>3 DEF PassIsActive
<1>d. ASSUME NEW d \in Clients PROVE Tidy(d)'
  <2>1. conn'[d] = "closed" /\ recv_mbuf'[d] = <<>> /\ send_mbuf'[d] = <<>>
    BY <1>1
  <2>. QED  BY <2>1 DEF Tidy
<1>e. S!Stop
  <2>1. [c \in Clients |-> conn'[c] = "closed"] = [c \in Clients |-> TRUE]
    <3>1. \A c \in Clients : (conn'[c] = "closed") = TRUE
      BY <1>1
    <3>. QED  BY Zenon, <3>1
  <2>2. (pc' # "exited") = FALSE
    BY <1>1
  <2>. QED  BY Zenon, <1>1, <2>1, <2>2 DEF S!Stop
<1>. QED  BY <1>a, <1>b, <1>c, <1>d, <1>e DEF IInv

\* The second SIGINT ends the program, the first changes nothing in Service.
LEMMA SignalStep ==
    ASSUME IInv, Signal
    PROVE  IInv' /\ (S!Stop \/ UNCHANGED S!vars)
<1>1. CASE cancel /\ Exit
  BY <1>1, ExitStep
<1>2. CASE /\ cancel' = TRUE
           /\ UNCHANGED <<clients, connection, poll, pc, streams, answers>>
  <2>0. /\ ClientTypes /\ ConnTypes /\ StreamTypes /\ PollTypes /\ SignalTypes
        /\ ListIsActive /\ PassIsActive /\ \A d \in Clients : Tidy(d)
    BY DEF IInv
  <2>1. /\ cancel' = TRUE
        /\ UNCHANGED <<asked, due, to_server, received, peer, conn, active_connections,
                       recv_mbuf, send_mbuf, flags, todo, can_read, can_write, last, pc,
                       streams, answers>>
    BY <1>2 DEF clients, connection, poll
  <2>a. SignalTypes'
    BY Zenon, <2>0, <2>1 DEF SignalTypes
  <2>b. ClientTypes' /\ ConnTypes' /\ StreamTypes' /\ PollTypes'
    BY <2>0, <2>1 DEF ClientTypes, ConnTypes, StreamTypes, PollTypes
  <2>c. ListIsActive' /\ PassIsActive'
    BY <2>0, <2>1 DEF ListIsActive, PassIsActive
  <2>d. ASSUME NEW d \in Clients PROVE Tidy(d)'
    BY <2>0, <2>1, SameTidy
  <2>e. UNCHANGED S!vars
    BY <2>1 DEF S!vars
  <2>. QED  BY <2>a, <2>b, <2>c, <2>d, <2>e DEF IInv
<1>. QED  BY <1>1, <1>2 DEF Signal
-----------------------------------------------------------------------------
(***************************************************************************)
(* The whole of it.                                                        *)
(***************************************************************************)

\* The program begins where Service does.
LEMMA InitStep ==
    ASSUME Init
    PROVE  IInv /\ S!Init
<1>. USE DEF Init
<1>a. ClientTypes /\ ConnTypes /\ PollTypes /\ SignalTypes
  <2>1. <<>> \in Seq(RequestRecord) /\ <<>> \in Seq(UnitRecord) /\ <<>> \in Seq(AnswerRecord)
    OBVIOUS
  <2>2. ClientTypes
    BY <2>1 DEF ClientTypes
  <2>3. ConnTypes
    BY <2>1 DEF ConnTypes
  <2>4. PollTypes
    BY DEF PollTypes
  <2>5. SignalTypes
    BY Zenon DEF SignalTypes
  <2>. QED  BY <2>2, <2>3, <2>4, <2>5
<1>b. StreamTypes
  <2>1. DOMAIN streams = {} /\ streams \in [{} -> StreamRecord]
    BY NoStreams
  <2>. QED  BY <2>1 DEF StreamTypes
<1>c. ListIsActive /\ PassIsActive
  <2>1. Len(active_connections) = 0 /\ active_connections \in Seq(Clients)
    OBVIOUS
  <2>2. \A c \in Clients : conn[c] # "active"
    OBVIOUS
  <2>3. ListIsActive
    BY <2>1, <2>2 DEF ListIsActive
  <2>. QED  BY <2>3 DEF PassIsActive
<1>d. ASSUME NEW c \in Clients PROVE Tidy(c)
  <2>1. /\ asked[c] = <<>> /\ answers[c] = <<>> /\ recv_mbuf[c] = <<>> /\ to_server[c] = <<>>
        /\ send_mbuf[c] = <<>> /\ received[c] = <<>> /\ c \notin due
    OBVIOUS
  <2>2. <<>> \o <<>> = <<>> /\ Len(<<>>) = 0
    OBVIOUS
  <2>3. InSequence(<<>>, 0, <<>>) /\ ~BodyMissing(<<>>, <<>>)
    BY DEF InSequence, BodyMissing
  <2>. HIDE DEF Init
  <2>. QED  BY <2>1, <2>2, <2>3 DEF Tidy
<1>e. S!Init
  <2>1. [c \in Clients |-> conn[c] = "closed"] = [c \in Clients |-> FALSE]
    <3>1. \A c \in Clients : (conn[c] = "closed") = FALSE
      OBVIOUS
    <3>. QED  BY Zenon, <3>1
  <2>2. (pc # "exited") = TRUE
    OBVIOUS
  <2>. QED  BY Zenon, <2>1, <2>2 DEF S!Init
<1>. QED  BY <1>a, <1>b, <1>c, <1>d, <1>e DEF IInv

\* Every step of the server, of a client or of the user keeps the invariant and
\* is a step of Service, or none.
LEMMA NextStep ==
    ASSUME IInv, [Next]_vars
    PROVE  IInv' /\ [S!Next]_(S!vars)
<1>. USE DEF S!Next
<1>1. CASE Select
  BY <1>1, SelectStep
<1>2. CASE Accept
  BY <1>2, AcceptStep
<1>3. CASE Sweep
  BY <1>3, SweepStep
<1>4. CASE EndPoll
  BY <1>4, EndPollStep
<1>5. CASE FreeConn
  BY <1>5, FreeConnStep
<1>6. CASE DestroyStreams
  BY <1>6, ExitStep DEF DestroyStreams
<1>7. CASE Signal
  BY <1>7, SignalStep
<1>8. ASSUME NEW c \in Clients, ReadData(c) PROVE IInv' /\ [S!Next]_(S!vars)
  BY <1>8, ReadDataStep
<1>9. ASSUME NEW c \in Clients, ReadEnd(c) PROVE IInv' /\ [S!Next]_(S!vars)
  <2>1. Visit(c)
    BY <1>9 DEF ReadEnd, ReadDone
  <2>. QED  BY <1>9, <2>1, FlagStep
<1>10. ASSUME NEW c \in Clients, WriteData(c) PROVE IInv' /\ [S!Next]_(S!vars)
  BY <1>10, WriteDataStep
<1>11. ASSUME NEW c \in Clients, WriteFails(c) PROVE IInv' /\ [S!Next]_(S!vars)
  <2>1. Visit(c)
    BY <1>11 DEF WriteFails
  <2>. QED  BY <1>11, <2>1, FlagStep
<1>12. ASSUME NEW c \in Clients, Ask(c) PROVE IInv' /\ [S!Next]_(S!vars)
  BY <1>12, AskStep
<1>13. ASSUME NEW c \in Clients, SendBody(c) PROVE IInv' /\ [S!Next]_(S!vars)
  BY <1>13, SendBodyStep
<1>14. ASSUME NEW c \in Clients, HangUp(c) PROVE IInv' /\ [S!Next]_(S!vars)
  BY <1>14, HangUpStep
<1>15. CASE UNCHANGED vars
  <2>1. /\ ClientTypes /\ ConnTypes /\ StreamTypes /\ PollTypes /\ SignalTypes
        /\ ListIsActive /\ PassIsActive /\ \A d \in Clients : Tidy(d)
    BY DEF IInv
  <2>2. UNCHANGED <<asked, due, to_server, received, peer, conn, active_connections,
                    recv_mbuf, send_mbuf, flags, todo, can_read, can_write, last, cancel,
                    pc, streams, answers>>
    BY <1>15 DEF vars, clients, connection, poll
  <2>a. SignalTypes'
    BY Zenon, <2>1, <2>2 DEF SignalTypes
  <2>b. ClientTypes' /\ ConnTypes' /\ StreamTypes' /\ PollTypes'
    BY <2>1, <2>2 DEF ClientTypes, ConnTypes, StreamTypes, PollTypes
  <2>c. ListIsActive' /\ PassIsActive'
    BY <2>1, <2>2 DEF ListIsActive, PassIsActive
  <2>d. ASSUME NEW d \in Clients PROVE Tidy(d)'
    BY <2>1, <2>2, SameTidy
  <2>e. UNCHANGED S!vars
    BY <2>2 DEF S!vars
  <2>. QED  BY <2>a, <2>b, <2>c, <2>d, <2>e DEF IInv
<1>. QED
  BY <1>1, <1>2, <1>3, <1>4, <1>5, <1>6, <1>7, <1>8, <1>9, <1>10, <1>11, <1>12, <1>13, <1>14,
     <1>15 DEF Next, Server, Client

\* The list is as long as there are active connections.
LEMMA ListCounts ==
    ASSUME ListIsActive
    PROVE  /\ active_connections \in Seq({c \in Clients : conn[c] = "active"})
           /\ Len(active_connections) = Cardinality({c \in Clients : conn[c] = "active"})
<1>. DEFINE s == active_connections
            A == {c \in Clients : conn[c] = "active"}
            n == Len(s)
<1>1. /\ s \in Seq(Clients) /\ n \in Nat /\ DOMAIN s = 1..n
      /\ \A i \in 1..n : s[i] \in Clients /\ conn[s[i]] = "active"
      /\ \A i, j \in 1..n : s[i] = s[j] => i = j
      /\ \A c \in Clients : conn[c] = "active" => \E i \in 1..n : s[i] = c
  BY DEF ListIsActive
<1>. HIDE DEF s, n
<1>2. s \in [1..n -> A]
  <2>1. s = [i \in 1..n |-> s[i]]
    BY <1>1
  <2>2. \A i \in 1..n : s[i] \in A
    BY <1>1
  <2>. HIDE DEF A
  <2>. QED  BY <2>1, <2>2
<1>3. s \in Seq(A)
  <2>. HIDE DEF A
  <2>. QED  BY <1>1, <1>2
<1>4. ExistsBijection(1..n, A)
  <2>1. \A c \in A : \E i \in 1..n : s[i] = c
    BY <1>1
  <2>. HIDE DEF A
  <2>2. s \in Bijection(1..n, A)
    BY <1>1, <1>2, <2>1 DEF Bijection, Injection, Surjection, IsInjective
  <2>. QED  BY <2>2 DEF ExistsBijection
<1>5. Cardinality(A) = n
  <2>. HIDE DEF A
  <2>. QED  BY <1>1, <1>4, FS_CountingElements
<1>. QED  BY <1>3, <1>5 DEF s, n

\* The invariant contains the types.
LEMMA InvariantTypes ==
    ASSUME IInv
    PROVE  TypeOK
<1>1. /\ ClientTypes /\ ConnTypes /\ StreamTypes /\ PollTypes /\ SignalTypes
      /\ ListIsActive /\ PassIsActive /\ \A d \in Clients : Tidy(d)
  BY DEF IInv
<1>2. ASSUME NEW c \in Clients, recv_mbuf[c] # <<>> PROVE Head(recv_mbuf[c]).part = "head"
  <2>. DEFINE io == recv_mbuf[c]
              later == to_server[c]
  <2>1. io \in Seq(UnitRecord) /\ later \in Seq(UnitRecord)
    BY <1>1 DEF ClientTypes, ConnTypes
  <2>2. InSequence(asked[c], Len(answers[c]), io \o later)
    BY <1>1, <1>2 DEF Tidy
  <2>. HIDE DEF io, later
  <2>3. 1 \in 1..Len(io) /\ io[1] = Head(io)
    BY <1>2, <2>1 DEF io
  <2>4. (io \o later)[1] = io[1] /\ io \o later # <<>>
    BY <2>1, <2>3, ConcatProperties
  <2>5. (io \o later)[1] = Unit(Len(answers[c]) + 1, "head")
    BY <2>2, <2>4 DEF InSequence
  <2>. QED  BY <2>3, <2>4, <2>5 DEF Unit, io
<1>3. streams \in [DOMAIN streams -> [files : Nat, chunks : Nat]] /\ DOMAIN streams \subseteq Ids
  BY <1>1 DEF StreamTypes, StreamRecord
<1>4. cancel \in BOOLEAN /\ last \in BOOLEAN
  BY Zenon, <1>1 DEF SignalTypes
<1>. QED
  BY Zenon, <1>1, <1>2, <1>3, <1>4, ListCounts DEF TypeOK, ClientTypes, ConnTypes, PollTypes

\* The inductive invariant: whatever TCP delivers in which portions, and
\* wherever a connection or SIGINT breaks in, the buffers of server and network
\* hold exactly the requests that have not been served, beginning with a head,
\* and the answers that have not been received; and the list of mongoose holds
\* the active connections, each once.
THEOREM ServerInvariant == Spec => []IInv
<1>1. Init => IInv
  BY InitStep
<1>2. IInv /\ [Next]_vars => IInv'
  BY NextStep
<1>. QED  BY <1>1, <1>2, PTL DEF Spec

\* The types, with what they say about the list and the receive buffers:
\* mg_add_conn(), mg_remove_conn() and mbuf_remove() keep in step.
THEOREM ServerTypeCorrect == Spec => []TypeOK
<1>1. IInv => TypeOK
  BY InvariantTypes
<1>. QED  BY <1>1, ServerInvariant, PTL

\* The server implements Service: for any number of clients, any requests in any
\* portions, and any end of a connection or of the program, requests take effect
\* in their order, none twice or in part, with answers that arrive in the same
\* order; and nothing happens after main() has destroyed the streams.
THEOREM ServerServes == Spec => Served
<1>1. Init => IInv /\ S!Init
  BY InitStep
<1>2. IInv /\ [Next]_vars => IInv' /\ [S!Next]_(S!vars)
  BY NextStep
<1>. QED  BY <1>1, <1>2, PTL DEF Spec, Served, S!Spec
=============================================================================

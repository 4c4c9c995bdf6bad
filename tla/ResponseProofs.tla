---------------------------- MODULE ResponseProofs ----------------------------
(***************************************************************************)
(* Proofs about Response, for buffers, messages and bodies of any size.    *)
(***************************************************************************)
EXTENDS Response, SequenceTheorems, WellFoundedInduction, TLAPS

-----------------------------------------------------------------------------
(***************************************************************************)
(* The inductive invariant.                                                *)
(***************************************************************************)

\* A header and chunks are sent, and nothing else.
Open(items) ==
    /\ items # <<>> /\ items[1] = Header
    /\ \A i \in 2..Len(items) : IsChunk(items[i])

\* What the client takes for the response ends with item k.
EndsAt(items, k) ==
    /\ items[1] = Header /\ items[k] = Empty
    /\ \A i \in 2..(k - 1) : IsChunk(items[i])

\* With what is in the buffer, all that the handler has printed is sent.
StillOpen == Open(wire) /\ Bytes(wire)[Len(wire)] + buffered = printed

\* The client has seen the end, and before it all that the handler printed.
Finished == \E k \in 2..Len(wire) : EndsAt(wire, k) /\ Bytes(wire)[k] = printed

\* A second header stands where a chunk should, and an end comes after it.
Broken(items) ==
    /\ items[1] = Header /\ items[2] = Header
    /\ \E k \in 3..Len(items) : /\ items[k] = Empty
                                /\ \A i \in 3..(k - 1) : IsChunk(items[i])

\* A handler has its state to itself; while the header waits nothing is sent.
\* Until the destructor the response is open, unless the handler has flushed an
\* empty buffer: then all is sent and the response has ended early.  The handler
\* that throws after its header has sent nothing else, and breaks its response.
IInv ==
    /\ TypeOK
    /\ pc = "header" => wire = <<>> /\ ~header_sent /\ buffered = 0 /\ printed = 0
    /\ pc = "body" => header_sent /\ StillOpen /\ handler # "failing request"
    /\ pc = "destroy" /\ handler = "failing request" => ~header_sent /\ wire = ErrorReply
    /\ pc = "body" /\ handler = "failing data" => wire = <<Header>>
    /\ pc = "destroy" /\ handler \notin {"failing request", "failing data"} =>
           header_sent /\ (StillOpen \/ (buffered = 0 /\ Finished))
    /\ pc \in {"destroy", "idle"} /\ handler = "failing data" => Broken(wire)
    /\ pc = "idle" /\ handler # "failing data" =>
           \/ ~header_sent /\ wire \in {<<>>, ErrorReply}
           \/ header_sent /\ Finished

-----------------------------------------------------------------------------
(***************************************************************************)
(* The bytes of a sequence of chunks.                                      *)
(***************************************************************************)

\* Induction over the naturals: a set with 0 in it and with every successor of
\* a member holds them all, since what it lacked would have a least element.
LEMMA NatSetInduction ==
    ASSUME NEW T, 0 \in T, \A n \in Nat : n \in T => n + 1 \in T
    PROVE  Nat \subseteq T
<1>. DEFINE R == {p \in Nat \X Nat : p[1] < p[2]}
            U == Nat \ T
<1>. SUFFICES ASSUME U # {} PROVE FALSE
  OBVIOUS
<1>1. IsWellFoundedOn(R, Nat)
  <2>1. R = OpToRel(<, Nat)
    BY Zenon DEF OpToRel
  <2>. QED  BY <2>1, NatLessThanWellFounded
<1>2. PICK x \in U : \A y \in U : ~(<<y, x>> \in R)
  <2>1. U \subseteq Nat
    OBVIOUS
  <2>. HIDE DEF R, U
  <2>. QED  BY <1>1, <2>1, WFMin
<1>3. x \in Nat /\ x # 0
  BY <1>2
<1>4. x - 1 \in Nat /\ x - 1 \notin T
  <2>1. ASSUME x - 1 \in T PROVE FALSE
    <3>1. (x - 1) + 1 \in T
      BY <2>1, <1>3
    <3>. QED  BY <3>1, <1>3, (x - 1) + 1 = x
  <2>. QED  BY <2>1, <1>3
<1>5. <<x - 1, x>> \in R
  BY <1>3
<1>. QED  BY <1>2, <1>4, <1>5

Items == {Header} \cup 0..(BufSize + 1)

\* What an item adds to the body.
Size(item) == IF IsChunk(item) THEN item ELSE 0

\* What is written has a size.
LEMMA SizeType == \A item \in Items : Size(item) \in Nat
<1>1. BufSize + 1 \in Nat
  <2>1. BufSize \in Nat
    BY ResponseAssumption DEF ResponseAssumption
  <2>. QED  BY <2>1
<1>2. ASSUME NEW item \in Items PROVE item \in Nat \/ item = -1
  BY <1>1, <1>2 DEF Items, Header
<1>3. ASSUME NEW item \in Items PROVE Size(item) \in Nat
  <2>1. CASE item \in Nat
    BY <2>1 DEF Size, IsChunk
  <2>2. CASE item = -1
    <3>1. ~(item > 0)
      BY <2>2
    <3>. QED  BY <3>1 DEF Size, IsChunk
  <2>. QED  BY <1>2, <1>3, <2>1, <2>2
<1>. QED  BY <1>3

\* Bytes() is what its recursive definition says.
LEMMA BytesDef ==
    ASSUME NEW items, Len(items) \in Nat
    PROVE  Bytes(items) =
               [n \in 0..Len(items) |->
                    IF n = 0 THEN 0 ELSE Bytes(items)[n - 1] + Size(items[n])]
<1>. DEFINE Def(m, f) ==
                f = [n \in 0..m |-> IF n = 0 THEN 0 ELSE f[n - 1] + Size(items[n])]
            T == {m \in Nat : \E f : Def(m, f)}
<1>1. 0 \in T
  <2>1. Def(0, [n \in 0..0 |-> 0])
    OBVIOUS
  <2>. QED  BY <2>1
<1>2. ASSUME NEW m \in Nat, m \in T PROVE m + 1 \in T
  <2>1. PICK f : Def(m, f)
    BY <1>2
  <2>. DEFINE g == [n \in 0..(m + 1) |-> IF n <= m THEN f[n] ELSE f[m] + Size(items[m + 1])]
  <2>2. ASSUME NEW n \in 0..(m + 1)
        PROVE  g[n] = IF n = 0 THEN 0 ELSE g[n - 1] + Size(items[n])
    <3>1. CASE n = 0
      BY <3>1, <2>1
    <3>2. CASE n \in 1..m
      <4>1. g[n] = f[n] /\ g[n - 1] = f[n - 1]
        BY <3>2
      <4>2. f[n] = f[n - 1] + Size(items[n])
        BY <3>2, <2>1
      <4>3. n # 0
        BY <3>2
      <4>. HIDE DEF g
      <4>. QED  BY <4>1, <4>2, <4>3
    <3>3. CASE n = m + 1
      BY <3>3
    <3>. QED  BY <3>1, <3>2, <3>3
  <2>3. Def(m + 1, g)
    BY <2>2
  <2>4. \E h : Def(m + 1, h)
    <3>. HIDE DEF Def, g
    <3>. QED  BY <2>3
  <2>. QED  BY <2>4
<1>3. PICK f : Def(Len(items), f)
  <2>1. Nat \subseteq T
    <3>. HIDE DEF T
    <3>. QED  BY <1>1, <1>2, NatSetInduction
  <2>. QED  BY <2>1
<1>. QED  BY <1>3 DEF Bytes, Size

\* The size of one more item.
LEMMA BytesStep ==
    ASSUME NEW items \in Seq(Items)
    PROVE  /\ Len(items) \in Nat
           /\ Bytes(items)[0] = 0
           /\ \A n \in 1..Len(items) :
                  Bytes(items)[n] = Bytes(items)[n - 1] + Size(items[n])
<1>1. Len(items) \in Nat
  OBVIOUS
<1>2. /\ 0 \in 0..Len(items)
      /\ \A n \in 1..Len(items) : n \in 0..Len(items) /\ n # 0
  BY <1>1
<1>. DEFINE step == [n \in 0..Len(items) |->
                        IF n = 0 THEN 0 ELSE Bytes(items)[n - 1] + Size(items[n])]
<1>3. Bytes(items) = step
  BY <1>1, BytesDef
<1>4. step[0] = 0 /\ \A n \in 1..Len(items) :
                         step[n] = Bytes(items)[n - 1] + Size(items[n])
  BY <1>2
<1>. HIDE DEF step
<1>. QED  BY <1>1, <1>3, <1>4

\* Sequences that begin alike hold the same bytes there, a natural number.
LEMMA BytesAgree ==
    ASSUME NEW s \in Seq(Items), NEW t \in Seq(Items), NEW m \in Nat,
           m <= Len(s), m <= Len(t), \A i \in 1..m : s[i] = t[i]
    PROVE  \A n \in 0..m : Bytes(s)[n] = Bytes(t)[n] /\ Bytes(s)[n] \in Nat
<1>. DEFINE T == {n \in Nat : n <= m => Bytes(s)[n] = Bytes(t)[n] /\ Bytes(s)[n] \in Nat}
<1>1. 0 \in T
  BY BytesStep
<1>2. ASSUME NEW n \in Nat, n \in T PROVE n + 1 \in T
  <2>. SUFFICES ASSUME n + 1 <= m
                PROVE  Bytes(s)[n + 1] = Bytes(t)[n + 1] /\ Bytes(s)[n + 1] \in Nat
    OBVIOUS
  <2>1. /\ n + 1 \in 1..Len(s) /\ n + 1 \in 1..Len(t) /\ n + 1 \in 1..m
        /\ (n + 1) - 1 = n /\ n <= m
    OBVIOUS
  <2>2. Bytes(s)[n + 1] = Bytes(s)[n] + Size(s[n + 1])
    BY <2>1, BytesStep
  <2>3. Bytes(t)[n + 1] = Bytes(t)[n] + Size(t[n + 1])
    BY <2>1, BytesStep
  <2>4. s[n + 1] = t[n + 1] /\ s[n + 1] \in Items
    BY <2>1
  <2>5. Size(s[n + 1]) \in Nat
    BY <2>4, SizeType
  <2>. QED  BY <1>2, <2>1, <2>2, <2>3, <2>4, <2>5
<1>3. Nat \subseteq T
  <2>. HIDE DEF T
  <2>. QED  BY <1>1, <1>2, NatSetInduction
<1>. QED  BY <1>3

-----------------------------------------------------------------------------
(***************************************************************************)
(* What another item does to the wire.                                     *)
(***************************************************************************)

\* What is written later leaves what was written alone.
LEMMA OneMore ==
    ASSUME NEW s \in Seq(Items), NEW e \in Items
    PROVE  /\ Append(s, e) \in Seq(Items)
           /\ Len(s) \in Nat /\ Len(Append(s, e)) = Len(s) + 1
           /\ \A i \in 1..Len(s) : Append(s, e)[i] = s[i]
           /\ Append(s, e)[Len(s) + 1] = e
           /\ \A n \in 0..Len(s) : /\ Bytes(Append(s, e))[n] = Bytes(s)[n]
                                   /\ Bytes(s)[n] \in Nat
           /\ Bytes(Append(s, e))[Len(s) + 1] = Bytes(s)[Len(s)] + Size(e)
<1>. DEFINE t == Append(s, e)
<1>1. /\ t \in Seq(Items) /\ Len(s) \in Nat /\ Len(t) = Len(s) + 1
      /\ \A i \in 1..Len(s) : t[i] = s[i]
      /\ t[Len(s) + 1] = e
  BY AppendProperties
<1>. HIDE DEF t
<1>2. \A n \in 0..Len(s) : Bytes(s)[n] = Bytes(t)[n] /\ Bytes(s)[n] \in Nat
  <2>1. Len(s) <= Len(s) /\ Len(s) <= Len(t) /\ \A i \in 1..Len(s) : s[i] = t[i]
    BY <1>1
  <2>. QED  BY <1>1, <2>1, BytesAgree
<1>3. Bytes(t)[Len(s) + 1] = Bytes(s)[Len(s)] + Size(e)
  <2>1. Len(s) + 1 \in 1..Len(t) /\ (Len(s) + 1) - 1 = Len(s) /\ Len(s) \in 0..Len(s)
    BY <1>1
  <2>2. Bytes(t)[Len(s) + 1] = Bytes(t)[Len(s)] + Size(t[Len(s) + 1])
    BY <1>1, <2>1, BytesStep
  <2>. QED  BY <1>1, <1>2, <2>1, <2>2
<1>. QED  BY <1>1, <1>2, <1>3 DEF t

\* A chunk leaves the response open.
LEMMA ChunkIsSent ==
    ASSUME NEW s \in Seq(Items), Open(s), NEW e \in Items, IsChunk(e)
    PROVE  /\ Open(Append(s, e))
           /\ Bytes(Append(s, e))[Len(Append(s, e))] = Bytes(s)[Len(s)] + e
<1>1. Len(s) \in Nat \ {0} /\ 1 \in 1..Len(s)
  BY DEF Open
<1>2. Append(s, e) # <<>> /\ Append(s, e)[1] = Header
  BY <1>1, OneMore DEF Open
<1>3. ASSUME NEW i \in 2..(Len(s) + 1) PROVE IsChunk(Append(s, e)[i])
  <2>1. CASE i = Len(s) + 1
    BY <2>1, OneMore
  <2>2. CASE i # Len(s) + 1
    <3>1. i \in 2..Len(s) /\ i \in 1..Len(s)
      BY <1>1, <2>2
    <3>. QED  BY <3>1, OneMore DEF Open
  <2>. QED  BY <2>1, <2>2
<1>. QED  BY <1>2, <1>3, OneMore DEF Open, Size

\* An empty chunk ends it.
LEMMA EmptyIsSent ==
    ASSUME NEW s \in Seq(Items), Open(s), Empty \in Items
    PROVE  \E k \in 2..Len(Append(s, Empty)) :
               /\ EndsAt(Append(s, Empty), k)
               /\ Bytes(Append(s, Empty))[k] = Bytes(s)[Len(s)]
<1>1. Len(s) \in Nat \ {0} /\ 1 \in 1..Len(s) /\ Len(s) \in 0..Len(s)
      /\ Len(s) + 1 \in 2..(Len(s) + 1) /\ (Len(s) + 1) - 1 = Len(s)
      /\ \A i \in 2..Len(s) : i \in 1..Len(s)
  BY DEF Open
<1>2. EndsAt(Append(s, Empty), Len(s) + 1)
  BY <1>1, OneMore DEF Open, EndsAt
<1>3. Size(Empty) = 0
  BY DEF Size, IsChunk, Empty
<1>4. Bytes(Append(s, Empty))[Len(s) + 1] = Bytes(s)[Len(s)]
  BY <1>1, <1>3, OneMore
<1>. QED  BY <1>1, <1>2, <1>4, OneMore

\* What has ended stays as it is.
LEMMA EndStays ==
    ASSUME NEW s \in Seq(Items), NEW e \in Items, NEW k \in 2..Len(s), EndsAt(s, k)
    PROVE  /\ k \in 2..Len(Append(s, e)) /\ EndsAt(Append(s, e), k)
           /\ Bytes(Append(s, e))[k] = Bytes(s)[k]
<1>1. /\ Len(s) \in Nat /\ 1 \in 1..Len(s) /\ k \in 1..Len(s) /\ k \in 0..Len(s)
      /\ k \in 2..(Len(s) + 1)
      /\ \A i \in 2..(k - 1) : i \in 1..Len(s)
  OBVIOUS
<1>. QED  BY <1>1, OneMore DEF EndsAt

-----------------------------------------------------------------------------
(***************************************************************************)
(* Every action keeps the invariant.                                       *)
(***************************************************************************)

\* What the constants are.
LEMMA Sizes ==
    /\ BufSize \in Nat \ {0}
    /\ ErrorChunks \in Nat /\ ErrorRest \in 0..BufSize /\ ErrorRest \in Items
    /\ Header \in Items /\ Empty \in Items
    /\ \A n \in 0..(BufSize + 1) : n \in Items /\ n \in Nat
<1>1. BufSize \in Nat \ {0} /\ ErrorChunks \in Nat /\ ErrorRest \in 0..BufSize
  BY ResponseAssumption DEF ResponseAssumption
<1>. QED  BY <1>1 DEF Items, Empty

\* What an error message sends, item by item.
LEMMA ErrorReplyItems ==
    /\ ErrorReply \in Seq(Items) /\ Len(ErrorReply) = ErrorChunks + 4
    /\ ErrorReply[1] = Header
    /\ \A i \in 2..(ErrorChunks + 1) : ErrorReply[i] = BufSize + 1
    /\ ErrorReply[ErrorChunks + 2] = ErrorRest /\ ErrorReply[ErrorChunks + 3] = Empty
<1>. DEFINE last  == <<ErrorRest, Empty, Empty>>
            start == <<Header>> \o FullChunks
<1>1. /\ FullChunks \in Seq(Items) /\ Len(FullChunks) = ErrorChunks
      /\ \A i \in 1..ErrorChunks : FullChunks[i] = BufSize + 1
  <2>1. BufSize + 1 \in Items
    BY Sizes
  <2>. QED  BY <2>1, Sizes, IsASeq DEF FullChunks
<1>2. <<Header>> \in Seq(Items) /\ Len(<<Header>>) = 1 /\ <<Header>>[1] = Header
  BY Sizes
<1>3. last \in Seq(Items) /\ Len(last) = 3 /\ last[1] = ErrorRest /\ last[2] = Empty
  BY Sizes
<1>4. /\ start \in Seq(Items) /\ Len(start) = ErrorChunks + 1
      /\ start[1] = Header
      /\ \A i \in 2..(ErrorChunks + 1) : start[i] = BufSize + 1
  <2>1. /\ start \in Seq(Items) /\ Len(start) = 1 + ErrorChunks
        /\ \A i \in 1..(1 + ErrorChunks) :
               start[i] = IF i <= 1 THEN <<Header>>[i] ELSE FullChunks[i - 1]
    BY <1>1, <1>2, ConcatProperties
  <2>2. \A i \in 2..(ErrorChunks + 1) :
            i \in 1..(1 + ErrorChunks) /\ ~(i <= 1) /\ i - 1 \in 1..ErrorChunks
    BY Sizes
  <2>3. 1 \in 1..(1 + ErrorChunks) /\ 1 + ErrorChunks = ErrorChunks + 1
    BY Sizes
  <2>. HIDE DEF start
  <2>. QED  BY <1>1, <1>2, <2>1, <2>2, <2>3
<1>5. ErrorReply = start \o last
  BY DEF ErrorReply
<1>. HIDE DEF start, last
<1>6. /\ ErrorReply \in Seq(Items) /\ Len(ErrorReply) = ErrorChunks + 1 + 3
      /\ \A i \in 1..(ErrorChunks + 1 + 3) :
             ErrorReply[i] = IF i <= ErrorChunks + 1 THEN start[i] ELSE last[i - (ErrorChunks + 1)]
  <2>1. /\ start \o last \in Seq(Items) /\ Len(start \o last) = Len(start) + Len(last)
        /\ \A i \in 1..(Len(start) + Len(last)) :
               (start \o last)[i] = IF i <= Len(start) THEN start[i] ELSE last[i - Len(start)]
    BY <1>3, <1>4, ConcatProperties
  <2>2. Len(start) = ErrorChunks + 1 /\ Len(last) = 3
    BY <1>3, <1>4
  <2>. QED  BY <1>5, <2>1, <2>2, Zenon
<1>7. \A i \in 1..(ErrorChunks + 1) : i \in 1..(ErrorChunks + 1 + 3) /\ i <= ErrorChunks + 1
  BY Sizes
<1>8. ASSUME NEW j \in 1..2 PROVE ErrorReply[ErrorChunks + 1 + j] = last[j]
  <2>. DEFINE i == ErrorChunks + 1 + j
  <2>1. i \in 1..(ErrorChunks + 1 + 3) /\ ~(i <= ErrorChunks + 1) /\ i - (ErrorChunks + 1) = j
    <3>1. ErrorChunks \in Nat /\ j \in Nat /\ 1 <= j /\ j <= 2
      BY Sizes
    <3>. QED  BY <3>1
  <2>. HIDE DEF i
  <2>2. ErrorReply[i] = last[i - (ErrorChunks + 1)]
    BY <1>6, <2>1
  <2>. QED  BY <2>1, <2>2 DEF i
<1>9. /\ ErrorChunks + 1 + 3 = ErrorChunks + 4 /\ ErrorChunks + 1 + 1 = ErrorChunks + 2
      /\ ErrorChunks + 1 + 2 = ErrorChunks + 3
      /\ 1 \in 1..(ErrorChunks + 1) /\ 2..(ErrorChunks + 1) \subseteq 1..(ErrorChunks + 1)
      /\ 1 \in 1..2 /\ 2 \in 1..2
  BY Sizes
<1>10. \A i \in 1..(ErrorChunks + 1) : ErrorReply[i] = start[i]
  BY <1>6, <1>7
<1>11. ErrorReply[1] = Header /\ \A i \in 2..(ErrorChunks + 1) : ErrorReply[i] = BufSize + 1
  BY <1>4, <1>9, <1>10
<1>12. ErrorReply[ErrorChunks + 2] = ErrorRest /\ ErrorReply[ErrorChunks + 3] = Empty
  BY <1>3, <1>8, <1>9
<1>. QED  BY <1>6, <1>9, <1>11, <1>12

\* The reply to an error has an end; a message that fills the buffer to the
\* last byte has it one chunk earlier.
LEMMA ErrorReplyEnds == \E k \in 2..Len(ErrorReply) : EndsAt(ErrorReply, k)
<1>1. IsChunk(BufSize + 1) /\ (ErrorRest # 0 => IsChunk(ErrorRest))
  BY Sizes DEF IsChunk
<1>2. /\ Len(ErrorReply) = ErrorChunks + 4 /\ ErrorReply[1] = Header
      /\ \A i \in 2..(ErrorChunks + 1) : IsChunk(ErrorReply[i])
      /\ ErrorReply[ErrorChunks + 2] = ErrorRest /\ ErrorReply[ErrorChunks + 3] = Empty
  BY <1>1, ErrorReplyItems
<1>3. /\ ErrorChunks + 2 \in 2..(ErrorChunks + 4) /\ ErrorChunks + 3 \in 2..(ErrorChunks + 4)
      /\ (ErrorChunks + 2) - 1 = ErrorChunks + 1 /\ (ErrorChunks + 3) - 1 = ErrorChunks + 2
      /\ \A i \in 2..(ErrorChunks + 2) : i = ErrorChunks + 2 \/ i \in 2..(ErrorChunks + 1)
  BY Sizes
<1>4. CASE ErrorRest = 0
  <2>1. EndsAt(ErrorReply, ErrorChunks + 2)
    BY <1>2, <1>3, <1>4 DEF EndsAt, Empty
  <2>. QED  BY <1>2, <1>3, <2>1
<1>5. CASE ErrorRest # 0
  <2>1. \A i \in 2..(ErrorChunks + 2) : IsChunk(ErrorReply[i])
    BY <1>1, <1>2, <1>3, <1>5
  <2>2. EndsAt(ErrorReply, ErrorChunks + 3)
    BY <1>2, <1>3, <2>1 DEF EndsAt
  <2>. QED  BY <1>2, <1>3, <2>2
<1>. QED  BY <1>4, <1>5

\* Behind a header that has been sent before, it breaks the response.
LEMMA SecondHeaderBreaks ==
    ASSUME wire = <<Header>>
    PROVE  Broken(wire \o ErrorReply)
<1>. DEFINE both == <<Header>> \o ErrorReply
            n    == Len(ErrorReply)
<1>1. <<Header>> \in Seq(Items) /\ Len(<<Header>>) = 1 /\ <<Header>>[1] = Header
  BY Sizes
<1>2. /\ Len(both) = 1 + n /\ n \in Nat
      /\ \A i \in 1..(1 + n) : both[i] = IF i <= 1 THEN <<Header>>[i] ELSE ErrorReply[i - 1]
  <2>1. ErrorReply \in Seq(Items)
    BY ErrorReplyItems
  <2>. QED  BY <1>1, <2>1, ConcatProperties
<1>3. PICK k \in 2..n : EndsAt(ErrorReply, k)
  BY ErrorReplyEnds
<1>. HIDE DEF both, n
<1>4. \A i \in 2..(1 + n) : both[i] = ErrorReply[i - 1]
  <2>1. \A i \in 2..(1 + n) : i \in 1..(1 + n) /\ ~(i <= 1)
    BY <1>2
  <2>. QED  BY <1>2, <2>1
<1>5. both[1] = Header /\ both[2] = Header
  <2>1. 1 \in 1..(1 + n) /\ 2 \in 2..(1 + n) /\ 2 - 1 = 1
    BY <1>2
  <2>2. both[1] = Header
    BY <1>1, <1>2, <2>1
  <2>3. both[2] = ErrorReply[1]
    BY <1>4, <2>1
  <2>. QED  BY <2>2, <2>3, ErrorReplyItems
<1>6. k + 1 \in 3..(1 + n) /\ both[k + 1] = Empty
  <2>1. k + 1 \in 3..(1 + n) /\ k + 1 \in 2..(1 + n) /\ (k + 1) - 1 = k
    BY <1>2
  <2>. QED  BY <1>3, <1>4, <2>1 DEF EndsAt
<1>7. ASSUME NEW i \in 3..((k + 1) - 1) PROVE IsChunk(both[i])
  <2>1. i \in 2..(1 + n) /\ i - 1 \in 2..(k - 1)
    BY <1>2
  <2>. QED  BY <1>3, <1>4, <2>1 DEF EndsAt
<1>8. Broken(both)
  BY <1>2, <1>5, <1>6, <1>7 DEF Broken
<1>. QED  BY <1>8 DEF both

\* What is broken stays so.
LEMMA BrokenStays ==
    ASSUME NEW s \in Seq(Items), NEW e \in Items, Broken(s)
    PROVE  Broken(Append(s, e))
<1>1. PICK k \in 3..Len(s) : s[k] = Empty /\ \A i \in 3..(k - 1) : IsChunk(s[i])
  BY DEF Broken
<1>2. /\ k \in 3..(Len(s) + 1) /\ k \in 1..Len(s)
      /\ 1 \in 1..Len(s) /\ 2 \in 1..Len(s)
      /\ \A i \in 3..(k - 1) : i \in 1..Len(s)
  OBVIOUS
<1>. QED  BY <1>1, <1>2, OneMore DEF Broken

\* What a step has to show of the types.
LEMMA TypesOfStep ==
    ASSUME handler' \in Kinds \cup {"none"}, pc' \in {"idle", "header", "body", "destroy"},
           header_sent' \in BOOLEAN, buffered' \in 0..BufSize, printed' \in Nat,
           wire' \in Seq(Items)
    PROVE  TypeOK'
BY Zenon DEF TypeOK, Items

\* It holds before the first request.
LEMMA InitIInv == Init => IInv
<1>. SUFFICES ASSUME Init PROVE IInv
  OBVIOUS
<1>1. wire \in Seq(Items) /\ buffered \in 0..BufSize /\ printed \in Nat
  BY Sizes DEF Init
<1>2. TypeOK
  BY <1>1, Zenon DEF Init, TypeOK, Items
<1>3. pc = "idle" /\ handler = "none" /\ ~header_sent /\ wire = <<>>
  BY Zenon DEF Init
<1>. QED  BY <1>2, <1>3 DEF IInv

\* A request that arrives keeps it.
LEMMA RequestStep ==
    ASSUME IInv, NEW kind \in Kinds, Request(kind)
    PROVE  IInv'
<1>1. TypeOK'
  <2>1. <<>> \in Seq(Items) /\ ErrorReply \in Seq(Items)
    BY ErrorReplyItems
  <2>2. wire' \in Seq(Items)
    BY <2>1 DEF Request
  <2>3. buffered' \in 0..BufSize /\ printed' \in Nat
    BY Sizes DEF Request
  <2>4. handler' \in Kinds \cup {"none"} /\ pc' \in {"idle", "header", "body", "destroy"}
    BY Zenon DEF Request
  <2>5. header_sent' \in BOOLEAN
    BY Zenon DEF Request
  <2>. QED  BY <2>2, <2>3, <2>4, <2>5, TypesOfStep
<1>2. header_sent' = FALSE /\ buffered' = 0 /\ printed' = 0
  BY Zenon DEF Request
<1>3. \/ pc' = "idle" /\ wire' = ErrorReply /\ handler' = "none"
      \/ pc' = "header" /\ wire' = <<>>
  BY Zenon DEF Request
<1>. QED  BY <1>1, <1>2, <1>3 DEF IInv

\* The header that is sent keeps it.
LEMMA SendHeaderStep ==
    ASSUME IInv, SendHeader
    PROVE  IInv'
<1>1. /\ wire = <<>> /\ buffered = 0 /\ printed = 0 /\ wire' = <<Header>>
      /\ handler' = handler /\ handler # "failing request" /\ header_sent' = TRUE
      /\ buffered' = 0 /\ printed' = 0 /\ pc' = "body"
  <2>1. wire = <<>> /\ buffered = 0 /\ printed = 0
    BY DEF SendHeader, IInv
  <2>2. wire' = Append(wire, Header) /\ header_sent' = TRUE /\ pc' = "body"
        /\ handler' = handler /\ buffered' = buffered /\ printed' = printed
        /\ handler # "failing request"
    BY Zenon DEF SendHeader
  <2>3. wire' = <<Header>>
    <3>1. wire' = Append(<<>>, Header)
      BY <2>1, <2>2, Zenon
    <3>. QED  BY <3>1
  <2>. QED  BY <2>1, <2>2, <2>3, Zenon
<1>2. <<Header>> \in Seq(Items) /\ Len(<<Header>>) = 1 /\ <<Header>> # <<>>
      /\ <<Header>>[1] = Header
  BY Sizes
<1>3. Bytes(<<Header>>)[1] = 0
  <2>. DEFINE first == <<Header>>
  <2>0. first \in Seq(Items) /\ 1 \in 1..Len(first) /\ first[1] = Header
    BY <1>2
  <2>. HIDE DEF first
  <2>1. Bytes(first)[1] = Bytes(first)[1 - 1] + Size(first[1])
    BY <2>0, BytesStep
  <2>2. Bytes(first)[0] = 0
    BY <2>0, BytesStep
  <2>3. Size(Header) = 0
    BY DEF Size, IsChunk, Header
  <2>4. Bytes(first)[1] = 0
    BY <2>0, <2>1, <2>2, <2>3
  <2>. QED  BY <2>4 DEF first
<1>4. StillOpen'
  <2>1. Open(<<Header>>)
    BY <1>2 DEF Open
  <2>2. Open(wire') /\ Bytes(wire')[Len(wire')] = 0
    BY <1>1, <1>2, <1>3, <2>1, Zenon
  <2>3. buffered' = 0 /\ printed' = 0
    BY <1>1, Zenon
  <2>. QED  BY <2>2, <2>3 DEF StillOpen
<1>5. TypeOK'
  <2>1. buffered' \in 0..BufSize /\ printed' \in Nat
    <3>1. buffered' = 0 /\ printed' = 0
      BY <1>1, Zenon
    <3>. QED  BY <3>1, Sizes
  <2>2. handler' \in Kinds \cup {"none"}
    BY <1>1, Zenon DEF IInv, TypeOK
  <2>3. header_sent' \in BOOLEAN /\ pc' \in {"idle", "header", "body", "destroy"}
        /\ wire' \in Seq(Items)
    BY <1>1, <1>2, Zenon
  <2>. QED  BY <2>1, <2>2, <2>3, TypesOfStep
<1>6. header_sent' /\ handler' # "failing request" /\ pc' = "body"
      /\ wire' = <<Header>>
  BY <1>1, Zenon
<1>. QED  BY <1>4, <1>5, <1>6 DEF IInv

\* A chunk from the buffer, and the byte that did not fit if there is one.
LEMMA SendBuffer ==
    ASSUME TypeOK, StillOpen, NEW extra \in {0, 1}, buffered + extra > 0,
           wire' = Append(wire, buffered + extra), buffered' = 0,
           printed' = printed + extra
    PROVE  StillOpen' /\ wire' \in Seq(Items)
<1>1. wire \in Seq(Items) /\ buffered \in 0..BufSize /\ printed \in Nat /\ BufSize \in Nat
  BY Sizes DEF TypeOK, Items
<1>2. buffered + extra \in 0..(BufSize + 1) /\ buffered + extra \in Nat
  BY <1>1
<1>3. buffered + extra \in Items /\ IsChunk(buffered + extra)
  BY <1>2, Sizes DEF IsChunk
<1>4. Open(wire) /\ Bytes(wire)[Len(wire)] + buffered = printed
  BY DEF StillOpen
<1>5. Open(wire') /\ Bytes(wire')[Len(wire')] = Bytes(wire)[Len(wire)] + (buffered + extra)
      /\ wire' \in Seq(Items)
  BY <1>1, <1>3, <1>4, ChunkIsSent, OneMore
<1>6. Bytes(wire)[Len(wire)] \in Nat
  <2>1. Len(wire) \in 0..Len(wire)
    BY <1>1
  <2>. QED  BY <1>1, <1>3, <2>1, OneMore
<1>7. Bytes(wire')[Len(wire')] + buffered' = printed'
  <2>. DEFINE sent == Bytes(wire)[Len(wire)]
              after == Bytes(wire')[Len(wire')]
  <2>1. /\ sent \in Nat /\ after = sent + (buffered + extra) /\ sent + buffered = printed
        /\ buffered \in Nat
    BY <1>1, <1>4, <1>5, <1>6
  <2>. HIDE DEF sent, after
  <2>2. after + 0 = printed + extra
    BY <2>1
  <2>. QED  BY <2>2 DEF after
<1>. QED  BY <1>5, <1>7 DEF StillOpen

\* A character for the buffer keeps it.
LEMMA PutStep ==
    ASSUME IInv, Put
    PROVE  IInv'
<1>1. /\ pc = "body" /\ printed' = printed + 1 /\ handler' = handler /\ pc' = pc
      /\ header_sent' = header_sent
  BY DEF Put
<1>2. TypeOK /\ StillOpen /\ header_sent /\ handler # "failing request"
  BY <1>1 DEF IInv
<1>3. buffered \in 0..BufSize /\ printed \in Nat /\ wire \in Seq(Items) /\ BufSize \in Nat
  BY <1>2, Sizes DEF TypeOK, Items
<1>4. StillOpen' /\ wire' \in Seq(Items) /\ buffered' \in 0..BufSize
  <2>1. CASE buffered < BufSize /\ buffered' = buffered + 1 /\ wire' = wire
    <3>1. Len(wire) \in 0..Len(wire)
      BY <1>3
    <3>2. Bytes(wire)[Len(wire)] \in Nat
      BY <1>3, <3>1, Sizes, OneMore
    <3>3. Open(wire) /\ Bytes(wire)[Len(wire)] + buffered = printed
      BY <1>2 DEF StillOpen
    <3>4. Bytes(wire)[Len(wire)] + (buffered + 1) = printed + 1
      BY <1>3, <3>2, <3>3
    <3>. QED  BY <1>1, <1>3, <2>1, <3>3, <3>4 DEF StillOpen
  <2>2. CASE buffered = BufSize /\ buffered' = 0 /\ wire' = Append(wire, BufSize + 1)
    <3>1. buffered + 1 > 0
      BY <1>3
    <3>2. StillOpen' /\ wire' \in Seq(Items)
      BY <1>1, <1>2, <2>2, <3>1, SendBuffer
    <3>. QED  BY <1>3, <2>2, <3>2
  <2>. QED  BY <2>1, <2>2 DEF Put
<1>5. TypeOK'
  <2>1. printed' \in Nat
    BY <1>1, <1>3
  <2>2. header_sent' \in BOOLEAN /\ handler' \in Kinds \cup {"none"}
        /\ pc' \in {"idle", "header", "body", "destroy"}
    BY <1>1, <1>2, Zenon DEF TypeOK
  <2>. QED  BY <1>4, <2>1, <2>2, TypesOfStep
<1>6. header_sent' /\ handler' # "failing request" /\ handler' # "failing data" /\ pc' = "body"
  <2>1. handler # "failing data"
    BY DEF Put
  <2>. QED  BY <1>1, <1>2, <2>1, Zenon
<1>. QED  BY <1>4, <1>5, <1>6 DEF IInv

\* A line that is flushed keeps it.
LEMMA FlushLineStep ==
    ASSUME IInv, FlushLine
    PROVE  IInv'
<1>1. /\ pc = "body" /\ printed' = printed /\ handler' = handler /\ pc' = pc
      /\ header_sent' = header_sent /\ buffered > 0
      /\ wire' = Append(wire, buffered) /\ buffered' = 0
  BY DEF FlushLine, Flush
<1>2. TypeOK /\ StillOpen /\ header_sent /\ handler # "failing request"
  BY <1>1 DEF IInv
<1>3. buffered \in 0..BufSize /\ printed \in Nat /\ BufSize \in Nat
  BY <1>2, Sizes DEF TypeOK
<1>4. buffered + 0 = buffered /\ printed + 0 = printed
  BY <1>3
<1>5. StillOpen' /\ wire' \in Seq(Items)
  BY <1>1, <1>2, <1>4, SendBuffer
<1>6. TypeOK'
  <2>1. buffered' \in 0..BufSize /\ printed' \in Nat
    BY <1>1, <1>3
  <2>2. header_sent' \in BOOLEAN /\ handler' \in Kinds \cup {"none"}
        /\ pc' \in {"idle", "header", "body", "destroy"}
    BY <1>1, <1>2, Zenon DEF TypeOK
  <2>. QED  BY <1>5, <2>1, <2>2, TypesOfStep
<1>7. header_sent' /\ handler' = "page" /\ pc' = "body"
  BY <1>1, <1>2 DEF FlushLine
<1>. QED  BY <1>5, <1>6, <1>7 DEF IInv

\* What is in the buffer goes out: the response stays open, or it has ended if
\* there was nothing.
LEMMA FlushEffect ==
    ASSUME TypeOK, StillOpen, wire' = Append(wire, buffered), buffered' = 0, printed' = printed
    PROVE  wire' \in Seq(Items) /\ (StillOpen' \/ Finished')
<1>1. buffered \in 0..BufSize /\ printed \in Nat /\ BufSize \in Nat /\ wire \in Seq(Items)
  BY Sizes DEF TypeOK, Items
<1>2. CASE buffered > 0
  <2>1. buffered + 0 = buffered /\ printed + 0 = printed
    BY <1>1
  <2>. QED  BY <1>2, <2>1, SendBuffer
<1>3. CASE buffered = 0
  <2>1. Open(wire) /\ Bytes(wire)[Len(wire)] + 0 = printed /\ wire' = Append(wire, Empty)
    BY <1>3 DEF StillOpen, Empty
  <2>2. Len(wire) \in 0..Len(wire)
    BY <1>1
  <2>3. Bytes(wire)[Len(wire)] \in Nat /\ wire' \in Seq(Items)
    BY <1>1, <2>1, <2>2, Sizes, OneMore
  <2>4. PICK k \in 2..Len(wire') : EndsAt(wire', k) /\ Bytes(wire')[k] = Bytes(wire)[Len(wire)]
    BY <1>1, <2>1, Sizes, EmptyIsSent
  <2>5. Bytes(wire')[k] = printed'
    BY <1>1, <2>1, <2>3, <2>4
  <2>. QED  BY <2>3, <2>4, <2>5 DEF Finished
<1>. QED  BY <1>1, <1>2, <1>3

\* The handler that returns keeps it.
LEMMA HandlerReturnsStep ==
    ASSUME IInv, HandlerReturns
    PROVE  IInv'
<1>1. /\ pc = "body" /\ printed' = printed /\ handler' = handler /\ pc' = "destroy"
      /\ header_sent' = header_sent
  BY DEF HandlerReturns
<1>2. TypeOK /\ StillOpen /\ header_sent /\ handler # "failing request"
  BY <1>1 DEF IInv
<1>3. handler # "failing data"
  BY DEF HandlerReturns
<1>4. CASE handler = "message"
  <2>1. wire' = Append(wire, buffered) /\ buffered' = 0
    BY <1>4 DEF HandlerReturns, Flush
  <2>2. wire' \in Seq(Items) /\ (StillOpen' \/ Finished')
    BY <1>1, <1>2, <2>1, FlushEffect
  <2>3. TypeOK'
    <3>1. buffered' \in 0..BufSize /\ printed' \in Nat
      <4>1. printed' = printed /\ printed \in Nat
        BY <1>1, <1>2, Zenon DEF TypeOK
      <4>. QED  BY <2>1, <4>1, Sizes
    <3>2. header_sent' \in BOOLEAN /\ handler' \in Kinds \cup {"none"}
          /\ pc' \in {"idle", "header", "body", "destroy"}
      BY <1>1, <1>2, Zenon DEF TypeOK
    <3>. QED  BY <2>2, <3>1, <3>2, TypesOfStep
  <2>. QED  BY <1>1, <1>2, <1>3, <2>1, <2>2, <2>3 DEF IInv
<1>5. CASE handler # "message"
  <2>1. wire' = wire /\ buffered' = buffered
    BY <1>5 DEF HandlerReturns
  <2>2. StillOpen'
    BY <1>1, <1>2, <2>1 DEF StillOpen, Open
  <2>3. TypeOK'
    BY <1>1, <1>2, <2>1 DEF TypeOK
  <2>. QED  BY <1>1, <1>2, <1>3, <2>2, <2>3 DEF IInv
<1>. QED  BY <1>4, <1>5

\* The handler that throws keeps it.
LEMMA HandlerThrowsStep ==
    ASSUME IInv, HandlerThrows
    PROVE  IInv'
<1>1. /\ printed' = printed /\ handler' = handler /\ pc' = "destroy"
      /\ header_sent' = header_sent /\ buffered' = buffered /\ wire' = wire \o ErrorReply
  BY DEF HandlerThrows
<1>2. TypeOK /\ wire \in Seq(Items)
  BY DEF IInv, TypeOK, Items
<1>3. wire' \in Seq(Items)
  BY <1>1, <1>2, ErrorReplyItems, ConcatProperties
<1>4. TypeOK'
  <2>1. header_sent' \in BOOLEAN /\ handler' \in Kinds \cup {"none"}
        /\ pc' \in {"idle", "header", "body", "destroy"}
        /\ buffered' \in 0..BufSize /\ printed' \in Nat
    BY <1>1, <1>2, Zenon DEF TypeOK
  <2>. QED  BY <1>3, <2>1, TypesOfStep
<1>5. CASE pc = "header" /\ handler = "failing request"
  <2>1. wire = <<>> /\ ~header_sent
    BY <1>5 DEF IInv
  <2>2. wire' = ErrorReply
    BY <1>1, <2>1, ErrorReplyItems, ConcatEmptySeq
  <2>. QED  BY <1>1, <1>4, <1>5, <2>1, <2>2 DEF IInv
<1>6. CASE pc = "body" /\ handler = "failing data"
  <2>1. wire = <<Header>>
    BY <1>6 DEF IInv
  <2>2. Broken(wire')
    BY <1>1, <2>1, SecondHeaderBreaks
  <2>. QED  BY <1>1, <1>4, <1>6, <2>2 DEF IInv
<1>. QED  BY <1>5, <1>6 DEF HandlerThrows

\* The destructor of the response keeps it.
LEMMA DestroyStep ==
    ASSUME IInv, Destroy
    PROVE  IInv'
<1>1. /\ pc = "destroy" /\ printed' = printed /\ handler' = handler /\ pc' = "idle"
      /\ header_sent' = header_sent /\ buffered' = 0
      /\ header_sent => wire' = wire \o <<buffered, Empty>>
      /\ ~header_sent => wire' = wire
  BY Zenon DEF Destroy
<1>2. TypeOK /\ wire \in Seq(Items) /\ buffered \in 0..BufSize /\ printed \in Nat
  BY Zenon DEF IInv, TypeOK, Items
<1>. DEFINE flushed == Append(wire, buffered)
<1>3. buffered \in Items
  BY <1>2, Sizes
<1>4. flushed \in Seq(Items) /\ Append(flushed, Empty) \in Seq(Items)
      /\ wire \o <<buffered, Empty>> = Append(flushed, Empty)
  <2>1. wire \o <<buffered, Empty>> = Append(Append(wire, buffered), Empty)
    BY <1>2, <1>3, Sizes
  <2>. QED  BY <1>2, <1>3, <2>1, Sizes, OneMore
<1>5. wire' \in Seq(Items)
  BY <1>1, <1>2, <1>4, Zenon
<1>6. TypeOK'
  <2>1. buffered' \in 0..BufSize
    <3>1. buffered' = 0
      BY <1>1, Zenon
    <3>. QED  BY <3>1, Sizes
  <2>2. header_sent' \in BOOLEAN /\ handler' \in Kinds \cup {"none"} /\ printed' \in Nat
        /\ pc' \in {"idle", "header", "body", "destroy"}
    BY <1>1, <1>2, Zenon DEF TypeOK
  <2>. QED  BY <1>5, <2>1, <2>2, TypesOfStep
<1>7. CASE handler = "failing request"
  <2>1. ~header_sent /\ wire = ErrorReply
    BY <1>1, <1>7 DEF IInv
  <2>2. ~header_sent' /\ wire' = ErrorReply /\ pc' = "idle" /\ handler' = "failing request"
    BY <1>1, <1>7, <2>1, Zenon
  <2>. QED  BY <1>6, <2>2 DEF IInv
<1>8. CASE handler = "failing data"
  <2>1. handler' = "failing data" /\ pc' = "idle"
    BY <1>1, <1>8, Zenon
  <2>2. Broken(wire)
    BY <1>1, <1>8 DEF IInv
  <2>3. Broken(Append(flushed, Empty))
    <3>1. Broken(flushed)
      BY <1>2, <1>3, <2>2, BrokenStays
    <3>. HIDE DEF flushed
    <3>. QED  BY <1>4, <3>1, Sizes, BrokenStays
  <2>4. Broken(wire')
    BY <1>1, <1>4, <2>2, <2>3, Zenon
  <2>. QED  BY <1>6, <2>1, <2>4 DEF IInv
<1>9. CASE handler \notin {"failing request", "failing data"}
  <2>1. header_sent /\ (StillOpen \/ (buffered = 0 /\ Finished))
    BY <1>1, <1>9 DEF IInv
  <2>2. wire' = Append(flushed, Empty) /\ printed' = printed
    BY <1>1, <1>4, <2>1, Zenon
  <2>. HIDE DEF flushed
  <2>3. \E k \in 2..Len(wire') : EndsAt(wire', k) /\ Bytes(wire')[k] = printed'
    <3>1. CASE \E k \in 2..Len(flushed) : EndsAt(flushed, k) /\ Bytes(flushed)[k] = printed
      BY <1>4, <2>2, <3>1, Sizes, EndStays
    <3>2. CASE Finished
      <4>1. \E k \in 2..Len(flushed) : EndsAt(flushed, k) /\ Bytes(flushed)[k] = printed
        BY <1>2, <1>3, <3>2, EndStays DEF Finished, flushed
      <4>. QED  BY <3>1, <4>1
    <3>3. CASE StillOpen /\ buffered = 0
      <4>1. Len(wire) \in 0..Len(wire)
        BY <1>2
      <4>2. Bytes(wire)[Len(wire)] \in Nat
        BY <1>2, <1>3, <4>1, OneMore
      <4>3. Bytes(wire)[Len(wire)] = printed /\ Open(wire)
        BY <1>2, <3>3, <4>2 DEF StillOpen
      <4>4. \E k \in 2..Len(flushed) : EndsAt(flushed, k) /\ Bytes(flushed)[k] = printed
        BY <1>2, <3>3, <4>3, Sizes, EmptyIsSent DEF flushed, Empty
      <4>. QED  BY <3>1, <4>4
    <3>4. CASE StillOpen /\ buffered > 0
      <4>1. Open(wire) /\ Bytes(wire)[Len(wire)] + buffered = printed /\ IsChunk(buffered)
        BY <3>4 DEF StillOpen, IsChunk
      <4>2. Open(flushed) /\ Bytes(flushed)[Len(flushed)] = printed
        BY <1>2, <1>3, <4>1, ChunkIsSent DEF flushed
      <4>3. Empty \in Items
        BY Sizes
      <4>. QED  BY <1>4, <2>2, <4>2, <4>3, EmptyIsSent
    <3>. QED  BY <1>2, <2>1, <3>2, <3>3, <3>4
  <2>4. header_sent' /\ pc' = "idle" /\ handler' # "failing data"
    BY <1>1, <1>9, <2>1
  <2>5. Finished'
    BY <2>3 DEF Finished
  <2>. QED  BY <1>6, <2>4, <2>5 DEF IInv
<1>. QED  BY <1>7, <1>8, <1>9

\* Every step keeps it.
LEMMA NextIInv == IInv /\ [Next]_vars => IInv'
<1>. SUFFICES ASSUME IInv, [Next]_vars PROVE IInv'
  OBVIOUS
<1>1. CASE UNCHANGED vars
  BY <1>1, Zenon DEF vars, IInv, TypeOK, StillOpen, Finished, Broken, Open, EndsAt
<1>2. CASE Call
  BY <1>2, RequestStep DEF Call
<1>3. CASE Step
  BY <1>3, SendHeaderStep, PutStep, FlushLineStep, HandlerReturnsStep, HandlerThrowsStep,
     DestroyStep DEF Step
<1>. QED  BY <1>1, <1>2, <1>3 DEF Next

\* The strengthened invariant holds whatever handlers run, one after the other.
THEOREM ResponseInvariant == Spec => []IInv
<1>1. Init => IInv
  BY InitIInv
<1>2. IInv /\ [Next]_vars => IInv'
  BY NextIInv
<1>. QED  BY <1>1, <1>2, PTL DEF Spec

\* Every variable keeps its type; the buffer never holds more than the bytes
\* between pbase() and epptr().
THEOREM ResponseTypeCorrect == Spec => []TypeOK
<1>1. IInv => TypeOK
  BY DEF IInv
<1>. QED  BY <1>1, ResponseInvariant, PTL

-----------------------------------------------------------------------------
(***************************************************************************)
(* What the client makes of it.                                            *)
(***************************************************************************)

\* What has been written up to the first empty chunk is the answer.
LEMMA AnswerIs ==
    ASSUME wire \in Seq(Items), NEW k \in 1..Len(wire), wire[k] = Empty,
           \A i \in 1..(k - 1) : wire[i] # Empty
    PROVE  /\ Answer \in Seq(Items) /\ Len(Answer) = k
           /\ \A i \in 1..k : Answer[i] = wire[i]
<1>. DEFINE I == {i \in 1..Len(wire) : wire[i] = Empty}
<1>1. k \in I /\ Len(wire) \in Nat
  OBVIOUS
<1>2. ASSUME NEW i \in I PROVE k <= i
  <2>1. SUFFICES ASSUME i < k PROVE FALSE
    BY <1>1
  <2>2. i \in 1..(k - 1)
    BY <2>1
  <2>. QED  BY <2>2
<1>3. ASSUME NEW x \in I, \A y \in I : x =< y PROVE x = k
  BY <1>1, <1>2, <1>3
<1>4. Min(I) = k
  <2>. HIDE DEF I
  <2>. QED  BY <1>1, <1>2, <1>3 DEF Min
<1>5. SelectInSeq(wire, LAMBDA item : item = Empty) = k
  BY <1>1, <1>4 DEF SelectInSeq
<1>6. Answer = SubSeq(wire, 1, k)
  BY <1>5 DEF Answer
<1>7. \A i \in 1..k : wire[i] \in Items
  BY <1>1
<1>8. /\ SubSeq(wire, 1, k) \in Seq(Items) /\ Len(SubSeq(wire, 1, k)) = k
      /\ \A i \in 1..k : SubSeq(wire, 1, k)[i] = wire[i]
  <2>1. 1 \in Int /\ k \in Int /\ 1 <= k
    OBVIOUS
  <2>. QED  BY <1>7, <2>1, SubSeqProperties
<1>. QED  BY <1>6, <1>8

\* Neither a header nor a chunk is an empty one.
LEMMA NotEmpty == Header # Empty /\ ~IsChunk(Header) /\ \A item : IsChunk(item) => item # Empty
BY DEF Header, Empty, IsChunk

\* The client finds its header, the chunks, and what they hold.
LEMMA EndedAnswer ==
    ASSUME wire \in Seq(Items), NEW k \in 2..Len(wire), EndsAt(wire, k)
    PROVE  Framed /\ Received = Bytes(wire)[k]
<1>1. Answer \in Seq(Items) /\ Len(Answer) = k /\ \A i \in 1..k : Answer[i] = wire[i]
  <2>1. ASSUME NEW i \in 1..(k - 1) PROVE wire[i] # Empty
    <3>1. i = 1 \/ i \in 2..(k - 1)
      OBVIOUS
    <3>. QED  BY <3>1, NotEmpty DEF EndsAt
  <2>2. wire[k] = Empty /\ k \in 1..Len(wire)
    BY DEF EndsAt
  <2>. QED  BY <2>1, <2>2, AnswerIs
<1>2. /\ k \in Nat /\ k >= 2 /\ k <= Len(wire) /\ k <= Len(Answer)
      /\ 1 \in 1..k /\ k \in 0..k
      /\ \A i \in 2..(k - 1) : i \in 1..k
  BY <1>1
<1>3. Answer[1] = Header /\ \A i \in 2..(k - 1) : IsChunk(Answer[i])
  BY <1>1, <1>2 DEF EndsAt
<1>4. \A i \in 1..k : wire[i] = Answer[i]
  BY <1>1
<1>5. Bytes(wire)[k] = Bytes(Answer)[k]
  BY <1>1, <1>2, <1>4, BytesAgree
<1>. QED  BY <1>1, <1>2, <1>3, <1>5 DEF Framed, Received

\* It does not find them in a response that is broken.
LEMMA BrokenAnswer ==
    ASSUME wire \in Seq(Items), Broken(wire)
    PROVE  ~Framed
<1>1. PICK k \in 3..Len(wire) : wire[k] = Empty /\ \A i \in 3..(k - 1) : IsChunk(wire[i])
  BY DEF Broken
<1>2. ASSUME NEW i \in 1..(k - 1) PROVE wire[i] # Empty
  <2>1. i = 1 \/ i = 2 \/ i \in 3..(k - 1)
    OBVIOUS
  <2>. QED  BY <1>1, <2>1, NotEmpty DEF Broken
<1>3. Len(Answer) = k /\ \A i \in 1..k : Answer[i] = wire[i]
  <2>1. k \in 1..Len(wire)
    OBVIOUS
  <2>. QED  BY <1>1, <1>2, <2>1, AnswerIs
<1>4. 2 \in 2..(Len(Answer) - 1) /\ 2 \in 1..k
  BY <1>3
<1>5. Answer[2] = Header
  BY <1>3, <1>4 DEF Broken
<1>. QED  BY <1>4, <1>5, NotEmpty DEF Framed

\* The client finds one header, then chunks, then an empty one, if the handler
\* returned, threw before its header or was missing, and never if it threw
\* after its header: then a second header stands in the middle.
THEOREM AnswersAreFramed == Spec => []AnswerIsFramed
<1>1. IInv => AnswerIsFramed
  <2>. SUFFICES ASSUME IInv, pc = "idle", wire # <<>>
                PROVE  Framed <=> handler # "failing data"
    BY DEF AnswerIsFramed
  <2>1. wire \in Seq(Items)
    BY DEF IInv, TypeOK, Items
  <2>2. CASE handler = "failing data"
    <3>1. Broken(wire)
      BY <2>2 DEF IInv
    <3>. QED  BY <2>1, <2>2, <3>1, BrokenAnswer
  <2>3. CASE handler # "failing data"
    <3>1. wire = ErrorReply \/ Finished
      BY <2>3 DEF IInv
    <3>2. PICK k \in 2..Len(wire) : EndsAt(wire, k)
      BY <3>1, ErrorReplyEnds DEF Finished
    <3>. QED  BY <2>1, <2>3, <3>2, EndedAnswer
  <2>. QED  BY <2>2, <2>3
<1>. QED  BY <1>1, ResponseInvariant, PTL

\* The client receives every byte that the handler printed, however they fill
\* the buffer and wherever an empty one is flushed.
THEOREM BodiesArrive == Spec => []BodyArrives
<1>1. IInv => BodyArrives
  <2>. SUFFICES ASSUME IInv, pc = "idle", header_sent, handler # "failing data"
                PROVE  Received = printed
    BY DEF BodyArrives
  <2>1. wire \in Seq(Items) /\ Finished
    BY DEF IInv, TypeOK, Items
  <2>2. PICK k \in 2..Len(wire) : EndsAt(wire, k) /\ Bytes(wire)[k] = printed
    BY <2>1 DEF Finished
  <2>. QED  BY <2>1, <2>2, EndedAnswer
<1>. QED  BY <1>1, ResponseInvariant, PTL
=============================================================================

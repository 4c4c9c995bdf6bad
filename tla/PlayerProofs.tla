----------------------------- MODULE PlayerProofs -----------------------------
(***************************************************************************)
(* Proofs about Player, for any files, any sizes of chunks and of the      *)
(* buffer, and any number of clicks and of failures.                       *)
(***************************************************************************)
EXTENDS Player, SequenceTheorems, FiniteSetTheorems, WellFoundedInduction, TLAPS

-----------------------------------------------------------------------------
(***************************************************************************)
(* The inductive invariant.                                                *)
(***************************************************************************)

\* The lines that chains of add_first() are waiting for.
Busy == requests \cup replies

\* Every chain waits for one line; a line is in one place, and what the server
\* has been sent is not on its way any more.
ChainsMatch ==
    /\ requests \subseteq 1..posted /\ replies \subseteq 1..posted
    /\ requests \cap replies = {}
    /\ chains = Cardinality(Busy)
    /\ \A i \in 1..Len(appended) : appended[i] \in 1..posted /\ appended[i] \notin requests

\* A single chain waits for the line posted last; what the server has of the
\* other lines is in order, and complete if no request failed.
InOrder ==
    /\ \A line \in Busy : line = posted
    /\ \A i \in 2..Len(appended) : appended[i - 1] < appended[i]
    /\ faults = 0 => /\ Len(appended) = IF requests = {} THEN posted ELSE posted - 1
                     /\ \A i \in 1..Len(appended) : appended[i] = i

SingleChain == ~overlap => InOrder

\* Only a loop that is fetching has an answer to handle.
RepliesAwaited ==
    \A k \in Loops :
        /\ k > plays => loop[k] = "off" /\ buffer_ts[k] = 0
        /\ loop[k] # "fetching" => reply[k] = NoReply
        /\ reply[k].no = -1 => reply[k].units = 0
        /\ reply[k].no \in -1..chunks
        /\ reply[k].no = 0 => reply[k] = NoReply

\* The source buffer has chunks that the server has sent, in order, and before
\* the one that is on its way.
SourceRises ==
    /\ \A i \in 2..Len(source) : source[i - 1] < source[i]
    /\ \A i \in 1..Len(source) :
           /\ source[i] \in 1..chunks
           /\ plays > 0 /\ reply[plays].no > 0 => source[i] < reply[plays].no

\* A loop that is fetching had less than ten seconds when it asked.
BufferFits ==
    plays > 0 =>
        /\ buffered - current < BufferSize + ChunkUnits
        /\ buffered <= buffer_ts[plays]
        /\ loop[plays] = "fetching" => buffer_ts[plays] - current < BufferSize

\* With this answer the page has all that the server has sent.
ReplyCompletes(answer) ==
    /\ buffered + answer.units = sent
    /\ answer.no > 0 => answer.no = chunks
    /\ Len(source) = IF answer.no > 0 THEN chunks - 1 ELSE chunks

\* Until "Play" is clicked again the page has what the server has sent, but for
\* what is on its way or is lost with the loop.
SourceComplete ==
    /\ plays = 0 => chunks = 0 /\ sent = 0 /\ opened = 0 /\ shown = 0
    /\ plays <= 1 =>
           /\ \A i \in 1..Len(source) : source[i] = i
           /\ buffered <= sent
           /\ loop[1] # "failed" => ReplyCompletes(reply[1])

\* The entries up to s have been shown, those up to q wait in metadata, and the
\* next ones in the answer; the others begin after the audio of the page.
TitlesFrom(s, q) ==
    /\ Len(metadata) = q - s
    /\ Len(reply[1].meta) = IF loop[1] = "failed" THEN 0 ELSE opened - q
    /\ shown = IF s = 0 THEN 0 ELSE appended[s]
    /\ s > 0 => Start(s) <= current
    /\ \A i \in (s + 1)..q : metadata[i - s] = Announcement(i)
    /\ loop[1] # "failed" =>
           \A i \in (q + 1)..opened : reply[1].meta[i - q] = Announcement(i)
    /\ \A i \in (q + 1)..Len(appended) : Start(i) >= buffered

TitlesInOrder ==
    /\ \A i \in (opened + 1)..Len(appended) : Start(i) >= taken
    /\ plays <= 1 => \E q \in 0..opened : \E s \in 0..q : TitlesFrom(s, q)

\* Until the end all that is read is sent, and every file that has been announced
\* has begun in it.
EndSeen == ~ended => taken = sent /\ \A i \in 1..opened : Start(i) < sent

IInv ==
    /\ TypeOK
    /\ ChainsMatch
    /\ SingleChain
    /\ RepliesAwaited
    /\ SourceRises
    /\ BufferFits
    /\ SourceComplete
    /\ TitlesInOrder
    /\ EndSeen

-----------------------------------------------------------------------------
(***************************************************************************)
(* The units of a playlist.                                                *)
(***************************************************************************)

\* Induction over the naturals: a set with 0 in it and with every successor of
\* a member holds them all, since what it lacked would have a least element.
LEMMA NatSetInduction ==
    ASSUME NEW T, 0 \in T, \A n \in Nat : n \in T => n + 1 \in T
    PROVE  Nat \subseteq T
<1>. DEFINE R == {p \in Nat \X Nat : p[1] < p[2]}
            U == Nat \ T
<1>. SUFFICES ASSUME U # {} PROVE FALSE
  OBVIOUS
<1>1. IsWellFoundedOn(R, Nat)
  <2>1. R = OpToRel(<, Nat)
    BY Zenon DEF OpToRel
  <2>. QED  BY <2>1, NatLessThanWellFounded
<1>2. PICK x \in U : \A y \in U : ~(<<y, x>> \in R)
  <2>1. U \subseteq Nat
    OBVIOUS
  <2>. HIDE DEF R, U
  <2>. QED  BY <1>1, <2>1, WFMin
<1>3. x \in Nat /\ x # 0
  BY <1>2
<1>4. x - 1 \in Nat /\ x - 1 \notin T
  <2>1. ASSUME x - 1 \in T PROVE FALSE
    <3>1. (x - 1) + 1 \in T
      BY <2>1, <1>3
    <3>. QED  BY <3>1, <1>3, (x - 1) + 1 = x
  <2>. QED  BY <2>1, <1>3
<1>5. <<x - 1, x>> \in R
  BY <1>3
<1>. QED  BY <1>2, <1>4, <1>5

\* What the constants are.
LEMMA Sizes ==
    /\ Len(Lines) \in Nat /\ \A line \in 1..Len(Lines) : Lines[line] \in Nat
    /\ ChunkUnits \in Nat \ {0} /\ BufferSize \in Nat \ {0}
    /\ MaxChains \in Nat \ {0} /\ MaxPlays \in Nat \ {0} /\ MaxFaults \in Nat
    /\ 1 \in Loops
<1>1. /\ Lines \in Seq(Nat) /\ ChunkUnits \in Nat \ {0} /\ BufferSize \in Nat \ {0}
      /\ MaxChains \in Nat \ {0} /\ MaxPlays \in Nat \ {0} /\ MaxFaults \in Nat
  BY PlayerAssumption DEF PlayerAssumption
<1>. QED  BY <1>1 DEF Loops

\* Units() is what its recursive definition says.
LEMMA UnitsDef ==
    ASSUME NEW lines, Len(lines) \in Nat
    PROVE  Units(lines) =
               [n \in 0..Len(lines) |->
                    IF n = 0 THEN 0 ELSE Units(lines)[n - 1] + Lines[lines[n]]]
<1>. DEFINE Def(m, f) ==
                f = [n \in 0..m |-> IF n = 0 THEN 0 ELSE f[n - 1] + Lines[lines[n]]]
            T == {m \in Nat : \E f : Def(m, f)}
<1>1. 0 \in T
  <2>1. Def(0, [n \in 0..0 |-> 0])
    OBVIOUS
  <2>. QED  BY <2>1
<1>2. ASSUME NEW m \in Nat, m \in T PROVE m + 1 \in T
  <2>1. PICK f : Def(m, f)
    BY <1>2
  <2>. DEFINE g == [n \in 0..(m + 1) |-> IF n <= m THEN f[n] ELSE f[m] + Lines[lines[m + 1]]]
  <2>2. ASSUME NEW n \in 0..(m + 1)
        PROVE  g[n] = IF n = 0 THEN 0 ELSE g[n - 1] + Lines[lines[n]]
    <3>1. CASE n = 0
      BY <3>1, <2>1
    <3>2. CASE n \in 1..m
      <4>1. g[n] = f[n] /\ g[n - 1] = f[n - 1]
        BY <3>2
      <4>2. f[n] = f[n - 1] + Lines[lines[n]]
        BY <3>2, <2>1
      <4>3. n # 0
        BY <3>2
      <4>. HIDE DEF g
      <4>. QED  BY <4>1, <4>2, <4>3
    <3>3. CASE n = m + 1
      BY <3>3
    <3>. QED  BY <3>1, <3>2, <3>3
  <2>3. Def(m + 1, g)
    BY <2>2
  <2>4. \E h : Def(m + 1, h)
    <3>. HIDE DEF Def, g
    <3>. QED  BY <2>3
  <2>. QED  BY <2>4
<1>3. PICK f : Def(Len(lines), f)
  <2>1. Nat \subseteq T
    <3>. HIDE DEF T
    <3>. QED  BY <1>1, <1>2, NatSetInduction
  <2>. QED  BY <2>1
<1>. QED  BY <1>3 DEF Units

\* The sum of one more line.
LEMMA UnitsStep ==
    ASSUME NEW lines \in Seq(1..Len(Lines))
    PROVE  /\ Len(lines) \in Nat
           /\ Units(lines)[0] = 0
           /\ \A n \in 1..Len(lines) :
                  /\ Units(lines)[n] = Units(lines)[n - 1] + Lines[lines[n]]
                  /\ Lines[lines[n]] \in Nat
<1>1. Len(lines) \in Nat
  OBVIOUS
<1>2. /\ 0 \in 0..Len(lines)
      /\ \A n \in 1..Len(lines) : n \in 0..Len(lines) /\ n # 0 /\ lines[n] \in 1..Len(Lines)
  BY <1>1
<1>. DEFINE step == [n \in 0..Len(lines) |->
                        IF n = 0 THEN 0 ELSE Units(lines)[n - 1] + Lines[lines[n]]]
<1>3. Units(lines) = step
  BY <1>1, UnitsDef
<1>4. step[0] = 0 /\ \A n \in 1..Len(lines) :
                         step[n] = Units(lines)[n - 1] + Lines[lines[n]]
  BY <1>2
<1>5. \A n \in 1..Len(lines) : Lines[lines[n]] \in Nat
  BY <1>2, Sizes
<1>. HIDE DEF step
<1>. QED  BY <1>1, <1>3, <1>4, <1>5

\* The sums are numbers.
LEMMA UnitsType ==
    ASSUME NEW lines \in Seq(1..Len(Lines))
    PROVE  \A n \in 0..Len(lines) : Units(lines)[n] \in Nat
<1>. DEFINE T == {n \in Nat : n <= Len(lines) => Units(lines)[n] \in Nat}
<1>1. 0 \in T
  BY UnitsStep
<1>2. ASSUME NEW n \in Nat, n \in T PROVE n + 1 \in T
  <2>. SUFFICES ASSUME n + 1 <= Len(lines) PROVE Units(lines)[n + 1] \in Nat
    OBVIOUS
  <2>1. n + 1 \in 1..Len(lines) /\ (n + 1) - 1 = n /\ n <= Len(lines)
    BY UnitsStep
  <2>2. /\ Units(lines)[n + 1] = Units(lines)[n] + Lines[lines[n + 1]]
        /\ Lines[lines[n + 1]] \in Nat
    BY <2>1, UnitsStep
  <2>. QED  BY <1>2, <2>1, <2>2
<1>3. Nat \subseteq T
  <2>. HIDE DEF T
  <2>. QED  BY <1>1, <1>2, NatSetInduction
<1>. QED  BY <1>3

\* The sums do not fall with any entry.
LEMMA UnitsRise ==
    ASSUME NEW lines \in Seq(1..Len(Lines))
    PROVE  \A n \in 0..Len(lines) : \A m \in 0..n : Units(lines)[m] <= Units(lines)[n]
<1>. DEFINE Good(n) == \A m \in 0..n : Units(lines)[m] <= Units(lines)[n]
            T == {n \in Nat : n <= Len(lines) => Good(n)}
<1>0. Len(lines) \in Nat /\ \A n \in 0..Len(lines) : Units(lines)[n] \in Nat
  BY UnitsStep, UnitsType
<1>1. 0 \in T
  BY UnitsStep
<1>2. ASSUME NEW n \in Nat, n \in T PROVE n + 1 \in T
  <2>. SUFFICES ASSUME n + 1 <= Len(lines) PROVE Good(n + 1)
    OBVIOUS
  <2>1. n + 1 \in 1..Len(lines) /\ (n + 1) - 1 = n /\ n <= Len(lines)
    BY UnitsStep
  <2>2. /\ Units(lines)[n + 1] = Units(lines)[n] + Lines[lines[n + 1]]
        /\ Lines[lines[n + 1]] \in Nat
    BY <2>1, UnitsStep
  <2>3. Good(n)
    BY <1>2, <2>1
  <2>4. Units(lines)[n + 1] \in Nat /\ Units(lines)[n] <= Units(lines)[n + 1]
    BY <1>0, <2>1, <2>2
  <2>5. ASSUME NEW m \in 0..(n + 1) PROVE Units(lines)[m] <= Units(lines)[n + 1]
    <3>1. CASE m = n + 1
      BY <2>4, <3>1
    <3>2. CASE m # n + 1
      <4>1. m \in 0..n
        BY <3>2
      <4>2. Units(lines)[m] <= Units(lines)[n]
        BY <2>3, <4>1
      <4>3. Units(lines)[m] \in Nat /\ Units(lines)[n] \in Nat
        BY <1>0, <2>1, <4>1
      <4>. QED  BY <2>4, <4>2, <4>3
    <3>. QED  BY <3>1, <3>2
  <2>. QED  BY <2>4, <2>5
<1>3. Nat \subseteq T
  <2>. HIDE DEF T
  <2>. QED  BY <1>1, <1>2, NatSetInduction
<1>. QED  BY <1>3

\* Another entry leaves the sums before it alone.
LEMMA UnitsOfAppend ==
    ASSUME NEW lines \in Seq(1..Len(Lines)), NEW line \in 1..Len(Lines)
    PROVE  /\ Append(lines, line) \in Seq(1..Len(Lines))
           /\ Len(Append(lines, line)) = Len(lines) + 1
           /\ \A n \in 0..Len(lines) : Units(Append(lines, line))[n] = Units(lines)[n]
           /\ Units(lines)[Len(lines)] <= Units(Append(lines, line))[Len(lines) + 1]
           /\ Units(Append(lines, line))[Len(lines) + 1] \in Nat
<1>. DEFINE longer == Append(lines, line)
            T == {n \in Nat : n <= Len(lines) => Units(longer)[n] = Units(lines)[n]}
<1>0. /\ longer \in Seq(1..Len(Lines)) /\ Len(longer) = Len(lines) + 1 /\ Len(lines) \in Nat
      /\ \A n \in 1..Len(lines) : longer[n] = lines[n]
  BY AppendProperties
<1>. HIDE DEF longer
<1>1. 0 \in T
  BY <1>0, UnitsStep
<1>2. ASSUME NEW n \in Nat, n \in T PROVE n + 1 \in T
  <2>. SUFFICES ASSUME n + 1 <= Len(lines) PROVE Units(longer)[n + 1] = Units(lines)[n + 1]
    OBVIOUS
  <2>1. n + 1 \in 1..Len(lines) /\ n + 1 \in 1..Len(longer) /\ (n + 1) - 1 = n /\ n <= Len(lines)
    BY <1>0
  <2>2. Units(lines)[n + 1] = Units(lines)[n] + Lines[lines[n + 1]]
    BY <2>1, UnitsStep
  <2>3. Units(longer)[n + 1] = Units(longer)[n] + Lines[longer[n + 1]]
    BY <1>0, <2>1, UnitsStep
  <2>. QED  BY <1>0, <1>2, <2>1, <2>2, <2>3
<1>3. Nat \subseteq T
  <2>. HIDE DEF T
  <2>. QED  BY <1>1, <1>2, NatSetInduction
<1>4. \A n \in 0..Len(lines) : Units(longer)[n] = Units(lines)[n]
  BY <1>0, <1>3
<1>5. Units(lines)[Len(lines)] <= Units(longer)[Len(lines) + 1]
      /\ Units(longer)[Len(lines) + 1] \in Nat
  <2>1. /\ Len(lines) + 1 \in 1..Len(longer) /\ (Len(lines) + 1) - 1 = Len(lines)
        /\ Len(lines) \in 0..Len(lines)
    BY <1>0
  <2>2. /\ Units(longer)[Len(lines) + 1] = Units(longer)[Len(lines)] + Lines[longer[Len(lines) + 1]]
        /\ Lines[longer[Len(lines) + 1]] \in Nat
    BY <1>0, <2>1, UnitsStep
  <2>3. Units(longer)[Len(lines)] = Units(lines)[Len(lines)] /\ Units(lines)[Len(lines)] \in Nat
    BY <1>4, <2>1, UnitsType
  <2>. QED  BY <2>2, <2>3
<1>. QED  BY <1>0, <1>4, <1>5 DEF longer

\* What the server has sent is of entries that it has.
ServerTyped ==
    /\ appended \in Seq(1..Len(Lines)) /\ taken \in Nat /\ remaining \in Nat
    /\ opened \in 0..Len(appended) /\ sent \in 0..taken /\ chunks \in Nat

\* The lines follow each other without a gap, up to what the server still has.
LEMMA StartType ==
    ASSUME ServerTyped
    PROVE  /\ Len(appended) \in Nat
           /\ \A i \in 1..(Len(appended) + 1) : Start(i) \in Nat
           /\ \A i \in 1..(Len(appended) + 1) : \A j \in 1..i : Start(j) <= Start(i)
           /\ \A i \in 1..Len(appended) : Start(i + 1) = Start(i) + Lines[appended[i]]
           /\ \A i \in 1..Len(appended) : Lines[appended[i]] \in Nat
           /\ Start(1) = 0
           /\ Start(Len(appended) + 1) = taken + remaining
<1>1. appended \in Seq(1..Len(Lines)) /\ Len(appended) \in Nat
  BY DEF ServerTyped
<1>2. ASSUME NEW i \in 1..(Len(appended) + 1)
      PROVE  Start(i) \in Nat /\ \A j \in 1..i : Start(j) <= Start(i)
  <2>1. i - 1 \in 0..Len(appended) /\ \A j \in 1..i : j - 1 \in 0..(i - 1)
    BY <1>1
  <2>2. Units(appended)[i - 1] \in Nat
    BY <1>1, <2>1, UnitsType
  <2>3. \A m \in 0..(i - 1) : Units(appended)[m] <= Units(appended)[i - 1]
    BY <1>1, <2>1, UnitsRise
  <2>. QED  BY <2>1, <2>2, <2>3 DEF Start
<1>3. ASSUME NEW i \in 1..Len(appended)
      PROVE  Start(i + 1) = Start(i) + Lines[appended[i]] /\ Lines[appended[i]] \in Nat
  <2>1. (i + 1) - 1 = i
    BY <1>1
  <2>. QED  BY <1>1, <2>1, UnitsStep DEF Start
<1>4. Start(1) = 0
  BY <1>1, UnitsStep, 1 - 1 = 0 DEF Start
<1>5. Start(Len(appended) + 1) = taken + remaining
  <2>1. (Len(appended) + 1) - 1 = Len(appended) /\ Len(appended) \in 0..Len(appended)
    BY <1>1
  <2>2. Units(appended)[Len(appended)] \in Nat
    BY <1>1, <2>1, UnitsType
  <2>. QED  BY <2>1, <2>2 DEF Start, remaining, ServerTyped
<1>. QED  BY <1>1, <1>2, <1>3, <1>4, <1>5

\* The entries that advance() opens are the next ones, up to the first that
\* begins after the chunk.
LEMMA EntriesAreNext ==
    ASSUME ServerTyped
    PROVE  \E n \in 0..(Len(appended) - opened) :
               /\ Cardinality(Entries) = n
               /\ \A i \in (opened + n + 1)..Len(appended) : Start(i) >= taken + ChunkUnits
               /\ \A i \in (opened + 1)..(opened + n) : Start(i) < taken + ChunkUnits
<1>. DEFINE limit == taken + ChunkUnits
            Cut(n, m) ==
                /\ \A i \in (opened + 1)..(opened + n) : Start(i) < limit
                /\ \A i \in (opened + n + 1)..(opened + m) : Start(i) >= limit
            T == {m \in Nat : opened + m <= Len(appended) => \E n \in 0..m : Cut(n, m)}
<1>0. /\ opened \in Nat /\ Len(appended) \in Nat /\ opened <= Len(appended) /\ limit \in Nat
      /\ \A i \in 1..Len(appended) : Start(i) \in Nat
      /\ \A i \in 1..Len(appended) : \A j \in 1..i : Start(j) <= Start(i)
  <2>1. /\ Len(appended) \in Nat /\ \A i \in 1..(Len(appended) + 1) : Start(i) \in Nat
        /\ \A i \in 1..(Len(appended) + 1) : \A j \in 1..i : Start(j) <= Start(i)
    BY StartType
  <2>2. opened \in 0..Len(appended) /\ limit \in Nat
    BY <2>1, Sizes DEF ServerTyped
  <2>. HIDE DEF limit
  <2>3. opened \in Nat /\ opened <= Len(appended) /\ 1..Len(appended) \subseteq 1..(Len(appended) + 1)
    BY <2>1, <2>2
  <2>. QED  BY <2>1, <2>2, <2>3
<1>. HIDE DEF limit
<1>1. 0 \in T
  <2>1. Cut(0, 0)
    BY <1>0
  <2>. QED  BY <2>1
<1>2. ASSUME NEW m \in Nat, m \in T PROVE m + 1 \in T
  <2>. SUFFICES ASSUME opened + (m + 1) <= Len(appended)
                PROVE  \E n \in 0..(m + 1) : Cut(n, m + 1)
    OBVIOUS
  <2>1. PICK n \in 0..m : Cut(n, m)
    BY <1>0, <1>2
  <2>2. opened + m + 1 \in 1..Len(appended) /\ n \in Nat /\ n \in 0..(m + 1)
    BY <1>0
  <2>3. CASE Start(opened + m + 1) >= limit
    <3>1. Cut(n, m + 1)
      BY <1>0, <2>1, <2>2, <2>3
    <3>. QED  BY <2>2, <3>1
  <2>4. CASE Start(opened + m + 1) < limit
    <3>1. CASE n = m
      <4>1. Cut(m + 1, m + 1)
        BY <1>0, <2>1, <2>4, <3>1
      <4>. QED  BY <4>1
    <3>2. CASE n # m
      <4>1. opened + m \in (opened + n + 1)..(opened + m) /\ opened + m \in 1..(opened + m + 1)
        BY <1>0, <2>2, <3>2
      <4>2. Start(opened + m) >= limit /\ Start(opened + m) <= Start(opened + m + 1)
        BY <1>0, <2>1, <2>2, <4>1
      <4>3. Start(opened + m) \in Nat /\ Start(opened + m + 1) \in Nat
        <5>1. opened + m \in 1..Len(appended)
          BY <1>0, <4>1, <2>2
        <5>. QED  BY <1>0, <2>2, <5>1
      <4>. QED  BY <1>0, <2>4, <4>2, <4>3
    <3>. QED  BY <3>1, <3>2
  <2>5. Start(opened + m + 1) \in Nat
    BY <1>0, <2>2
  <2>. QED  BY <1>0, <2>3, <2>4, <2>5
<1>3. Len(appended) - opened \in T
  <2>1. Nat \subseteq T
    <3>. HIDE DEF T
    <3>. QED  BY <1>1, <1>2, NatSetInduction
  <2>2. Len(appended) - opened \in Nat
    BY <1>0
  <2>. HIDE DEF T
  <2>. QED  BY <2>1, <2>2
<1>4. PICK n \in 0..(Len(appended) - opened) : Cut(n, Len(appended) - opened)
  BY <1>0, <1>3
<1>5. opened + (Len(appended) - opened) = Len(appended) /\ n \in Nat /\ opened + n <= Len(appended)
  BY <1>0
<1>6. \A i \in (opened + n + 1)..Len(appended) : Start(i) >= limit
  BY <1>4, <1>5
<1>7. Entries = (opened + 1)..(opened + n)
  <2>1. ASSUME NEW i \in (opened + 1)..Len(appended), Start(i) < limit
        PROVE  i \in (opened + 1)..(opened + n)
    <3>1. i \in 1..Len(appended) /\ Start(i) \in Nat
      BY <1>0
    <3>2. ~(Start(i) >= limit)
      BY <1>0, <2>1, <3>1
    <3>3. ~(i \in (opened + n + 1)..Len(appended))
      BY <1>6, <3>2
    <3>. QED  BY <1>0, <1>5, <3>3
  <2>2. ASSUME NEW i \in (opened + 1)..(opened + n)
        PROVE  i \in (opened + 1)..Len(appended) /\ Start(i) < limit
    BY <1>0, <1>4, <1>5
  <2>. QED  BY <2>1, <2>2 DEF Entries, limit
<1>8. Cardinality((opened + 1)..(opened + n)) = n
  <2>1. opened + 1 \in Int /\ opened + n \in Int
    BY <1>0, <1>5
  <2>2. Cardinality((opened + 1)..(opened + n))
            = IF opened + 1 > opened + n THEN 0 ELSE (opened + n) - (opened + 1) + 1
    BY <2>1, FS_Interval, Zenon
  <2>. QED  BY <1>0, <1>5, <2>2
<1>. QED  BY <1>4, <1>6, <1>7, <1>8 DEF limit

-----------------------------------------------------------------------------
(***************************************************************************)
(* The types, by the parts of the program that change the variables.       *)
(***************************************************************************)

AddTypes ==
    /\ posted \in 0..Len(Lines)
    /\ requests \subseteq 1..Len(Lines) /\ replies \subseteq 1..Len(Lines)
    /\ chains \in 0..MaxChains /\ overlap \in BOOLEAN
    /\ faults \in 0..MaxFaults

ServerTypes ==
    /\ ServerTyped
    /\ ended \in BOOLEAN
    /\ ignored \subseteq 1..Len(Lines)

LoopTypes ==
    /\ plays \in 0..MaxPlays
    /\ loop \in [Loops -> {"off", "fetching", "waiting", "stopped", "failed"}]
    /\ reply \in [Loops -> [no : Int, units : 0..ChunkUnits, meta : Seq(Title)]]
    /\ buffer_ts \in [Loops -> Nat]

AudioTypes ==
    /\ source \in Seq(Nat)
    /\ buffered \in Nat /\ current \in 0..buffered

InfoTypes == metadata \in Seq(Title) /\ shown \in 0..Len(Lines)

\* The type invariant in parts that change together.
LEMMA TypesSplit ==
    TypeOK <=> /\ AddTypes /\ ServerTypes /\ LoopTypes /\ AudioTypes /\ InfoTypes
               /\ updating \in BOOLEAN
BY Zenon DEF TypeOK, AddTypes, ServerTypes, ServerTyped, LoopTypes, AudioTypes, InfoTypes

-----------------------------------------------------------------------------
(***************************************************************************)
(* Adding files.                                                           *)
(***************************************************************************)

AddInv == AddTypes /\ ChainsMatch /\ SingleChain

\* What is known of the lines without the Boolean variables.
AddNumbers ==
    /\ posted \in 0..Len(Lines) /\ chains \in 0..MaxChains /\ faults \in 0..MaxFaults
    /\ requests \subseteq 1..posted /\ replies \subseteq 1..posted
    /\ requests \cap replies = {}
    /\ chains = Cardinality(Busy)
    /\ appended \in Seq(Nat)
    /\ \A i \in 1..Len(appended) : appended[i] \in 1..posted /\ appended[i] \notin requests

\* What the invariant says of the numbers of lines.
LEMMA AddInvNumbers ==
    ASSUME AddInv, ServerTypes
    PROVE  AddNumbers
<1>1. appended \in Seq(1..Len(Lines))
  BY DEF ServerTypes, ServerTyped
<1>2. appended \in Seq(Nat)
  BY <1>1, Sizes
<1>. QED  BY <1>2, Zenon DEF AddInv, AddTypes, ChainsMatch, AddNumbers

\* One more line that is being added, and one less.
LEMMA BusyLines ==
    ASSUME AddNumbers
    PROVE  /\ IsFiniteSet(Busy) /\ posted + 1 \notin Busy
           /\ Cardinality(Busy) \in Nat /\ (Cardinality(Busy) = 0 <=> Busy = {})
           /\ Cardinality(Busy \cup {posted + 1}) = Cardinality(Busy) + 1
           /\ \A line \in Busy : /\ Cardinality(Busy \ {line}) = Cardinality(Busy) - 1
                                 /\ Cardinality(Busy) > 0
                                 /\ IsFiniteSet(Busy \ {line})
<1>1. posted \in Nat /\ Busy \subseteq 1..posted
  BY Sizes DEF AddNumbers, Busy
<1>2. IsFiniteSet(1..posted)
  BY <1>1, FS_Interval
<1>3. IsFiniteSet(Busy)
  BY <1>1, <1>2, FS_Subset
<1>4. posted + 1 \notin Busy
  BY <1>1
<1>5. Cardinality(Busy) \in Nat /\ (Cardinality(Busy) = 0 <=> Busy = {})
  BY <1>3, FS_CardinalityType, FS_EmptySet
<1>6. Cardinality(Busy \cup {posted + 1}) = Cardinality(Busy) + 1
  BY <1>3, <1>4, FS_AddElement
<1>7. \A line \in Busy : Cardinality(Busy \ {line}) = Cardinality(Busy) - 1
                         /\ IsFiniteSet(Busy \ {line})
  BY <1>3, FS_RemoveElement
<1>8. \A line \in Busy : Cardinality(Busy) > 0
  BY <1>5
<1>. QED  BY <1>3, <1>4, <1>5, <1>6, <1>7, <1>8

\* What a step of the adding chain has to show.
LEMMA AddStepTypes ==
    ASSUME AddNumbers', overlap' \in BOOLEAN,  SingleChain'
    PROVE  AddInv'
<1>1. requests' \subseteq 1..Len(Lines) /\ replies' \subseteq 1..Len(Lines)
  <2>1. posted' \in 0..Len(Lines) /\ requests' \subseteq 1..posted' /\ replies' \subseteq 1..posted'
    BY Zenon DEF AddNumbers
  <2>. QED  BY <2>1, Sizes
<1>2. AddTypes'
  BY <1>1, Zenon DEF AddTypes, AddNumbers
<1>3. ChainsMatch'
  BY Zenon DEF ChainsMatch, AddNumbers
<1>. QED  BY <1>2, <1>3, Zenon DEF AddInv

\* A click on "add" keeps it.
LEMMA ClickAddStep ==
    ASSUME AddInv, ServerTypes, ClickAdd
    PROVE  AddInv'
<1>1. /\ posted < Len(Lines) /\ requests' = requests \cup {posted + 1} /\ posted' = posted + 1
      /\ chains < MaxChains /\ chains' = chains + 1
      /\ replies' = replies /\ appended' = appended /\ faults' = faults
  BY Zenon DEF ClickAdd, PostNext, server_vars
<1>2. overlap' = (overlap \/ chains > 0)
  BY Zenon DEF ClickAdd
<1>3. AddNumbers
  BY AddInvNumbers
<1>4. Busy' = Busy \cup {posted + 1} /\ posted \in Nat /\ chains \in Nat /\ Len(Lines) \in Nat
  BY <1>1, <1>3, Sizes DEF Busy, AddNumbers
<1>5. AddNumbers'
  <2>1. posted' \in 0..Len(Lines) /\ chains' \in 0..MaxChains
    BY <1>1, <1>4, Sizes
  <2>2. requests' \subseteq 1..posted' /\ replies' \subseteq 1..posted'
        /\ requests' \cap replies' = {}
    BY <1>1, <1>3, <1>4 DEF AddNumbers
  <2>3. chains' = Cardinality(Busy')
    BY <1>1, <1>3, <1>4, BusyLines DEF AddNumbers
  <2>4. \A i \in 1..Len(appended') : appended'[i] \in 1..posted' /\ appended'[i] \notin requests'
    BY <1>1, <1>3, <1>4 DEF AddNumbers
  <2>5. faults' \in 0..MaxFaults /\ appended' \in Seq(Nat)
    BY <1>1, <1>3 DEF AddNumbers
  <2>. QED  BY <2>1, <2>2, <2>3, <2>4, <2>5 DEF AddNumbers
<1>6. ASSUME chains = 0, InOrder PROVE InOrder'
  <2>1. Busy = {}
    BY <1>3, <1>6, BusyLines DEF AddNumbers
  <2>2. requests = {} /\ Busy' = {posted + 1} /\ requests' # {}
    BY <1>1, <1>4, <2>1 DEF Busy
  <2>. QED  BY <1>1, <1>4, <1>6, <2>2 DEF InOrder
<1>7. SingleChain'
  <2>1. ~overlap' => ~overlap /\ ~(chains > 0)
    BY <1>2, Zenon
  <2>2. ~(chains > 0) => chains = 0
    BY <1>4
  <2>3. ~overlap => InOrder
    BY Zenon DEF AddInv, SingleChain
  <2>. QED  BY <1>6, <2>1, <2>2, <2>3, Zenon DEF SingleChain
<1>8. overlap' \in BOOLEAN
  BY <1>2, Zenon
<1>. QED  BY <1>5, <1>7, <1>8, AddStepTypes

\* The server takes the line.
LEMMA ServerAppendStep ==
    ASSUME AddInv, ServerTypes, ServerAppend
    PROVE  AddInv'
<1>1. PICK line \in requests :
          /\ requests' = requests \ {line} /\ replies' = replies \cup {line}
          /\ appended' = Append(appended, line)
          /\ posted' = posted /\ chains' = chains /\ faults' = faults
  BY Zenon DEF ServerAppend
<1>2. overlap' = overlap
  BY Zenon DEF ServerAppend
<1>3. AddNumbers
  BY AddInvNumbers
<1>4. /\ posted \in Nat /\ line \in 1..posted /\ line \in Nat /\ line \notin replies
      /\ appended \in Seq(Nat)
  BY <1>1, <1>3, Sizes DEF AddNumbers
<1>5. /\ appended' \in Seq(Nat) /\ Len(appended') = Len(appended) + 1 /\ Len(appended) \in Nat
      /\ \A i \in 1..Len(appended) : appended'[i] = appended[i]
      /\ appended'[Len(appended) + 1] = line
  BY <1>1, <1>4, AppendProperties
<1>6. Busy' = Busy
  BY <1>1 DEF Busy
<1>7. AddNumbers'
  <2>1. requests' \subseteq 1..posted' /\ replies' \subseteq 1..posted'
        /\ requests' \cap replies' = {}
    BY <1>1, <1>3, <1>4 DEF AddNumbers
  <2>2. ASSUME NEW i \in 1..Len(appended')
        PROVE  appended'[i] \in 1..posted' /\ appended'[i] \notin requests'
    <3>1. CASE i = Len(appended) + 1
      BY <1>1, <1>4, <1>5, <3>1
    <3>2. CASE i # Len(appended) + 1
      <4>1. i \in 1..Len(appended)
        BY <1>5, <3>2
      <4>. QED  BY <1>1, <1>3, <1>5, <4>1 DEF AddNumbers
    <3>. QED  BY <3>1, <3>2
  <2>3. /\ posted' \in 0..Len(Lines) /\ chains' \in 0..MaxChains /\ faults' \in 0..MaxFaults
        /\ chains' = Cardinality(Busy')
    BY <1>1, <1>3, <1>6 DEF AddNumbers
  <2>. QED  BY <1>5, <2>1, <2>2, <2>3 DEF AddNumbers
<1>8. ASSUME InOrder PROVE InOrder'
  <2>1. line = posted /\ \A other \in requests : other = posted
    BY <1>1, <1>8 DEF InOrder, Busy
  <2>2. \A i \in 1..Len(appended) : appended[i] < line
    <3>1. \A i \in 1..Len(appended) : appended[i] \in 1..posted /\ appended[i] # posted
      BY <1>1, <1>3, <2>1 DEF AddNumbers
    <3>. QED  BY <1>4, <2>1, <3>1
  <2>3. ASSUME NEW i \in 2..Len(appended') PROVE appended'[i - 1] < appended'[i]
    <3>1. i - 1 \in 1..Len(appended)
      BY <1>5
    <3>2. CASE i = Len(appended) + 1
      BY <1>5, <2>2, <3>1, <3>2
    <3>3. CASE i # Len(appended) + 1
      <4>1. i \in 2..Len(appended) /\ i \in 1..Len(appended)
        BY <1>5, <3>3
      <4>. QED  BY <1>5, <1>8, <3>1, <4>1 DEF InOrder
    <3>. QED  BY <3>2, <3>3
  <2>4. requests' = {} /\ requests # {}
    BY <1>1, <2>1
  <2>5. ASSUME faults' = 0
        PROVE  Len(appended') = posted' /\ \A i \in 1..Len(appended') : appended'[i] = i
    <3>1. Len(appended) = posted - 1 /\ \A i \in 1..Len(appended) : appended[i] = i
      BY <1>1, <1>8, <2>4, <2>5 DEF InOrder
    <3>2. Len(appended') = posted' /\ Len(appended) + 1 = line
      BY <1>1, <1>4, <1>5, <2>1, <3>1
    <3>. QED  BY <1>5, <3>1, <3>2
  <2>. QED  BY <1>1, <1>6, <1>8, <2>3, <2>4, <2>5 DEF InOrder
<1>9. SingleChain'
  BY <1>2, <1>8, Zenon DEF AddInv, SingleChain
<1>10. overlap' \in BOOLEAN
  BY <1>2, Zenon DEF AddInv, AddTypes
<1>. QED  BY <1>7, <1>9, <1>10, AddStepTypes

\* Its answer arrives.
LEMMA AddReplyStep ==
    ASSUME AddInv, ServerTypes, AddReply
    PROVE  AddInv'
<1>1. PICK line \in replies :
          /\ replies' = replies \ {line} /\ appended' = appended /\ faults' = faults
          /\ \/ /\ posted < Len(Lines) /\ requests' = requests \cup {posted + 1}
                /\ posted' = posted + 1 /\ chains' = chains
             \/ /\ requests' = requests /\ posted' = posted /\ chains' = chains - 1
  BY Zenon DEF AddReply, PostNext, server_vars
<1>2. overlap' = overlap
  BY Zenon DEF AddReply
<1>3. AddNumbers
  BY AddInvNumbers
<1>4. /\ posted \in Nat /\ line \in 1..posted /\ line \in Busy /\ line \notin requests
      /\ Len(Lines) \in Nat /\ chains \in Nat /\ Busy \subseteq 1..posted
  BY <1>1, <1>3, Sizes DEF AddNumbers, Busy
<1>5. Cardinality(Busy \ {line}) = chains - 1 /\ chains > 0 /\ IsFiniteSet(Busy \ {line})
  BY <1>3, <1>4, BusyLines DEF AddNumbers
<1>6. chains' = Cardinality(Busy') /\ chains' \in 0..MaxChains
  <2>1. CASE posted' = posted + 1 /\ requests' = requests \cup {posted + 1} /\ chains' = chains
    <3>1. Busy' = (Busy \ {line}) \cup {posted + 1} /\ posted + 1 \notin Busy \ {line}
      BY <1>1, <1>4, <2>1 DEF Busy
    <3>2. Cardinality((Busy \ {line}) \cup {posted + 1}) = Cardinality(Busy \ {line}) + 1
      BY <1>5, <3>1, FS_AddElement
    <3>. QED  BY <1>3, <1>4, <1>5, <2>1, <3>1, <3>2 DEF AddNumbers
  <2>2. CASE requests' = requests /\ chains' = chains - 1
    <3>1. Busy' = Busy \ {line}
      BY <1>1, <1>4, <2>2 DEF Busy
    <3>. QED  BY <1>3, <1>4, <1>5, <2>2, <3>1, Sizes DEF AddNumbers
  <2>. QED  BY <1>1, <2>1, <2>2
<1>7. AddNumbers'
  <2>1. posted' \in 0..Len(Lines)
    BY <1>1, <1>3, <1>4 DEF AddNumbers
  <2>2. requests' \subseteq 1..posted' /\ replies' \subseteq 1..posted'
        /\ requests' \cap replies' = {}
    <3>1. /\ requests \subseteq 1..posted /\ replies' \subseteq 1..posted
          /\ requests \cap replies' = {} /\ posted + 1 \notin replies'
      BY <1>1, <1>3, <1>4 DEF AddNumbers
    <3>2. CASE requests' = requests \cup {posted + 1} /\ posted' = posted + 1
      BY <1>4, <3>1, <3>2
    <3>3. CASE requests' = requests /\ posted' = posted
      BY <3>1, <3>3
    <3>. QED  BY <1>1, <3>2, <3>3
  <2>3. \A i \in 1..Len(appended') : appended'[i] \in 1..posted' /\ appended'[i] \notin requests'
    BY <1>1, <1>3, <1>4 DEF AddNumbers
  <2>4. faults' \in 0..MaxFaults /\ appended' \in Seq(Nat)
    BY <1>1, <1>3 DEF AddNumbers
  <2>. QED  BY <1>6, <2>1, <2>2, <2>3, <2>4 DEF AddNumbers
<1>8. ASSUME InOrder PROVE InOrder'
  <2>1. \A other \in Busy : other = posted
    BY <1>8 DEF InOrder
  <2>2. requests = {} /\ replies' = {}
    BY <1>1, <1>4, <2>1 DEF Busy
  <2>3. \A other \in Busy' : other = posted'
    BY <1>1, <2>2 DEF Busy
  <2>4. faults' = 0 => Len(appended') = IF requests' = {} THEN posted' ELSE posted' - 1
    <3>1. faults' = 0 => Len(appended') = posted
      BY <1>1, <1>8, <2>2 DEF InOrder
    <3>2. CASE requests' = requests \cup {posted + 1} /\ posted' = posted + 1
      <4>1. requests' # {} /\ posted' - 1 = posted
        BY <1>4, <3>2
      <4>. QED  BY <3>1, <4>1
    <3>3. CASE requests' = requests /\ posted' = posted
      BY <2>2, <3>1, <3>3
    <3>. QED  BY <1>1, <3>2, <3>3
  <2>. QED  BY <1>1, <1>8, <2>3, <2>4 DEF InOrder
<1>9. SingleChain'
  BY <1>2, <1>8, Zenon DEF AddInv, SingleChain
<1>10. overlap' \in BOOLEAN
  BY <1>2, Zenon DEF AddInv, AddTypes
<1>. QED  BY <1>7, <1>9, <1>10, AddStepTypes

\* Or the request fails.
LEMMA AddLostStep ==
    ASSUME AddInv, ServerTypes, AddLost
    PROVE  AddInv'
<1>1. \E line \in Busy :
          /\ \/ requests' = requests \ {line} /\ replies' = replies /\ line \in requests
             \/ replies' = replies \ {line} /\ requests' = requests /\ line \in replies
  BY Zenon DEF AddLost, Busy
<1>2. PICK line \in Busy :
          /\ \/ requests' = requests \ {line} /\ replies' = replies /\ line \in requests
             \/ replies' = replies \ {line} /\ requests' = requests /\ line \in replies
  BY <1>1
<1>3. /\ appended' = appended /\ posted' = posted /\ chains' = chains - 1
      /\ faults < MaxFaults /\ faults' = faults + 1
  BY Zenon DEF AddLost, server_vars
<1>4. overlap' = overlap
  BY Zenon DEF AddLost
<1>5. AddNumbers
  BY AddInvNumbers
<1>6. Busy' = Busy \ {line} /\ Cardinality(Busy \ {line}) = chains - 1 /\ chains > 0
  BY <1>2, <1>5, BusyLines DEF Busy, AddNumbers
<1>7. AddNumbers'
  <2>1. chains' = Cardinality(Busy') /\ chains' \in 0..MaxChains /\ faults' \in 0..MaxFaults
    BY <1>3, <1>5, <1>6, Sizes DEF AddNumbers
  <2>2. requests' \subseteq requests /\ replies' \subseteq replies
    BY <1>2
  <2>. QED  BY <1>3, <1>5, <2>1, <2>2 DEF AddNumbers
<1>8. ASSUME InOrder PROVE InOrder'
  <2>1. faults' # 0
    BY <1>3, <1>5 DEF AddNumbers
  <2>2. \A other \in Busy' : other = posted'
    BY <1>3, <1>6, <1>8 DEF InOrder
  <2>. QED  BY <1>3, <1>8, <2>1, <2>2 DEF InOrder
<1>9. SingleChain'
  BY <1>4, <1>8, Zenon DEF AddInv, SingleChain
<1>10. overlap' \in BOOLEAN
  BY <1>4, Zenon DEF AddInv, AddTypes
<1>. QED  BY <1>7, <1>9, <1>10, AddStepTypes

\* The other requests may fail too.
LEMMA AddStays ==
    ASSUME AddInv, UNCHANGED <<add_vars, appended>>, faults' \in 0..MaxFaults,
           faults' = 0 => faults = 0
    PROVE  AddInv'
<1>1. /\ posted' = posted /\ requests' = requests /\ replies' = replies /\ chains' = chains
      /\ overlap' = overlap /\ appended' = appended
  BY Zenon DEF add_vars
<1>2. AddTypes' /\ ChainsMatch'
  BY <1>1, Zenon DEF AddInv, AddTypes, ChainsMatch, Busy
<1>3. InOrder => InOrder'
  BY <1>1, Zenon DEF InOrder, Busy
<1>. QED  BY <1>1, <1>2, <1>3, Zenon DEF AddInv, SingleChain

-----------------------------------------------------------------------------
(***************************************************************************)
(* Playing: the loops.                                                     *)
(***************************************************************************)

PlayInv ==
    /\ ServerTyped /\ LoopTypes /\ AudioTypes /\ InfoTypes
    /\ RepliesAwaited
    /\ SourceRises
    /\ BufferFits
    /\ SourceComplete
    /\ TitlesInOrder

PlayState == <<appended, taken, sent, opened, chunks, plays, loop, reply, buffer_ts, source,
               buffered, current, metadata, shown>>

\* Who leaves the playing alone keeps it.
LEMMA PlayStays ==
    ASSUME PlayInv, UNCHANGED PlayState
    PROVE  PlayInv'
<1>1. /\ appended' = appended /\ taken' = taken /\ sent' = sent /\ opened' = opened
      /\ chunks' = chunks
      /\ plays' = plays /\ loop' = loop /\ reply' = reply /\ buffer_ts' = buffer_ts
      /\ source' = source /\ buffered' = buffered /\ current' = current
      /\ metadata' = metadata /\ shown' = shown
  BY Zenon DEF PlayState
<1>2. ServerTyped' /\ LoopTypes' /\ AudioTypes' /\ InfoTypes'
  BY <1>1, Zenon DEF PlayInv, ServerTyped, LoopTypes, AudioTypes, InfoTypes, remaining
<1>3. RepliesAwaited' /\ SourceRises' /\ BufferFits' /\ SourceComplete'
  BY <1>1, Zenon DEF PlayInv, RepliesAwaited, SourceRises, BufferFits, SourceComplete,
     ReplyCompletes
<1>4. TitlesInOrder'
  BY <1>1, Zenon DEF PlayInv, TitlesInOrder, TitlesFrom, Announcement, Start
<1>. QED  BY <1>2, <1>3, <1>4 DEF PlayInv

ReplyRecord == [no : Int, units : 0..ChunkUnits, meta : Seq(Title)]

\* The reply of a loop that waits for none.
LEMMA NoReplyType ==
    /\ NoReply \in ReplyRecord /\ NoReply.no = 0 /\ NoReply.units = 0
    /\ NoReply.meta = <<>> /\ Len(NoReply.meta) = 0
<1>1. 0 \in 0..ChunkUnits /\ <<>> \in Seq(Title)
  BY Sizes
<1>. QED  BY <1>1 DEF NoReply, ReplyRecord

\* A loop that fails, with its answer, changes nothing else.
LoopFails(k) ==
    /\ loop[k] = "fetching"
    /\ loop' = [loop EXCEPT ![k] = "failed"]
    /\ reply' = [reply EXCEPT ![k] = NoReply]
    /\ UNCHANGED <<appended, taken, sent, opened, chunks, plays, buffer_ts, source, buffered,
                   current, metadata, shown>>

\* A loop that fails keeps it.
LEMMA LoopFailsStep ==
    ASSUME PlayInv, NEW k \in Loops, LoopFails(k)
    PROVE  PlayInv'
<1>1. /\ appended' = appended /\ taken' = taken /\ sent' = sent /\ opened' = opened
      /\ chunks' = chunks /\ plays' = plays /\ buffer_ts' = buffer_ts
      /\ source' = source /\ buffered' = buffered /\ current' = current
      /\ metadata' = metadata /\ shown' = shown
  BY Zenon DEF LoopFails
<1>2. /\ loop \in [Loops -> {"off", "fetching", "waiting", "stopped", "failed"}]
      /\ reply \in [Loops -> ReplyRecord]
  BY Zenon DEF PlayInv, LoopTypes, ReplyRecord
<1>3. \A j \in Loops : /\ loop'[j] = (IF j = k THEN "failed" ELSE loop[j])
                       /\ reply'[j] = (IF j = k THEN NoReply ELSE reply[j])
  BY <1>2 DEF LoopFails
<1>0. loop[k] = "fetching"
  BY Zenon DEF LoopFails
<1>4. LoopTypes'
  <2>1. loop' \in [Loops -> {"off", "fetching", "waiting", "stopped", "failed"}]
    BY <1>2 DEF LoopFails
  <2>2. reply' \in [Loops -> ReplyRecord]
    BY <1>2, NoReplyType DEF LoopFails
  <2>. QED  BY <1>1, <2>1, <2>2, Zenon DEF PlayInv, LoopTypes, ReplyRecord
<1>5. ServerTyped' /\ AudioTypes' /\ InfoTypes'
  BY <1>1, Zenon DEF PlayInv, ServerTyped, AudioTypes, InfoTypes, remaining
<1>6. RepliesAwaited'
  <2>1. chunks \in Nat
    BY DEF PlayInv, ServerTyped
  <2>2. RepliesAwaited
    BY DEF PlayInv
  <2>. QED  BY <1>0, <1>1, <1>3, <2>1, <2>2, NoReplyType DEF RepliesAwaited
<1>7. SourceRises'
  <2>1. plays > 0 => plays \in Loops
    BY DEF PlayInv, LoopTypes, Loops
  <2>2. plays > 0 /\ reply'[plays].no > 0 => reply[plays].no > 0 /\ reply'[plays] = reply[plays]
    BY <1>3, <2>1, NoReplyType
  <2>3. SourceRises
    BY DEF PlayInv
  <2>. QED  BY <1>1, <2>2, <2>3 DEF SourceRises
<1>8. BufferFits'
  <2>1. plays > 0 => plays \in Loops
    BY DEF PlayInv, LoopTypes, Loops
  <2>2. plays > 0 /\ loop'[plays] = "fetching" => loop[plays] = "fetching"
    BY <1>0, <1>3, <2>1
  <2>3. BufferFits
    BY DEF PlayInv
  <2>. QED  BY <1>1, <2>2, <2>3 DEF BufferFits
<1>9. loop'[1] # "failed" => loop[1] # "failed" /\ reply'[1] = reply[1]
  BY <1>3, Sizes
<1>10. SourceComplete'
  <2>1. ReplyCompletes(reply[1])' <=> ReplyCompletes(reply'[1])
    BY <1>1 DEF ReplyCompletes
  <2>. QED  BY <1>1, <1>9, <2>1, Zenon DEF PlayInv, SourceComplete
<1>11. ASSUME NEW q \in 0..opened, NEW s \in 0..q, TitlesFrom(s, q)
       PROVE  TitlesFrom(s, q)'
  <2>1. \A i : Start(i)' = Start(i) /\ Announcement(i)' = Announcement(i)
    BY <1>1, Zenon DEF Start, Announcement
  <2>2. CASE loop'[1] = "failed"
    <3>1. Len(reply'[1].meta) = 0
      <4>1. CASE k = 1
        BY <1>3, <4>1, NoReplyType
      <4>2. CASE k # 1
        <5>1. loop[1] = "failed" /\ reply'[1] = reply[1]
          BY <1>3, <2>2, <4>2, Sizes
        <5>. QED  BY <1>11, <5>1 DEF TitlesFrom
      <4>. QED  BY <4>1, <4>2
    <3>. QED  BY <1>1, <1>11, <2>1, <2>2, <3>1, Zenon DEF TitlesFrom
  <2>3. CASE loop'[1] # "failed"
    BY <1>1, <1>9, <1>11, <2>1, <2>3, Zenon DEF TitlesFrom
  <2>. QED  BY <2>2, <2>3
<1>12. TitlesInOrder'
  <2>1. \A i : Start(i)' = Start(i)
    BY <1>1, Zenon DEF Start
  <2>. QED  BY <1>1, <1>11, <2>1, Zenon DEF PlayInv, TitlesInOrder
<1>. QED  BY <1>4, <1>5, <1>6, <1>7, <1>8, <1>10, <1>12 DEF PlayInv

\* A loop with a reply is fetching.
LEMMA LoopFetches ==
    ASSUME PlayInv, NEW k \in Loops
    PROVE  /\ reply[k] \in ReplyRecord /\ reply[k].no \in -1..chunks
           /\ reply[k].no # 0 => loop[k] = "fetching"
           /\ loop[k] # "off" => k <= plays /\ plays > 0
<1>1. reply[k] \in ReplyRecord /\ k \in Nat /\ k > 0 /\ plays \in Nat
  BY SMTT(30), Sizes DEF PlayInv, LoopTypes, ReplyRecord, Loops
<1>2. reply[k].no \in -1..chunks /\ (k > plays => loop[k] = "off")
      /\ (loop[k] # "fetching" => reply[k] = NoReply)
  BY DEF PlayInv, RepliesAwaited
<1>. QED  BY <1>1, <1>2, NoReplyType

\* The handler of the data throws.
LEMMA HandleThrowsStep ==
    ASSUME PlayInv, NEW k \in Loops, HandleThrows(k)
    PROVE  PlayInv'
<1>1. reply[k].no > 0
  BY Zenon DEF HandleThrows
<1>2. loop[k] = "fetching"
  BY <1>1, LoopFetches
<1>3. LoopFails(k)
  BY <1>2, Zenon DEF HandleThrows, LoopFails, server_vars, audio_vars, info_vars
<1>. QED  BY <1>3, LoopFailsStep

\* The request for a chunk fails.
LEMMA AdvanceLostStep ==
    ASSUME PlayInv, NEW k \in Loops, AdvanceLost(k)
    PROVE  PlayInv'
<1>1. LoopFails(k)
  BY Zenon DEF AdvanceLost, LoopFails, server_vars, audio_vars, info_vars
<1>. QED  BY <1>1, LoopFailsStep

\* The timer starts another fetch when less than ten seconds are left.
LEMMA TimerStep ==
    ASSUME PlayInv, NEW k \in Loops, Timer(k)
    PROVE  PlayInv'
<1>1. /\ appended' = appended /\ taken' = taken /\ sent' = sent /\ opened' = opened
      /\ chunks' = chunks
      /\ plays' = plays /\ buffer_ts' = buffer_ts /\ reply' = reply
      /\ source' = source /\ buffered' = buffered /\ current' = current
      /\ metadata' = metadata /\ shown' = shown
  BY Zenon DEF Timer, server_vars, audio_vars, info_vars
<1>2. loop[k] = "waiting" /\ WantsMore(buffer_ts[k]) /\ loop' = [loop EXCEPT ![k] = "fetching"]
  BY Zenon DEF Timer
<1>3. loop \in [Loops -> {"off", "fetching", "waiting", "stopped", "failed"}]
  BY Zenon DEF PlayInv, LoopTypes
<1>4. \A j \in Loops : loop'[j] = (IF j = k THEN "fetching" ELSE loop[j])
  BY <1>2, <1>3
<1>5. LoopTypes'
  <2>1. loop' \in [Loops -> {"off", "fetching", "waiting", "stopped", "failed"}]
    BY <1>2, <1>3
  <2>. QED  BY <1>1, <2>1, Zenon DEF PlayInv, LoopTypes
<1>6. ServerTyped' /\ AudioTypes' /\ InfoTypes' /\ SourceRises'
  BY <1>1, Zenon DEF PlayInv, ServerTyped, AudioTypes, InfoTypes, SourceRises, remaining
<1>7. RepliesAwaited'
  <2>1. RepliesAwaited
    BY DEF PlayInv
  <2>2. \A j \in Loops : /\ j > plays => loop[j] = "off"
                         /\ loop'[j] # "fetching" => loop[j] # "fetching"
                         /\ loop[j] = "off" => loop'[j] = "off"
    BY <1>2, <1>4, <2>1 DEF RepliesAwaited
  <2>. QED  BY <1>1, <2>1, <2>2, Zenon DEF RepliesAwaited
<1>8. BufferFits'
  <2>1. plays > 0 => plays \in Loops
    BY DEF PlayInv, LoopTypes, Loops
  <2>2. plays > 0 /\ loop'[plays] = "fetching" =>
            loop[plays] = "fetching" \/ buffer_ts[plays] - current < BufferSize
    BY <1>2, <1>4, <2>1 DEF WantsMore
  <2>3. BufferFits
    BY DEF PlayInv
  <2>. QED  BY <1>1, <2>2, <2>3, Zenon DEF BufferFits
<1>9. loop'[1] = "failed" <=> loop[1] = "failed"
  BY <1>2, <1>4, Sizes
<1>10. SourceComplete'
  BY <1>1, <1>9, Zenon DEF PlayInv, SourceComplete, ReplyCompletes
<1>11. TitlesInOrder'
  BY <1>1, <1>9, Zenon DEF PlayInv, TitlesInOrder, TitlesFrom, Announcement, Start
<1>. QED  BY <1>5, <1>6, <1>7, <1>8, <1>10, <1>11 DEF PlayInv

\* The audio plays on.
LEMMA ListenStep ==
    ASSUME PlayInv, Listen
    PROVE  PlayInv'
<1>1. /\ appended' = appended /\ taken' = taken /\ sent' = sent /\ opened' = opened
      /\ chunks' = chunks
      /\ plays' = plays /\ buffer_ts' = buffer_ts /\ reply' = reply /\ loop' = loop
      /\ source' = source /\ buffered' = buffered /\ current' = current + 1
      /\ metadata' = metadata /\ shown' = shown /\ current < buffered
  BY Zenon DEF Listen, Playing, server_vars, loop_vars, info_vars
<1>2. buffered \in Nat /\ current \in Nat
  BY DEF PlayInv, AudioTypes
<1>3. AudioTypes'
  BY <1>1, <1>2 DEF PlayInv, AudioTypes
<1>4. ServerTyped' /\ LoopTypes' /\ InfoTypes' /\ SourceRises' /\ RepliesAwaited' /\ SourceComplete'
  BY <1>1, Zenon DEF PlayInv, ServerTyped, LoopTypes, InfoTypes, SourceRises, RepliesAwaited,
     SourceComplete, ReplyCompletes, remaining
<1>5. BufferFits'
  <2>1. BufferSize \in Nat /\ ChunkUnits \in Nat
    BY Sizes
  <2>2. plays > 0 => buffer_ts[plays] \in Nat
    BY DEF PlayInv, LoopTypes, Loops
  <2>3. BufferFits
    BY DEF PlayInv
  <2>. QED  BY <1>1, <1>2, <2>1, <2>2, <2>3 DEF BufferFits
<1>6. ASSUME NEW q \in 0..opened, NEW s \in 0..q, TitlesFrom(s, q)
      PROVE  TitlesFrom(s, q)'
  <2>1. \A i : Start(i)' = Start(i) /\ Announcement(i)' = Announcement(i)
    BY <1>1, Zenon DEF Start, Announcement
  <2>2. s > 0 => Start(s) <= current'
    <3>1. s > 0 => Start(s) \in Nat
      <4>1. opened \in Nat /\ s \in Nat /\ s <= opened /\ opened <= Len(appended) /\ Len(appended) \in Nat
        BY StartType DEF PlayInv, ServerTyped
      <4>2. s > 0 => s \in 1..(Len(appended) + 1)
        BY <4>1
      <4>. QED  BY <4>2, StartType DEF PlayInv
    <3>2. s > 0 => Start(s) <= current
      BY <1>6 DEF TitlesFrom
    <3>. QED  BY <1>1, <1>2, <3>1, <3>2
  <2>. QED  BY <1>1, <1>6, <2>1, <2>2, Zenon DEF TitlesFrom
<1>7. TitlesInOrder'
  <2>1. \A i : Start(i)' = Start(i)
    BY <1>1, Zenon DEF Start
  <2>. QED  BY <1>1, <1>6, <2>1, Zenon DEF PlayInv, TitlesInOrder
<1>. QED  BY <1>3, <1>4, <1>5, <1>7 DEF PlayInv

\* The title of the file that has begun goes from metadata to the page.
LEMMA UpdateInfoStep ==
    ASSUME PlayInv, UpdateInfo
    PROVE  PlayInv'
<1>1. /\ appended' = appended /\ taken' = taken /\ sent' = sent /\ opened' = opened
      /\ chunks' = chunks
      /\ plays' = plays /\ buffer_ts' = buffer_ts /\ reply' = reply /\ loop' = loop
      /\ source' = source /\ buffered' = buffered /\ current' = current
  BY Zenon DEF UpdateInfo, server_vars, loop_vars, audio_vars
<1>2. /\ metadata # <<>> /\ current >= Head(metadata).start
      /\ shown' = Head(metadata).line /\ metadata' = Tail(metadata)
  BY Zenon DEF UpdateInfo
<1>3. /\ metadata \in Seq(Title) /\ Head(metadata) = metadata[1] /\ Head(metadata) \in Title
      /\ Len(metadata) \in Nat \ {0}
      /\ metadata' \in Seq(Title) /\ Len(metadata') = Len(metadata) - 1
      /\ \A i \in 1..(Len(metadata) - 1) : metadata'[i] = metadata[i + 1]
  <2>1. metadata \in Seq(Title)
    BY DEF PlayInv, InfoTypes
  <2>2. Len(metadata) \in Nat \ {0}
    BY <1>2, <2>1
  <2>. QED  BY <1>2, <2>1, <2>2, HeadTailProperties
<1>4. InfoTypes'
  <2>1. shown' \in 1..Len(Lines)
    BY <1>2, <1>3 DEF Title
  <2>2. shown' \in 0..Len(Lines)
    BY <2>1, Sizes
  <2>. QED  BY <1>3, <2>2 DEF InfoTypes
<1>5. /\ ServerTyped' /\ LoopTypes' /\ AudioTypes' /\ SourceRises' /\ RepliesAwaited' /\ BufferFits'
  BY <1>1, Zenon DEF PlayInv, ServerTyped, LoopTypes, AudioTypes, SourceRises, RepliesAwaited,
     BufferFits, remaining
<1>6. /\ opened \in Nat /\ opened <= Len(appended) /\ Len(appended) \in Nat /\ plays \in Nat
  BY StartType DEF PlayInv, ServerTyped, LoopTypes
<1>7. ASSUME NEW q \in 0..opened, NEW s \in 0..q, TitlesFrom(s, q)
      PROVE  s + 1 \in 0..q /\ TitlesFrom(s + 1, q)' /\ opened > 0
  <2>1. \A i : Start(i)' = Start(i) /\ Announcement(i)' = Announcement(i)
    BY <1>1, Zenon DEF Start, Announcement
  <2>2. Len(metadata) = q - s /\ q \in Nat /\ s \in Nat /\ q <= opened
    BY <1>6, <1>7 DEF TitlesFrom
  <2>3. s + 1 \in 0..q /\ opened > 0 /\ s + 1 \in (s + 1)..q /\ (s + 1) - s = 1
        /\ Len(metadata') = q - (s + 1)
    BY <1>3, <1>6, <2>2
  <2>4. metadata[1] = Announcement(s + 1)
    BY <1>7, <2>2, <2>3 DEF TitlesFrom
  <2>5. shown' = appended[s + 1] /\ Start(s + 1) <= current
    <3>1. Announcement(s + 1).line = appended[s + 1] /\ Announcement(s + 1).start = Start(s + 1)
      BY DEF Announcement
    <3>2. Start(s + 1) \in Nat /\ current \in Nat
      <4>1. s + 1 \in 1..(Len(appended) + 1)
        BY <1>6, <2>2, <2>3
      <4>. QED  BY <4>1, StartType DEF PlayInv, AudioTypes
    <3>. QED  BY <1>2, <1>3, <2>4, <3>1, <3>2
  <2>6. ASSUME NEW i \in ((s + 1) + 1)..q PROVE metadata'[i - (s + 1)] = Announcement(i)
    <3>1. i - (s + 1) \in 1..(Len(metadata) - 1) /\ (i - (s + 1)) + 1 = i - s /\ i \in (s + 1)..q
      BY <2>2
    <3>. QED  BY <1>3, <1>7, <3>1 DEF TitlesFrom
  <2>7. s + 1 # 0
    BY <2>2
  <2>. QED  BY <1>1, <1>7, <2>1, <2>3, <2>5, <2>6, <2>7, Zenon DEF TitlesFrom
<1>8. plays <= 1 => \E q \in 0..opened : \E s \in 0..q : TitlesFrom(s, q)
  BY Zenon DEF PlayInv, TitlesInOrder
<1>9. TitlesInOrder'
  <2>1. \A i : Start(i)' = Start(i)
    BY <1>1, Zenon DEF Start
  <2>2. plays <= 1 => \E q \in 0..opened : \E s \in 0..q : TitlesFrom(s, q)'
    BY <1>7, <1>8, Zenon
  <2>. QED  BY <1>1, <2>1, <2>2, Zenon DEF PlayInv, TitlesInOrder
<1>10. SourceComplete'
  <2>1. plays # 0
    <3>1. plays = 0 => opened = 0
      BY Zenon DEF PlayInv, SourceComplete
    <3>2. plays <= 1 => opened > 0
      BY <1>7, <1>8
    <3>. QED  BY <1>6, <3>1, <3>2
  <2>. QED  BY <1>1, <2>1, Zenon DEF PlayInv, SourceComplete, ReplyCompletes
<1>. QED  BY <1>4, <1>5, <1>9, <1>10 DEF PlayInv

-----------------------------------------------------------------------------
(***************************************************************************)
(* Playing: another entry, another click.                                  *)
(***************************************************************************)

\* Another line at the end of the playlist changes nothing before it.
LEMMA AppendEntryStep ==
    ASSUME PlayInv, NEW line \in 1..Len(Lines), appended' = Append(appended, line),
           UNCHANGED <<taken, sent, opened, chunks, play_vars>>
    PROVE  PlayInv'
<1>1. /\ taken' = taken /\ sent' = sent /\ opened' = opened /\ chunks' = chunks
      /\ plays' = plays /\ buffer_ts' = buffer_ts /\ reply' = reply /\ loop' = loop
      /\ source' = source /\ buffered' = buffered /\ current' = current
      /\ metadata' = metadata /\ shown' = shown
  BY Zenon DEF play_vars, loop_vars, audio_vars, info_vars
<1>2. /\ LoopTypes' /\ AudioTypes' /\ InfoTypes' /\ SourceRises' /\ RepliesAwaited' /\ BufferFits'
      /\ SourceComplete'
  BY <1>1, Zenon DEF PlayInv, LoopTypes, AudioTypes, InfoTypes, SourceRises, RepliesAwaited,
     BufferFits, SourceComplete, ReplyCompletes
<1>3. /\ appended \in Seq(1..Len(Lines)) /\ Len(appended) \in Nat
      /\ appended' \in Seq(1..Len(Lines)) /\ Len(appended') = Len(appended) + 1
      /\ \A i \in 1..Len(appended) : appended'[i] = appended[i]
  <2>1. appended \in Seq(1..Len(Lines))
    BY DEF PlayInv, ServerTyped
  <2>. QED  BY <2>1, AppendProperties
<1>4. \A i \in 1..(Len(appended) + 1) : Start(i)' = Start(i)
  <2>1. \A i \in 1..(Len(appended) + 1) : i - 1 \in 0..Len(appended)
    BY <1>3
  <2>2. \A n \in 0..Len(appended) : Units(appended')[n] = Units(appended)[n]
    BY <1>3, UnitsOfAppend
  <2>. QED  BY <2>1, <2>2 DEF Start
<1>5. \A i \in 1..Len(appended) : Announcement(i)' = Announcement(i)
  BY <1>3, <1>4 DEF Announcement
<1>6. /\ taken \in Nat /\ sent \in Nat /\ sent <= taken
      /\ remaining \in Nat /\ opened \in 0..Len(appended) /\ opened \in Nat
      /\ Start(Len(appended) + 1) = taken + remaining
      /\ buffered \in Nat
  BY <1>3, StartType DEF PlayInv, ServerTyped, AudioTypes
<1>7. ServerTyped'
  <2>. DEFINE total == Units(appended)[Len(appended)]
              after == Units(appended')[Len(appended')]
  <2>1. total \in Nat /\ after \in Nat /\ total <= after
    BY <1>3, UnitsOfAppend, UnitsType
  <2>2. remaining = total - taken /\ remaining' = after - taken
    BY <1>1 DEF remaining
  <2>. HIDE DEF total, after
  <2>3. after - taken \in Nat
    BY <1>6, <2>1, <2>2
  <2>4. remaining' \in Nat
    BY <2>2, <2>3
  <2>5. opened' \in 0..Len(appended')
    BY <1>1, <1>3, <1>6
  <2>6. taken' \in Nat /\ sent' \in 0..taken' /\ chunks' \in Nat
    BY <1>1 DEF PlayInv, ServerTyped
  <2>. QED  BY <1>3, <2>4, <2>5, <2>6 DEF ServerTyped
<1>8. \A i \in (opened + 1)..(Len(appended) + 1) : Start(i) \in Nat /\ Start(i) >= taken
  <2>1. ASSUME NEW i \in (opened + 1)..(Len(appended) + 1)
        PROVE  Start(i) \in Nat /\ Start(i) >= taken
    <3>1. Start(i) \in Nat
      <4>1. i \in 1..(Len(appended) + 1)
        BY <1>3, <1>6
      <4>. QED  BY <4>1, StartType DEF PlayInv
    <3>2. CASE i = Len(appended) + 1
      BY <1>6, <3>1, <3>2
    <3>3. CASE i # Len(appended) + 1
      <4>1. i \in (opened + 1)..Len(appended)
        BY <1>3, <1>6, <3>3
      <4>. QED  BY <3>1, <4>1 DEF PlayInv, TitlesInOrder
    <3>. QED  BY <3>2, <3>3
  <2>. QED  BY <2>1
<1>9. ASSUME NEW q \in 0..opened, NEW s \in 0..q, TitlesFrom(s, q), buffered <= sent
      PROVE  TitlesFrom(s, q)'
  <2>1. q \in Nat /\ q <= Len(appended) /\ s \in Nat /\ s <= Len(appended)
    BY <1>3, <1>6
  <2>2. shown' = IF s = 0 THEN 0 ELSE appended'[s]
    <3>1. s # 0 => appended'[s] = appended[s]
      BY <1>3, <2>1
    <3>. QED  BY <1>1, <1>9, <3>1 DEF TitlesFrom
  <2>3. s > 0 => Start(s)' <= current'
    <3>1. s > 0 => Start(s)' = Start(s)
      <4>1. s > 0 => s \in 1..(Len(appended) + 1)
        BY <1>3, <2>1
      <4>. QED  BY <1>4, <4>1
    <3>. QED  BY <1>1, <1>9, <3>1 DEF TitlesFrom
  <2>4. \A i \in (s + 1)..q : metadata'[i - s] = Announcement(i)'
    <3>1. \A i \in (s + 1)..q : i \in 1..Len(appended)
      BY <2>1
    <3>. QED  BY <1>1, <1>5, <1>9, <3>1 DEF TitlesFrom
  <2>5. loop'[1] # "failed" =>
            \A i \in (q + 1)..opened : reply'[1].meta[i - q] = Announcement(i)'
    <3>1. \A i \in (q + 1)..opened : i \in 1..Len(appended)
      BY <1>3, <1>6, <2>1
    <3>. QED  BY <1>1, <1>5, <1>9, <3>1 DEF TitlesFrom
  <2>6. ASSUME NEW i \in (q + 1)..Len(appended') PROVE Start(i)' >= buffered
    <3>1. i \in 1..(Len(appended) + 1)
      BY <1>3, <2>1
    <3>2. CASE i \in (q + 1)..Len(appended)
      <4>1. Start(i) >= buffered
        BY <1>9, <3>2 DEF TitlesFrom
      <4>. QED  BY <1>4, <3>1, <4>1
    <3>3. CASE i = Len(appended) + 1
      <4>1. Start(i) \in Nat /\ Start(i) >= taken
        BY <1>3, <1>6, <1>8, <3>3
      <4>2. Start(i) >= buffered
        BY <1>6, <1>9, <4>1
      <4>. QED  BY <1>4, <3>1, <4>2
    <3>. QED  BY <1>3, <2>1, <3>2, <3>3
  <2>. QED  BY <1>1, <1>9, <2>2, <2>3, <2>4, <2>5, <2>6, Zenon DEF TitlesFrom
<1>10. TitlesInOrder'
  <2>1. \A i \in (opened + 1)..Len(appended') : Start(i)' >= taken
    <3>1. \A i \in (opened + 1)..Len(appended') : i \in (opened + 1)..(Len(appended) + 1)
                                                 /\ i \in 1..(Len(appended) + 1)
      BY <1>3, <1>6
    <3>. QED  BY <1>4, <1>8, <3>1
  <2>2. plays <= 1 => buffered <= sent
    BY Zenon DEF PlayInv, SourceComplete
  <2>3. plays <= 1 => \E q \in 0..opened : \E s \in 0..q : TitlesFrom(s, q)
    BY Zenon DEF PlayInv, TitlesInOrder
  <2>4. plays <= 1 => \E q \in 0..opened : \E s \in 0..q : TitlesFrom(s, q)'
    BY <1>9, <2>2, <2>3, Zenon
  <2>. QED  BY <1>1, <2>1, <2>4, Zenon DEF TitlesInOrder
<1>. QED  BY <1>2, <1>7, <1>10 DEF PlayInv

\* A click starts another loop, with a source buffer of its own.
LEMMA ClickPlayStep ==
    ASSUME PlayInv, ClickPlay
    PROVE  PlayInv'
<1>1. /\ appended' = appended /\ taken' = taken /\ sent' = sent /\ opened' = opened
      /\ chunks' = chunks
      /\ plays' = plays + 1 /\ buffer_ts' = buffer_ts /\ reply' = reply
      /\ loop' = [loop EXCEPT ![plays + 1] = "fetching"]
      /\ source' = <<>> /\ buffered' = 0 /\ current' = 0 /\ metadata' = <<>> /\ shown' = shown
      /\ plays < MaxPlays
  BY Zenon DEF ClickPlay, server_vars
<1>2. /\ loop \in [Loops -> {"off", "fetching", "waiting", "stopped", "failed"}]
      /\ plays \in Nat /\ plays + 1 \in Loops /\ plays + 1 \in 0..MaxPlays
      /\ buffer_ts \in [Loops -> Nat]
  BY SMTT(30), <1>1, Sizes DEF PlayInv, LoopTypes, Loops
<1>3. \A j \in Loops : /\ loop'[j] = (IF j = plays + 1 THEN "fetching" ELSE loop[j])
                       /\ j \in Nat /\ j > 0
  BY <1>1, <1>2 DEF Loops
<1>4. LoopTypes'
  <2>1. loop' \in [Loops -> {"off", "fetching", "waiting", "stopped", "failed"}]
    BY <1>1, <1>2
  <2>. QED  BY <1>1, <1>2, <2>1, Zenon DEF PlayInv, LoopTypes
<1>5. ServerTyped'
  BY <1>1, Zenon DEF PlayInv, ServerTyped, remaining
<1>6. /\ source' \in Seq(Nat) /\ buffered' \in Nat /\ current' \in 0..buffered'
      /\ metadata' \in Seq(Title) /\ Len(source') = 0 /\ Len(metadata') = 0
  BY <1>1
<1>7. AudioTypes' /\ InfoTypes'
  BY <1>1, <1>6, Zenon DEF PlayInv, AudioTypes, InfoTypes
<1>8. RepliesAwaited
  BY DEF PlayInv
<1>9. reply[plays + 1] = NoReply /\ buffer_ts[plays + 1] = 0 /\ loop[plays + 1] = "off"
  <2>1. plays + 1 > plays
    BY <1>2
  <2>. QED  BY <1>2, <1>8, <2>1 DEF RepliesAwaited
<1>10. RepliesAwaited'
  <2>. SUFFICES ASSUME NEW k \in Loops
                PROVE  /\ k > plays' => loop'[k] = "off" /\ buffer_ts'[k] = 0
                       /\ loop'[k] # "fetching" => reply'[k] = NoReply
                       /\ reply'[k].no = -1 => reply'[k].units = 0
                       /\ reply'[k].no \in -1..chunks'
                       /\ reply'[k].no = 0 => reply'[k] = NoReply
    BY Zenon DEF RepliesAwaited
  <2>1. k > plays' => k > plays /\ k # plays + 1
    BY <1>1, <1>2, <1>3
  <2>2. k > plays => loop[k] = "off" /\ buffer_ts[k] = 0
    BY <1>8 DEF RepliesAwaited
  <2>3. loop'[k] # "fetching" => loop[k] # "fetching"
    BY <1>3
  <2>. QED  BY <1>1, <1>3, <1>8, <2>1, <2>2, <2>3, Zenon DEF RepliesAwaited
<1>11. SourceRises'
  <2>1. \A i \in 1..Len(source') : FALSE
    BY <1>6
  <2>2. \A i \in 2..Len(source') : FALSE
    BY <1>6
  <2>. QED  BY <2>1, <2>2, Zenon DEF SourceRises
<1>12. BufferFits'
  <2>1. 0 - 0 < BufferSize + ChunkUnits /\ 0 - 0 < BufferSize /\ 0 <= 0
    BY Sizes
  <2>2. buffer_ts'[plays'] = 0
    BY <1>1, <1>9
  <2>. QED  BY <1>1, <2>1, <2>2, Zenon DEF BufferFits
<1>13. SourceComplete'
  <2>1. plays' # 0 /\ (plays' <= 1 => plays = 0)
    BY <1>1, <1>2
  <2>2. ASSUME plays = 0
        PROVE  /\ ReplyCompletes(reply[1])'
               /\ \A i \in 1..Len(source') : source'[i] = i
               /\ buffered' <= sent'
    <3>1. chunks = 0 /\ sent = 0 /\ reply[1] = NoReply
      <4>1. reply[1] = NoReply
        BY <1>9, <2>2
      <4>. QED  BY <2>2, <4>1, Zenon DEF PlayInv, SourceComplete
    <3>2. ReplyCompletes(reply[1])'
      BY <1>1, <1>6, <3>1, NoReplyType DEF ReplyCompletes
    <3>3. \A i \in 1..Len(source') : FALSE
      BY <1>6
    <3>4. buffered' <= sent'
      BY <1>1, <3>1
    <3>. QED  BY <3>2, <3>3, <3>4
  <2>. QED  BY <2>1, <2>2, Zenon DEF SourceComplete
<1>14. TitlesInOrder'
  <2>1. \A i : Start(i)' = Start(i) /\ Announcement(i)' = Announcement(i)
    BY <1>1, Zenon DEF Start, Announcement
  <2>2. plays' <= 1 => plays = 0
    BY <1>1, <1>2
  <2>3. ASSUME plays = 0 PROVE opened = 0 /\ TitlesFrom(0, 0)'
    <3>1. opened = 0 /\ shown = 0 /\ reply[1] = NoReply
      <4>1. reply[1] = NoReply
        BY <1>9, <2>3
      <4>. QED  BY <2>3, <4>1, Zenon DEF PlayInv, SourceComplete
    <3>2. Len(metadata') = 0 - 0 /\ Len(reply'[1].meta) = 0 /\ opened' - 0 = 0 /\ ~(0 > 0)
      BY <1>1, <1>6, <3>1, NoReplyType
    <3>3. \A i \in (0 + 1)..0 : FALSE
      OBVIOUS
    <3>4. \A i \in (0 + 1)..opened' : FALSE
      BY <1>1, <3>1
    <3>5. \A i \in (0 + 1)..Len(appended') : Start(i)' >= buffered'
      <4>1. Len(appended) \in Nat
        BY StartType DEF PlayInv
      <4>2. \A i \in (0 + 1)..Len(appended) : i \in 1..(Len(appended) + 1)
        BY <4>1
      <4>3. \A i \in (0 + 1)..Len(appended) : Start(i) \in Nat
        BY <4>2, StartType DEF PlayInv
      <4>4. \A i \in (0 + 1)..Len(appended) : Start(i) >= 0
        BY <4>3
      <4>. QED  BY <1>1, <2>1, <4>4
    <3>. QED  BY <1>1, <3>1, <3>2, <3>3, <3>4, <3>5, Zenon DEF TitlesFrom
  <2>4. \A i \in (opened + 1)..Len(appended) : Start(i) >= taken
    BY Zenon DEF PlayInv, TitlesInOrder
  <2>5. opened = 0 => 0 \in 0..opened
    BY DEF PlayInv, ServerTyped
  <2>6. 0 \in 0..0
    OBVIOUS
  <2>. QED  BY <1>1, <2>1, <2>2, <2>3, <2>4, <2>5, <2>6, Zenon DEF TitlesInOrder
<1>. QED  BY <1>4, <1>5, <1>7, <1>10, <1>11, <1>12, <1>13, <1>14 DEF PlayInv

-----------------------------------------------------------------------------
(***************************************************************************)
(* Playing: a chunk.                                                       *)
(***************************************************************************)

\* What a call of advance() does: the next units of the playlist are read, and
\* n entries announced.
Answers(k, answer, units, n) ==
    /\ loop[k] = "fetching" /\ reply[k] = NoReply
    /\ reply' = [reply EXCEPT ![k] = answer]
    /\ taken' = taken + units /\ opened' = opened + n
    /\ UNCHANGED <<appended, plays, loop, buffer_ts, source, buffered, current, metadata, shown>>

\* The stream has ended.
AnswersEnd(answer) ==
    /\ answer.no = -1 /\ answer.units = 0
    /\ sent' = sent /\ chunks' = chunks

\* It sends what it has read.
AnswersChunk(answer, units) ==
    /\ answer.no = chunks + 1 /\ answer.units = units
    /\ sent' = sent + units /\ chunks' = chunks + 1

\* The two answers the server can give.
LEMMA ServerAdvanceEffect ==
    ASSUME NEW k \in Loops, ServerAdvance(k)
    PROVE  \E no, got :
               LET units  == IF RunsDry THEN remaining ELSE ChunkUnits
                   n      == Cardinality(Entries)
                   answer == [no |-> no, units |-> got,
                              meta |-> [i \in 1..n |-> Announcement(opened + i)]]
               IN  /\ Answers(k, answer, units, n)
                   /\ AnswersEnd(answer) \/ AnswersChunk(answer, units)
<1>. DEFINE units  == IF RunsDry THEN remaining ELSE ChunkUnits
            n      == Cardinality(Entries)
            titles == [i \in 1..n |-> Announcement(opened + i)]
            no     == IF ended THEN -1 ELSE chunks + 1
            got    == IF ended THEN 0 ELSE units
            answer == [no |-> no, units |-> got, meta |-> titles]
<1>1. Answers(k, answer, units, n)
  BY Zenon DEF ServerAdvance, Answers, audio_vars, info_vars
<1>2. answer.no = no /\ answer.units = got
  OBVIOUS
<1>3. ASSUME ended PROVE AnswersEnd(answer)
  <2>1. sent' = sent /\ chunks' = chunks
    BY <1>3, Zenon DEF ServerAdvance
  <2>2. no = -1 /\ got = 0
    BY <1>3, Zenon
  <2>. HIDE DEF answer, no, got
  <2>. QED  BY <1>2, <2>1, <2>2, Zenon DEF AnswersEnd
<1>4. ASSUME ~ended PROVE AnswersChunk(answer, units)
  <2>1. sent' = sent + units /\ chunks' = chunks + 1
    BY <1>4, Zenon DEF ServerAdvance
  <2>2. no = chunks + 1 /\ got = units
    BY <1>4, Zenon
  <2>. HIDE DEF answer, no, got, units
  <2>. QED  BY <1>2, <2>1, <2>2, Zenon DEF AnswersChunk
<1>5. AnswersEnd(answer) \/ AnswersChunk(answer, units)
  BY <1>3, <1>4, Zenon
<1>. QED  BY <1>1, <1>5

\* An answer keeps it.
LEMMA AnswersStep ==
    ASSUME PlayInv, NEW k \in Loops, NEW units, NEW n, NEW no, NEW got, NEW answer,
           units = IF RunsDry THEN remaining ELSE ChunkUnits, n = Cardinality(Entries),
           answer = [no |-> no, units |-> got,
                     meta |-> [i \in 1..n |-> Announcement(opened + i)]],
           Answers(k, answer, units, n),
           AnswersEnd(answer) \/ AnswersChunk(answer, units)
    PROVE  PlayInv'
<1>1. /\ appended' = appended /\ plays' = plays /\ buffer_ts' = buffer_ts /\ loop' = loop
      /\ source' = source /\ buffered' = buffered /\ current' = current
      /\ metadata' = metadata /\ shown' = shown
  BY Zenon DEF Answers
<1>2. taken' = taken + units /\ opened' = opened + n
  BY Zenon DEF Answers
<1>3. /\ reply \in [Loops -> ReplyRecord] /\ reply[k] = NoReply /\ loop[k] = "fetching"
  BY Zenon DEF PlayInv, LoopTypes, ReplyRecord, Answers
<1>4. /\ taken \in Nat /\ sent \in Nat /\ sent <= taken /\ remaining \in Nat /\ chunks \in Nat
      /\ opened \in Nat /\ opened <= Len(appended) /\ Len(appended) \in Nat
      /\ buffered \in Nat /\ ChunkUnits \in Nat \ {0}
  BY StartType, Sizes DEF PlayInv, ServerTyped, AudioTypes
<1>5. units \in 0..ChunkUnits /\ units <= remaining /\ units \in Nat
  BY <1>4 DEF RunsDry
<1>6. /\ n \in 0..(Len(appended) - opened)
      /\ \A i \in (opened + n + 1)..Len(appended) : Start(i) >= taken + ChunkUnits
  BY EntriesAreNext DEF PlayInv
<1>7. n \in Nat /\ opened + n <= Len(appended) /\ opened' \in 0..Len(appended)
      /\ opened' \in Nat
  BY <1>2, <1>4, <1>6
<1>. DEFINE titles == [i \in 1..n |-> Announcement(opened + i)]
<1>8. titles \in Seq(Title) /\ Len(titles) = n
  <2>1. ASSUME NEW i \in 1..n PROVE Announcement(opened + i) \in Title
    <3>1. opened + i \in 1..Len(appended) /\ opened + i \in 1..(Len(appended) + 1)
      BY <1>4, <1>7
    <3>2. Start(opened + i) \in Nat
      BY <3>1, StartType DEF PlayInv
    <3>3. appended[opened + i] \in 1..Len(Lines)
      BY <3>1 DEF PlayInv, ServerTyped
    <3>. QED  BY <3>2, <3>3 DEF Announcement, Title
  <2>. QED  BY <1>7, <2>1, IsASeq
<1>9. \A i \in 1..n : titles[i] = Announcement(opened + i)
  OBVIOUS
<1>. HIDE DEF titles
<1>10. /\ answer.no = no /\ answer.units = got /\ answer.meta = titles
       /\ \/ no = -1 /\ got = 0 /\ sent' = sent /\ chunks' = chunks
          \/ no = chunks + 1 /\ got = units /\ sent' = sent + units /\ chunks' = chunks + 1
  <2>1. answer.no = no /\ answer.units = got /\ answer.meta = titles
    BY DEF titles
  <2>. QED  BY <2>1, Zenon DEF AnswersEnd, AnswersChunk
<1>11. answer \in ReplyRecord /\ reply' = [reply EXCEPT ![k] = answer]
  <2>1. no \in Int /\ got \in 0..ChunkUnits
    BY <1>4, <1>5, <1>10
  <2>2. answer = [no |-> no, units |-> got, meta |-> titles]
    BY DEF titles
  <2>3. answer \in ReplyRecord
    BY <1>8, <2>1, <2>2, SMTT(30) DEF ReplyRecord
  <2>. QED  BY <2>3, Zenon DEF Answers
<1>12. \A j \in Loops : reply'[j] = (IF j = k THEN answer ELSE reply[j])
  BY <1>3, <1>11
<1>13. LoopTypes'
  <2>1. reply' \in [Loops -> ReplyRecord]
    BY <1>3, <1>11
  <2>. QED  BY <1>1, <2>1, Zenon DEF PlayInv, LoopTypes, ReplyRecord
<1>14. ServerTyped'
  <2>. DEFINE total == Units(appended)[Len(appended)]
  <2>1. remaining = total - taken /\ remaining' = total - taken'
    BY <1>1 DEF remaining
  <2>2. total \in Nat
    <3>1. Len(appended) \in 0..Len(appended)
      BY <1>4
    <3>. QED  BY <3>1, UnitsType DEF PlayInv, ServerTyped
  <2>. HIDE DEF total
  <2>3. total - (taken + units) \in Nat /\ taken + units \in Nat
    BY <1>4, <1>5, <2>1, <2>2
  <2>4. remaining' \in Nat /\ taken' \in Nat
    BY <1>2, <2>1, <2>3
  <2>5. sent' \in 0..taken' /\ chunks' \in Nat
    BY <1>2, <1>4, <1>5, <1>10
  <2>. QED  BY <1>1, <1>7, <2>4, <2>5, Zenon DEF PlayInv, ServerTyped
<1>15. AudioTypes' /\ InfoTypes' /\ BufferFits'
  BY <1>1, Zenon DEF PlayInv, AudioTypes, InfoTypes, BufferFits
<1>16. RepliesAwaited'
  <2>1. RepliesAwaited
    BY DEF PlayInv
  <2>. SUFFICES ASSUME NEW j \in Loops
                PROVE  /\ j > plays' => loop'[j] = "off" /\ buffer_ts'[j] = 0
                       /\ loop'[j] # "fetching" => reply'[j] = NoReply
                       /\ reply'[j].no = -1 => reply'[j].units = 0
                       /\ reply'[j].no \in -1..chunks'
                       /\ reply'[j].no = 0 => reply'[j] = NoReply
    BY Zenon DEF RepliesAwaited
  <2>2. CASE j = k
    <3>1. no \in -1..chunks' /\ no # 0 /\ (no = -1 => got = 0)
      BY <1>4, <1>10
    <3>2. reply'[j].no = no /\ reply'[j].units = got
      BY <1>10, <1>12, <2>2
    <3>. QED  BY <1>1, <1>3, <2>1, <2>2, <3>1, <3>2 DEF RepliesAwaited
  <2>3. CASE j # k
    <3>1. reply'[j] = reply[j]
      BY <1>12, <2>3
    <3>2. reply[j].no \in -1..chunks => reply[j].no \in -1..chunks'
      BY <1>4, <1>10
    <3>. QED  BY <1>1, <2>1, <3>1, <3>2, Zenon DEF RepliesAwaited
  <2>. QED  BY <2>2, <2>3
<1>17. SourceRises'
  <2>1. plays > 0 => plays \in Loops
    BY DEF PlayInv, LoopTypes, Loops
  <2>2. SourceRises
    BY DEF PlayInv
  <2>3. ASSUME NEW i \in 1..Len(source)
        PROVE  /\ source[i] \in 1..chunks'
               /\ plays > 0 /\ reply'[plays].no > 0 => source[i] < reply'[plays].no
    <3>1. source[i] \in 1..chunks
      BY <2>2 DEF SourceRises
    <3>2. source[i] \in 1..chunks' /\ (no > 0 => source[i] < no)
      BY <1>4, <1>10, <3>1
    <3>3. CASE plays = k
      <4>1. reply'[plays].no = no
        BY <1>10, <1>12, <3>3
      <4>. QED  BY <3>2, <4>1
    <3>4. CASE plays # k
      <4>1. plays > 0 => reply'[plays] = reply[plays]
        BY <1>12, <2>1, <3>4
      <4>. QED  BY <2>2, <3>2, <4>1 DEF SourceRises
    <3>. QED  BY <3>3, <3>4
  <2>. QED  BY <1>1, <2>2, <2>3, Zenon DEF SourceRises
<1>18. plays # 0 /\ (plays <= 1 => k = 1)
  <2>1. k <= plays /\ plays > 0
    BY <1>3, LoopFetches
  <2>2. plays \in Nat /\ k \in Nat /\ k > 0
    BY DEF PlayInv, LoopTypes, Loops
  <2>. QED  BY <2>1, <2>2
<1>19. SourceComplete'
  <2>1. ASSUME plays <= 1
        PROVE  ReplyCompletes(reply[1])' /\ buffered <= sent'
    <3>1. k = 1 /\ reply'[1] = answer /\ reply[1] = NoReply /\ loop[1] # "failed"
      BY <1>3, <1>12, <1>18, <2>1
    <3>2. ReplyCompletes(reply[1])
      BY <2>1, <3>1, Zenon DEF PlayInv, SourceComplete
    <3>3. buffered = sent /\ Len(source) = chunks
      BY <1>4, <3>1, <3>2, NoReplyType DEF ReplyCompletes
    <3>4. /\ buffered + got = sent' /\ buffered <= sent'
          /\ no > 0 => no = chunks'
          /\ Len(source) = IF no > 0 THEN chunks' - 1 ELSE chunks'
      BY <1>4, <1>5, <1>10, <3>3
    <3>. QED  BY <1>1, <1>10, <3>1, <3>4, Zenon DEF ReplyCompletes
  <2>2. plays <= 1 => \A i \in 1..Len(source) : source[i] = i
    BY Zenon DEF PlayInv, SourceComplete
  <2>. QED  BY <1>1, <1>18, <2>1, <2>2, Zenon DEF SourceComplete
<1>20. TitlesInOrder'
  <2>1. \A i : Start(i)' = Start(i) /\ Announcement(i)' = Announcement(i)
    BY <1>1, Zenon DEF Start, Announcement
  <2>2. ASSUME NEW i \in (opened' + 1)..Len(appended) PROVE Start(i) >= taken'
    <3>1. i \in (opened + n + 1)..Len(appended) /\ i \in 1..(Len(appended) + 1)
      BY <1>2, <1>4, <1>7
    <3>2. Start(i) >= taken + ChunkUnits /\ Start(i) \in Nat
      BY <1>6, <3>1, StartType DEF PlayInv
    <3>. QED  BY <1>2, <1>4, <1>5, <3>2
  <2>3. ASSUME plays <= 1, NEW q \in 0..opened, NEW s \in 0..q, TitlesFrom(s, q)
        PROVE  q \in 0..opened' /\ TitlesFrom(s, q)'
    <3>1. k = 1 /\ reply'[1] = answer /\ reply[1] = NoReply /\ loop[1] = "fetching"
      BY <1>3, <1>12, <1>18, <2>3
    <3>2. q = opened /\ opened' - q = n
      <4>1. Len(reply[1].meta) = opened - q
        BY <2>3, <3>1 DEF TitlesFrom
      <4>2. 0 = opened - q
        BY <3>1, <4>1, NoReplyType
      <4>. QED  BY <1>2, <1>4, <1>7, <4>2
    <3>3. Len(reply'[1].meta) = opened' - q
      BY <1>8, <1>10, <3>1, <3>2
    <3>4. ASSUME NEW i \in (q + 1)..opened' PROVE reply'[1].meta[i - q] = Announcement(i)
      <4>1. i - q \in 1..n /\ opened + (i - q) = i
        BY <1>2, <1>4, <1>7, <3>2
      <4>. QED  BY <1>9, <1>10, <3>1, <4>1
    <3>5. q \in 0..opened'
      BY <1>2, <1>4, <1>7, <3>2
    <3>6. loop[1] # "failed"
      BY <3>1
    <3>. QED  BY <1>1, <2>1, <2>3, <3>3, <3>4, <3>5, <3>6, Zenon DEF TitlesFrom
  <2>4. plays <= 1 => \E q \in 0..opened : \E s \in 0..q : TitlesFrom(s, q)
    BY Zenon DEF PlayInv, TitlesInOrder
  <2>. QED  BY <1>1, <2>1, <2>2, <2>3, <2>4, Zenon DEF TitlesInOrder
<1>. QED  BY <1>13, <1>14, <1>15, <1>16, <1>17, <1>19, <1>20 DEF PlayInv

\* The titles of an answer join those that wait.
QueuesTitles(k) ==
    /\ metadata' = metadata \o reply[k].meta
    /\ reply' = [reply EXCEPT ![k] = NoReply]
    /\ UNCHANGED <<appended, taken, opened, plays, current, shown>>

\* They stay in order: what is announced later begins after what is buffered.
LEMMA TitlesQueued ==
    ASSUME PlayInv, NEW k \in Loops, QueuesTitles(k), reply[k].no # 0, loop'[k] # "failed",
           buffered' \in Nat, plays <= 1 => buffered' <= sent
    PROVE  InfoTypes' /\ TitlesInOrder'
<1>1. /\ appended' = appended /\ taken' = taken /\ opened' = opened
      /\ plays' = plays /\ current' = current /\ shown' = shown
  BY Zenon DEF QueuesTitles
<1>. DEFINE got == reply[k]
<1>2. metadata' = metadata \o got.meta /\ reply' = [reply EXCEPT ![k] = NoReply]
  BY Zenon DEF QueuesTitles
<1>3. /\ got \in ReplyRecord /\ loop[k] = "fetching" /\ (plays <= 1 => k = 1)
      /\ got.meta \in Seq(Title) /\ reply'[k] = NoReply
  <2>1. got \in ReplyRecord /\ loop[k] = "fetching" /\ k <= plays
    BY LoopFetches
  <2>2. got.meta \in Seq(Title)
    <3>. HIDE DEF got
    <3>. QED  BY <2>1 DEF ReplyRecord
  <2>3. plays \in Nat /\ k \in Nat /\ k > 0
    BY DEF PlayInv, LoopTypes, Loops
  <2>4. reply \in [Loops -> ReplyRecord]
    BY Zenon DEF PlayInv, LoopTypes, ReplyRecord
  <2>. QED  BY <1>2, <2>1, <2>2, <2>3, <2>4
<1>. HIDE DEF got
<1>4. /\ opened \in Nat /\ Len(appended) \in Nat /\ taken \in Nat /\ sent \in Nat
      /\ sent <= taken
  BY StartType DEF PlayInv, ServerTyped
<1>5. /\ metadata \in Seq(Title) /\ metadata' \in Seq(Title)
      /\ Len(metadata') = Len(metadata) + Len(got.meta)
      /\ Len(metadata) \in Nat /\ Len(got.meta) \in Nat
      /\ \A i \in 1..Len(metadata) : metadata'[i] = metadata[i]
      /\ \A i \in 1..Len(got.meta) : metadata'[Len(metadata) + i] = got.meta[i]
  <2>1. metadata \in Seq(Title)
    BY DEF PlayInv, InfoTypes
  <2>2. /\ metadata' \in Seq(Title) /\ Len(metadata') = Len(metadata) + Len(got.meta)
        /\ \A i \in 1..(Len(metadata) + Len(got.meta)) :
               metadata'[i] = IF i <= Len(metadata) THEN metadata[i] ELSE got.meta[i - Len(metadata)]
    BY <1>2, <1>3, <2>1, ConcatProperties
  <2>3. Len(metadata) \in Nat /\ Len(got.meta) \in Nat
    BY <1>3, <2>1
  <2>4. ASSUME NEW i \in 1..Len(metadata) PROVE metadata'[i] = metadata[i]
    BY <2>2, <2>3
  <2>5. ASSUME NEW i \in 1..Len(got.meta) PROVE metadata'[Len(metadata) + i] = got.meta[i]
    <3>. DEFINE a == Len(metadata)
                b == Len(got.meta)
    <3>1. a \in Nat /\ b \in Nat /\ i \in 1..b
      BY <2>3
    <3>. HIDE DEF a, b
    <3>2. a + i \in 1..(a + b) /\ ~(a + i <= a) /\ (a + i) - a = i
      BY <3>1
    <3>. QED  BY <2>2, <3>2 DEF a, b
  <2>. QED  BY <2>1, <2>2, <2>3, <2>4, <2>5
<1>6. InfoTypes'
  BY <1>1, <1>5, Zenon DEF PlayInv, InfoTypes
<1>7. TitlesInOrder'
  <2>1. \A i : Start(i)' = Start(i) /\ Announcement(i)' = Announcement(i)
    BY <1>1, Zenon DEF Start, Announcement
  <2>2. ASSUME plays <= 1, NEW q \in 0..opened, NEW s \in 0..q, TitlesFrom(s, q)
        PROVE  opened \in 0..opened /\ s \in 0..opened /\ TitlesFrom(s, opened)'
    <3>1. k = 1 /\ reply[1] = got /\ loop[1] # "failed" /\ reply'[1] = NoReply
          /\ loop'[1] # "failed"
      BY <1>3, <2>2 DEF got
    <3>2. /\ Len(metadata) = q - s /\ Len(got.meta) = opened - q
          /\ \A i \in (s + 1)..q : metadata[i - s] = Announcement(i)
          /\ \A i \in (q + 1)..opened : got.meta[i - q] = Announcement(i)
      BY <2>2, <3>1 DEF TitlesFrom
    <3>3. q \in Nat /\ s \in Nat /\ q <= opened /\ s <= q
      BY <1>4
    <3>4. Len(metadata') = opened - s
      BY <1>4, <1>5, <3>2, <3>3
    <3>5. Len(reply'[1].meta) = opened - opened
      BY <1>4, <3>1, NoReplyType
    <3>6. ASSUME NEW i \in (s + 1)..opened PROVE metadata'[i - s] = Announcement(i)
      <4>1. CASE i <= q
        <5>1. i \in (s + 1)..q /\ i - s \in 1..Len(metadata)
          BY <1>4, <3>2, <3>3, <4>1
        <5>. QED  BY <1>5, <3>2, <5>1
      <4>2. CASE ~(i <= q)
        <5>1. i \in (q + 1)..opened /\ i - q \in 1..Len(got.meta)
              /\ Len(metadata) + (i - q) = i - s
          BY <1>4, <3>2, <3>3, <4>2
        <5>2. metadata'[Len(metadata) + (i - q)] = got.meta[i - q]
          BY <1>5, <5>1
        <5>. QED  BY <3>2, <5>1, <5>2
      <4>. QED  BY <4>1, <4>2
    <3>7. \A i \in (opened + 1)..opened : FALSE
      BY <1>4
    <3>8. ASSUME NEW i \in (opened + 1)..Len(appended) PROVE Start(i) >= buffered'
      <4>1. i \in 1..(Len(appended) + 1)
        BY <1>4
      <4>2. Start(i) \in Nat /\ Start(i) >= taken
        BY <4>1, StartType DEF PlayInv, TitlesInOrder
      <4>. QED  BY <1>4, <2>2, <4>2
    <3>9. opened \in 0..opened /\ s \in 0..opened
      BY <1>4, <3>3
    <3>. QED  BY <1>1, <2>1, <2>2, <3>1, <3>4, <3>5, <3>6, <3>7, <3>8, <3>9, Zenon DEF TitlesFrom
  <2>3. plays <= 1 => \E q \in 0..opened : \E s \in 0..q : TitlesFrom(s, q)
    BY Zenon DEF PlayInv, TitlesInOrder
  <2>4. \A i \in (opened + 1)..Len(appended) : Start(i) >= taken
    BY Zenon DEF PlayInv, TitlesInOrder
  <2>. QED  BY <1>1, <2>1, <2>2, <2>3, <2>4, Zenon DEF TitlesInOrder
<1>. QED  BY <1>6, <1>7

\* The handler takes what has arrived.
LEMMA HandleDataStep ==
    ASSUME PlayInv, NEW k \in Loops, HandleData(k)
    PROVE  PlayInv'
<1>1. /\ appended' = appended /\ taken' = taken /\ sent' = sent /\ opened' = opened
      /\ chunks' = chunks
      /\ plays' = plays /\ current' = current /\ shown' = shown
      /\ k = plays
  BY Zenon DEF HandleData, Appendable, server_vars
<1>. DEFINE got == reply[k]
<1>2. /\ got.no > 0
      /\ source' = Append(source, got.no)
      /\ buffered' = buffered + got.units
      /\ buffer_ts' = [buffer_ts EXCEPT ![k] = @ + ChunkUnits]
      /\ loop' = [loop EXCEPT ![k] = IF WantsMore(buffer_ts'[k]) THEN "fetching" ELSE "waiting"]
      /\ metadata' = metadata \o got.meta
      /\ reply' = [reply EXCEPT ![k] = NoReply]
  BY Zenon DEF HandleData, Queue
<1>3. /\ loop \in [Loops -> {"off", "fetching", "waiting", "stopped", "failed"}]
      /\ reply \in [Loops -> ReplyRecord] /\ buffer_ts \in [Loops -> Nat]
  BY Zenon DEF PlayInv, LoopTypes, ReplyRecord
<1>4. /\ got \in ReplyRecord /\ got.no \in 1..chunks /\ loop[k] = "fetching"
      /\ got.units \in 0..ChunkUnits /\ got.meta \in Seq(Title)
  <2>1. got \in ReplyRecord /\ got.no \in -1..chunks /\ (got.no # 0 => loop[k] = "fetching")
    BY LoopFetches
  <2>2. chunks \in Nat
    BY DEF PlayInv, ServerTyped
  <2>. HIDE DEF got
  <2>. QED  BY <1>2, <2>1, <2>2 DEF ReplyRecord
<1>5. /\ buffered \in Nat /\ current \in Nat /\ ChunkUnits \in Nat /\ chunks \in Nat
      /\ plays \in Nat /\ plays > 0 /\ BufferSize \in Nat /\ buffer_ts[k] \in Nat
      /\ sent \in Nat /\ opened \in Nat
  BY <1>1, <1>3, Sizes DEF PlayInv, AudioTypes, ServerTyped, LoopTypes, Loops
<1>6. \A j \in Loops :
          /\ loop'[j] = (IF j = k THEN IF WantsMore(buffer_ts'[k]) THEN "fetching" ELSE "waiting"
                         ELSE loop[j])
          /\ reply'[j] = (IF j = k THEN NoReply ELSE reply[j])
          /\ buffer_ts'[j] = (IF j = k THEN buffer_ts[k] + ChunkUnits ELSE buffer_ts[j])
  BY <1>2, <1>3
<1>. HIDE DEF got
<1>7. LoopTypes'
  <2>1. loop' \in [Loops -> {"off", "fetching", "waiting", "stopped", "failed"}]
    BY <1>2, <1>3
  <2>2. reply' \in [Loops -> ReplyRecord]
    BY <1>2, <1>3, NoReplyType
  <2>3. buffer_ts' \in [Loops -> Nat]
    BY <1>2, <1>3, <1>5
  <2>. QED  BY <1>1, <2>1, <2>2, <2>3, Zenon DEF PlayInv, LoopTypes, ReplyRecord
<1>8. ServerTyped'
  BY <1>1, Zenon DEF PlayInv, ServerTyped, remaining
<1>9. /\ source \in Seq(Nat) /\ source' \in Seq(Nat)
      /\ Len(source') = Len(source) + 1 /\ Len(source) \in Nat
      /\ \A i \in 1..Len(source) : source'[i] = source[i]
      /\ source'[Len(source) + 1] = got.no
  <2>1. source \in Seq(Nat) /\ got.no \in Nat
    BY <1>4 DEF PlayInv, AudioTypes
  <2>. QED  BY <1>2, <2>1, AppendProperties
<1>10. AudioTypes'
  <2>1. buffered' \in Nat /\ current \in 0..buffered'
    <3>1. current \in 0..buffered
      BY DEF PlayInv, AudioTypes
    <3>. QED  BY SMTT(30), <1>2, <1>4, <1>5, <3>1
  <2>. QED  BY <1>1, <1>9, <2>1 DEF AudioTypes
<1>11. plays <= 1 => buffered' <= sent
  <2>. SUFFICES ASSUME plays <= 1 PROVE buffered' <= sent
    OBVIOUS
  <2>1. k = 1 /\ reply[1] = got /\ loop[1] # "failed"
    BY <1>1, <1>4, <1>5 DEF got
  <2>2. ReplyCompletes(got)
    BY <2>1, Zenon DEF PlayInv, SourceComplete
  <2>. QED  BY <1>2, <1>5, <2>2 DEF ReplyCompletes
<1>12. InfoTypes' /\ TitlesInOrder'
  <2>1. reply[k].no # 0
    BY <1>2 DEF got
  <2>2. loop'[k] # "failed"
    BY <1>6
  <2>3. buffered' \in Nat
    BY <1>10 DEF AudioTypes
  <2>4. QueuesTitles(k)
    BY <1>1, <1>2, Zenon DEF QueuesTitles, got
  <2>. QED  BY <1>11, <2>1, <2>2, <2>3, <2>4, TitlesQueued
<1>13. RepliesAwaited'
  <2>1. RepliesAwaited
    BY DEF PlayInv
  <2>. SUFFICES ASSUME NEW j \in Loops
                PROVE  /\ j > plays' => loop'[j] = "off" /\ buffer_ts'[j] = 0
                       /\ loop'[j] # "fetching" => reply'[j] = NoReply
                       /\ reply'[j].no = -1 => reply'[j].units = 0
                       /\ reply'[j].no \in -1..chunks'
                       /\ reply'[j].no = 0 => reply'[j] = NoReply
    BY Zenon DEF RepliesAwaited
  <2>2. CASE j = k
    <3>1. reply'[j] = NoReply /\ ~(j > plays')
      BY <1>1, <1>5, <1>6, <2>2
    <3>2. 0 \in -1..chunks
      BY <1>5
    <3>. QED  BY <1>1, <3>1, <3>2, NoReplyType
  <2>3. CASE j # k
    <3>1. reply'[j] = reply[j] /\ loop'[j] = loop[j] /\ buffer_ts'[j] = buffer_ts[j]
      BY <1>6, <2>3
    <3>. QED  BY <1>1, <2>1, <3>1, Zenon DEF RepliesAwaited
  <2>. QED  BY <2>2, <2>3
<1>14. \A i \in 1..Len(source) : source[i] \in 1..chunks /\ source[i] < got.no
  <2>1. SourceRises
    BY DEF PlayInv
  <2>. QED  BY <1>1, <1>2, <1>5, <2>1 DEF SourceRises, got
<1>15. SourceRises'
  <2>1. SourceRises
    BY DEF PlayInv
  <2>2. ASSUME NEW i \in 2..Len(source') PROVE source'[i - 1] < source'[i]
    <3>1. i - 1 \in 1..Len(source)
      BY <1>9
    <3>2. CASE i = Len(source) + 1
      BY <1>9, <1>14, <3>1, <3>2
    <3>3. CASE i # Len(source) + 1
      <4>1. i \in 2..Len(source) /\ i \in 1..Len(source)
        BY <1>9, <3>3
      <4>. QED  BY <1>9, <2>1, <3>1, <4>1 DEF SourceRises
    <3>. QED  BY <3>2, <3>3
  <2>3. ASSUME NEW i \in 1..Len(source') PROVE source'[i] \in 1..chunks
    <3>1. CASE i = Len(source) + 1
      BY <1>4, <1>9, <3>1
    <3>2. CASE i # Len(source) + 1
      <4>1. i \in 1..Len(source)
        BY <1>9, <3>2
      <4>. QED  BY <1>9, <1>14, <4>1
    <3>. QED  BY <3>1, <3>2
  <2>4. ~(reply'[plays].no > 0)
    BY <1>1, <1>6, NoReplyType
  <2>. QED  BY <1>1, <2>2, <2>3, <2>4, Zenon DEF SourceRises
<1>16. BufferFits'
  <2>1. buffered <= buffer_ts[k] /\ buffer_ts[k] - current < BufferSize
    BY <1>1, <1>4, <1>5 DEF PlayInv, BufferFits
  <2>2. got.units \in Nat /\ got.units <= ChunkUnits
    BY <1>4, <1>5
  <2>. DEFINE units == got.units
              ts    == buffer_ts[k]
  <2>3. /\ buffered \in Nat /\ current \in Nat /\ units \in Nat /\ units <= ChunkUnits
        /\ buffered <= ts /\ ts - current < BufferSize /\ ts \in Nat
        /\ ChunkUnits \in Nat /\ BufferSize \in Nat
    BY <1>5, <2>1, <2>2
  <2>. HIDE DEF units, ts
  <2>4. /\ (buffered + units) - current < BufferSize + ChunkUnits
        /\ buffered + units <= ts + ChunkUnits
    BY <2>3
  <2>5. buffered' = buffered + units /\ buffer_ts'[k] = ts + ChunkUnits
    BY <1>2, <1>6 DEF units, ts
  <2>6. loop'[k] = "fetching" => buffer_ts'[k] - current < BufferSize
    BY <1>6 DEF WantsMore
  <2>. QED  BY <1>1, <2>4, <2>5, <2>6, Zenon DEF BufferFits
<1>17. plays <= 1 => k = 1
  BY <1>1, <1>5
<1>18. SourceComplete'
  <2>1. ASSUME plays <= 1
        PROVE  /\ ReplyCompletes(reply[1])'
               /\ \A i \in 1..Len(source') : source'[i] = i
               /\ buffered' <= sent'
    <3>1. k = 1 /\ reply[1] = got /\ loop[1] # "failed" /\ reply'[1] = NoReply
      BY <1>4, <1>6, <1>17, <2>1 DEF got
    <3>2. ReplyCompletes(got) /\ \A i \in 1..Len(source) : source[i] = i
      BY <2>1, <3>1, Zenon DEF PlayInv, SourceComplete
    <3>3. buffered + got.units = sent /\ got.no = chunks /\ Len(source) = chunks - 1
      BY <1>2, <3>2 DEF ReplyCompletes
    <3>4. buffered' = sent /\ sent + 0 = sent /\ sent <= sent
      BY <1>2, <1>5, <3>3
    <3>5. Len(source') = chunks /\ Len(source) + 1 = chunks
      BY <1>5, <1>9, <3>3
    <3>6. ReplyCompletes(reply[1])'
      BY <1>1, <3>1, <3>4, <3>5, NoReplyType DEF ReplyCompletes
    <3>7. ASSUME NEW i \in 1..Len(source') PROVE source'[i] = i
      <4>1. CASE i = Len(source) + 1
        BY <1>9, <3>3, <3>5, <4>1
      <4>2. CASE i # Len(source) + 1
        <5>1. i \in 1..Len(source)
          BY <1>9, <4>2
        <5>. QED  BY <1>9, <3>2, <5>1
      <4>. QED  BY <4>1, <4>2
    <3>. QED  BY <1>1, <3>4, <3>6, <3>7
  <2>2. plays # 0
    BY <1>5
  <2>. QED  BY <1>1, <2>1, <2>2, Zenon DEF SourceComplete
<1>. QED  BY <1>7, <1>8, <1>10, <1>12, <1>13, <1>15, <1>16, <1>18 DEF PlayInv

\* The last answer brings titles, but no audio.
LEMMA HandleEndStep ==
    ASSUME PlayInv, NEW k \in Loops, HandleEnd(k)
    PROVE  PlayInv'
<1>1. /\ appended' = appended /\ taken' = taken /\ sent' = sent /\ opened' = opened
      /\ chunks' = chunks /\ plays' = plays /\ buffer_ts' = buffer_ts
      /\ source' = source /\ buffered' = buffered /\ current' = current
      /\ shown' = shown
  BY Zenon DEF HandleEnd, server_vars, audio_vars
<1>2. /\ reply[k].no < 0
      /\ loop' = [loop EXCEPT ![k] = "stopped"]
      /\ reply' = [reply EXCEPT ![k] = NoReply]
      /\ metadata' = metadata \o reply[k].meta
  BY Zenon DEF HandleEnd, Queue
<1>3. /\ loop \in [Loops -> {"off", "fetching", "waiting", "stopped", "failed"}]
      /\ reply \in [Loops -> ReplyRecord]
  BY Zenon DEF PlayInv, LoopTypes, ReplyRecord
<1>4. \A j \in Loops : /\ loop'[j] = (IF j = k THEN "stopped" ELSE loop[j])
                       /\ reply'[j] = (IF j = k THEN NoReply ELSE reply[j])
  BY <1>2, <1>3
<1>5. /\ reply[k].no = -1 /\ reply[k].units = 0 /\ loop[k] = "fetching"
      /\ chunks \in Nat /\ plays > 0 /\ k <= plays
  <2>1. chunks \in Nat
    BY DEF PlayInv, ServerTyped
  <2>2. reply[k].no \in -1..chunks /\ (reply[k].no = -1 => reply[k].units = 0)
    BY DEF PlayInv, RepliesAwaited
  <2>3. reply[k].no = -1
    BY <1>2, <2>1, <2>2
  <2>. QED  BY <2>1, <2>2, <2>3, LoopFetches
<1>6. LoopTypes'
  <2>1. loop' \in [Loops -> {"off", "fetching", "waiting", "stopped", "failed"}]
    BY <1>2, <1>3
  <2>2. reply' \in [Loops -> ReplyRecord]
    BY <1>2, <1>3, NoReplyType
  <2>. QED  BY <1>1, <2>1, <2>2, Zenon DEF PlayInv, LoopTypes, ReplyRecord
<1>7. ServerTyped' /\ AudioTypes'
  BY <1>1, Zenon DEF PlayInv, ServerTyped, AudioTypes, remaining
<1>8. RepliesAwaited'
  <2>1. RepliesAwaited
    BY DEF PlayInv
  <2>. QED  BY <1>1, <1>4, <1>5, <2>1, NoReplyType DEF RepliesAwaited
<1>9. plays \in Loops
  BY <1>5 DEF PlayInv, LoopTypes, Loops
<1>10. SourceRises'
  <2>1. plays > 0 /\ reply'[plays].no > 0 => reply[plays].no > 0 /\ reply'[plays] = reply[plays]
    BY <1>4, <1>9, NoReplyType
  <2>2. SourceRises
    BY DEF PlayInv
  <2>. QED  BY <1>1, <2>1, <2>2 DEF SourceRises
<1>11. BufferFits'
  <2>1. loop'[plays] = "fetching" => loop[plays] = "fetching"
    BY <1>4, <1>9
  <2>2. BufferFits
    BY DEF PlayInv
  <2>. QED  BY <1>1, <2>1, <2>2 DEF BufferFits
<1>12. plays <= 1 => k = 1
  <2>1. plays \in Nat /\ k \in Nat /\ k > 0
    BY DEF PlayInv, LoopTypes, Loops
  <2>. QED  BY <1>5, <2>1
<1>13. SourceComplete'
  <2>1. ASSUME plays <= 1 PROVE ReplyCompletes(reply[1])'
    <3>1. k = 1 /\ loop[1] # "failed" /\ reply'[1] = NoReply
      BY <1>4, <1>5, <1>12, <2>1
    <3>2. ReplyCompletes(reply[1])
      BY <2>1, <3>1, Zenon DEF PlayInv, SourceComplete
    <3>. QED  BY <1>1, <1>5, <3>1, <3>2, NoReplyType DEF ReplyCompletes
  <2>2. plays # 0
    BY <1>5
  <2>. QED  BY <1>1, <2>1, <2>2, Zenon DEF PlayInv, SourceComplete
<1>14. InfoTypes' /\ TitlesInOrder'
  <2>1. QueuesTitles(k)
    BY <1>1, <1>2, Zenon DEF QueuesTitles
  <2>2. reply[k].no # 0 /\ loop'[k] # "failed"
    BY <1>4, <1>5
  <2>3. buffered' \in Nat /\ (plays <= 1 => buffered' <= sent)
    BY <1>1 DEF PlayInv, AudioTypes, SourceComplete
  <2>. QED  BY <2>1, <2>2, <2>3, TitlesQueued
<1>. QED  BY <1>6, <1>7, <1>8, <1>10, <1>11, <1>13, <1>14 DEF PlayInv

-----------------------------------------------------------------------------
(***************************************************************************)
(* Every step keeps the invariant.                                         *)
(***************************************************************************)

\* The invariant in parts that change together.
LEMMA IInvSplit ==
    IInv <=> AddInv /\ PlayInv /\ ServerTypes /\ EndSeen /\ updating \in BOOLEAN
<1>1. ServerTypes => ServerTyped
  BY DEF ServerTypes
<1>. QED  BY <1>1, TypesSplit, Zenon DEF IInv, AddInv, PlayInv

\* It holds for the page that has just been loaded.
LEMMA InitIInv == Init => IInv
<1>. SUFFICES ASSUME Init PROVE IInv
  OBVIOUS
<1>1. /\ posted = 0 /\ requests = {} /\ replies = {} /\ chains = 0
      /\ appended = <<>> /\ taken = 0 /\ sent = 0 /\ opened = 0 /\ chunks = 0 /\ ignored = {}
      /\ plays = 0 /\ source = <<>> /\ buffered = 0 /\ current = 0
      /\ metadata = <<>> /\ shown = 0 /\ faults = 0
  BY Zenon DEF Init
<1>2. /\ loop = [k \in Loops |-> "off"] /\ reply = [k \in Loops |-> NoReply]
      /\ buffer_ts = [k \in Loops |-> 0]
  BY Zenon DEF Init
<1>3. overlap = FALSE /\ ended = FALSE /\ updating = FALSE
  BY Zenon DEF Init
<1>4. /\ \A i \in 1..Len(appended) : FALSE
      /\ \A i \in 2..Len(appended) : FALSE
      /\ \A i \in 1..Len(source) : FALSE
      /\ \A i \in 2..Len(source) : FALSE
      /\ Len(appended) = 0 /\ Len(source) = 0 /\ Len(metadata) = 0
  BY <1>1
<1>5. AddInv
  <2>1. posted \in 0..Len(Lines) /\ chains \in 0..MaxChains /\ faults \in 0..MaxFaults
        /\ requests \subseteq 1..Len(Lines) /\ replies \subseteq 1..Len(Lines)
    BY <1>1, Sizes
  <2>2. AddTypes
    BY <1>3, <2>1, Zenon DEF AddTypes
  <2>3. Busy = {} /\ Cardinality({}) = 0
    BY <1>1, FS_EmptySet DEF Busy
  <2>4. ChainsMatch
    BY <1>1, <1>4, <2>3 DEF ChainsMatch
  <2>5. InOrder
    BY <1>1, <1>4, <2>3 DEF InOrder
  <2>. QED  BY <2>2, <2>4, <2>5 DEF AddInv, SingleChain
<1>6. ServerTyped
  <2>1. appended \in Seq(1..Len(Lines))
    BY <1>1
  <2>2. Units(appended)[0] = 0
    BY <2>1, UnitsStep
  <2>3. remaining = 0
    BY <1>1, <1>4, <2>2 DEF remaining
  <2>. QED  BY <1>1, <1>4, <2>1, <2>3 DEF ServerTyped
<1>7. \A k \in Loops : /\ loop[k] = "off" /\ reply[k] = NoReply /\ buffer_ts[k] = 0
  BY <1>2
<1>8. LoopTypes
  <2>1. loop \in [Loops -> {"off", "fetching", "waiting", "stopped", "failed"}]
        /\ buffer_ts \in [Loops -> Nat]
    BY <1>2
  <2>2. reply \in [Loops -> ReplyRecord]
    BY <1>2, NoReplyType
  <2>3. plays \in 0..MaxPlays
    BY <1>1, Sizes
  <2>. QED  BY <2>1, <2>2, <2>3, Zenon DEF LoopTypes, ReplyRecord
<1>9. AudioTypes /\ InfoTypes
  BY <1>1, Sizes DEF AudioTypes, InfoTypes
<1>10. RepliesAwaited
  BY <1>1, <1>7, NoReplyType DEF RepliesAwaited
<1>11. SourceRises
  BY <1>4 DEF SourceRises
<1>12. BufferFits
  BY <1>1 DEF BufferFits
<1>13. SourceComplete
  BY <1>1, <1>4, <1>7, NoReplyType, Sizes DEF SourceComplete, ReplyCompletes
<1>14. TitlesInOrder
  <2>1. reply[1] = NoReply
    BY <1>7, Sizes
  <2>2. /\ \A i \in (0 + 1)..0 : FALSE
        /\ \A i \in (0 + 1)..Len(appended) : FALSE
        /\ 0 - 0 = 0 /\ 0 \in 0..0 /\ ~(0 > 0)
    BY <1>4
  <2>3. TitlesFrom(0, 0)
    <3>1. Len(metadata) = 0 - 0 /\ Len(reply[1].meta) = 0 /\ opened - 0 = 0
      BY <1>1, <1>4, <2>1, NoReplyType
    <3>. QED  BY <1>1, <2>2, <3>1, Zenon DEF TitlesFrom
  <2>. QED  BY <1>1, <2>2, <2>3, Zenon DEF TitlesInOrder
<1>15. PlayInv
  BY <1>6, <1>8, <1>9, <1>10, <1>11, <1>12, <1>13, <1>14 DEF PlayInv
<1>16. ServerTypes
  <2>1. ignored \subseteq 1..Len(Lines) /\ ended \in BOOLEAN
    BY <1>1, <1>3, Zenon
  <2>. QED  BY <1>6, <2>1 DEF ServerTypes
<1>17. updating \in BOOLEAN
  BY <1>3, Zenon
<1>18. EndSeen
  <2>1. \A i \in 1..0 : FALSE
    OBVIOUS
  <2>. QED  BY <1>1, <2>1, Zenon DEF EndSeen
<1>. QED  BY <1>5, <1>15, <1>16, <1>17, <1>18, IInvSplit

\* The Boolean variables, and the lines that came too late.
LEMMA FlagsStep ==
    ASSUME ServerTypes, AddTypes, updating \in BOOLEAN, Next
    PROVE  ended' \in BOOLEAN /\ updating' \in BOOLEAN /\ ignored' \subseteq 1..Len(Lines)
<1>1. ended \in BOOLEAN /\ ignored \subseteq 1..Len(Lines) /\ requests \subseteq 1..Len(Lines)
  BY Zenon DEF ServerTypes, AddTypes
<1>2. RunsDry \in BOOLEAN
  BY DEF RunsDry
<1>3. ended' = ended \/ ended' = (ended \/ RunsDry)
  <2>1. ASSUME NEW k \in Loops, ServerAdvance(k) PROVE ended' = (ended \/ RunsDry)
    BY <2>1, Zenon DEF ServerAdvance
  <2>2. ASSUME NEW k \in Loops, Fetched(k) \/ AdvanceLost(k) \/ Timer(k) PROVE ended' = ended
    BY <2>2, Zenon DEF Fetched, AdvanceLost, Timer, HandleData, HandleThrows, HandleEnd, server_vars
  <2>3. ASSUME ClickAdd \/ AddLost \/ Adding \/ ClickPlay \/ UpdateEnd \/ Listen \/ UpdateInfo
        PROVE  ended' = ended
    BY <2>3, Zenon DEF ClickAdd, AddLost, Adding, ServerAppend, AddReply, ClickPlay, UpdateEnd, Listen,
       UpdateInfo, server_vars
  <2>. QED  BY <2>1, <2>2, <2>3, Zenon DEF Next
<1>4. updating' = updating \/ updating' = TRUE \/ updating' = FALSE
  <2>1. ASSUME NEW k \in Loops, ServerAdvance(k) \/ Fetched(k) \/ AdvanceLost(k) \/ Timer(k)
        PROVE  updating' = updating \/ updating' = TRUE
    BY <2>1, Zenon DEF ServerAdvance, Fetched, AdvanceLost, Timer, HandleData, HandleThrows, HandleEnd,
       audio_vars
  <2>2. ASSUME ClickAdd \/ AddLost \/ Adding \/ ClickPlay \/ UpdateEnd \/ Listen \/ UpdateInfo
        PROVE  updating' = updating \/ updating' = FALSE
    BY <2>2, Zenon DEF ClickAdd, AddLost, Adding, ServerAppend, AddReply, ClickPlay, UpdateEnd, Listen,
       UpdateInfo, audio_vars, play_vars
  <2>. QED  BY <2>1, <2>2, Zenon DEF Next
<1>5. ignored' = ignored \/ \E line \in requests : ignored' = ignored \cup {line}
  <2>1. ASSUME NEW k \in Loops, ServerAdvance(k) \/ Fetched(k) \/ AdvanceLost(k) \/ Timer(k)
        PROVE  ignored' = ignored
    BY <2>1, Zenon DEF ServerAdvance, Fetched, AdvanceLost, Timer, HandleData, HandleThrows, HandleEnd,
       server_vars
  <2>2. ASSUME ClickAdd \/ AddLost \/ AddReply \/ ClickPlay \/ UpdateEnd \/ Listen \/ UpdateInfo
        PROVE  ignored' = ignored
    BY <2>2, Zenon DEF ClickAdd, AddLost, AddReply, ClickPlay, UpdateEnd, Listen,
       UpdateInfo, server_vars
  <2>3. ASSUME ServerAppend
        PROVE  ignored' = ignored \/ \E line \in requests : ignored' = ignored \cup {line}
    BY <2>3, Zenon DEF ServerAppend
  <2>. QED  BY <2>1, <2>2, <2>3, Zenon DEF Next, Adding
<1>6. ended' \in BOOLEAN /\ updating' \in BOOLEAN
  BY <1>1, <1>2, <1>3, <1>4, Zenon
<1>7. ignored' \subseteq 1..Len(Lines)
  BY <1>1, <1>5, Zenon
<1>. QED  BY <1>6, <1>7

\* Until the end nothing is read that is not sent.
LEMMA EndSeenStep ==
    ASSUME PlayInv, ServerTypes, EndSeen, AddTypes, Next
    PROVE  EndSeen'
<1>1. /\ taken \in Nat /\ sent \in Nat /\ remaining \in Nat /\ Len(appended) \in Nat
      /\ opened \in Nat /\ opened <= Len(appended) /\ ended \in BOOLEAN
      /\ appended \in Seq(1..Len(Lines)) /\ ChunkUnits \in Nat
  BY StartType, Sizes DEF ServerTypes, ServerTyped
<1>2. ASSUME UNCHANGED <<appended, taken, sent, opened, ended>> PROVE EndSeen'
  <2>1. \A i : Start(i)' = Start(i)
    BY <1>2, Zenon DEF Start
  <2>. QED  BY <1>2, <2>1, Zenon DEF EndSeen
<1>3. CASE ServerAppend
  <2>1. PICK line \in requests : appended' = Append(appended, line)
    BY <1>3, Zenon DEF ServerAppend
  <2>2. line \in 1..Len(Lines)
    BY <2>1, Zenon DEF AddTypes
  <2>3. taken' = taken /\ sent' = sent /\ opened' = opened /\ ended' = ended
    BY <1>3, Zenon DEF ServerAppend
  <2>4. ASSUME NEW i \in 1..opened PROVE Start(i)' = Start(i)
    <3>1. i - 1 \in 0..Len(appended)
      BY <1>1
    <3>. QED  BY <1>1, <2>1, <2>2, <3>1, UnitsOfAppend DEF Start
  <2>. QED  BY <2>3, <2>4, Zenon DEF EndSeen
<1>4. ASSUME NEW k \in Loops, ServerAdvance(k) PROVE EndSeen'
  <2>. SUFFICES ASSUME ~ended' PROVE taken' = sent' /\ \A i \in 1..opened' : Start(i)' < sent'
    BY DEF EndSeen
  <2>1. ~ended /\ ~RunsDry
    BY <1>4, Zenon DEF ServerAdvance
  <2>2. /\ taken' = taken + ChunkUnits /\ sent' = sent + ChunkUnits
        /\ opened' = opened + Cardinality(Entries) /\ appended' = appended
    BY <1>4, <2>1, Zenon DEF ServerAdvance
  <2>3. taken = sent /\ \A i \in 1..opened : Start(i) < sent
    BY <2>1 DEF EndSeen
  <2>4. PICK n \in 0..(Len(appended) - opened) :
            /\ Cardinality(Entries) = n
            /\ \A i \in (opened + 1)..(opened + n) : Start(i) < taken + ChunkUnits
    BY EntriesAreNext DEF ServerTypes
  <2>5. ASSUME NEW i \in 1..opened' PROVE Start(i)' < sent'
    <3>1. Start(i)' = Start(i)
      BY <2>2 DEF Start
    <3>2. i \in 1..(Len(appended) + 1)
      BY <1>1, <2>2, <2>4
    <3>3. Start(i) \in Nat
      BY <3>2, StartType DEF ServerTypes
    <3>4. CASE i \in 1..opened
      BY <1>1, <2>2, <2>3, <3>1, <3>3, <3>4
    <3>5. CASE i \in (opened + 1)..(opened + n)
      BY <1>1, <2>2, <2>3, <2>4, <3>1, <3>5
    <3>. QED  BY <1>1, <2>2, <2>4, <3>4, <3>5
  <2>. QED  BY <2>2, <2>3, <2>5
<1>5. ASSUME NEW k \in Loops, Fetched(k) \/ AdvanceLost(k) \/ Timer(k) PROVE EndSeen'
  <2>1. UNCHANGED server_vars
    BY <1>5, Zenon DEF Fetched, AdvanceLost, Timer, HandleData, HandleThrows, HandleEnd
  <2>. QED  BY <1>2, <2>1, Zenon DEF server_vars
<1>6. ASSUME ClickAdd \/ AddLost \/ AddReply \/ ClickPlay \/ UpdateEnd \/ Listen \/ UpdateInfo
      PROVE  EndSeen'
  <2>1. UNCHANGED server_vars
    BY <1>6, Zenon DEF ClickAdd, AddLost, AddReply, ClickPlay, UpdateEnd, Listen, UpdateInfo
  <2>. QED  BY <1>2, <2>1, Zenon DEF server_vars
<1>. QED  BY <1>3, <1>4, <1>5, <1>6, Zenon DEF Next, Adding

\* What a step has to show.
LEMMA IInvSplitNext ==
    ASSUME AddInv', PlayInv', EndSeen', ended' \in BOOLEAN, updating' \in BOOLEAN,
           ignored' \subseteq 1..Len(Lines)
    PROVE  IInv'
<1>1. TypeOK'
  BY Zenon DEF TypeOK, AddInv, PlayInv, AddTypes, ServerTyped, LoopTypes, AudioTypes, InfoTypes
<1>. QED  BY <1>1, Zenon DEF IInv, AddInv, PlayInv

\* Every step keeps the part about adding.
LEMMA NextAdd ==
    ASSUME AddInv, ServerTypes, Next
    PROVE  AddInv'
<1>1. faults \in 0..MaxFaults /\ MaxFaults \in Nat
  BY Sizes DEF AddInv, AddTypes
<1>2. CASE ClickAdd \/ ServerAppend \/ AddReply \/ AddLost
  BY <1>2, ClickAddStep, ServerAppendStep, AddReplyStep, AddLostStep
<1>3. ASSUME UNCHANGED <<add_vars, appended>>, faults' = faults PROVE AddInv'
  BY <1>1, <1>3, AddStays
<1>4. ASSUME NEW k \in Loops, ServerAdvance(k) \/ Fetched(k) \/ Timer(k) PROVE AddInv'
  <2>1. UNCHANGED <<add_vars, appended>> /\ faults' = faults
    BY <1>4, Zenon DEF ServerAdvance, Fetched, Timer, HandleData, HandleThrows, HandleEnd, server_vars
  <2>. QED  BY <1>3, <2>1
<1>5. ASSUME NEW k \in Loops, AdvanceLost(k) PROVE AddInv'
  <2>1. UNCHANGED <<add_vars, appended>> /\ faults < MaxFaults /\ faults' = faults + 1
    BY <1>5, Zenon DEF AdvanceLost, server_vars
  <2>2. faults' \in 0..MaxFaults /\ (faults' = 0 => faults = 0)
    <3>1. faults < MaxFaults /\ faults' = faults + 1
      BY <2>1, Zenon
    <3>. QED  BY <1>1, <3>1
  <2>. QED  BY <2>1, <2>2, AddStays
<1>6. ASSUME ClickPlay \/ UpdateEnd \/ Listen \/ UpdateInfo PROVE AddInv'
  <2>1. UNCHANGED <<add_vars, appended>> /\ faults' = faults
    BY <1>6, Zenon DEF ClickPlay, UpdateEnd, Listen, UpdateInfo, server_vars
  <2>. QED  BY <1>3, <2>1
<1>. QED  BY <1>2, <1>4, <1>5, <1>6, Zenon DEF Next, Adding

\* Every step keeps the part about playing.
LEMMA NextPlay ==
    ASSUME PlayInv, AddTypes, Next
    PROVE  PlayInv'
<1>1. CASE ServerAppend
  <2>1. PICK line \in requests : appended' = Append(appended, line)
    BY <1>1, Zenon DEF ServerAppend
  <2>2. line \in 1..Len(Lines)
    BY <2>1, Zenon DEF AddTypes
  <2>3. UNCHANGED <<taken, sent, opened, chunks, play_vars>>
    BY <1>1, Zenon DEF ServerAppend
  <2>. QED  BY <2>1, <2>2, <2>3, AppendEntryStep
<1>2. ASSUME ClickAdd \/ AddLost \/ AddReply \/ UpdateEnd PROVE PlayInv'
  <2>1. UNCHANGED PlayState
    BY <1>2, Zenon DEF ClickAdd, AddLost, AddReply, UpdateEnd, PlayState, server_vars, play_vars,
       loop_vars, audio_vars, info_vars
  <2>. QED  BY <2>1, PlayStays
<1>3. ASSUME NEW k \in Loops, ServerAdvance(k) PROVE PlayInv'
  <2>1. PICK no, got :
            LET units  == IF RunsDry THEN remaining ELSE ChunkUnits
                n      == Cardinality(Entries)
                answer == [no |-> no, units |-> got,
                           meta |-> [i \in 1..n |-> Announcement(opened + i)]]
            IN  /\ Answers(k, answer, units, n)
                /\ AnswersEnd(answer) \/ AnswersChunk(answer, units)
    BY <1>3, ServerAdvanceEffect
  <2>. QED  BY <2>1, AnswersStep
<1>4. ASSUME NEW k \in Loops, Fetched(k) \/ AdvanceLost(k) \/ Timer(k) PROVE PlayInv'
  BY <1>4, HandleDataStep, HandleThrowsStep, HandleEndStep, AdvanceLostStep, TimerStep DEF Fetched
<1>5. CASE ClickPlay \/ Listen \/ UpdateInfo
  BY <1>5, ClickPlayStep, ListenStep, UpdateInfoStep
<1>. QED  BY <1>1, <1>2, <1>3, <1>4, <1>5, Zenon DEF Next, Adding

\* Every step keeps all of it.
LEMMA NextIInv == IInv /\ [Next]_vars => IInv'
<1>. SUFFICES ASSUME IInv, [Next]_vars PROVE IInv'
  OBVIOUS
<1>1. AddInv /\ PlayInv /\ ServerTypes /\ EndSeen /\ updating \in BOOLEAN
  BY IInvSplit
<1>2. AddTypes /\ faults \in 0..MaxFaults
  BY <1>1, Zenon DEF AddInv, AddTypes
<1>3. CASE UNCHANGED vars
  <2>1. UNCHANGED <<add_vars, appended>> /\ faults' = faults /\ UNCHANGED PlayState
    BY <1>3, Zenon DEF vars, server_vars, play_vars, PlayState, loop_vars, audio_vars, info_vars
  <2>2. AddInv' /\ PlayInv'
    BY <1>1, <1>2, <2>1, AddStays, PlayStays
  <2>3. ended' = ended /\ updating' = updating /\ ignored' = ignored
    BY <1>3, Zenon DEF vars, server_vars, play_vars, audio_vars
  <2>4. ended' \in BOOLEAN /\ updating' \in BOOLEAN /\ ignored' \subseteq 1..Len(Lines)
    BY <1>1, <2>3, Zenon DEF ServerTypes
  <2>5. EndSeen'
    BY <1>1, <2>1, <2>3, Zenon DEF EndSeen, Start, PlayState
  <2>. QED  BY <2>2, <2>4, <2>5, IInvSplitNext
<1>4. CASE Next
  BY <1>1, <1>2, <1>4, NextAdd, NextPlay, EndSeenStep, FlagsStep, IInvSplitNext
<1>. QED  BY <1>3, <1>4

\* The strengthened invariant holds, whoever clicks and whatever gets lost.
THEOREM PlayerInvariant == Spec => []IInv
<1>1. Init => IInv
  BY InitIInv
<1>2. IInv /\ [Next]_vars => IInv'
  BY NextIInv
<1>. QED  BY <1>1, <1>2, PTL DEF Spec

\* Every variable of the page keeps its type; the server never sends more than
\* the playlist holds, and the page never hears more than it has.
THEOREM PlayerTypeCorrect == Spec => []TypeOK
<1>1. IInv => TypeOK
  BY DEF IInv
<1>. QED  BY <1>1, PlayerInvariant, PTL

\* With one click at a time the playlist has the order of the text area, and
\* no line is missing unless a request got lost.
THEOREM PlaylistOrdered == Spec => []PlaylistInOrder
<1>1. IInv => PlaylistInOrder
  BY Zenon DEF IInv, SingleChain, InOrder, PlaylistInOrder
<1>. QED  BY <1>1, PlayerInvariant, PTL

\* The source buffer is given the chunks in order, and with one click on "Play"
\* none is missing.
THEOREM ChunksOrdered == Spec => []ChunksInOrder
<1>1. IInv => ChunksInOrder
  <2>1. plays = 1 => plays <= 1
    OBVIOUS
  <2>. QED  BY <2>1, Zenon DEF IInv, SourceRises, SourceComplete, ChunksInOrder
<1>. QED  BY <1>1, PlayerInvariant, PTL

\* The page never holds more than ten seconds and a chunk.
THEOREM BufferStaysBounded == Spec => []BufferBounded
<1>1. IInv => BufferBounded
  BY Zenon DEF IInv, BufferFits, BufferBounded
<1>. QED  BY <1>1, PlayerInvariant, PTL

\* With one click on "Play" the title displayed is that of the file being heard,
\* as soon as the page has shown what it has: every title is there before its
\* audio.  The title of a file that is not heard, for it was appended after the
\* end, comes only when all that the server has sent has been heard.
THEOREM TitleMatchesAudio == Spec => []TitleIsHeard
<1>1. IInv => TitleIsHeard
  <2>. SUFFICES ASSUME PlayInv, EndSeen, plays = 1 PROVE TitleIsHeard
    BY IInvSplit DEF TitleIsHeard
  <2>1. PICK q \in 0..opened : \E s \in 0..q : TitlesFrom(s, q)
    BY DEF PlayInv, TitlesInOrder
  <2>2. PICK s \in 0..q : TitlesFrom(s, q)
    BY <2>1
  <2>3. /\ opened \in Nat /\ opened <= Len(appended) /\ Len(appended) \in Nat
        /\ q \in Nat /\ s \in Nat /\ s <= q /\ q <= opened /\ buffered <= sent
        /\ buffered \in Nat /\ current \in Nat /\ sent \in Nat /\ remaining \in Nat
        /\ current <= buffered /\ sent <= taken /\ taken \in Nat
    BY StartType DEF PlayInv, ServerTyped, AudioTypes, SourceComplete
  <2>4. ASSUME s # 0
        PROVE  s \in 1..Len(appended) /\ s \in 1..opened /\ Shown(s) /\ Start(s) \in Nat
    <3>1. s \in 1..Len(appended) /\ s \in 1..opened /\ s \in 1..(Len(appended) + 1) /\ s > 0
      BY <2>3, <2>4
    <3>2. shown = appended[s] /\ Start(s) <= current
      BY <2>2, <2>4, <3>1, Zenon DEF TitlesFrom
    <3>. QED  BY <3>1, <3>2, StartType DEF PlayInv, Shown
  <2>5. ASSUME Playing, metadata # <<>> => current < Head(metadata).start
        PROVE  \E i \in 1..Len(appended) : Shown(i) /\ current < Start(i) + Lines[appended[i]]
    <3>1. current < Start(s + 1) /\ s + 1 \in 1..(Len(appended) + 1)
      <4>1. s + 1 \in 1..(Len(appended) + 1)
        BY <2>3
      <4>2. Start(s + 1) \in Nat
        BY <4>1, StartType DEF PlayInv
      <4>3. CASE s < q
        <5>1. metadata[1] = Announcement(s + 1) /\ Len(metadata) = q - s
          <6>1. s + 1 \in (s + 1)..q /\ (s + 1) - s = 1
            BY <2>3, <4>3
          <6>. QED  BY <2>2, <6>1 DEF TitlesFrom
        <5>2. metadata # <<>> /\ Head(metadata) = metadata[1]
          <6>1. q - s > 0
            BY <2>3, <4>3
          <6>. QED  BY <5>1, <6>1 DEF PlayInv, InfoTypes
        <5>. QED  BY <2>5, <4>1, <5>1, <5>2 DEF Announcement
      <4>4. CASE s = q /\ q < Len(appended)
        <5>1. s + 1 \in (q + 1)..Len(appended)
          BY <2>3, <4>4
        <5>2. Start(s + 1) >= buffered
          BY <2>2, <5>1 DEF TitlesFrom
        <5>. QED  BY <2>3, <2>5, <4>1, <4>2, <5>2 DEF Playing
      <4>5. CASE s = Len(appended)
        <5>1. Start(s + 1) = taken + remaining
          BY <4>5, StartType DEF PlayInv
        <5>. QED  BY <2>3, <2>5, <4>1, <4>2, <5>1 DEF Playing
      <4>. QED  BY <2>3, <4>3, <4>4, <4>5
    <3>2. s # 0
      <4>1. Start(1) = 0
        BY StartType DEF PlayInv
      <4>. QED  BY <2>3, <3>1, <4>1
    <3>3. Start(s + 1) = Start(s) + Lines[appended[s]]
      BY <2>4, <3>2, StartType DEF PlayInv
    <3>. QED  BY <2>4, <3>1, <3>2, <3>3
  <2>6. ASSUME shown # 0
        PROVE  \E i \in 1..Len(appended) :
                   /\ Shown(i)
                   /\ Start(i) >= sent => ended /\ current = buffered /\ buffered = sent
    <3>1. s # 0
      BY <2>2, <2>6, Zenon DEF TitlesFrom
    <3>2. ASSUME Start(s) >= sent PROVE ended /\ current = buffered /\ buffered = sent
      <4>1. Start(s) <= current /\ Start(s) \in Nat /\ s \in 1..opened
        BY <2>4, <3>1 DEF Shown
      <4>2. current = buffered /\ buffered = sent
        BY <2>3, <3>2, <4>1
      <4>3. ended
        <5>1. ~(Start(s) < sent)
          BY <2>3, <3>2, <4>1
        <5>. QED  BY <4>1, <5>1 DEF EndSeen
      <4>. QED  BY <4>2, <4>3
    <3>. QED  BY <2>4, <3>1, <3>2
  <2>. QED  BY <2>5, <2>6, Zenon DEF TitleIsHeard
<1>. QED  BY <1>1, PlayerInvariant, PTL
=============================================================================

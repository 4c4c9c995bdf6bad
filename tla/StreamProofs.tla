----------------------------- MODULE StreamProofs -----------------------------
(***************************************************************************)
(* Proofs about Stream, for files of any length in playlists of any        *)
(* length, any sizes of chunks and frames, and any number of failures.     *)
(***************************************************************************)
EXTENDS StreamPlayback, SequenceTheorems, FiniteSetTheorems, WellFoundedInduction, TLAPS

-----------------------------------------------------------------------------
(***************************************************************************)
(* Arithmetic and sequences.                                               *)
(***************************************************************************)

Elements(s) == {s[i] : i \in 1..Len(s)}

\* The elements of two sequences.
LEMMA ElementsOfConcat ==
    ASSUME NEW S, NEW s \in Seq(S), NEW t \in Seq(S)
    PROVE  Elements(s \o t) = Elements(s) \cup Elements(t)
<1>1. Elements(s \o t) \subseteq Elements(s) \cup Elements(t)
  BY ConcatProperties DEF Elements
<1>2. ASSUME NEW i \in 1..Len(s) PROVE s[i] \in Elements(s \o t)
  BY ConcatProperties DEF Elements
<1>3. ASSUME NEW i \in 1..Len(t) PROVE t[i] \in Elements(s \o t)
  <2>1. i + Len(s) \in 1..Len(s \o t) /\ (s \o t)[i + Len(s)] = t[i]
    BY ConcatProperties
  <2>. QED  BY <2>1 DEF Elements
<1>. QED  BY <1>1, <1>2, <1>3 DEF Elements

\* The elements of a sequence and one more.
LEMMA ElementsOfAppend ==
    ASSUME NEW S, NEW s \in Seq(S), NEW e \in S
    PROVE  Elements(Append(s, e)) = Elements(s) \cup {e}
<1>1. \A i \in 1..(Len(s) + 1) : Append(s, e)[i] = IF i = Len(s) + 1 THEN e ELSE s[i]
  BY AppendProperties
<1>2. Len(Append(s, e)) = Len(s) + 1 /\ Len(s) \in Nat
  BY AppendProperties
<1>. QED  BY <1>1, <1>2 DEF Elements

\* The elements are elements.
LEMMA ElementsType ==
    ASSUME NEW S, NEW s \in Seq(S)
    PROVE  Elements(s) \subseteq S
BY DEF Elements

\* The empty sequence has none.
LEMMA ElementsOfEmpty == Elements(<<>>) = {}
BY DEF Elements

\* The samples that fill whole frames leave less than a frame.
LEMMA InFramesBounds ==
    ASSUME NEW n \in Nat
    PROVE  InFrames(n) \in 0..n /\ n - InFrames(n) < FrameSamples
<1>1. \A f \in Nat \ {0} : /\ (n \div f) * f \in 0..n
                           /\ n - (n \div f) * f < f
  OBVIOUS
<1>. QED  BY <1>1, StreamAssumption DEF InFrames

\* One chunk more is still a whole number of chunks.
LEMMA ModulusStays ==
    ASSUME NEW m \in Nat, NEW c \in Nat \ {0}, m % c = 0
    PROVE  (m + c) % c = 0
<1>. DEFINE q == m \div c
<1>1. q \in Nat /\ m = q * c
  OBVIOUS
<1>. HIDE DEF q
<1>2. m + c = (q + 1) * c /\ q + 1 \in Nat
  BY <1>1
<1>3. \A k \in Nat : (k * c) % c = 0
  OBVIOUS
<1>. QED  BY <1>2, <1>3

\* Counting bytes of whole samples is counting samples.
LEMMA WholeSamples ==
    ASSUME NEW a \in Nat, NEW b \in Nat, NEW c \in Nat \ {0}
    PROVE  /\ a * c \in Nat
           /\ (a * c) \div c = a
           /\ a * c < b * c <=> a < b
           /\ a * c = b * c <=> a = b
           /\ a * c - b * c = (a - b) * c
           /\ a * c + b * c = (a + b) * c
OBVIOUS

-----------------------------------------------------------------------------
(***************************************************************************)
(* The inductive invariant.                                                *)
(***************************************************************************)

FrontOpen == m_decoders # <<>> /\ Head(m_decoders).open

\* The entries that have been opened: the files with an id up to this.
Reached == Len(appended) - Len(m_decoders) + (IF FrontOpen THEN 1 ELSE 0)

\* All the announcements, made and to be made.
Announcements == Elements(announced) \cup Elements(metadata)

\* What is on its way from the decoders to the listener.
Pending == os_buf_data \o held

\* The decoders that are left are those of the files appended last; only the
\* front one is open, and it is at the border of two samples.
EntryFits(i) ==
    /\ m_decoders[i].id = Len(appended) - Len(m_decoders) + i
    /\ i > 1 => ~m_decoders[i].open
    /\ ~m_decoders[i].open => m_decoders[i].read = 0
    /\ \E n \in 0..appended[m_decoders[i].id] : m_decoders[i].read = n * SampleBytes

PlaylistIsTheRest ==
    /\ Len(m_decoders) <= Len(appended)
    /\ \A i \in 1..Len(m_decoders) : EntryFits(i)

\* Until the end the two counters of samples agree; from then on the encoder
\* holds nothing.
CountersAgree ==
    /\ ~done => m_n_samples = fed
    /\ done => held = <<>> /\ os_buf_data = <<>>

\* Between the calls there are no local variables.  Inside of one, what is in
\* the encoder and what is still to be read make up a chunk.
CallProgress ==
    /\ pc = "idle" => /\ n_bytes = 0 /\ metadata = <<>> /\ os_buf_data = <<>>
                      /\ ~done /\ failures = 0 => m_n_samples % ChunkSamples = 0
    /\ pc = "loop" => \E left \in 0..ChunkSamples :
           /\ n_bytes = left * SampleBytes
           /\ ~done => /\ Len(Pending) + left \in ChunkSamples..MaxLoss
                       /\ failures = 0 => (m_n_samples + left) % ChunkSamples = 0

\* The announcements go up, and up to the entries that have been opened.
AnnouncementsRise ==
    /\ \A i, j \in 1..Len(announced) : i < j => announced[i].id < announced[j].id
    /\ \A i, j \in 1..Len(metadata) : i < j => metadata[i].id < metadata[j].id
    /\ \A a \in Elements(announced), b \in Elements(metadata) : a.id < b.id
    /\ \A a \in Announcements : a.id <= Reached

\* No sample is there before its entry is opened, and the first one of an entry
\* is where the entry is announced.
SamplesMatch ==
    /\ \A s \in Elements(delivered) \cup Elements(Pending) :
           /\ s.id <= Reached
           /\ \A a \in Announcements :
                  s.k = 1 /\ s.id = a.id => a.start = s.at
    /\ ~done /\ FrontOpen /\ Head(m_decoders).read = 0 =>
           \A a \in Announcements :
               a.id = Head(m_decoders).id => a.start = fed

\* Without a failure what is opened is announced, and so are its samples.
AllAnnounced ==
    failures = 0 =>
        /\ \A s \in Elements(delivered) :
               s.id # 0 => \E a \in Elements(announced) : a.id = s.id
        /\ \A s \in Elements(Pending) :
               \E a \in Announcements : a.id = s.id
        /\ FrontOpen => \E a \in Announcements :
                           a.id = Head(m_decoders).id

IInv ==
    /\ TypeOK
    /\ PlaylistIsTheRest
    /\ CountersAgree
    /\ CallProgress
    /\ AnnouncementsRise
    /\ SamplesMatch
    /\ AllAnnounced

-----------------------------------------------------------------------------
(***************************************************************************)
(* Every action keeps it.                                                  *)
(***************************************************************************)

\* It holds for the stream that has just been created.
LEMMA InitIInv == Init => IInv
<1>. SUFFICES ASSUME Init PROVE IInv
  OBVIOUS
<1>. USE DEF Init
<1>1. TypeOK
  <2>1. FrameSamples \in Nat /\ 0 < FrameSamples
    BY StreamAssumption
  <2>2. m_decoders \in Seq(EntryRecord) /\ metadata \in Seq(AnnouncementRecord)
        /\ announced \in Seq(AnnouncementRecord) /\ appended \in Seq(Lengths)
    OBVIOUS
  <2>3. /\ held \in Seq(SampleRecord) /\ os_buf_data \in Seq(SampleRecord)
        /\ delivered \in Seq(SampleRecord) /\ Len(held) = 0
    OBVIOUS
  <2>4. /\ m_n_samples \in Nat /\ fed \in Nat /\ n_bytes \in Nat /\ failures \in Nat
        /\ done \in BOOLEAN /\ pc \in {"idle", "loop"}
    OBVIOUS
  <2>. HIDE DEF Init
  <2>. QED  BY <2>1, <2>2, <2>3, <2>4 DEF TypeOK
<1>2. Pending = <<>> /\ ~FrontOpen /\ Announcements = {}
  BY ElementsOfEmpty DEF Pending, FrontOpen, Announcements
<1>3. PlaylistIsTheRest /\ CountersAgree /\ AnnouncementsRise
  BY <1>2, ElementsOfEmpty DEF PlaylistIsTheRest, CountersAgree, AnnouncementsRise
<1>4. CallProgress
  <2>1. 0 % ChunkSamples = 0
    BY StreamAssumption
  <2>. QED  BY <2>1 DEF CallProgress
<1>5. SamplesMatch /\ AllAnnounced
  BY <1>2, ElementsOfEmpty DEF SamplesMatch, AllAnnounced
<1>. QED  BY <1>1, <1>3, <1>4, <1>5 DEF IInv

\* The front of the playlist.
LEMMA FrontEntry ==
    ASSUME TypeOK, PlaylistIsTheRest, m_decoders # <<>>
    PROVE  /\ Len(m_decoders) \in Nat \ {0} /\ Len(appended) \in Nat
           /\ Head(m_decoders) = m_decoders[1] /\ m_decoders[1] \in EntryRecord
           /\ m_decoders[1].id = Len(appended) - Len(m_decoders) + 1
           /\ m_decoders[1].id \in 1..Len(appended)
           /\ appended[m_decoders[1].id] \in Nat
           /\ FrontOpen <=> m_decoders[1].open
           /\ FrontOpen => Reached = m_decoders[1].id
           /\ ~FrontOpen => Reached = m_decoders[1].id - 1
<1>1. m_decoders \in Seq(EntryRecord) /\ appended \in Seq(Lengths)
  BY DEF TypeOK
<1>2. /\ Len(m_decoders) \in Nat \ {0} /\ Len(appended) \in Nat
      /\ Head(m_decoders) = m_decoders[1] /\ m_decoders[1] \in EntryRecord
  BY <1>1
<1>3. /\ m_decoders[1].id = Len(appended) - Len(m_decoders) + 1
      /\ m_decoders[1].id \in 1..Len(appended)
  BY <1>2 DEF PlaylistIsTheRest, EntryFits
<1>4. appended[m_decoders[1].id] \in Nat
  <2>1. appended[m_decoders[1].id] \in Lengths
    BY <1>1, <1>3
  <2>. QED  BY <2>1, StreamAssumption
<1>. QED  BY <1>2, <1>3, <1>4 DEF FrontOpen, Reached

\* append() while no call is running.
LEMMA AppendFileStep ==
    ASSUME IInv, NEW length \in Lengths, AppendFile(length)
    PROVE  IInv'
<1>. DEFINE entry == [id |-> Len(appended) + 1, open |-> FALSE, read |-> 0]
<1>. USE DEF AppendFile, IInv, encoder, results
<1>0. /\ m_decoders \in Seq(EntryRecord) /\ appended \in Seq(Lengths)
      /\ Len(m_decoders) \in Nat /\ Len(appended) \in Nat /\ entry \in EntryRecord
  BY DEF TypeOK, EntryRecord
<1>1. /\ m_decoders' \in Seq(EntryRecord) /\ Len(m_decoders') = Len(m_decoders) + 1
      /\ \A i \in 1..Len(m_decoders) : m_decoders'[i] = m_decoders[i]
      /\ m_decoders'[Len(m_decoders) + 1] = entry
  BY <1>0, AppendProperties
<1>2. /\ appended' \in Seq(Lengths) /\ Len(appended') = Len(appended) + 1
      /\ \A i \in 1..Len(appended) : appended'[i] = appended[i]
      /\ appended'[Len(appended) + 1] = length
  BY <1>0, AppendProperties
<1>. HIDE DEF entry
<1>3. FrontOpen' = FrontOpen /\ Reached' = Reached /\ UNCHANGED <<Pending, Announcements>>
  <2>0. UNCHANGED <<Pending, Announcements>>
    BY DEF Pending, Announcements
  <2>1. CASE m_decoders = <<>>
    <3>1. m_decoders' # <<>> /\ Head(m_decoders') = entry
      BY <1>0, <1>1, <2>1
    <3>2. FrontOpen = FALSE /\ FrontOpen' = FALSE
      BY <3>1, <2>1 DEF FrontOpen, entry
    <3>3. Reached' = Reached
      BY <3>2, <2>1, <1>0, <1>1, <1>2 DEF Reached
    <3>. QED  BY <2>0, <3>2, <3>3
  <2>2. CASE m_decoders # <<>>
    <3>1. m_decoders' # <<>> /\ Head(m_decoders') = Head(m_decoders)
      BY SMTT(30), <1>0, <1>1, <2>2
    <3>2. FrontOpen' = FrontOpen
      BY <3>1, <2>2 DEF FrontOpen
    <3>3. Reached' = Reached
      <4>1. Len(appended') - Len(m_decoders') = Len(appended) - Len(m_decoders)
        BY <1>0, <1>1, <1>2
      <4>. QED  BY <3>2, <4>1 DEF Reached
    <3>. QED  BY <2>0, <3>2, <3>3
  <2>. QED  BY <2>0, <2>1, <2>2
<1>4. FrontOpen => Head(m_decoders') = Head(m_decoders)
  BY <1>0, <1>1 DEF FrontOpen
<1>a. TypeOK'
  BY <1>1, <1>2 DEF TypeOK
<1>b. PlaylistIsTheRest'
  <2>1. Len(m_decoders') <= Len(appended')
    BY <1>0, <1>1, <1>2 DEF PlaylistIsTheRest
  <2>2. ASSUME NEW i \in 1..Len(m_decoders) PROVE EntryFits(i)'
    <3>1. EntryFits(i) /\ i \in Int
      BY DEF PlaylistIsTheRest
    <3>2. m_decoders[i].id \in 1..Len(appended)
      BY <1>0, <3>1 DEF PlaylistIsTheRest, EntryFits
    <3>3. m_decoders'[i] = m_decoders[i] /\ appended'[m_decoders[i].id] = appended[m_decoders[i].id]
      BY <3>2, <1>1, <1>2
    <3>4. Len(appended') - Len(m_decoders') = Len(appended) - Len(m_decoders)
      BY <1>0, <1>1, <1>2
    <3>. QED  BY <3>1, <3>3, <3>4 DEF EntryFits
  <2>3. ASSUME NEW i \in Nat, i = Len(m_decoders) + 1 PROVE EntryFits(i)'
    <3>1. length \in Nat /\ 0 \in 0..length /\ 0 = 0 * SampleBytes
      BY StreamAssumption
    <3>2. m_decoders'[i] = entry /\ appended'[entry.id] = length
      BY <1>1, <1>2, <2>3 DEF entry
    <3>3. Len(appended') - Len(m_decoders') + i = entry.id
      BY <1>0, <1>1, <1>2, <2>3 DEF entry
    <3>4. entry.open = FALSE /\ entry.read = 0 /\ entry.id \in Int
      BY <1>0 DEF entry
    <3>. QED  BY <3>1, <3>2, <3>3, <3>4 DEF EntryFits
  <2>4. ASSUME NEW i \in 1..Len(m_decoders')
        PROVE  i \in 1..Len(m_decoders) \/ i = Len(m_decoders) + 1
    BY <1>0, <1>1
  <2>5. \A i \in 1..Len(m_decoders') : EntryFits(i)'
    BY <2>2, <2>3, <2>4, <1>0
  <2>. QED  BY <2>1, <2>5 DEF PlaylistIsTheRest
<1>c. CountersAgree' /\ CallProgress'
  BY DEF CountersAgree, CallProgress, TypeOK
<1>d. AnnouncementsRise' /\ SamplesMatch' /\ AllAnnounced'
  BY <1>3, <1>4 DEF AnnouncementsRise, SamplesMatch, AllAnnounced
<1>. QED  BY <1>a, <1>b, <1>c, <1>d

\* advance() is called.
LEMMA AdvanceBeginStep ==
    ASSUME IInv, AdvanceBegin
    PROVE  IInv'
<1>. USE DEF AdvanceBegin, IInv, encoder, results
<1>0. /\ ChunkSamples \in Nat \ {0} /\ SampleBytes \in Nat \ {0} /\ m_n_samples \in Nat
      /\ held \in Seq(SampleRecord) /\ Len(held) \in 0..(FrameSamples - 1) /\ FrameSamples \in Nat
  BY StreamAssumption DEF TypeOK
<1>1. UNCHANGED <<FrontOpen, Reached, Pending, Announcements>>
  BY DEF FrontOpen, Reached, Pending, Announcements
<1>a. TypeOK'
  BY <1>0 DEF TypeOK
<1>b. PlaylistIsTheRest' /\ CountersAgree'
  BY DEF PlaylistIsTheRest, EntryFits, CountersAgree
<1>c. CallProgress'
  <2>1. ~done => Len(Pending) \in 0..(FrameSamples - 1)
    BY <1>0 DEF CallProgress, Pending
  <2>2. ~done /\ failures = 0 => (m_n_samples + ChunkSamples) % ChunkSamples = 0
    BY <1>0, ModulusStays DEF CallProgress
  <2>3. ChunkSamples \in 0..ChunkSamples
    BY <1>0
  <2>. QED  BY <1>0, <1>1, <2>1, <2>2, <2>3 DEF CallProgress, MaxLoss
<1>d. AnnouncementsRise' /\ SamplesMatch' /\ AllAnnounced'
  BY <1>1 DEF AnnouncementsRise, SamplesMatch, AllAnnounced
<1>. QED  BY <1>a, <1>b, <1>c, <1>d

\* The front entry is opened.
LEMMA FrontOpens ==
    ASSUME TypeOK, PlaylistIsTheRest, m_decoders # <<>>, ~Head(m_decoders).open,
           m_decoders' = [m_decoders EXCEPT ![1].open = TRUE], appended' = appended
    PROVE  /\ m_decoders' \in Seq(EntryRecord) /\ m_decoders' # <<>>
           /\ PlaylistIsTheRest'
           /\ ~FrontOpen /\ FrontOpen'
           /\ Reached \in Nat /\ Reached' = Reached + 1
           /\ Head(m_decoders').id = Reached' /\ Head(m_decoders').read = 0
<1>0. m_decoders \in Seq(EntryRecord) /\ 1 \in 1..Len(m_decoders) /\ Len(m_decoders) \in Nat
  BY FrontEntry DEF TypeOK
<1>. DEFINE entry == [m_decoders[1] EXCEPT !.open = TRUE]
<1>1. /\ entry \in EntryRecord /\ entry.open = TRUE
      /\ entry.id = m_decoders[1].id /\ entry.read = m_decoders[1].read
  <2>1. m_decoders[1] \in EntryRecord
    BY <1>0
  <2>. QED  BY <2>1 DEF EntryRecord
<1>2. m_decoders' = [m_decoders EXCEPT ![1] = entry]
  BY <1>0
<1>. HIDE DEF entry
<1>3. /\ m_decoders' \in Seq(EntryRecord) /\ Len(m_decoders') = Len(m_decoders)
      /\ \A i \in 1..Len(m_decoders) : m_decoders'[i] = IF i = 1 THEN entry ELSE m_decoders[i]
  <2>1. m_decoders' = [m_decoders EXCEPT ![1] = entry] /\ m_decoders \in Seq(EntryRecord)
    BY <1>0, <1>2
  <2>2. /\ [m_decoders EXCEPT ![1] = entry] \in Seq(EntryRecord)
        /\ Len([m_decoders EXCEPT ![1] = entry]) = Len(m_decoders)
        /\ \A i \in 1..Len(m_decoders) :
               [m_decoders EXCEPT ![1] = entry][i] = IF i = 1 THEN entry ELSE m_decoders[i]
    BY <1>0, <1>1, ExceptSeq
  <2>. QED  BY <2>1, <2>2
<1>4. m_decoders' # <<>> /\ Head(m_decoders') = entry
  BY <1>0, <1>3
<1>5. FrontOpen' /\ ~FrontOpen
  BY <1>1, <1>4 DEF FrontOpen
<1>6. Reached = m_decoders[1].id - 1 /\ Reached \in Nat
  BY <1>5, FrontEntry
<1>7. Reached' = Reached + 1
  BY <1>0, <1>3, <1>5, FrontEntry DEF Reached
<1>8. entry.read = 0
  BY <1>0, <1>1, FrontEntry DEF PlaylistIsTheRest, EntryFits
<1>9. PlaylistIsTheRest'
  <2>1. ASSUME NEW i \in 1..Len(m_decoders) PROVE EntryFits(i)'
    <3>1. EntryFits(i)
      BY DEF PlaylistIsTheRest
    <3>2. CASE i = 1
      BY <1>1, <1>3, <3>1, <3>2 DEF EntryFits
    <3>3. CASE i # 1
      BY <1>3, <3>1, <3>3 DEF EntryFits
    <3>. QED  BY <3>2, <3>3
  <2>. QED  BY <1>3, <2>1 DEF PlaylistIsTheRest
<1>10. Head(m_decoders').id = Reached'
  <2>1. m_decoders[1].id \in Int
    BY FrontEntry
  <2>2. m_decoders[1].id = Reached'
    BY <1>6, <1>7, <2>1
  <2>3. Head(m_decoders').id = entry.id
    BY <1>4
  <2>. QED  BY <1>1, <2>2, <2>3
<1>. QED  BY <1>3, <1>4, <1>5, <1>6, <1>7, <1>8, <1>9, <1>10

\* A call that throws before the front entry is announced.
LEMMA ThrowStep ==
    ASSUME IInv, NEW kind, Throw(kind),
           UNCHANGED <<m_n_samples, encoder, appended, results>>,
           m_decoders' \in Seq(EntryRecord), PlaylistIsTheRest',
           ~FrontOpen, Reached \in Int, Reached' \in Int, Reached' >= Reached,
           FrontOpen' => Head(m_decoders').id > Reached
    PROVE  IInv'
<1>. USE DEF Throw, encoder, results
<1>0. /\ held \in Seq(SampleRecord) /\ os_buf_data \in Seq(SampleRecord)
      /\ metadata \in Seq(AnnouncementRecord) /\ announced \in Seq(AnnouncementRecord)
      /\ delivered \in Seq(SampleRecord) /\ failures \in Nat
  BY DEF IInv, TypeOK
<1>1. failures' \in Nat /\ failures' # 0
  BY <1>0
<1>2. Pending' = held
  BY <1>0 DEF Pending
<1>3. Elements(Pending') \subseteq Elements(Pending)
  <2>1. Elements(Pending) = Elements(os_buf_data) \cup Elements(held)
    BY <1>0, ElementsOfConcat DEF Pending
  <2>. QED  BY <1>2, <2>1
<1>4. Elements(metadata') = {} /\ Announcements' \subseteq Announcements
      /\ Announcements' = Elements(announced)
  BY ElementsOfEmpty DEF Announcements
<1>5. \A a \in Announcements : a.id \in Nat
  BY <1>0, ElementsType DEF Announcements, AnnouncementRecord
<1>6. \A s \in Elements(delivered) \cup Elements(Pending) : s.id \in Nat
  <2>1. Pending \in Seq(SampleRecord)
    BY <1>0, ConcatProperties DEF Pending
  <2>. QED  BY ZenonT(60), <1>0, <2>1, ElementsType DEF SampleRecord
<1>a. TypeOK'
  BY <1>1 DEF IInv, TypeOK
<1>b. CountersAgree'
  BY DEF IInv, CountersAgree
<1>c. CallProgress'
  BY <1>1 DEF CallProgress
<1>d. AnnouncementsRise'
  <2>1. ASSUME NEW a \in Announcements' PROVE a.id <= Reached'
    BY <1>4, <1>5 DEF IInv, AnnouncementsRise
  <2>2. \A i, j \in 1..Len(announced') : i < j => announced'[i].id < announced'[j].id
    BY DEF IInv, AnnouncementsRise
  <2>3. \A i, j \in 1..Len(metadata') : i < j => metadata'[i].id < metadata'[j].id
    OBVIOUS
  <2>. QED  BY <1>4, <2>1, <2>2, <2>3 DEF AnnouncementsRise
<1>e. SamplesMatch'
  <2>1. ASSUME NEW s \in Elements(delivered') \cup Elements(Pending')
        PROVE  /\ s.id <= Reached'
               /\ \A a \in Announcements' : s.k = 1 /\ s.id = a.id => a.start = s.at
    <3>1. s \in Elements(delivered) \cup Elements(Pending)
      BY <1>3
    <3>. QED  BY <3>1, <1>4, <1>6 DEF IInv, SamplesMatch
  <2>2. FrontOpen' => \A a \in Announcements' : a.id # Head(m_decoders').id
    <3>1. FrontOpen' => Head(m_decoders') \in EntryRecord
      BY HeadTailProperties DEF FrontOpen
    <3>2. FrontOpen' => Head(m_decoders').id \in Int
      BY <3>1 DEF EntryRecord
    <3>. QED  BY <3>2, <1>4, <1>5 DEF IInv, AnnouncementsRise
  <2>. QED  BY <2>1, <2>2 DEF SamplesMatch
<1>f. AllAnnounced'
  BY <1>1 DEF AllAnnounced
<1>. QED  BY <1>a, <1>b, <1>c, <1>d, <1>e, <1>f DEF IInv

\* The front entry is opened, announced or not.
LEMMA OpenDecoderStep ==
    ASSUME IInv, OpenDecoder
    PROVE  IInv'
<1>. USE DEF OpenDecoder, LoopGuard
<1>0. /\ TypeOK /\ PlaylistIsTheRest /\ m_decoders # <<>> /\ ~Head(m_decoders).open
      /\ pc = "loop" /\ appended' = appended
  BY DEF IInv
<1>1. CASE /\ m_decoders' = [m_decoders EXCEPT ![1].open = TRUE]
           /\ metadata' = Append(metadata, Announcement)
           /\ UNCHANGED <<pc, n_bytes, os_buf_data, failures>>
  <2>. USE DEF encoder, results
  <2>1. /\ m_decoders' \in Seq(EntryRecord) /\ m_decoders' # <<>>
        /\ PlaylistIsTheRest' /\ ~FrontOpen /\ FrontOpen'
        /\ Reached \in Nat /\ Reached' = Reached + 1
        /\ Head(m_decoders').id = Reached' /\ Head(m_decoders').read = 0
    BY <1>0, <1>1, FrontOpens
  <2>2. /\ Announcement \in AnnouncementRecord
        /\ Announcement.id = Reached' /\ Announcement.start = m_n_samples
    <3>1. Head(m_decoders).id \in Nat \ {0} /\ Head(m_decoders).id = Reached + 1
      BY <1>0, <2>1, FrontEntry DEF EntryRecord
    <3>2. m_n_samples \in Nat
      BY <1>0 DEF TypeOK
    <3>. QED  BY <2>1, <3>1, <3>2 DEF Announcement, AnnouncementRecord
  <2>3. /\ metadata \in Seq(AnnouncementRecord) /\ announced \in Seq(AnnouncementRecord)
        /\ delivered \in Seq(SampleRecord) /\ Pending \in Seq(SampleRecord)
    BY <1>0, ConcatProperties DEF TypeOK, Pending
  <2>4. /\ metadata' \in Seq(AnnouncementRecord) /\ Len(metadata') = Len(metadata) + 1
        /\ Len(metadata) \in Nat
        /\ \A i \in 1..Len(metadata) : metadata'[i] = metadata[i]
        /\ metadata'[Len(metadata) + 1] = Announcement
        /\ Elements(metadata') = Elements(metadata) \cup {Announcement}
    BY <1>1, <2>2, <2>3, AppendProperties, ElementsOfAppend
  <2>5. Announcements' = Announcements \cup {Announcement}
    BY <2>4 DEF Announcements
  <2>6. \A a \in Announcements : a.id \in Nat /\ a.id <= Reached
    <3>1. \A a \in Announcements : a \in AnnouncementRecord
      BY <2>3, ElementsType DEF Announcements
    <3>. QED  BY <3>1 DEF IInv, AnnouncementsRise, AnnouncementRecord
  <2>7. \A s \in Elements(delivered) \cup Elements(Pending) : s.id \in Nat /\ s.id <= Reached
    BY ZenonT(60), <2>3, ElementsType DEF IInv, SamplesMatch, SampleRecord
  <2>8. UNCHANGED <<Pending, delivered, announced, done, fed, failures>>
    BY <1>1 DEF Pending
  <2>a. TypeOK'
    BY <1>0, <1>1, <2>1, <2>4 DEF TypeOK
  <2>b. CountersAgree'
    BY <1>1 DEF IInv, CountersAgree
  <2>c. CallProgress'
    BY <1>0, <1>1, <2>8 DEF IInv, CallProgress
  <2>d. AnnouncementsRise'
    <3>1. ASSUME NEW i \in 1..Len(metadata'), NEW j \in 1..Len(metadata'), i < j
          PROVE  metadata'[i].id < metadata'[j].id
      <4>1. i \in 1..Len(metadata)
        BY <2>4, <3>1
      <4>2. CASE j \in 1..Len(metadata)
        BY <2>4, <3>1, <4>1, <4>2 DEF IInv, AnnouncementsRise
      <4>3. CASE j = Len(metadata) + 1
        <5>1. metadata[i] \in Announcements
          BY <4>1 DEF Announcements, Elements
        <5>. QED  BY <4>1, <4>3, <5>1, <2>1, <2>2, <2>4, <2>6
      <4>. QED  BY <2>4, <4>2, <4>3
    <3>2. \A a \in Elements(announced'), b \in Elements(metadata') : a.id < b.id
      <4>1. \A a \in Elements(announced) : a.id < Announcement.id
        BY <2>1, <2>2, <2>6 DEF Announcements
      <4>. QED  BY <4>1, <2>4, <2>8 DEF IInv, AnnouncementsRise
    <3>3. \A a \in Announcements' : a.id <= Reached'
      BY <2>1, <2>2, <2>5, <2>6
    <3>. QED  BY <3>1, <3>2, <3>3, <2>8 DEF IInv, AnnouncementsRise
  <2>e. SamplesMatch'
    <3>1. ASSUME NEW s \in Elements(delivered) \cup Elements(Pending)
          PROVE  /\ s.id <= Reached'
                 /\ \A a \in Announcements' : s.k = 1 /\ s.id = a.id => a.start = s.at
      <4>1. s.id # Announcement.id
        BY <2>1, <2>2, <2>7
      <4>. QED  BY <4>1, <2>1, <2>5, <2>7 DEF IInv, SamplesMatch
    <3>2. ASSUME ~done, NEW a \in Announcements', a.id = Head(m_decoders').id
          PROVE  a.start = fed
      <4>1. a = Announcement
        BY <2>1, <2>5, <2>6, <3>2
      <4>. QED  BY <2>2, <3>2, <4>1 DEF IInv, CountersAgree
    <3>. QED  BY <2>8, <3>1, <3>2 DEF SamplesMatch
  <2>f. AllAnnounced'
    <3>1. Announcement \in Announcements' /\ Announcements \subseteq Announcements'
      BY <2>5
    <3>. QED  BY <2>1, <2>2, <2>8, <3>1 DEF IInv, AllAnnounced
  <2>. QED  BY <2>1, <2>a, <2>b, <2>c, <2>d, <2>e, <2>f DEF IInv
<1>2. CASE Throw("decoder") /\ UNCHANGED m_decoders
  <2>1. ~FrontOpen /\ Reached \in Int /\ Reached' = Reached /\ ~FrontOpen'
    BY <1>0, <1>2, FrontEntry DEF FrontOpen, Reached
  <2>2. m_decoders' \in Seq(EntryRecord) /\ PlaylistIsTheRest'
    BY <1>0, <1>2 DEF TypeOK, PlaylistIsTheRest, EntryFits
  <2>. QED  BY <1>2, <2>1, <2>2, ThrowStep
<1>3. CASE Throw("probe") /\ m_decoders' = [m_decoders EXCEPT ![1].open = TRUE]
  <2>1. /\ m_decoders' \in Seq(EntryRecord)
        /\ PlaylistIsTheRest' /\ ~FrontOpen
        /\ Reached \in Nat /\ Reached' = Reached + 1
        /\ Head(m_decoders').id = Reached'
    BY <1>0, <1>3, FrontOpens
  <2>2. Reached' >= Reached /\ Head(m_decoders').id > Reached /\ Reached \in Int /\ Reached' \in Int
    BY <2>1
  <2>. QED  BY <1>3, <2>1, <2>2, ThrowStep
<1>. QED  BY <1>1, <1>2, <1>3

\* Samples that go into the encoder come out or are held, in order.
LEMMA FeedEncoderEffect ==
    ASSUME TypeOK, ~done, NEW samples \in Seq(SampleRecord), FeedEncoder(samples)
    PROVE  /\ held' \in Seq(SampleRecord) /\ os_buf_data' \in Seq(SampleRecord)
           /\ Len(held') < FrameSamples
           /\ Pending' = Pending \o samples
           /\ fed' = fed + Len(samples) /\ UNCHANGED done
<1>. DEFINE all  == held \o samples
            full == InFrames(Len(all))
            out  == SubSeq(all, 1, full)
            rest == SubSeq(all, full + 1, Len(all))
<1>1. /\ os_buf_data' = os_buf_data \o out /\ held' = rest
      /\ fed' = fed + Len(samples) /\ UNCHANGED done
  BY DEF FeedEncoder
<1>2. held \in Seq(SampleRecord) /\ os_buf_data \in Seq(SampleRecord)
  BY DEF TypeOK
<1>3. all \in Seq(SampleRecord) /\ Len(all) \in Nat
  BY <1>2, ConcatProperties
<1>4. full \in 0..Len(all) /\ Len(all) - full < FrameSamples
  BY <1>3, InFramesBounds
<1>. HIDE DEF full
<1>5. /\ out \in Seq(SampleRecord) /\ rest \in Seq(SampleRecord)
      /\ Len(rest) = Len(all) - full
  BY <1>3, <1>4, SubSeqProperties
<1>6. out \o rest = all
  <2>1. 1 \in 1..(Len(all) + 1) /\ full \in (1 - 1)..Len(all) /\ Len(all) \in full..Len(all)
    BY <1>3, <1>4
  <2>. HIDE DEF all
  <2>2. out \o rest = SubSeq(all, 1, Len(all))
    BY <1>3, <2>1, ConcatAdjacentSubSeq
  <2>. QED  BY <1>3, <2>2, SubSeqFull
<1>7. Pending' = Pending \o samples
  <2>1. Pending' = (os_buf_data \o out) \o rest
    BY <1>1 DEF Pending
  <2>. HIDE DEF out, rest
  <2>2. (os_buf_data \o out) \o rest = os_buf_data \o (out \o rest)
    <3>. HIDE DEF all
    <3>1. os_buf_data \in Seq(SampleRecord) /\ out \in Seq(SampleRecord) /\ rest \in Seq(SampleRecord)
      BY <1>2, <1>5 DEF out, rest
    <3>. QED  BY <3>1, ConcatAssociative
  <2>3. os_buf_data \o (held \o samples) = (os_buf_data \o held) \o samples
    BY <1>2, ConcatAssociative
  <2>. QED  BY <2>1, <2>2, <2>3, <1>6 DEF Pending
<1>8. os_buf_data' \in Seq(SampleRecord)
  BY <1>1, <1>2, <1>5, ConcatProperties
<1>9. Len(held') < FrameSamples
  BY <1>1, <1>4, <1>5
<1>. QED  BY <1>1, <1>5, <1>7, <1>8, <1>9

\* An iteration reads whole samples, n of them; an entry is left only when all
\* of its samples have been read, and stays only when some were.
LEMMA ReadEffect ==
    ASSUME IInv, ReadAndFeed
    PROVE  \E n, from, left \in Nat :
               /\ n <= left /\ n_bytes' = (left - n) * SampleBytes
               /\ left <= ChunkSamples
               /\ ~done => /\ Len(Pending) + left \in ChunkSamples..MaxLoss
                           /\ failures = 0 => (m_n_samples + left) % ChunkSamples = 0
               /\ Head(m_decoders).read = from * SampleBytes
               /\ from + n <= appended[Head(m_decoders).id]
               /\ FeedEncoder(Samples(Head(m_decoders).id, from, n))
               /\ m_n_samples' = m_n_samples + n
               /\ \/ /\ m_decoders' = Tail(m_decoders)
                     /\ from + n = appended[Head(m_decoders).id]
                  \/ /\ m_decoders' = [m_decoders EXCEPT ![1].read = (from + n) * SampleBytes]
                     /\ n > 0
<1>. USE DEF ReadAndFeed, LoopGuard
<1>. DEFINE entry == Head(m_decoders)
            len   == appended[entry.id]
            got   == BytesRead
<1>0. /\ TypeOK /\ PlaylistIsTheRest /\ CallProgress /\ m_decoders # <<>>
      /\ SampleBytes \in Nat \ {0} /\ ChunkSamples \in Nat
  BY StreamAssumption DEF IInv
<1>1. PICK left \in 0..ChunkSamples :
          /\ n_bytes = left * SampleBytes
          /\ ~done => /\ Len(Pending) + left \in ChunkSamples..MaxLoss
                      /\ failures = 0 => (m_n_samples + left) % ChunkSamples = 0
  BY <1>0 DEF CallProgress
<1>2. len \in Nat /\ \E m \in 0..len : entry.read = m * SampleBytes
  BY SMTT(30), <1>0, FrontEntry DEF PlaylistIsTheRest, EntryFits
<1>3. PICK from \in 0..len : entry.read = from * SampleBytes
  BY <1>2
<1>. DEFINE rest == len - from
            n    == IF rest < left THEN rest ELSE left
<1>4. rest \in Nat /\ left \in Nat /\ n \in Nat /\ from \in Nat /\ n <= left /\ from + n <= len
  BY <1>0, <1>1, <1>2, <1>3
<1>5. got = n * SampleBytes
  <2>1. len * SampleBytes - entry.read = rest * SampleBytes
    <3>1. from \in Nat /\ len \in Nat
      BY <1>2, <1>3
    <3>. HIDE DEF len
    <3>. QED  BY <1>0, <1>3, <3>1, WholeSamples
  <2>2. rest * SampleBytes < left * SampleBytes <=> rest < left
    BY <1>0, <1>4, WholeSamples
  <2>. QED  BY <1>1, <2>1, <2>2 DEF BytesRead
<1>6. entry.read \div SampleBytes = from /\ got \div SampleBytes = n
  <2>. HIDE DEF n, got
  <2>. QED  BY <1>0, <1>3, <1>4, <1>5, WholeSamples
<1>7. n_bytes - got = (left - n) * SampleBytes
  <2>. HIDE DEF n, got
  <2>. QED  BY <1>0, <1>1, <1>4, <1>5, WholeSamples
<1>8. IsShort(got) <=> n < left - n
  <2>. HIDE DEF n, got
  <2>1. left - n \in Nat
    BY <1>4
  <2>2. n * SampleBytes < (left - n) * SampleBytes <=> n < left - n
    BY <1>0, <1>4, <2>1, WholeSamples
  <2>. QED  BY <1>5, <1>7, <2>2 DEF IsShort
<1>9. left # 0
  BY <1>0, <1>1
<1>10. IsShort(got) => from + n = len
  <2>1. IsShort(got) => n = rest
    BY <1>4, <1>8
  <2>. QED  BY <2>1, <1>2, <1>4
<1>11. ~IsShort(got) => n > 0
  BY <1>4, <1>8, <1>9
<1>12. entry.read + got = (from + n) * SampleBytes
  <2>. HIDE DEF n, got
  <2>. QED  BY <1>0, <1>3, <1>4, <1>5, WholeSamples
<1>13. /\ n_bytes' = n_bytes - got
       /\ FeedEncoder(Samples(entry.id, entry.read \div SampleBytes, got \div SampleBytes))
       /\ m_n_samples' = m_n_samples + (got \div SampleBytes)
       /\ m_decoders' = IF IsShort(got)
                          THEN Tail(m_decoders)
                          ELSE [m_decoders EXCEPT ![1].read = @ + got]
  OBVIOUS
<1>14. [m_decoders EXCEPT ![1].read = @ + got]
           = [m_decoders EXCEPT ![1].read = (from + n) * SampleBytes]
  <2>1. m_decoders[1].read + got = (from + n) * SampleBytes
    BY <1>0, <1>12, FrontEntry
  <2>. HIDE DEF n, got
  <2>. QED  BY <2>1
<1>. HIDE DEF n, got, len
<1>15. \/ m_decoders' = Tail(m_decoders) /\ from + n = len
       \/ m_decoders' = [m_decoders EXCEPT ![1].read = (from + n) * SampleBytes] /\ n > 0
  BY <1>10, <1>11, <1>13, <1>14
<1>16. FeedEncoder(Samples(entry.id, from, n)) /\ m_n_samples' = m_n_samples + n
  BY <1>6, <1>13
<1>17. n_bytes' = (left - n) * SampleBytes
  BY <1>7, <1>13
<1>. QED
  <2>1. left <= ChunkSamples
    BY <1>1
  <2>. QED  BY <2>1, <1>1, <1>3, <1>4, <1>15, <1>16, <1>17 DEF len

\* The samples that a decoder gives.
LEMMA SamplesProperties ==
    ASSUME NEW id \in Nat, NEW from \in Nat, NEW n \in Nat, fed \in Nat
    PROVE  /\ Samples(id, from, n) \in Seq(SampleRecord)
           /\ Len(Samples(id, from, n)) = n
           /\ \A i \in 1..n : Samples(id, from, n)[i] = Sample(id, from + i, fed + i - 1)
           /\ \A s \in Elements(Samples(id, from, n)) :
                  s.id = id /\ (s.k = 1 => from = 0 /\ s.at = fed)
<1>1. \A i \in 1..n : Sample(id, from + i, fed + i - 1) \in SampleRecord
  BY DEF Sample, SampleRecord
<1>2. /\ Samples(id, from, n) \in Seq(SampleRecord)
      /\ Len(Samples(id, from, n)) = n
      /\ \A i \in 1..n : Samples(id, from, n)[i] = Sample(id, from + i, fed + i - 1)
  BY <1>1, IsASeq DEF Samples
<1>3. ASSUME NEW s \in Elements(Samples(id, from, n))
      PROVE  s.id = id /\ (s.k = 1 => from = 0 /\ s.at = fed)
  <2>1. PICK i \in 1..n : s = Sample(id, from + i, fed + i - 1)
    BY <1>2 DEF Elements
  <2>. QED  BY <2>1 DEF Sample
<1>. QED  BY <1>2, <1>3

\* The playlist after `given` samples of the front entry have been read.
LEMMA PlaylistAfterRead ==
    ASSUME TypeOK, PlaylistIsTheRest, FrontOpen, appended' = appended,
           NEW given \in Nat, given <= appended[Head(m_decoders).id],
           \/ m_decoders' = Tail(m_decoders)
           \/ m_decoders' = [m_decoders EXCEPT ![1].read = given * SampleBytes]
    PROVE  /\ m_decoders' \in Seq(EntryRecord)
           /\ PlaylistIsTheRest'
           /\ Reached' = Reached
           /\ FrontOpen' => /\ m_decoders' # <<>>
                            /\ Head(m_decoders').id = Head(m_decoders).id
                            /\ Head(m_decoders').read = given * SampleBytes
           /\ FrontOpen' <=> m_decoders' # Tail(m_decoders)
<1>0. /\ m_decoders # <<>> /\ m_decoders \in Seq(EntryRecord) /\ 1 \in 1..Len(m_decoders)
      /\ Len(m_decoders) \in Nat /\ Len(appended) \in Nat
      /\ Head(m_decoders) = m_decoders[1] /\ m_decoders[1].open
      /\ Reached = m_decoders[1].id /\ m_decoders[1].id = Len(appended) - Len(m_decoders) + 1
      /\ SampleBytes \in Nat
  <2>1. m_decoders # <<>> /\ m_decoders \in Seq(EntryRecord) /\ SampleBytes \in Nat
    BY StreamAssumption DEF FrontOpen, TypeOK
  <2>. QED  BY <2>1, FrontEntry
<1>1. CASE m_decoders' = Tail(m_decoders)
  <2>1. /\ m_decoders' \in Seq(EntryRecord) /\ Len(m_decoders') = Len(m_decoders) - 1
        /\ \A i \in 1..Len(m_decoders') : m_decoders'[i] = m_decoders[i + 1]
    BY <1>0, <1>1, HeadTailProperties
  <2>2. ASSUME NEW i \in 1..Len(m_decoders')
        PROVE  EntryFits(i)' /\ ~m_decoders'[i].open /\ m_decoders'[i].read = 0
    <3>1. i + 1 \in 1..Len(m_decoders) /\ i + 1 > 1
      BY <1>0, <2>1
    <3>2. EntryFits(i + 1)
      BY <3>1 DEF PlaylistIsTheRest
    <3>3. Len(appended) - Len(m_decoders) + (i + 1) = Len(appended') - Len(m_decoders') + i
      BY <1>0, <2>1
    <3>. QED  BY <2>1, <3>1, <3>2, <3>3 DEF EntryFits
  <2>3. PlaylistIsTheRest'
    BY <1>0, <2>1, <2>2 DEF PlaylistIsTheRest
  <2>4. m_decoders' # <<>> => ~Head(m_decoders').open /\ Head(m_decoders').read = 0
    BY <2>1, <2>2
  <2>5. FrontOpen' = FALSE
    BY <2>4 DEF FrontOpen
  <2>6. Reached' = Reached
    BY <1>0, <2>1, <2>5 DEF Reached
  <2>. QED  BY <1>1, <2>1, <2>3, <2>4, <2>5, <2>6
<1>2. CASE m_decoders' = [m_decoders EXCEPT ![1].read = given * SampleBytes]
  <2>. DEFINE entry == [m_decoders[1] EXCEPT !.read = given * SampleBytes]
  <2>0. given * SampleBytes \in Nat
    BY <1>0
  <2>1. /\ entry \in EntryRecord /\ entry.read = given * SampleBytes
        /\ entry.id = m_decoders[1].id /\ entry.open
    <3>1. m_decoders[1] \in EntryRecord
      BY <1>0
    <3>. QED  BY <1>0, <2>0, <3>1 DEF EntryRecord
  <2>2. m_decoders' = [m_decoders EXCEPT ![1] = entry]
    BY <1>2
  <2>. HIDE DEF entry
  <2>3. /\ [m_decoders EXCEPT ![1] = entry] \in Seq(EntryRecord)
        /\ Len([m_decoders EXCEPT ![1] = entry]) = Len(m_decoders)
        /\ \A i \in 1..Len(m_decoders) :
               [m_decoders EXCEPT ![1] = entry][i] = IF i = 1 THEN entry ELSE m_decoders[i]
    BY <1>0, <2>1, ExceptSeq
  <2>4. /\ m_decoders' \in Seq(EntryRecord) /\ Len(m_decoders') = Len(m_decoders)
        /\ \A i \in 1..Len(m_decoders) : m_decoders'[i] = IF i = 1 THEN entry ELSE m_decoders[i]
    BY <2>2, <2>3
  <2>5. m_decoders' # <<>> /\ Head(m_decoders') = entry
    BY <1>0, <2>4
  <2>6. ASSUME NEW i \in 1..Len(m_decoders) PROVE EntryFits(i)'
    <3>1. EntryFits(i)
      BY DEF PlaylistIsTheRest
    <3>2. CASE i = 1
      <4>1. \E n \in 0..appended[entry.id] : entry.read = n * SampleBytes
        BY <1>0, <2>1
      <4>. QED  BY <2>1, <2>4, <3>1, <3>2, <4>1 DEF EntryFits
    <3>3. CASE i # 1
      BY <2>4, <3>1, <3>3 DEF EntryFits
    <3>. QED  BY <3>2, <3>3
  <2>7. PlaylistIsTheRest'
    BY <2>4, <2>6 DEF PlaylistIsTheRest
  <2>8. FrontOpen' /\ FrontOpen
    BY <2>1, <2>5 DEF FrontOpen
  <2>9. Reached' = Reached
    BY <2>4, <2>8 DEF Reached
  <2>10. m_decoders' # Tail(m_decoders)
    BY <1>0, <2>4, HeadTailProperties
  <2>11. Head(m_decoders').id = Head(m_decoders).id /\ Head(m_decoders').read = given * SampleBytes
    BY <1>0, <2>1, <2>5
  <2>. QED  BY <2>4, <2>5, <2>7, <2>8, <2>9, <2>10, <2>11
<1>. QED  BY <1>1, <1>2

\* An iteration on an open decoder.
LEMMA ReadAndFeedStep ==
    ASSUME IInv, ReadAndFeed
    PROVE  IInv'
<1>0. /\ TypeOK /\ PlaylistIsTheRest /\ FrontOpen /\ pc = "loop"
      /\ UNCHANGED <<pc, metadata, appended, delivered, announced, failures>>
  BY DEF IInv, ReadAndFeed, LoopGuard, FrontOpen, results
<1>1. PICK n, from, left \in Nat :
          /\ n <= left /\ n_bytes' = (left - n) * SampleBytes
          /\ left <= ChunkSamples
          /\ ~done => /\ Len(Pending) + left \in ChunkSamples..MaxLoss
                      /\ failures = 0 => (m_n_samples + left) % ChunkSamples = 0
          /\ Head(m_decoders).read = from * SampleBytes
          /\ from + n <= appended[Head(m_decoders).id]
          /\ FeedEncoder(Samples(Head(m_decoders).id, from, n))
          /\ m_n_samples' = m_n_samples + n
          /\ \/ /\ m_decoders' = Tail(m_decoders)
                /\ from + n = appended[Head(m_decoders).id]
             \/ /\ m_decoders' = [m_decoders EXCEPT ![1].read = (from + n) * SampleBytes]
                /\ n > 0
  BY ReadEffect
<1>. DEFINE id == Head(m_decoders).id
            samples == Samples(id, from, n)
<1>2. id \in Nat \ {0} /\ Reached = id
  BY <1>0, FrontEntry DEF FrontOpen, EntryRecord
<1>3. /\ samples \in Seq(SampleRecord) /\ Len(samples) = n
      /\ \A s \in Elements(samples) : s.id = id /\ (s.k = 1 => from = 0 /\ s.at = fed)
  <2>1. id \in Nat /\ fed \in Nat
    BY <1>0, <1>2 DEF TypeOK
  <2>. HIDE DEF id
  <2>. QED  BY <2>1, SamplesProperties
<1>4. /\ m_decoders' \in Seq(EntryRecord)
      /\ PlaylistIsTheRest' /\ Reached' = Reached
      /\ FrontOpen' => Head(m_decoders').id = id /\ Head(m_decoders').read = (from + n) * SampleBytes
      /\ FrontOpen' <=> m_decoders' # Tail(m_decoders)
  <2>1. from + n \in Nat
    OBVIOUS
  <2>. QED  BY <1>0, <1>1, <2>1, PlaylistAfterRead DEF FrontOpen
<1>5. /\ Pending \in Seq(SampleRecord) /\ delivered \in Seq(SampleRecord)
      /\ Len(Pending) \in Nat /\ m_n_samples \in Nat /\ fed \in Nat
  BY <1>0, ConcatProperties DEF TypeOK, Pending
<1>6. Announcements' = Announcements
  BY <1>0 DEF Announcements
<1>. HIDE DEF id
<1>7. CASE done
  <2>1. UNCHANGED <<held, fed, done, os_buf_data>>
    BY <1>1, <1>7 DEF FeedEncoder, encoder
  <2>2. Pending' = Pending
    BY <2>1 DEF Pending
  <2>3. n_bytes' \in Nat /\ m_n_samples' \in Nat /\ left - n \in 0..ChunkSamples
    <3>1. left - n \in 0..ChunkSamples /\ left - n \in Nat /\ SampleBytes \in Nat
      BY <1>1, StreamAssumption
    <3>2. \A a, b \in Nat : a * b \in Nat
      OBVIOUS
    <3>3. (left - n) * SampleBytes \in Nat
      BY <3>1, <3>2
    <3>4. m_n_samples + n \in Nat
      BY <1>5
    <3>. QED  BY <1>1, <3>1, <3>3, <3>4
  <2>a. TypeOK'
    BY <1>0, <1>4, <2>1, <2>3 DEF TypeOK
  <2>b. CountersAgree'
    BY <1>7, <2>1 DEF IInv, CountersAgree
  <2>c. CallProgress'
    BY <1>0, <1>1, <1>7, <2>1, <2>3 DEF CallProgress
  <2>d. AnnouncementsRise'
    BY <1>0, <1>4, <1>6 DEF IInv, AnnouncementsRise
  <2>e. SamplesMatch' 
    BY <1>0, <1>4, <1>6, <1>7, <2>1, <2>2 DEF IInv, SamplesMatch
  <2>f. AllAnnounced'
    BY <1>0, <1>4, <1>6, <2>2 DEF IInv, AllAnnounced, id
  <2>. QED  BY <1>4, <2>a, <2>b, <2>c, <2>d, <2>e, <2>f DEF IInv
<1>8. CASE ~done
  <2>1. /\ held' \in Seq(SampleRecord) /\ os_buf_data' \in Seq(SampleRecord)
        /\ Len(held') < FrameSamples
        /\ Pending' = Pending \o samples
        /\ fed' = fed + n /\ UNCHANGED done
    BY <1>0, <1>1, <1>3, <1>8, FeedEncoderEffect DEF id
  <2>2. Len(Pending') = Len(Pending) + n /\ Elements(Pending') = Elements(Pending) \cup Elements(samples)
    BY <1>3, <1>5, <2>1, ConcatProperties, ElementsOfConcat
  <2>. HIDE DEF samples
  <2>3. n_bytes' \in Nat /\ m_n_samples' \in Nat /\ left - n \in 0..ChunkSamples
    <3>1. left - n \in 0..ChunkSamples /\ left - n \in Nat /\ SampleBytes \in Nat
      BY <1>1, StreamAssumption
    <3>2. \A a, b \in Nat : a * b \in Nat
      OBVIOUS
    <3>3. (left - n) * SampleBytes \in Nat
      BY <3>1, <3>2
    <3>4. m_n_samples + n \in Nat
      BY <1>5
    <3>. QED  BY <1>1, <3>1, <3>3, <3>4
  <2>a. TypeOK'
    BY <1>0, <1>4, <1>5, <2>1, <2>3 DEF TypeOK
  <2>b. CountersAgree'
    BY <1>1, <1>5, <1>8, <2>1 DEF IInv, CountersAgree
  <2>c. CallProgress'
    <3>1. Len(Pending') + (left - n) = Len(Pending) + left
      BY <1>5, <2>2
    <3>2. m_n_samples' + (left - n) = m_n_samples + left
      BY <1>1, <1>5
    <3>3. \E rest \in 0..ChunkSamples :
              /\ n_bytes' = rest * SampleBytes
              /\ ~done' => /\ Len(Pending') + rest \in ChunkSamples..MaxLoss
                           /\ failures' = 0 => (m_n_samples' + rest) % ChunkSamples = 0
      BY <1>0, <1>1, <1>8, <2>3, <3>1, <3>2
    <3>. QED  BY <1>0, <3>3 DEF CallProgress
  <2>d. AnnouncementsRise'
    BY <1>0, <1>4, <1>6 DEF IInv, AnnouncementsRise
  <2>e. SamplesMatch'
    <3>1. ASSUME NEW s \in Elements(samples)
          PROVE  /\ s.id <= Reached
                 /\ \A a \in Announcements : s.k = 1 /\ s.id = a.id => a.start = s.at
      <4>1. s.id = id /\ (s.k = 1 => from = 0 /\ s.at = fed)
        BY <1>3, <3>1
      <4>2. from = 0 => Head(m_decoders).read = 0
        BY <1>1, StreamAssumption
      <4>. QED  BY <1>0, <1>2, <1>8, <4>1, <4>2 DEF IInv, SamplesMatch, id
    <3>2. \A s \in Elements(delivered') \cup Elements(Pending') :
              /\ s.id <= Reached'
              /\ \A a \in Announcements' : s.k = 1 /\ s.id = a.id => a.start = s.at
      BY <1>0, <1>4, <1>6, <2>2, <3>1 DEF IInv, SamplesMatch
    <3>3. FrontOpen' => Head(m_decoders').read # 0
      <4>1. ASSUME n > 0 PROVE (from + n) * SampleBytes # 0
        <5>1. from + n \in Nat \ {0} /\ SampleBytes \in Nat \ {0}
          BY <4>1, StreamAssumption
        <5>. QED  BY <5>1
      <4>. QED  BY <1>1, <1>4, <4>1
    <3>. QED  BY <3>2, <3>3 DEF SamplesMatch
  <2>f. AllAnnounced'
    <3>1. failures = 0 => \E a \in Announcements : a.id = id
      BY <1>0 DEF IInv, AllAnnounced, id
    <3>. QED  BY <1>0, <1>3, <1>4, <1>6, <2>2, <3>1 DEF IInv, AllAnnounced, samples
  <2>. QED  BY <1>4, <2>a, <2>b, <2>c, <2>d, <2>e, <2>f DEF IInv
<1>. QED  BY <1>7, <1>8

\* The silence that fills up the last frame.
LEMMA PaddingProperties ==
    ASSUME TypeOK
    PROVE  /\ Padding \in Seq(SampleRecord)
           /\ Len(Padding) = FrameSamples - Len(held) /\ Len(Padding) > 0
           /\ \A s \in Elements(Padding) : s.id = 0 /\ s.k = 0
<1>. DEFINE n == FrameSamples - Len(held)
<1>0. held \in Seq(SampleRecord) /\ Len(held) \in Nat /\ FrameSamples \in Nat /\ fed \in Nat
  BY StreamAssumption DEF TypeOK
<1>1. n \in Nat /\ n > 0
  BY <1>0 DEF TypeOK
<1>. HIDE DEF n
<1>2. \A i \in 1..n : Silence(fed + i - 1) \in SampleRecord
  BY <1>0, <1>1 DEF Silence, Sample, SampleRecord
<1>3. Padding = [i \in 1..n |-> Silence(fed + i - 1)]
  BY DEF Padding, n
<1>4. /\ Padding \in Seq(SampleRecord) /\ Len(Padding) = n
      /\ \A i \in 1..n : Padding[i] = Silence(fed + i - 1)
  BY <1>1, <1>2, <1>3, IsASeq
<1>5. ASSUME NEW s \in Elements(Padding) PROVE s.id = 0 /\ s.k = 0
  <2>1. PICK i \in 1..n : s = Silence(fed + i - 1)
    BY <1>4 DEF Elements
  <2>. QED  BY <2>1 DEF Silence, Sample
<1>. QED  BY <1>1, <1>4, <1>5 DEF n

\* What a response carries.
LEMMA RespondEffect ==
    ASSUME IInv, Respond
    PROVE  /\ delivered' \in Seq(SampleRecord) /\ held' \in Seq(SampleRecord)
           /\ announced' \in Seq(AnnouncementRecord)
           /\ Pending' = held'
           /\ \A s \in Elements(delivered') :
                  s \in Elements(delivered) \cup Elements(Pending) \/ (s.id = 0 /\ s.k = 0)
           /\ Elements(Pending') \subseteq Elements(Pending)
           /\ Elements(announced') = Announcements /\ Announcements' = Announcements
           /\ ~done' => ~done /\ n_bytes = 0 /\ held' = held
           /\ done' => held' = <<>>
           /\ delivered' = delivered => done
<1>. USE DEF Respond
<1>0. /\ held \in Seq(SampleRecord) /\ os_buf_data \in Seq(SampleRecord)
      /\ delivered \in Seq(SampleRecord) /\ done \in BOOLEAN
      /\ metadata \in Seq(AnnouncementRecord) /\ announced \in Seq(AnnouncementRecord)
      /\ n_bytes \in Nat /\ Len(held) \in Nat /\ Len(os_buf_data) \in Nat /\ Len(delivered) \in Nat
  BY DEF IInv, TypeOK
<1>1. /\ announced' \in Seq(AnnouncementRecord)
      /\ Elements(announced') = Announcements /\ Announcements' = Announcements
  <2>1. announced' = announced \o metadata /\ metadata' = <<>>
    OBVIOUS
  <2>2. announced' \in Seq(AnnouncementRecord) /\ Elements(announced') = Announcements
    BY <1>0, <2>1, ConcatProperties, ElementsOfConcat DEF Announcements
  <2>. QED  BY <2>1, <2>2, ElementsOfEmpty DEF Announcements
<1>2. Elements(Pending) = Elements(os_buf_data) \cup Elements(held)
  BY <1>0, ElementsOfConcat DEF Pending
<1>3. CASE Finalizes /\ ~done
  <2>1. /\ delivered' = ((delivered \o os_buf_data) \o held) \o Padding
        /\ held' = <<>> /\ os_buf_data' = <<>> /\ done'
    BY <1>3
  <2>2. /\ Padding \in Seq(SampleRecord) /\ Len(Padding) > 0 /\ Len(Padding) \in Nat
        /\ \A s \in Elements(Padding) : s.id = 0 /\ s.k = 0
    BY PaddingProperties DEF IInv
  <2>3. /\ delivered \o os_buf_data \in Seq(SampleRecord)
        /\ Len(delivered \o os_buf_data) = Len(delivered) + Len(os_buf_data)
        /\ Elements(delivered \o os_buf_data) = Elements(delivered) \cup Elements(os_buf_data)
    BY <1>0, ConcatProperties, ElementsOfConcat
  <2>4. /\ (delivered \o os_buf_data) \o held \in Seq(SampleRecord)
        /\ Len((delivered \o os_buf_data) \o held) = Len(delivered) + Len(os_buf_data) + Len(held)
        /\ Elements((delivered \o os_buf_data) \o held) = Elements(delivered) \cup Elements(Pending)
    <3>. DEFINE before == delivered \o os_buf_data
    <3>1. before \in Seq(SampleRecord) /\ Len(before) = Len(delivered) + Len(os_buf_data)
          /\ Elements(before) = Elements(delivered) \cup Elements(os_buf_data)
      BY <2>3
    <3>. HIDE DEF before
    <3>2. before \o held \in Seq(SampleRecord) /\ Len(before \o held) = Len(before) + Len(held)
      BY <1>0, <3>1, ConcatProperties
    <3>3. Elements(before \o held) = Elements(before) \cup Elements(held)
      BY <1>0, <3>1, ElementsOfConcat
    <3>. QED  BY <1>2, <3>1, <3>2, <3>3 DEF before
  <2>5. /\ delivered' \in Seq(SampleRecord)
        /\ Len(delivered') = Len(delivered) + Len(os_buf_data) + Len(held) + Len(Padding)
        /\ Elements(delivered') = Elements(delivered) \cup Elements(Pending) \cup Elements(Padding)
    <3>. DEFINE before == (delivered \o os_buf_data) \o held
    <3>1. before \in Seq(SampleRecord) /\ Len(before) = Len(delivered) + Len(os_buf_data) + Len(held)
          /\ Elements(before) = Elements(delivered) \cup Elements(Pending)
      BY <2>4
    <3>0. delivered' = before \o Padding
      BY <2>1
    <3>. HIDE DEF before
    <3>2. before \o Padding \in Seq(SampleRecord) /\ Len(before \o Padding) = Len(before) + Len(Padding)
      BY <2>2, <3>1, ConcatProperties
    <3>3. Elements(before \o Padding) = Elements(before) \cup Elements(Padding)
      BY <2>2, <3>1, ElementsOfConcat
    <3>. QED  BY <3>0, <3>1, <3>2, <3>3
  <2>6. delivered' # delivered
    BY <1>0, <2>2, <2>5
  <2>7. Pending' = <<>>
    BY <2>1 DEF Pending
  <2>. QED  BY <1>1, <2>1, <2>2, <2>5, <2>6, <2>7, ElementsOfEmpty
<1>4. CASE ~(Finalizes /\ ~done)
  <2>1. /\ delivered' = delivered \o os_buf_data /\ os_buf_data' = <<>>
        /\ UNCHANGED <<held, done>>
    BY <1>4
  <2>2. /\ delivered' \in Seq(SampleRecord) /\ Len(delivered') = Len(delivered) + Len(os_buf_data)
        /\ Elements(delivered') = Elements(delivered) \cup Elements(os_buf_data)
    BY <1>0, <2>1, ConcatProperties, ElementsOfConcat
  <2>3. Pending' = held
    BY <1>0, <2>1 DEF Pending
  <2>4. ~done => n_bytes = 0
    BY <1>0, <1>4 DEF LoopGuard, Finalizes
  <2>5. ~done => Len(os_buf_data) > 0
    <3>1. SUFFICES ASSUME ~done PROVE Len(os_buf_data) > 0
      OBVIOUS
    <3>2. PICK left \in 0..ChunkSamples :
              n_bytes = left * SampleBytes /\ Len(Pending) + left \in ChunkSamples..MaxLoss
      BY <3>1 DEF IInv, CallProgress
    <3>3. left = 0
      <4>1. SampleBytes \in Nat \ {0} /\ left \in Nat
        BY StreamAssumption
      <4>2. left * SampleBytes = 0 * SampleBytes
        BY <2>4, <3>1, <3>2, <4>1
      <4>. QED  BY <4>1, <4>2, WholeSamples
    <3>4. Len(Pending) = Len(os_buf_data) + Len(held)
      BY <1>0, ConcatProperties DEF Pending
    <3>5. Len(held) < FrameSamples /\ FrameSamples <= ChunkSamples
          /\ FrameSamples \in Nat /\ ChunkSamples \in Nat
      BY StreamAssumption DEF IInv, TypeOK
    <3>6. Len(Pending) >= ChunkSamples
      BY <1>0, <3>2, <3>3, <3>4, <3>5
    <3>. QED  BY <1>0, <3>4, <3>5, <3>6
  <2>6. done => held = <<>>
    BY DEF IInv, CountersAgree
  <2>. QED  BY <1>0, <1>1, <1>2, <2>1, <2>2, <2>3, <2>4, <2>5, <2>6
<1>. QED  BY <1>3, <1>4

\* The end of advance().
LEMMA RespondStep ==
    ASSUME IInv, Respond
    PROVE  IInv'
<1>0. /\ pc = "loop" /\ pc' = "idle" /\ n_bytes' = 0 /\ metadata' = <<>> /\ os_buf_data' = <<>>
      /\ announced' = announced \o metadata /\ done' \in BOOLEAN
      /\ UNCHANGED <<m_decoders, m_n_samples, fed, appended, failures>>
  BY DEF Respond, IInv, TypeOK
<1>1. /\ delivered' \in Seq(SampleRecord) /\ held' \in Seq(SampleRecord)
      /\ announced' \in Seq(AnnouncementRecord)
      /\ Pending' = held'
      /\ \A s \in Elements(delivered') :
             s \in Elements(delivered) \cup Elements(Pending) \/ (s.id = 0 /\ s.k = 0)
      /\ Elements(Pending') \subseteq Elements(Pending)
      /\ Elements(announced') = Announcements /\ Announcements' = Announcements
      /\ ~done' => ~done /\ n_bytes = 0 /\ held' = held
      /\ done' => held' = <<>>
  BY RespondEffect
<1>2. UNCHANGED <<FrontOpen, Reached>>
  BY <1>0 DEF FrontOpen, Reached
<1>3. Reached \in Nat
  <2>1. Len(m_decoders) \in Nat /\ Len(appended) \in Nat /\ Len(m_decoders) <= Len(appended)
    BY DEF IInv, TypeOK, PlaylistIsTheRest
  <2>. QED  BY <2>1 DEF Reached
<1>4. metadata \in Seq(AnnouncementRecord) /\ announced \in Seq(AnnouncementRecord)
  BY DEF IInv, TypeOK
<1>a. TypeOK'
  <2>1. Len(held') < FrameSamples
    <3>1. CASE done'
      BY <1>1, <3>1, StreamAssumption
    <3>2. CASE ~done'
      BY <1>1, <3>2 DEF IInv, TypeOK
    <3>. QED  BY <3>1, <3>2
  <2>2. metadata' \in Seq(AnnouncementRecord) /\ os_buf_data' \in Seq(SampleRecord)
        /\ n_bytes' \in Nat /\ pc' \in {"idle", "loop"}
    BY <1>0
  <2>. QED  BY <1>0, <1>1, <2>1, <2>2 DEF IInv, TypeOK
<1>b. PlaylistIsTheRest' /\ CountersAgree'
  BY <1>0, <1>1 DEF IInv, PlaylistIsTheRest, EntryFits, CountersAgree
<1>c. CallProgress'
  <2>1. ~done' /\ failures' = 0 => m_n_samples' % ChunkSamples = 0
    <3>1. SUFFICES ASSUME ~done', failures' = 0 PROVE m_n_samples % ChunkSamples = 0
      BY <1>0
    <3>2. PICK left \in 0..ChunkSamples :
              n_bytes = left * SampleBytes /\ (m_n_samples + left) % ChunkSamples = 0
      BY <1>0, <1>1, <3>1 DEF IInv, CallProgress
    <3>3. left = 0
      <4>1. SampleBytes \in Nat \ {0} /\ left \in Nat
        BY StreamAssumption
      <4>2. left * SampleBytes = 0 * SampleBytes
        BY <1>1, <3>1, <3>2, <4>1
      <4>. QED  BY <4>1, <4>2, WholeSamples
    <3>4. m_n_samples + 0 = m_n_samples
      BY DEF IInv, TypeOK
    <3>. QED  BY <3>2, <3>3, <3>4
  <2>. QED  BY <1>0, <2>1 DEF CallProgress
<1>d. AnnouncementsRise'
  <2>1. ASSUME NEW i \in 1..Len(announced'), NEW j \in 1..Len(announced'), i < j
        PROVE  announced'[i].id < announced'[j].id
    <3>1. /\ Len(announced') = Len(announced) + Len(metadata)
          /\ Len(announced) \in Nat /\ Len(metadata) \in Nat
          /\ \A k \in 1..Len(announced') :
                 announced'[k] = IF k <= Len(announced) THEN announced[k]
                                 ELSE metadata[k - Len(announced)]
      BY <1>0, <1>4, ConcatProperties
    <3>2. CASE j <= Len(announced)
      BY <2>1, <3>1, <3>2 DEF IInv, AnnouncementsRise
    <3>3. CASE i > Len(announced)
      <4>1. i - Len(announced) \in 1..Len(metadata) /\ j - Len(announced) \in 1..Len(metadata)
            /\ i - Len(announced) < j - Len(announced)
        BY <2>1, <3>1, <3>3
      <4>. QED  BY SMTT(30), <2>1, <3>1, <3>3, <4>1 DEF IInv, AnnouncementsRise
    <3>4. CASE i <= Len(announced) /\ j > Len(announced)
      <4>1. announced[i] \in Elements(announced)
        BY <3>1, <3>4 DEF Elements
      <4>2. j - Len(announced) \in 1..Len(metadata)
        BY <3>1, <3>4
      <4>3. metadata[j - Len(announced)] \in Elements(metadata)
        BY <4>2 DEF Elements
      <4>. QED  BY <3>1, <3>4, <4>1, <4>3 DEF IInv, AnnouncementsRise
    <3>. QED  BY <2>1, <3>1, <3>2, <3>3, <3>4
  <2>2. \A i, j \in 1..Len(metadata') : i < j => metadata'[i].id < metadata'[j].id
    BY <1>0
  <2>3. \A a \in Elements(announced'), b \in Elements(metadata') : a.id < b.id
    BY <1>0, ElementsOfEmpty
  <2>4. \A a \in Announcements' : a.id <= Reached'
    BY <1>1, <1>2 DEF IInv, AnnouncementsRise
  <2>. QED  BY <2>1, <2>2, <2>3, <2>4 DEF AnnouncementsRise
<1>e. SamplesMatch'
  <2>1. ASSUME NEW s \in Elements(delivered') \cup Elements(Pending')
        PROVE  /\ s.id <= Reached'
               /\ \A a \in Announcements' : s.k = 1 /\ s.id = a.id => a.start = s.at
    <3>1. CASE s \in Elements(delivered) \cup Elements(Pending)
      BY <1>1, <1>2, <3>1 DEF IInv, SamplesMatch
    <3>2. CASE s.id = 0 /\ s.k = 0
      BY <1>2, <1>3, <3>2
    <3>. QED  BY <1>1, <3>1, <3>2
  <2>. QED  BY <1>0, <1>1, <1>2, <2>1 DEF IInv, SamplesMatch
<1>f. AllAnnounced'
  BY <1>0, <1>1, <1>2 DEF IInv, AllAnnounced, Announcements
<1>. QED  BY <1>a, <1>b, <1>c, <1>d, <1>e, <1>f DEF IInv

-----------------------------------------------------------------------------
(***************************************************************************)
(* The theorems about Stream.                                              *)
(***************************************************************************)

\* Every step keeps it.
LEMMA NextIInv == IInv /\ [Next]_vars => IInv'
<1>. SUFFICES ASSUME IInv, [Next]_vars PROVE IInv'
  OBVIOUS
<1>1. CASE UNCHANGED vars
  BY <1>1 DEF vars, IInv, TypeOK, PlaylistIsTheRest, EntryFits, CountersAgree, CallProgress,
     AnnouncementsRise, SamplesMatch, AllAnnounced, Pending, Announcements, FrontOpen, Reached
<1>2. CASE Call
  BY <1>2, AppendFileStep, AdvanceBeginStep DEF Call
<1>3. CASE Step
  BY <1>3, OpenDecoderStep, ReadAndFeedStep, RespondStep DEF Step
<1>. QED  BY <1>1, <1>2, <1>3 DEF Next

\* The strengthened invariant holds at every iteration of advance().
THEOREM StreamInvariant == Spec => []IInv
<1>1. Init => IInv
  BY InitIInv
<1>2. IInv /\ [Next]_vars => IInv'
  BY NextIInv
<1>. QED  BY <1>1, <1>2, PTL DEF Spec

\* Every variable of the stream keeps its type; the encoder never holds a whole
\* frame back, and n_bytes never wraps below zero.
THEOREM StreamTypeCorrect == Spec => []TypeOK
<1>1. IInv => TypeOK
  BY DEF IInv
<1>. QED  BY <1>1, StreamInvariant, PTL

\* Until it ends, and unless a call fails, every response brings the stream to a
\* multiple of five seconds, however the files divide them up.
THEOREM ChunksAreWhole == Spec => []WholeChunks
<1>1. IInv => WholeChunks
  BY DEF IInv, CallProgress, WholeChunks
<1>. QED  BY <1>1, StreamInvariant, PTL

\* Unless a call fails no audio goes out without its announcement; and files are
\* announced in order and never twice, whatever fails.
THEOREM NothingUnannounced == Spec => []AudioIsAnnounced
<1>1. IInv => AudioIsAnnounced
  <2>. SUFFICES ASSUME IInv PROVE AudioIsAnnounced
    OBVIOUS
  <2>1. ASSUME failures = 0, NEW i \in 1..Len(delivered), delivered[i].id # 0
        PROVE  \E j \in 1..Len(announced) : announced[j].id = delivered[i].id
    BY <2>1 DEF IInv, AllAnnounced, Elements
  <2>. QED  BY <2>1 DEF IInv, AnnouncementsRise, AudioIsAnnounced
<1>. QED  BY <1>1, StreamInvariant, PTL

\* A file is announced for the position at which its first sample is heard,
\* whatever was lost before it.
THEOREM AnnouncedPosition == Spec => []AnnouncedWhereHeard
<1>1. IInv => AnnouncedWhereHeard
  BY DEF IInv, SamplesMatch, AnnouncedWhereHeard, Announcements, Elements
<1>. QED  BY <1>1, StreamInvariant, PTL

\* An empty response is the end: a call that does not throw delivers something
\* until the stream has been finalized.
THEOREM EmptyIsTheEnd == Spec => EmptyMeansEnded
<1>1. IInv /\ [Next]_vars
        => [pc = "loop" /\ pc' = "idle" /\ delivered' = delivered /\ failures' = failures
               => done]_vars
  <2>. SUFFICES ASSUME IInv, Next, pc = "loop", pc' = "idle", delivered' = delivered,
                       failures' = failures
                PROVE  done
    OBVIOUS
  <2>1. failures + 1 # failures
    BY DEF IInv, TypeOK
  <2>2. Respond
    BY <2>1 DEF Next, Call, Step, AppendFile, AdvanceBegin, OpenDecoder, ReadAndFeed, Throw
  <2>. QED  BY <2>2, RespondEffect
<1>. QED  BY <1>1, StreamInvariant, PTL DEF Spec, EmptyMeansEnded

-----------------------------------------------------------------------------
(***************************************************************************)
(* What FlattenSeq makes of a playlist.                                    *)
(***************************************************************************)

\* The first n files of a playlist one after the other.
File(id, length) == [k \in 1..length |-> <<id, k>>]

Flat(lengths) ==
    LET flat[n \in 0..Len(lengths)] ==
            IF n = 0 THEN <<>> ELSE flat[n - 1] \o File(n, lengths[n])
    IN  flat

\* Induction over the naturals: a set with 0 in it and with every successor of
\* a member holds them all, since what it lacked would have a least element.
LEMMA NatSetInduction ==
    ASSUME NEW T, 0 \in T, \A n \in Nat : n \in T => n + 1 \in T
    PROVE  Nat \subseteq T
<1>. DEFINE R == {p \in Nat \X Nat : p[1] < p[2]}
            U == Nat \ T
<1>. SUFFICES ASSUME U # {} PROVE FALSE
  OBVIOUS
<1>1. IsWellFoundedOn(R, Nat)
  <2>1. R = OpToRel(<, Nat)
    BY Zenon DEF OpToRel
  <2>. QED  BY <2>1, NatLessThanWellFounded
<1>2. PICK x \in U : \A y \in U : ~(<<y, x>> \in R)
  <2>1. U \subseteq Nat
    OBVIOUS
  <2>. HIDE DEF R, U
  <2>. QED  BY <1>1, <2>1, WFMin
<1>3. x \in Nat /\ x # 0
  BY <1>2
<1>4. x - 1 \in Nat /\ x - 1 \notin T
  <2>1. ASSUME x - 1 \in T PROVE FALSE
    <3>1. (x - 1) + 1 \in T
      BY <2>1, <1>3
    <3>. QED  BY <3>1, <1>3, (x - 1) + 1 = x
  <2>. QED  BY <2>1, <1>3
<1>5. <<x - 1, x>> \in R
  BY <1>3
<1>. QED  BY <1>2, <1>4, <1>5

Notes == Nat \X Nat

\* A file is its notes from the first to the last.
LEMMA FileProperties ==
    ASSUME NEW id \in Nat, NEW length \in Nat
    PROVE  /\ File(id, length) \in Seq(Notes) /\ Len(File(id, length)) = length
           /\ \A k \in 1..length : File(id, length)[k] = <<id, k>>
<1>1. \A k \in 1..length : <<id, k>> \in Notes
  BY DEF Notes
<1>. QED  BY <1>1, IsASeq DEF File

\* Flat() is what its recursive definition says.
LEMMA FlatDef ==
    ASSUME NEW lengths, Len(lengths) \in Nat
    PROVE  Flat(lengths) =
               [n \in 0..Len(lengths) |->
                    IF n = 0 THEN <<>> ELSE Flat(lengths)[n - 1] \o File(n, lengths[n])]
<1>. DEFINE Def(m, f) ==
                f = [n \in 0..m |-> IF n = 0 THEN <<>> ELSE f[n - 1] \o File(n, lengths[n])]
            T == {m \in Nat : \E f : Def(m, f)}
<1>1. 0 \in T
  <2>1. Def(0, [n \in 0..0 |-> <<>>])
    OBVIOUS
  <2>. QED  BY <2>1
<1>2. ASSUME NEW m \in Nat, m \in T PROVE m + 1 \in T
  <2>1. PICK f : Def(m, f)
    BY <1>2
  <2>. DEFINE g == [n \in 0..(m + 1) |-> IF n <= m THEN f[n] ELSE f[m] \o File(m + 1, lengths[m + 1])]
  <2>2. ASSUME NEW n \in 0..(m + 1)
        PROVE  g[n] = IF n = 0 THEN <<>> ELSE g[n - 1] \o File(n, lengths[n])
    <3>1. CASE n = 0
      BY <3>1, <2>1
    <3>2. CASE n \in 1..m
      <4>1. g[n] = f[n] /\ g[n - 1] = f[n - 1]
        BY <3>2
      <4>2. f[n] = f[n - 1] \o File(n, lengths[n])
        BY <3>2, <2>1
      <4>3. n # 0
        BY <3>2
      <4>. HIDE DEF g
      <4>. QED  BY <4>1, <4>2, <4>3
    <3>3. CASE n = m + 1
      BY <3>3
    <3>. QED  BY <3>1, <3>2, <3>3
  <2>3. Def(m + 1, g)
    BY <2>2
  <2>4. \E h : Def(m + 1, h)
    <3>. HIDE DEF Def, g
    <3>. QED  BY <2>3
  <2>. QED  BY <2>4
<1>3. PICK f : Def(Len(lengths), f)
  <2>1. Nat \subseteq T
    <3>. HIDE DEF T
    <3>. QED  BY <1>1, <1>2, NatSetInduction
  <2>. QED  BY <2>1
<1>. QED  BY <1>3 DEF Flat

\* The programme with one more file.
LEMMA FlatStep ==
    ASSUME NEW lengths \in Seq(Nat)
    PROVE  /\ Len(lengths) \in Nat
           /\ Flat(lengths)[0] = <<>>
           /\ \A n \in 1..Len(lengths) :
                  Flat(lengths)[n] = Flat(lengths)[n - 1] \o File(n, lengths[n])
<1>1. Len(lengths) \in Nat
  OBVIOUS
<1>2. /\ 0 \in 0..Len(lengths)
      /\ \A n \in 1..Len(lengths) : n \in 0..Len(lengths) /\ n # 0
  BY <1>1
<1>. DEFINE step == [n \in 0..Len(lengths) |->
                        IF n = 0 THEN <<>> ELSE Flat(lengths)[n - 1] \o File(n, lengths[n])]
<1>3. Flat(lengths) = step
  BY <1>1, FlatDef
<1>4. step[0] = <<>> /\ \A n \in 1..Len(lengths) :
                           step[n] = Flat(lengths)[n - 1] \o File(n, lengths[n])
  BY <1>2
<1>. HIDE DEF step
<1>. QED  BY <1>1, <1>3, <1>4

\* File by file the programme grows, and what is there stays.
LEMMA FlatType ==
    ASSUME NEW lengths \in Seq(Nat)
    PROVE  \A n \in 0..Len(lengths) : Flat(lengths)[n] \in Seq(Notes)
<1>. DEFINE T == {n \in Nat : n <= Len(lengths) => Flat(lengths)[n] \in Seq(Notes)}
<1>1. 0 \in T
  <2>1. <<>> \in Seq(Notes)
    OBVIOUS
  <2>. QED  BY <2>1, FlatStep
<1>2. ASSUME NEW n \in Nat, n \in T PROVE n + 1 \in T
  <2>. SUFFICES ASSUME n + 1 <= Len(lengths) PROVE Flat(lengths)[n + 1] \in Seq(Notes)
    OBVIOUS
  <2>1. n + 1 \in 1..Len(lengths) /\ (n + 1) - 1 = n /\ n <= Len(lengths)
    BY FlatStep
  <2>2. lengths[n + 1] \in Nat
    BY <2>1
  <2>3. File(n + 1, lengths[n + 1]) \in Seq(Notes)
    BY <2>2, FileProperties
  <2>4. Flat(lengths)[n + 1] = Flat(lengths)[n] \o File(n + 1, lengths[n + 1])
    BY <2>1, FlatStep
  <2>. QED  BY <1>2, <2>1, <2>3, <2>4, ConcatProperties
<1>3. Nat \subseteq T
  <2>. HIDE DEF T
  <2>. QED  BY <1>1, <1>2, NatSetInduction
<1>. QED  BY <1>3

\* The file is behind all that was there before.
LEMMA FlatGrowth ==
    ASSUME NEW lengths \in Seq(Nat), NEW n \in 1..Len(lengths)
    PROVE  /\ lengths[n] \in Nat /\ n - 1 \in 0..Len(lengths) /\ n \in 0..Len(lengths)
           /\ Flat(lengths)[n] = Flat(lengths)[n - 1] \o File(n, lengths[n])
           /\ Len(Flat(lengths)[n - 1]) \in Nat
           /\ Len(Flat(lengths)[n]) = Len(Flat(lengths)[n - 1]) + lengths[n]
           /\ \A i \in 1..Len(Flat(lengths)[n - 1]) : Flat(lengths)[n][i] = Flat(lengths)[n - 1][i]
           /\ \A k \in 1..lengths[n] : Flat(lengths)[n][Len(Flat(lengths)[n - 1]) + k] = <<n, k>>
<1>1. n - 1 \in 0..Len(lengths) /\ n \in 0..Len(lengths) /\ lengths[n] \in Nat /\ n \in Nat
  OBVIOUS
<1>. DEFINE before == Flat(lengths)[n - 1]
            file   == File(n, lengths[n])
<1>2. before \in Seq(Notes)
  BY <1>1, FlatType
<1>3. file \in Seq(Notes) /\ Len(file) = lengths[n] /\ \A k \in 1..lengths[n] : file[k] = <<n, k>>
  BY <1>1, FileProperties
<1>4. Flat(lengths)[n] = before \o file
  BY FlatStep
<1>. HIDE DEF before, file
<1>5. /\ Len(before) \in Nat
      /\ Len(before \o file) = Len(before) + lengths[n]
      /\ \A i \in 1..Len(before) : (before \o file)[i] = before[i]
  BY <1>2, <1>3, ConcatProperties
<1>6. ASSUME NEW k \in 1..lengths[n] PROVE (before \o file)[Len(before) + k] = <<n, k>>
  <2>1. Len(before) + k > Len(before) /\ Len(before) + k \in 1..(Len(before) + Len(file))
        /\ (Len(before) + k) - Len(before) = k
    BY SMTT(30), <1>1, <1>3, <1>5
  <2>. QED  BY <1>2, <1>3, <2>1, ConcatProperties
<1>. QED  BY <1>1, <1>4, <1>5, <1>6 DEF before, file

\* What was there before stays.
LEMMA FlatPrefix ==
    ASSUME NEW lengths \in Seq(Nat), NEW m \in 0..Len(lengths)
    PROVE  \A n \in m..Len(lengths) :
               /\ Len(Flat(lengths)[m]) <= Len(Flat(lengths)[n])
               /\ \A i \in 1..Len(Flat(lengths)[m]) : Flat(lengths)[n][i] = Flat(lengths)[m][i]
<1>. DEFINE Extends(n) == /\ Len(Flat(lengths)[m]) <= Len(Flat(lengths)[n])
                          /\ \A i \in 1..Len(Flat(lengths)[m]) : Flat(lengths)[n][i] = Flat(lengths)[m][i]
            T == {d \in Nat : m + d <= Len(lengths) => Extends(m + d)}
<1>0. Len(lengths) \in Nat /\ m \in Nat
  OBVIOUS
<1>1. 0 \in T
  <2>1. m + 0 = m /\ Len(Flat(lengths)[m]) \in Nat
    BY FlatType
  <2>. QED  BY <2>1
<1>2. ASSUME NEW d \in Nat, d \in T PROVE d + 1 \in T
  <2>. SUFFICES ASSUME m + (d + 1) <= Len(lengths) PROVE Extends(m + (d + 1))
    OBVIOUS
  <2>1. /\ m + (d + 1) \in 1..Len(lengths) /\ (m + (d + 1)) - 1 = m + d /\ m + d <= Len(lengths)
        /\ m + d \in 0..Len(lengths)
    BY <1>0
  <2>2. Extends(m + d)
    BY <1>2, <2>1
  <2>3. /\ lengths[m + (d + 1)] \in Nat /\ Len(Flat(lengths)[m + d]) \in Nat
        /\ Len(Flat(lengths)[m + (d + 1)]) = Len(Flat(lengths)[m + d]) + lengths[m + (d + 1)]
        /\ \A i \in 1..Len(Flat(lengths)[m + d]) : Flat(lengths)[m + (d + 1)][i] = Flat(lengths)[m + d][i]
    <3>. DEFINE n == m + (d + 1)
    <3>1. n \in 1..Len(lengths) /\ n - 1 = m + d
      BY <2>1
    <3>. HIDE DEF n
    <3>2. /\ lengths[n] \in Nat /\ Len(Flat(lengths)[n - 1]) \in Nat
          /\ Len(Flat(lengths)[n]) = Len(Flat(lengths)[n - 1]) + lengths[n]
          /\ \A i \in 1..Len(Flat(lengths)[n - 1]) : Flat(lengths)[n][i] = Flat(lengths)[n - 1][i]
      BY <3>1, FlatGrowth
    <3>. QED  BY <3>1, <3>2 DEF n
  <2>4. Len(Flat(lengths)[m]) \in Nat
    BY FlatType
  <2>. QED  BY SMTT(30), <2>2, <2>3, <2>4
<1>3. Nat \subseteq T
  <2>. HIDE DEF T
  <2>. QED  BY <1>1, <1>2, NatSetInduction
<1>4. ASSUME NEW n \in m..Len(lengths) PROVE Extends(n)
  <2>1. n - m \in Nat /\ m + (n - m) = n /\ n <= Len(lengths)
    BY <1>0
  <2>2. n - m \in T
    BY <1>3, <2>1
  <2>. QED  BY <2>1, <2>2
<1>. QED  BY <1>4

\* Each sample of a file is in the programme where the file begins.
LEMMA FlatLayout ==
    ASSUME NEW lengths \in Seq(Nat), NEW id \in 1..Len(lengths)
    PROVE  /\ lengths[id] \in Nat
           /\ Len(Flat(lengths)[id - 1]) \in Nat
           /\ Len(Flat(lengths)[id]) = Len(Flat(lengths)[id - 1]) + lengths[id]
           /\ Len(Flat(lengths)[id - 1]) + lengths[id] <= Len(Flat(lengths)[Len(lengths)])
           /\ \A k \in 1..lengths[id] :
                  Flat(lengths)[Len(lengths)][Len(Flat(lengths)[id - 1]) + k] = <<id, k>>
<1>1. /\ lengths[id] \in Nat /\ id \in 0..Len(lengths)
      /\ Len(Flat(lengths)[id - 1]) \in Nat
      /\ Len(Flat(lengths)[id]) = Len(Flat(lengths)[id - 1]) + lengths[id]
      /\ \A k \in 1..lengths[id] : Flat(lengths)[id][Len(Flat(lengths)[id - 1]) + k] = <<id, k>>
  BY FlatGrowth
<1>2. Len(lengths) \in id..Len(lengths)
  OBVIOUS
<1>3. /\ Len(Flat(lengths)[id]) <= Len(Flat(lengths)[Len(lengths)])
      /\ \A i \in 1..Len(Flat(lengths)[id]) : Flat(lengths)[Len(lengths)][i] = Flat(lengths)[id][i]
  BY <1>1, <1>2, FlatPrefix
<1>4. ASSUME NEW k \in 1..lengths[id]
      PROVE  Len(Flat(lengths)[id - 1]) + k \in 1..Len(Flat(lengths)[id])
  BY <1>1
<1>. QED  BY <1>1, <1>3, <1>4

\* Appending a file leaves what comes before it alone.
LEMMA FlatOfAppend ==
    ASSUME NEW lengths \in Seq(Nat), NEW length \in Nat
    PROVE  /\ Append(lengths, length) \in Seq(Nat)
           /\ \A n \in 0..Len(lengths) : Flat(Append(lengths, length))[n] = Flat(lengths)[n]
<1>. DEFINE longer == Append(lengths, length)
            T == {n \in Nat : n <= Len(lengths) => Flat(longer)[n] = Flat(lengths)[n]}
<1>0. /\ longer \in Seq(Nat) /\ Len(longer) = Len(lengths) + 1 /\ Len(lengths) \in Nat
      /\ \A n \in 1..Len(lengths) : longer[n] = lengths[n]
  BY AppendProperties
<1>. HIDE DEF longer
<1>1. 0 \in T
  BY <1>0, FlatStep
<1>2. ASSUME NEW n \in Nat, n \in T PROVE n + 1 \in T
  <2>. SUFFICES ASSUME n + 1 <= Len(lengths) PROVE Flat(longer)[n + 1] = Flat(lengths)[n + 1]
    OBVIOUS
  <2>1. n + 1 \in 1..Len(lengths) /\ n + 1 \in 1..Len(longer) /\ (n + 1) - 1 = n /\ n <= Len(lengths)
    BY <1>0
  <2>2. Flat(lengths)[n + 1] = Flat(lengths)[n] \o File(n + 1, lengths[n + 1])
    BY <2>1, FlatStep
  <2>3. Flat(longer)[n + 1] = Flat(longer)[n] \o File(n + 1, longer[n + 1])
    BY <1>0, <2>1, FlatStep
  <2>. QED  BY <1>0, <1>2, <2>1, <2>2, <2>3
<1>3. Nat \subseteq T
  <2>. HIDE DEF T
  <2>. QED  BY <1>1, <1>2, NatSetInduction
<1>4. \A n \in 0..Len(lengths) : Flat(longer)[n] = Flat(lengths)[n]
  BY <1>0, <1>3
<1>. QED  BY <1>0, <1>4 DEF longer

\* The programme is all the files one after the other.
LEMMA ProgrammeIsFlat ==
    ASSUME appended \in Seq(Nat)
    PROVE  P!Programme = Flat(appended)[Len(appended)]
<1>. DEFINE files == [id \in 1..Len(appended) |-> [k \in 1..appended[id] |-> <<id, k>>]]
<1>0. Len(appended) \in Nat /\ Len(files) = Len(appended) /\ files \in Seq({File(id, appended[id]) : id \in 1..Len(appended)})
  BY IsASeq DEF File
<1>1. P!Programme = P!FlattenSeq(files)
  BY DEF P!Programme
<1>2. \A id \in 1..Len(appended) : files[id] = File(id, appended[id])
  BY DEF File
<1>. HIDE DEF files
<1>3. CASE Len(appended) = 0
  <2>1. files = <<>>
    BY <1>0, <1>3
  <2>2. P!FlattenSeq(files) = <<>>
    BY <1>0, <1>3, <2>1 DEF P!FlattenSeq
  <2>. QED  BY <1>1, <1>3, <2>2, FlatStep
<1>4. CASE Len(appended) # 0
  <2>. DEFINE Def(f) == f = [i \in 1..Len(files) |-> IF i = 1 THEN files[i] ELSE f[i - 1] \o files[i]]
  <2>1. P!FlattenSeq(files) = (CHOOSE f : Def(f))[Len(files)]
    BY <1>0, <1>4 DEF P!FlattenSeq
  <2>. DEFINE g == [i \in 1..Len(files) |-> Flat(appended)[i]]
  <2>2. ASSUME NEW i \in 1..Len(appended)
        PROVE  Flat(appended)[i] = IF i = 1 THEN files[i] ELSE Flat(appended)[i - 1] \o files[i]
    <3>1. Flat(appended)[i] = Flat(appended)[i - 1] \o files[i]
      BY <1>2, FlatStep
    <3>2. CASE i = 1
      <4>1. appended[1] \in Nat /\ 1 \in Nat
        BY <3>2
      <4>2. files[1] \in Seq(Notes)
        BY <1>2, <3>2, <4>1, FileProperties
      <4>3. <<>> \o files[1] = files[1]
        BY <4>2, ConcatEmptySeq
      <4>4. Flat(appended)[1 - 1] = <<>>
        BY FlatStep, 1 - 1 = 0
      <4>. QED  BY <3>1, <3>2, <4>3, <4>4
    <3>. QED  BY <3>1, <3>2
  <2>3. Def(g)
    <3>1. \A i \in 1..Len(files) : i # 1 => i - 1 \in 1..Len(files) /\ g[i - 1] = Flat(appended)[i - 1]
      BY <1>0
    <3>. QED  BY <1>0, <2>2, <3>1
  <2>. DEFINE h == CHOOSE f : Def(f)
  <2>4. Def(h)
    <3>. HIDE DEF Def, g
    <3>. QED  BY <2>3
  <2>. HIDE DEF g, h
  <2>. DEFINE T == {n \in Nat : n + 1 <= Len(appended) => h[n + 1] = Flat(appended)[n + 1]}
  <2>5. 0 \in T
    BY <1>0, <2>2, <2>4
  <2>6. ASSUME NEW n \in Nat, n \in T PROVE n + 1 \in T
    <3>. SUFFICES ASSUME (n + 1) + 1 <= Len(appended)
                  PROVE  h[(n + 1) + 1] = Flat(appended)[(n + 1) + 1]
      OBVIOUS
    <3>1. /\ (n + 1) + 1 \in 1..Len(appended) /\ (n + 1) + 1 # 1
          /\ ((n + 1) + 1) - 1 = n + 1 /\ n + 1 <= Len(appended)
      BY <1>0
    <3>2. h[(n + 1) + 1] = h[n + 1] \o files[(n + 1) + 1]
      BY <1>0, <2>4, <3>1
    <3>3. Flat(appended)[(n + 1) + 1] = Flat(appended)[n + 1] \o files[(n + 1) + 1]
      BY <2>2, <3>1
    <3>. QED  BY <2>6, <3>1, <3>2, <3>3
  <2>7. Nat \subseteq T
    <3>. HIDE DEF T
    <3>. QED  BY <2>5, <2>6, NatSetInduction
  <2>8. h[Len(appended)] = Flat(appended)[Len(appended)]
    <3>1. Len(appended) - 1 \in Nat /\ (Len(appended) - 1) + 1 = Len(appended)
      BY <1>0, <1>4
    <3>2. Len(appended) - 1 \in T
      BY <2>7, <3>1
    <3>. QED  BY <1>0, <3>1, <3>2
  <2>. QED  BY <1>0, <1>1, <2>1, <2>8 DEF h
<1>. QED  BY <1>3, <1>4

-----------------------------------------------------------------------------
(***************************************************************************)
(* Stream implements Playback.                                             *)
(***************************************************************************)

\* The whole programme.
All == Flat(appended)[Len(appended)]

\* The encoder has taken in the programme up to what the front decoder gave.
FedIsProgramme ==
    /\ ~done =>
           \E n \in 0..fed :
               /\ fed = Len(Flat(appended)[Len(appended) - Len(m_decoders)]) + n
               /\ IF m_decoders = <<>> THEN n = 0 ELSE Head(m_decoders).read = n * SampleBytes
    /\ fed <= Len(All)

\* What is on its way is the piece of the programme before that.
PendingIsProgramme ==
    /\ Len(Pending) <= fed
    /\ \A i \in 1..Len(Pending) :
           <<Pending[i].id, Pending[i].k>> = All[fed - Len(Pending) + i]

\* Silence is only at the end.
AudioFirst ==
    /\ \A s \in Elements(Pending) : s.id # 0
    /\ ~done => \A s \in Elements(delivered) : s.id # 0

PInv == FedIsProgramme /\ PendingIsProgramme /\ AudioFirst

NotesOf(samples) == [i \in 1..Len(samples) |-> <<samples[i].id, samples[i].k>>]

\* Every sample is a note.
LEMMA NotesOfType ==
    ASSUME NEW r \in Seq(SampleRecord)
    PROVE  /\ NotesOf(r) \in Seq(Notes) /\ Len(NotesOf(r)) = Len(r)
           /\ \A i \in 1..Len(r) : NotesOf(r)[i] = <<r[i].id, r[i].k>>
<1>1. ASSUME NEW i \in 1..Len(r) PROVE <<r[i].id, r[i].k>> \in Notes
  <2>1. r[i] \in SampleRecord
    OBVIOUS
  <2>. QED  BY <2>1 DEF SampleRecord, Notes
<1>. QED  BY <1>1, IsASeq DEF NotesOf

\* The notes of two parts of what is heard.
LEMMA NotesOfConcat ==
    ASSUME NEW s \in Seq(SampleRecord), NEW t \in Seq(SampleRecord)
    PROVE  NotesOf(s \o t) = NotesOf(s) \o NotesOf(t)
<1>1. \A r \in Seq(SampleRecord) : /\ NotesOf(r) \in Seq(Notes) /\ Len(NotesOf(r)) = Len(r)
                                   /\ \A i \in 1..Len(r) : NotesOf(r)[i] = <<r[i].id, r[i].k>>
  BY NotesOfType
<1>2. /\ s \o t \in Seq(SampleRecord) /\ Len(s \o t) = Len(s) + Len(t)
      /\ Len(s) \in Nat /\ Len(t) \in Nat
      /\ \A i \in 1..(Len(s) + Len(t)) : (s \o t)[i] = IF i <= Len(s) THEN s[i] ELSE t[i - Len(s)]
  BY ConcatProperties
<1>3. /\ NotesOf(s) \o NotesOf(t) \in Seq(Notes)
      /\ Len(NotesOf(s) \o NotesOf(t)) = Len(s) + Len(t)
      /\ \A i \in 1..(Len(s) + Len(t)) :
             (NotesOf(s) \o NotesOf(t))[i] = IF i <= Len(s) THEN NotesOf(s)[i] ELSE NotesOf(t)[i - Len(s)]
  <2>. DEFINE ns == NotesOf(s)
              nt == NotesOf(t)
  <2>1. ns \in Seq(Notes) /\ nt \in Seq(Notes) /\ Len(ns) = Len(s) /\ Len(nt) = Len(t)
    BY <1>1
  <2>. HIDE DEF ns, nt
  <2>2. /\ ns \o nt \in Seq(Notes) /\ Len(ns \o nt) = Len(ns) + Len(nt)
        /\ \A i \in 1..(Len(ns) + Len(nt)) : (ns \o nt)[i] = IF i <= Len(ns) THEN ns[i] ELSE nt[i - Len(ns)]
    BY <2>1, ConcatProperties
  <2>. QED  BY <2>1, <2>2 DEF ns, nt
<1>4. ASSUME NEW i \in 1..(Len(s) + Len(t))
      PROVE  NotesOf(s \o t)[i] = (NotesOf(s) \o NotesOf(t))[i]
  <2>0. NotesOf(s \o t)[i] = <<(s \o t)[i].id, (s \o t)[i].k>>
    BY <1>2 DEF NotesOf
  <2>1. CASE i <= Len(s)
    <3>1. i \in 1..Len(s)
      BY <1>2, <2>1
    <3>2. NotesOf(s)[i] = <<s[i].id, s[i].k>>
      BY <3>1 DEF NotesOf
    <3>. QED  BY <1>2, <1>3, <2>0, <2>1, <3>2
  <2>2. CASE ~(i <= Len(s))
    <3>1. i - Len(s) \in 1..Len(t)
      BY <1>2, <2>2
    <3>2. NotesOf(t)[i - Len(s)] = <<t[i - Len(s)].id, t[i - Len(s)].k>>
      BY <3>1 DEF NotesOf
    <3>. QED  BY <1>2, <1>3, <2>0, <2>2, <3>2
  <2>. QED  BY <2>1, <2>2
<1>5. NotesOf(s \o t) \in Seq(Notes) /\ Len(NotesOf(s \o t)) = Len(s) + Len(t)
  BY <1>1, <1>2
<1>. QED  BY <1>3, <1>4, <1>5, SeqEqual

\* What is heard of samples: those before the padding.
HeardIn(samples) ==
    LET audio == {i \in 1..Len(samples) : samples[i].id # 0}
    IN  [i \in 1..Cardinality(audio) |-> <<samples[i].id, samples[i].k>>]

\* Silence at the end is not heard.
LEMMA HeardBeforePadding ==
    ASSUME NEW s \in Seq(SampleRecord), NEW padding \in Seq(SampleRecord),
           \A e \in Elements(s) : e.id # 0, \A e \in Elements(padding) : e.id = 0
    PROVE  HeardIn(s \o padding) = NotesOf(s)
<1>1. /\ Len(s \o padding) = Len(s) + Len(padding) /\ Len(s) \in Nat /\ Len(padding) \in Nat
      /\ \A i \in 1..(Len(s) + Len(padding)) :
             (s \o padding)[i] = IF i <= Len(s) THEN s[i] ELSE padding[i - Len(s)]
  BY ConcatProperties
<1>. DEFINE audio == {i \in 1..Len(s \o padding) : (s \o padding)[i].id # 0}
<1>2. ASSUME NEW i \in 1..Len(s) PROVE i \in audio /\ (s \o padding)[i] = s[i]
  BY <1>1 DEF Elements
<1>3. ASSUME NEW i \in audio PROVE i \in 1..Len(s)
  <2>. SUFFICES ASSUME i > Len(s) PROVE FALSE
    BY <1>1
  <2>1. i - Len(s) \in 1..Len(padding) /\ (s \o padding)[i] = padding[i - Len(s)]
    BY <1>1
  <2>. QED  BY <2>1 DEF Elements
<1>4. audio = 1..Len(s)
  BY <1>2, <1>3
<1>. HIDE DEF audio
<1>5. Cardinality(audio) = Len(s)
  <2>1. Cardinality(1..Len(s)) = IF 1 > Len(s) THEN 0 ELSE Len(s) - 1 + 1
    <3>1. 1 \in Int /\ Len(s) \in Int
      BY <1>1
    <3>. QED  BY <3>1, FS_Interval, Zenon
  <2>. QED  BY <1>1, <1>4, <2>1
<1>. QED  BY <1>2, <1>5 DEF HeardIn, NotesOf, audio

\* The stream begins where Playback does.
LEMMA InitPlays == Init => PInv /\ P!Init
<1>. SUFFICES ASSUME Init PROVE PInv /\ P!Init
  OBVIOUS
<1>. USE DEF Init
<1>1. Pending = <<>> /\ Elements(Pending) = {} /\ Elements(delivered) = {}
  BY ElementsOfEmpty DEF Pending
<1>2. appended \in Seq(Nat) /\ Len(appended) = 0 /\ Len(appended) - Len(m_decoders) = 0
  OBVIOUS
<1>3. Flat(appended)[0] = <<>>
  BY <1>2, FlatStep
<1>4. FedIsProgramme
  BY <1>2, <1>3 DEF FedIsProgramme, All
<1>5. PendingIsProgramme /\ AudioFirst
  BY <1>1 DEF PendingIsProgramme, AudioFirst
<1>6. P!Init
  <2>1. {i \in 1..Len(delivered) : delivered[i].id # 0} = {}
    OBVIOUS
  <2>2. Cardinality({}) = 0
    BY FS_EmptySet
  <2>3. Heard = <<>>
    BY <2>1, <2>2 DEF Heard
  <2>4. Position = 0
    <3>1. Len(held) = 0 /\ Len(os_buf_data) = 0 /\ fed = 0
      OBVIOUS
    <3>. HIDE DEF Init
    <3>. QED  BY <3>1 DEF Position
  <2>. QED  BY <2>3, <2>4 DEF P!Init
<1>. QED  BY <1>4, <1>5, <1>6 DEF PInv

\* What the refinement needs of the types.
LEMMA StreamTypes ==
    ASSUME IInv
    PROVE  /\ appended \in Seq(Nat) /\ Len(appended) \in Nat /\ All \in Seq(Notes) /\ Len(All) \in Nat
           /\ P!Programme = All
           /\ held \in Seq(SampleRecord) /\ os_buf_data \in Seq(SampleRecord)
           /\ Pending \in Seq(SampleRecord) /\ delivered \in Seq(SampleRecord)
           /\ Len(held) \in Nat /\ Len(os_buf_data) \in Nat
           /\ Len(Pending) = Len(os_buf_data) + Len(held)
           /\ m_decoders \in Seq(EntryRecord) /\ Len(m_decoders) \in 0..Len(appended)
           /\ Len(m_decoders) \in Nat
           /\ fed \in Nat /\ failures \in Nat
           /\ Position = fed - Len(Pending)
<1>1. /\ appended \in Seq(Lengths) /\ Lengths \subseteq Nat
      /\ held \in Seq(SampleRecord) /\ os_buf_data \in Seq(SampleRecord)
      /\ delivered \in Seq(SampleRecord) /\ m_decoders \in Seq(EntryRecord)
      /\ fed \in Nat /\ failures \in Nat
  BY StreamAssumption DEF IInv, TypeOK
<1>2. appended \in Seq(Nat) /\ Len(appended) \in Nat
  <2>1. appended \in Seq(Nat)
    BY <1>1, SeqMonotonic, Zenon
  <2>. QED  BY <2>1
<1>3. All \in Seq(Notes) /\ P!Programme = All
  BY <1>2, FlatType, ProgrammeIsFlat DEF All
<1>4. /\ Pending \in Seq(SampleRecord) /\ Len(Pending) = Len(os_buf_data) + Len(held)
      /\ Len(held) \in Nat /\ Len(os_buf_data) \in Nat
  BY <1>1, ConcatProperties DEF Pending
<1>5. Len(m_decoders) \in Nat /\ Len(m_decoders) \in 0..Len(appended)
  BY <1>1, <1>2 DEF IInv, PlaylistIsTheRest
<1>. QED  BY <1>1, <1>2, <1>3, <1>4, <1>5 DEF Position

\* A file that is appended is appended in Playback.
LEMMA AppendFilePlays ==
    ASSUME IInv, PInv, NEW length \in Lengths, AppendFile(length)
    PROVE  PInv' /\ P!AppendFile
<1>. USE DEF AppendFile, encoder, results
<1>0. /\ appended \in Seq(Nat) /\ Len(appended) \in Nat /\ Len(All) \in Nat
      /\ m_decoders \in Seq(EntryRecord) /\ Len(m_decoders) \in 0..Len(appended)
      /\ fed \in Nat /\ Len(Pending) \in Nat /\ length \in Nat
  BY StreamTypes, StreamAssumption
<1>1. /\ appended' = Append(appended, length) /\ appended' \in Seq(Nat)
      /\ Len(appended') = Len(appended) + 1
      /\ \A n \in 0..Len(appended) : Flat(appended')[n] = Flat(appended)[n]
  BY <1>0, FlatOfAppend, AppendProperties
<1>2. /\ Len(All) <= Len(All')
      /\ \A i \in 1..Len(All) : All'[i] = All[i]
  <2>1. Len(appended) \in 0..Len(appended') /\ Len(appended') \in Len(appended)..Len(appended')
    BY <1>0, <1>1
  <2>2. Flat(appended')[Len(appended)] = All /\ All' = Flat(appended')[Len(appended')]
    BY <1>0, <1>1 DEF All
  <2>. QED  BY <1>1, <2>1, <2>2, FlatPrefix
<1>3. UNCHANGED <<Pending, fed, done, delivered, Position, Heard, failures>>
  BY DEF Pending, Position, Heard
<1>4. Len(appended') - Len(m_decoders') = Len(appended) - Len(m_decoders)
      /\ Len(appended) - Len(m_decoders) \in 0..Len(appended)
  BY <1>0, <1>1
<1>5. m_decoders' # <<>> /\ Head(m_decoders') = IF m_decoders = <<>>
          THEN [id |-> Len(appended) + 1, open |-> FALSE, read |-> 0] ELSE Head(m_decoders)
  BY <1>0
<1>6. FedIsProgramme'
  <2>1. fed' <= Len(All')
    <3>1. Len(All') \in Nat
      BY <1>0, <1>1, FlatType DEF All
    <3>. QED  BY <1>0, <1>2, <1>3, <3>1 DEF PInv, FedIsProgramme
  <2>2. ASSUME ~done
        PROVE  \E n \in 0..fed :
                   /\ fed = Len(Flat(appended')[Len(appended') - Len(m_decoders')]) + n
                   /\ Head(m_decoders').read = n * SampleBytes
    <3>1. PICK n \in 0..fed :
              /\ fed = Len(Flat(appended)[Len(appended) - Len(m_decoders)]) + n
              /\ IF m_decoders = <<>> THEN n = 0 ELSE Head(m_decoders).read = n * SampleBytes
      BY <2>2 DEF PInv, FedIsProgramme
    <3>2. Flat(appended')[Len(appended') - Len(m_decoders')]
              = Flat(appended)[Len(appended) - Len(m_decoders)]
      BY <1>1, <1>4
    <3>3. Head(m_decoders').read = n * SampleBytes
      <4>1. 0 * SampleBytes = 0
        BY StreamAssumption
      <4>. QED  BY <1>5, <3>1, <4>1
    <3>. QED  BY <3>1, <3>2, <3>3
  <2>. QED  BY <1>3, <1>5, <2>1, <2>2 DEF FedIsProgramme
<1>7. PendingIsProgramme'
  <2>1. \A i \in 1..Len(Pending) : fed - Len(Pending) + i \in 1..Len(All)
    BY <1>0 DEF PInv, FedIsProgramme, PendingIsProgramme
  <2>. QED  BY <1>2, <1>3, <2>1 DEF PInv, PendingIsProgramme
<1>8. AudioFirst'
  BY <1>3 DEF PInv, AudioFirst
<1>9. P!AppendFile
  BY <1>1, <1>3 DEF P!AppendFile
<1>. QED  BY <1>6, <1>7, <1>8, <1>9 DEF PInv

\* Reading moves what the listener will hear from the decoders to the encoder.
LEMMA ReadAndFeedPlays ==
    ASSUME IInv, PInv, ReadAndFeed
    PROVE  PInv' /\ UNCHANGED <<appended, Position, Heard, done, failures>>
<1>0. /\ TypeOK /\ PlaylistIsTheRest /\ FrontOpen /\ m_decoders # <<>>
      /\ UNCHANGED <<appended, delivered, failures>>
  BY DEF IInv, ReadAndFeed, LoopGuard, FrontOpen, results
<1>t. /\ appended \in Seq(Nat) /\ Len(appended) \in Nat /\ All \in Seq(Notes) /\ Len(All) \in Nat
      /\ Pending \in Seq(SampleRecord) /\ Len(Pending) \in Nat
      /\ m_decoders \in Seq(EntryRecord) /\ Len(m_decoders) \in 0..Len(appended)
      /\ fed \in Nat /\ Position = fed - Len(Pending)
  BY StreamTypes
<1>i. IInv'
  BY ReadAndFeedStep
<1>1. PICK n, from, left \in Nat :
          /\ Head(m_decoders).read = from * SampleBytes
          /\ from + n <= appended[Head(m_decoders).id]
          /\ FeedEncoder(Samples(Head(m_decoders).id, from, n))
          /\ \/ /\ m_decoders' = Tail(m_decoders)
                /\ from + n = appended[Head(m_decoders).id]
             \/ /\ m_decoders' = [m_decoders EXCEPT ![1].read = (from + n) * SampleBytes]
                /\ n > 0
  BY ReadEffect
<1>. DEFINE id == Head(m_decoders).id
            samples == Samples(id, from, n)
<1>2. /\ id \in 1..Len(appended) /\ id \in Nat /\ id # 0
      /\ Len(appended) - Len(m_decoders) = id - 1
  <2>1. /\ id = m_decoders[1].id /\ m_decoders[1].id \in 1..Len(appended)
        /\ m_decoders[1].id = Len(appended) - Len(m_decoders) + 1
    BY <1>0, FrontEntry
  <2>. HIDE DEF id
  <2>. QED  BY <1>t, <2>1
<1>3. UNCHANGED <<All, Heard>>
  BY <1>0 DEF All, Heard
<1>. HIDE DEF id
<1>4. CASE done
  <2>1. UNCHANGED <<held, fed, done, os_buf_data>>
    BY <1>1, <1>4 DEF FeedEncoder, encoder
  <2>2. UNCHANGED <<Pending, Position>>
    BY <2>1 DEF Pending, Position
  <2>3. PInv'
    BY <1>0, <1>3, <1>4, <2>1, <2>2 DEF PInv, FedIsProgramme, PendingIsProgramme, AudioFirst
  <2>. QED  BY <1>0, <1>3, <2>1, <2>2, <2>3
<1>5. CASE ~done
  <2>1. /\ samples \in Seq(SampleRecord) /\ Len(samples) = n
        /\ \A i \in 1..n : samples[i] = Sample(id, from + i, fed + i - 1)
        /\ \A s \in Elements(samples) : s.id = id
    <3>1. id \in Nat /\ fed \in Nat /\ from \in Nat /\ n \in Nat
      BY <1>2, <1>t
    <3>. QED  BY <3>1, SamplesProperties
  <2>2. /\ Pending' = Pending \o samples
        /\ fed' = fed + n /\ UNCHANGED done
    BY <1>0, <1>1, <1>5, <2>1, FeedEncoderEffect DEF id
  <2>. HIDE DEF samples
  <2>3. /\ Len(Pending') = Len(Pending) + n
        /\ \A i \in 1..(Len(Pending) + n) :
               Pending'[i] = IF i <= Len(Pending) THEN Pending[i] ELSE samples[i - Len(Pending)]
    BY <1>t, <2>1, <2>2, ConcatProperties
  <2>4. /\ fed = Len(Flat(appended)[id - 1]) + from
        /\ appended[id] \in Nat
        /\ Len(Flat(appended)[id - 1]) \in Nat
        /\ Len(Flat(appended)[id]) = Len(Flat(appended)[id - 1]) + appended[id]
        /\ Len(Flat(appended)[id - 1]) + appended[id] <= Len(All)
        /\ \A k \in 1..appended[id] : All[Len(Flat(appended)[id - 1]) + k] = <<id, k>>
    <3>1. PICK m \in 0..fed :
              /\ fed = Len(Flat(appended)[id - 1]) + m
              /\ Head(m_decoders).read = m * SampleBytes
      BY <1>0, <1>2, <1>5 DEF PInv, FedIsProgramme
    <3>2. m = from
      <4>1. m \in Nat /\ from \in Nat /\ SampleBytes \in Nat \ {0} /\ m * SampleBytes = from * SampleBytes
        BY <1>1, <1>t, <3>1, StreamAssumption
      <4>. QED  BY <4>1, WholeSamples
    <3>. QED  BY <1>2, <1>t, <3>1, <3>2, FlatLayout DEF All
  <2>5. Position' = Position
    <3>1. Position' = fed' - Len(Pending')
      <4>1. /\ held' \in Seq(SampleRecord) /\ os_buf_data' \in Seq(SampleRecord)
        BY <1>i DEF IInv, TypeOK
      <4>2. Len(Pending') = Len(os_buf_data') + Len(held') /\ Len(held') \in Nat /\ Len(os_buf_data') \in Nat
        BY <4>1, ConcatProperties DEF Pending
      <4>3. fed' \in Nat
        BY <1>i DEF IInv, TypeOK
      <4>. QED  BY <4>2, <4>3 DEF Position
    <3>. QED  BY <1>t, <2>2, <2>3, <3>1
  <2>6. FedIsProgramme'
    <3>0. from + n <= appended[id]
      BY <1>1 DEF id
    <3>1. fed' <= Len(All')
      <4>. DEFINE start == Len(Flat(appended)[id - 1])
      <4>1. /\ start \in Nat /\ appended[id] \in Nat /\ fed = start + from
            /\ start + appended[id] <= Len(All) /\ Len(All) \in Nat
        BY <1>t, <2>4
      <4>. HIDE DEF start
      <4>2. fed + n <= Len(All)
        BY <3>0, <4>1
      <4>. QED  BY <1>3, <2>2, <4>2
    <3>2. CASE m_decoders' = Tail(m_decoders) /\ from + n = appended[id]
      <4>1. Len(m_decoders') = Len(m_decoders) - 1
        BY <1>0, <1>t, <3>2, HeadTailProperties
      <4>2. Len(appended') - Len(m_decoders') = id
        BY <1>0, <1>2, <1>t, <4>1
      <4>3. fed' = Len(Flat(appended')[Len(appended') - Len(m_decoders')]) + 0
        BY SMTT(30), <1>0, <1>t, <2>2, <2>4, <3>2, <4>2
      <4>4. m_decoders' # <<>> => Head(m_decoders').read = 0 * SampleBytes
        <5>1. FrontOpen' = FALSE
          <6>1. FrontOpen' <=> m_decoders' # Tail(m_decoders)
            <7>1. from + n \in Nat /\ from + n <= appended[Head(m_decoders).id]
              BY <1>1
            <7>. QED  BY <1>0, <1>1, <7>1, PlaylistAfterRead
          <6>. QED  BY <3>2, <6>1 DEF FrontOpen
        <5>2. SUFFICES ASSUME m_decoders' # <<>> PROVE Head(m_decoders').read = 0
          BY StreamAssumption
        <5>3. /\ m_decoders' \in Seq(EntryRecord) /\ 1 \in 1..Len(m_decoders')
              /\ Head(m_decoders') = m_decoders'[1]
          BY <1>i, <5>2 DEF IInv, TypeOK
        <5>4. ~m_decoders'[1].open => m_decoders'[1].read = 0
          BY <1>i, <5>3 DEF IInv, PlaylistIsTheRest, EntryFits
        <5>. QED  BY <5>1, <5>2, <5>3, <5>4 DEF FrontOpen
      <4>5. m_decoders' = <<>> => 0 = 0
        OBVIOUS
      <4>6. fed' \in Nat
        BY <1>i DEF IInv, TypeOK
      <4>7. \E m \in 0..fed' :
                /\ fed' = Len(Flat(appended')[Len(appended') - Len(m_decoders')]) + m
                /\ IF m_decoders' = <<>> THEN m = 0 ELSE Head(m_decoders').read = m * SampleBytes
        BY <4>3, <4>4, <4>6
      <4>. QED  BY <3>1, <4>7 DEF FedIsProgramme
    <3>3. CASE m_decoders' = [m_decoders EXCEPT ![1].read = (from + n) * SampleBytes] /\ n > 0
      <4>1. FrontOpen' /\ Reached' = Reached /\ m_decoders' # <<>>
            /\ Head(m_decoders').read = (from + n) * SampleBytes
        <5>1. from + n \in Nat /\ from + n <= appended[Head(m_decoders).id]
          BY <1>1
        <5>2. m_decoders' # Tail(m_decoders)
          <6>1. Len(m_decoders') = Len(m_decoders)
            BY <1>t, <3>3
          <6>. QED  BY <1>0, <1>t, <6>1, HeadTailProperties
        <5>. QED  BY <1>0, <3>3, <5>1, <5>2, PlaylistAfterRead
      <4>2. Len(m_decoders') = Len(m_decoders)
        BY <1>t, <3>3
      <4>3. fed' = Len(Flat(appended')[Len(appended') - Len(m_decoders')]) + (from + n)
        <5>. DEFINE start == Len(Flat(appended)[id - 1])
        <5>1. start \in Nat /\ fed = start + from
          BY <2>4
        <5>2. Flat(appended')[Len(appended') - Len(m_decoders')] = Flat(appended)[id - 1]
          BY <1>0, <1>2, <4>2
        <5>. HIDE DEF start
        <5>3. Len(Flat(appended')[Len(appended') - Len(m_decoders')]) = start
          BY <5>2 DEF start
        <5>. QED  BY <2>2, <5>1, <5>3
      <4>4. from + n \in 0..fed'
        BY <2>2, <2>4
      <4>. QED  BY <3>1, <4>1, <4>3, <4>4 DEF FedIsProgramme
    <3>. QED  BY <1>1, <3>2, <3>3 DEF id
  <2>7. PendingIsProgramme'
    <3>1. ASSUME NEW i \in 1..(Len(Pending) + n)
          PROVE  <<Pending'[i].id, Pending'[i].k>> = All[fed' - Len(Pending') + i]
      <4>0. fed' - Len(Pending') = fed - Len(Pending)
        BY <1>t, <2>2, <2>3
      <4>1. CASE i <= Len(Pending)
        <5>1. i \in 1..Len(Pending) /\ Pending'[i] = Pending[i]
          BY <1>t, <2>3, <4>1
        <5>. QED  BY <4>0, <5>1 DEF PInv, PendingIsProgramme
      <4>2. CASE ~(i <= Len(Pending))
        <5>. DEFINE k == i - Len(Pending)
        <5>1. k \in 1..n /\ k \in Nat /\ Pending'[i] = samples[k]
          BY <1>t, <2>3, <4>2
        <5>2. Pending'[i].id = id /\ Pending'[i].k = from + k
          BY <2>1, <5>1 DEF Sample
        <5>3. from + k \in 1..appended[id]
          <6>1. from + n <= appended[id] /\ appended[id] \in Nat
            BY <1>1, <2>4 DEF id
          <6>. HIDE DEF k
          <6>. QED  BY <5>1, <6>1
        <5>4. Len(Flat(appended)[id - 1]) + (from + k) = fed - Len(Pending) + i
          <6>. DEFINE start == Len(Flat(appended)[id - 1])
          <6>1. start \in Nat /\ fed = start + from /\ Len(Pending) \in Nat
            BY <1>t, <2>4
          <6>. HIDE DEF start
          <6>2. start + (from + k) = fed - Len(Pending) + i
            BY <1>t, <6>1
          <6>. QED  BY <6>2 DEF start
        <5>. QED  BY <2>4, <4>0, <5>2, <5>3, <5>4
      <4>. QED  BY <4>1, <4>2
    <3>2. Len(Pending') <= fed'
      BY <1>t, <2>2, <2>3 DEF PInv, PendingIsProgramme
    <3>. QED  BY <1>3, <2>3, <3>1, <3>2 DEF PendingIsProgramme
  <2>8. AudioFirst'
    <3>1. Elements(Pending') = Elements(Pending) \cup Elements(samples)
      BY <1>t, <2>1, <2>2, ElementsOfConcat
    <3>. QED  BY <1>0, <1>2, <2>1, <2>2, <3>1 DEF PInv, AudioFirst
  <2>. QED  BY <1>0, <1>3, <2>2, <2>5, <2>6, <2>7, <2>8 DEF PInv
<1>. QED  BY <1>4, <1>5

\* Samples that agree with a piece of a sequence are that piece.
LEMMA NotesArePiece ==
    ASSUME NEW out \in Seq(SampleRecord), NEW all \in Seq(Notes), NEW p \in Nat,
           p + Len(out) <= Len(all),
           \A i \in 1..Len(out) : <<out[i].id, out[i].k>> = all[p + i]
    PROVE  NotesOf(out) = SubSeq(all, p + 1, p + Len(out))
<1>0. Len(out) \in Nat /\ Len(all) \in Nat
  OBVIOUS
<1>. DEFINE piece == SubSeq(all, p + 1, p + Len(out))
<1>1. /\ piece \in Seq(Notes) /\ Len(piece) = Len(out)
      /\ \A i \in 1..Len(out) : piece[i] = all[p + i]
  <2>1. p + 1 \in Int /\ p + Len(out) \in Int /\ \A i \in (p + 1)..(p + Len(out)) : all[i] \in Notes
    BY <1>0
  <2>2. /\ piece \in Seq(Notes)
        /\ Len(piece) = IF p + 1 <= p + Len(out) THEN (p + Len(out)) - (p + 1) + 1 ELSE 0
        /\ \A i \in 1..((p + Len(out)) - (p + 1) + 1) : piece[i] = all[(p + 1) + i - 1]
    BY <2>1, SubSeqProperties
  <2>. HIDE DEF piece
  <2>3. ASSUME NEW i \in 1..Len(out) PROVE piece[i] = all[p + i]
    <3>1. i \in 1..((p + Len(out)) - (p + 1) + 1) /\ (p + 1) + i - 1 = p + i
      BY <1>0
    <3>. QED  BY <2>2, <3>1
  <2>. QED  BY <1>0, <2>2, <2>3
<1>3. NotesOf(out) \in Seq(Notes) /\ Len(NotesOf(out)) = Len(out)
      /\ \A i \in 1..Len(out) : NotesOf(out)[i] = <<out[i].id, out[i].k>>
  BY NotesOfType
<1>. HIDE DEF piece
<1>4. NotesOf(out) = piece
  BY <1>1, <1>3, SeqEqual
<1>. QED  BY <1>4 DEF piece

\* A response continues where the one before it stopped; the last one reaches
\* the end of the programme.
LEMMA RespondPlays ==
    ASSUME IInv, PInv, Respond
    PROVE  PInv' /\ (P!Hear \/ UNCHANGED <<appended, Position, Heard, done, failures>>)
<1>. USE DEF Respond
<1>0. /\ os_buf_data' = <<>> /\ UNCHANGED <<m_decoders, fed, appended, failures>>
      /\ done \in BOOLEAN
  BY DEF IInv, TypeOK
<1>t. /\ appended \in Seq(Nat) /\ Len(appended) \in Nat /\ All \in Seq(Notes) /\ Len(All) \in Nat
      /\ P!Programme = All
      /\ held \in Seq(SampleRecord) /\ os_buf_data \in Seq(SampleRecord)
      /\ Len(held) \in Nat /\ Len(os_buf_data) \in Nat
      /\ Len(Pending) = Len(os_buf_data) + Len(held)
      /\ Pending \in Seq(SampleRecord) /\ Len(Pending) \in Nat
      /\ delivered \in Seq(SampleRecord)
      /\ m_decoders \in Seq(EntryRecord) /\ Len(m_decoders) \in 0..Len(appended)
      /\ fed \in Nat /\ Position = fed - Len(Pending) /\ Len(Pending) <= fed
  BY StreamTypes DEF PInv, PendingIsProgramme
<1>1. UNCHANGED All
  BY DEF All
<1>2. /\ \A i \in 1..Len(os_buf_data) : Pending[i] = os_buf_data[i]
      /\ \A i \in 1..Len(held) : Pending[Len(os_buf_data) + i] = held[i]
  <2>1. \A i \in 1..(Len(os_buf_data) + Len(held)) :
            Pending[i] = IF i <= Len(os_buf_data) THEN os_buf_data[i] ELSE held[i - Len(os_buf_data)]
    BY <1>t, ConcatProperties DEF Pending
  <2>2. ASSUME NEW i \in 1..Len(held) PROVE Pending[Len(os_buf_data) + i] = held[i]
    <3>1. /\ Len(os_buf_data) + i \in 1..(Len(os_buf_data) + Len(held))
          /\ ~(Len(os_buf_data) + i <= Len(os_buf_data))
          /\ (Len(os_buf_data) + i) - Len(os_buf_data) = i
      BY <1>t
    <3>. QED  BY <2>1, <3>1
  <2>3. ASSUME NEW i \in 1..Len(os_buf_data) PROVE Pending[i] = os_buf_data[i]
    <3>1. i \in 1..(Len(os_buf_data) + Len(held)) /\ i <= Len(os_buf_data)
      BY <1>t
    <3>. QED  BY <2>1, <3>1
  <2>. QED  BY <2>2, <2>3
<1>3. \A i \in 1..Len(held) : <<held[i].id, held[i].k>> = All[fed - Len(held) + i]
  <2>. SUFFICES ASSUME NEW i \in 1..Len(held)
                PROVE  <<held[i].id, held[i].k>> = All[fed - Len(held) + i]
    OBVIOUS
  <2>1. /\ Len(os_buf_data) + i \in 1..Len(Pending)
        /\ fed - Len(Pending) + (Len(os_buf_data) + i) = fed - Len(held) + i
    BY <1>t
  <2>. QED  BY <1>2, <2>1 DEF PInv, PendingIsProgramme
<1>4. Elements(Pending) = Elements(os_buf_data) \cup Elements(held)
  BY <1>t, ElementsOfConcat DEF Pending
<1>5. CASE Finalizes /\ ~done
  <2>1. /\ delivered' = ((delivered \o os_buf_data) \o held) \o Padding
        /\ held' = <<>> /\ done' = TRUE
    BY <1>5
  <2>2. Pending' = <<>> /\ Position' = fed
    <3>1. Len(held') = 0 /\ Len(os_buf_data') = 0
      BY <1>0, <2>1
    <3>. QED  BY <1>0, <1>t, <2>1, <3>1 DEF Pending, Position
  <2>3. fed = Len(All)
    <3>1. m_decoders = <<>> /\ Len(m_decoders) = 0
      BY <1>5 DEF Finalizes
    <3>2. PICK n \in 0..fed : fed = Len(Flat(appended)[Len(appended) - Len(m_decoders)]) + n /\ n = 0
      BY <1>5, <3>1 DEF PInv, FedIsProgramme
    <3>3. Len(appended) - Len(m_decoders) = Len(appended)
      BY <1>t, <3>1
    <3>4. fed = Len(All) + 0
      BY <3>2, <3>3 DEF All
    <3>. QED  BY <1>t, <3>4
  <2>4. ((delivered \o os_buf_data) \o held) = delivered \o Pending
    <3>1. /\ delivered \in Seq(SampleRecord) /\ os_buf_data \in Seq(SampleRecord)
          /\ held \in Seq(SampleRecord)
      BY <1>t
    <3>2. (delivered \o os_buf_data) \o held = delivered \o (os_buf_data \o held)
      BY <3>1, ConcatAssociative
    <3>. QED  BY <3>2 DEF Pending
  <2>5. Heard = NotesOf(delivered) /\ Heard' = NotesOf(delivered) \o NotesOf(Pending)
    <3>1. \A s \in Elements(delivered) : s.id # 0
      BY <1>5 DEF PInv, AudioFirst
    <3>2. Heard = NotesOf(delivered)
      <4>1. Heard = HeardIn(delivered) /\ delivered \o <<>> = delivered /\ <<>> \in Seq(SampleRecord)
        BY <1>t, ConcatEmptySeq DEF Heard, HeardIn
      <4>. QED  BY <1>t, <3>1, <4>1, ElementsOfEmpty, HeardBeforePadding
    <3>. DEFINE audio == delivered \o Pending
    <3>3. audio \in Seq(SampleRecord) /\ \A s \in Elements(audio) : s.id # 0
      <4>1. Elements(audio) = Elements(delivered) \cup Elements(Pending)
        BY <1>t, ElementsOfConcat
      <4>. QED  BY <1>t, <3>1, <4>1, ConcatProperties DEF PInv, AudioFirst
    <3>4. Padding \in Seq(SampleRecord) /\ \A s \in Elements(Padding) : s.id = 0
      BY PaddingProperties DEF IInv
    <3>5. Heard' = HeardIn(delivered') /\ delivered' = audio \o Padding
      BY <2>1, <2>4 DEF Heard, HeardIn
    <3>6. NotesOf(audio) = NotesOf(delivered) \o NotesOf(Pending)
      BY <1>t, NotesOfConcat
    <3>. HIDE DEF audio
    <3>7. HeardIn(audio \o Padding) = NotesOf(audio)
      BY <3>3, <3>4, HeardBeforePadding
    <3>. QED  BY <3>2, <3>5, <3>6, <3>7
  <2>6. NotesOf(Pending) = SubSeq(All, Position + 1, fed)
    <3>1. /\ Position \in Nat /\ Position + Len(Pending) <= Len(All)
          /\ Position + Len(Pending) = fed
      BY <1>t, <2>3
    <3>2. \A i \in 1..Len(Pending) : <<Pending[i].id, Pending[i].k>> = All[Position + i]
      BY <1>t DEF PInv, PendingIsProgramme
    <3>3. NotesOf(Pending) = SubSeq(All, Position + 1, Position + Len(Pending))
      BY <1>t, <3>1, <3>2, NotesArePiece
    <3>. QED  BY <3>1, <3>3
  <2>7. P!Hear
    <3>1. Position' \in Position..Len(P!Programme)
      BY <1>t, <2>2, <2>3
    <3>2. Heard' = Heard \o SubSeq(P!Programme, Position + 1, Position')
      BY <1>t, <2>2, <2>5, <2>6
    <3>3. done' \in {FALSE, Position' = Len(P!Programme)}
      <4>1. (Position' = Len(P!Programme)) = TRUE
        BY <1>t, <2>2, <2>3
      <4>. QED  BY <2>1, <4>1
    <3>. QED  BY <1>0, <1>5, <3>1, <3>2, <3>3 DEF P!Hear
  <2>8. PInv'
    <3>1. FedIsProgramme'
      BY <1>0, <1>1, <1>t, <2>1, <2>3 DEF FedIsProgramme
    <3>2. PendingIsProgramme'
      BY <1>0, <1>t, <2>2 DEF PendingIsProgramme
    <3>3. AudioFirst'
      BY <2>1, <2>2, ElementsOfEmpty DEF AudioFirst
    <3>. QED  BY <3>1, <3>2, <3>3 DEF PInv
  <2>. QED  BY <2>7, <2>8
<1>6. CASE ~(Finalizes /\ ~done)
  <2>1. delivered' = delivered \o os_buf_data /\ UNCHANGED <<held, done>>
    BY <1>6
  <2>2. Pending' = held /\ Position' = fed - Len(held)
    <3>1. Len(os_buf_data') = 0
      BY <1>0
    <3>. QED  BY <1>0, <1>t, <2>1, <3>1 DEF Pending, Position
  <2>3. PInv'
    <3>1. FedIsProgramme'
      BY <1>0, <1>1, <2>1 DEF PInv, FedIsProgramme
    <3>2. PendingIsProgramme'
      BY <1>0, <1>1, <1>3, <1>t, <2>2 DEF PendingIsProgramme
    <3>3. Elements(delivered') = Elements(delivered) \cup Elements(os_buf_data)
      BY <1>t, <2>1, ElementsOfConcat
    <3>4. AudioFirst'
      BY <1>4, <2>1, <2>2, <3>3 DEF PInv, AudioFirst
    <3>. QED  BY <3>1, <3>2, <3>4 DEF PInv
  <2>4. CASE done
    <3>1. os_buf_data = <<>> /\ held = <<>>
      BY <2>4 DEF IInv, CountersAgree
    <3>2. delivered' = delivered
      BY <1>t, <2>1, <3>1, ConcatEmptySeq
    <3>3. Position' = Position
      BY <1>t, <2>2, <3>1
    <3>. QED  BY <1>0, <2>1, <2>3, <3>2, <3>3 DEF Heard
  <2>5. CASE ~done
    <3>1. Heard = NotesOf(delivered) /\ Heard' = NotesOf(delivered) \o NotesOf(os_buf_data)
      <4>1. \A s \in Elements(delivered) : s.id # 0
        BY <2>5 DEF PInv, AudioFirst
      <4>2. Heard = NotesOf(delivered)
        <5>1. Heard = HeardIn(delivered) /\ delivered \o <<>> = delivered /\ <<>> \in Seq(SampleRecord)
          BY <1>t, ConcatEmptySeq DEF Heard, HeardIn
        <5>. QED  BY <1>t, <4>1, <5>1, ElementsOfEmpty, HeardBeforePadding
      <4>. DEFINE audio == delivered \o os_buf_data
      <4>3. audio \in Seq(SampleRecord) /\ \A s \in Elements(audio) : s.id # 0
        <5>1. Elements(audio) = Elements(delivered) \cup Elements(os_buf_data)
          BY <1>t, ElementsOfConcat
        <5>. QED  BY <1>4, <1>t, <4>1, <5>1, ConcatProperties DEF PInv, AudioFirst
      <4>4. Heard' = HeardIn(audio)
        BY <2>1 DEF Heard, HeardIn
      <4>5. NotesOf(audio) = NotesOf(delivered) \o NotesOf(os_buf_data)
        BY <1>t, NotesOfConcat
      <4>. HIDE DEF audio
      <4>6. audio \o <<>> = audio /\ <<>> \in Seq(SampleRecord)
        BY <4>3, ConcatEmptySeq
      <4>7. HeardIn(audio) = NotesOf(audio)
        BY <4>3, <4>6, ElementsOfEmpty, HeardBeforePadding
      <4>. QED  BY <4>2, <4>4, <4>5, <4>7
    <3>2. /\ Position \in Nat /\ Position' = Position + Len(os_buf_data)
          /\ Position' <= fed /\ fed <= Len(All) /\ Position' \in Nat
      <4>1. fed <= Len(All)
        BY DEF PInv, FedIsProgramme
      <4>. QED  BY <1>t, <2>2, <4>1
    <3>3. NotesOf(os_buf_data) = SubSeq(All, Position + 1, Position')
      <4>1. ASSUME NEW i \in 1..Len(os_buf_data)
            PROVE  <<os_buf_data[i].id, os_buf_data[i].k>> = All[Position + i]
        <5>1. i \in 1..Len(Pending) /\ Pending[i] = os_buf_data[i]
          BY <1>2, <1>t
        <5>. QED  BY <1>t, <5>1 DEF PInv, PendingIsProgramme
      <4>2. Position + Len(os_buf_data) <= Len(All)
        BY <1>t, <3>2
      <4>. QED  BY <1>t, <3>2, <4>1, <4>2, NotesArePiece
    <3>4. Position' \in Position..Len(All)
      BY <1>t, <3>2
    <3>5. P!Hear
      BY <1>0, <1>t, <2>1, <2>5, <3>1, <3>3, <3>4 DEF P!Hear
    <3>. QED  BY <2>3, <3>5
  <2>. QED  BY <1>0, <2>4, <2>5
<1>. QED  BY <1>5, <1>6

\* A call that throws loses at most a chunk and what was left of a frame.
LEMMA ThrowPlays ==
    ASSUME IInv, PInv, pc = "loop", NEW kind, Throw(kind),
           UNCHANGED <<encoder, appended, results>>,
           Len(m_decoders') = Len(m_decoders), m_decoders # <<>>, m_decoders' # <<>>,
           Head(m_decoders').read = Head(m_decoders).read
    PROVE  PInv' /\ P!Fail
<1>. USE DEF Throw, encoder, results
<1>0. os_buf_data' = <<>> /\ UNCHANGED <<held, fed, done, appended, delivered>>
      /\ failures' = failures + 1
  OBVIOUS
<1>t. /\ Len(All) \in Nat /\ P!Programme = All
      /\ held \in Seq(SampleRecord) /\ os_buf_data \in Seq(SampleRecord)
      /\ Len(held) \in Nat /\ Len(os_buf_data) \in Nat
      /\ Len(Pending) = Len(os_buf_data) + Len(held)
      /\ fed \in Nat /\ Position = fed - Len(Pending) /\ Len(Pending) <= fed /\ fed <= Len(All)
  BY StreamTypes DEF PInv, PendingIsProgramme, FedIsProgramme
<1>1. UNCHANGED <<All, Heard>>
  BY DEF All, Heard
<1>2. Pending' = held /\ Position' = fed - Len(held)
  <2>1. Len(os_buf_data') = 0
    BY <1>0
  <2>. QED  BY <1>0, <1>t, <2>1 DEF Pending, Position
<1>3. Position' = Position + Len(os_buf_data) /\ Position' <= Len(All)
  BY <1>t, <1>2
<1>4. Len(os_buf_data) <= MaxLoss /\ MaxLoss \in Nat
  <2>1. MaxLoss \in Nat
    BY StreamAssumption DEF MaxLoss
  <2>2. CASE done
    <3>1. Len(os_buf_data) = 0
      BY <2>2 DEF IInv, CountersAgree
    <3>. QED  BY <2>1, <3>1
  <2>3. CASE ~done
    <3>1. PICK left \in 0..ChunkSamples : Len(Pending) + left \in ChunkSamples..MaxLoss
      BY <2>3 DEF IInv, CallProgress
    <3>. QED  BY <1>t, <2>1, <3>1
  <2>. QED  BY <2>2, <2>3
<1>5. P!Fail
  <2>1. done => Position' = Position
    <3>1. done => Len(os_buf_data) = 0
      BY DEF IInv, CountersAgree
    <3>. QED  BY <1>t, <1>3, <3>1
  <2>2. Position' \in Position..(Position + MaxLoss)
    BY <1>3, <1>4, <1>t
  <2>. QED  BY <1>0, <1>1, <1>3, <1>t, <2>1, <2>2 DEF P!Fail
<1>6. FedIsProgramme'
  BY <1>0, <1>1 DEF PInv, FedIsProgramme
<1>7. PendingIsProgramme'
  <2>1. ASSUME NEW i \in 1..Len(held) PROVE <<held[i].id, held[i].k>> = All[fed - Len(held) + i]
    <3>1. /\ Len(os_buf_data) + i \in 1..(Len(os_buf_data) + Len(held))
          /\ ~(Len(os_buf_data) + i <= Len(os_buf_data))
          /\ (Len(os_buf_data) + i) - Len(os_buf_data) = i
          /\ fed - Len(Pending) + (Len(os_buf_data) + i) = fed - Len(held) + i
      BY <1>t
    <3>2. Pending[Len(os_buf_data) + i] = held[i]
      BY <1>t, <3>1, ConcatProperties DEF Pending
    <3>. QED  BY <1>t, <3>1, <3>2 DEF PInv, PendingIsProgramme
  <2>2. Len(held) <= fed
    BY <1>t
  <2>. QED  BY <1>0, <1>1, <1>2, <2>1, <2>2 DEF PendingIsProgramme
<1>8. AudioFirst'
  <2>1. Elements(Pending) = Elements(os_buf_data) \cup Elements(held)
    BY <1>t, ElementsOfConcat DEF Pending
  <2>. QED  BY <1>0, <1>2, <2>1 DEF PInv, AudioFirst
<1>. QED  BY <1>5, <1>6, <1>7, <1>8 DEF PInv

\* A decoder that is opened is nothing in Playback, or a failure.
LEMMA OpenDecoderPlays ==
    ASSUME IInv, PInv, OpenDecoder
    PROVE  PInv' /\ (P!Fail \/ UNCHANGED <<appended, Position, Heard, done, failures>>)
<1>. USE DEF OpenDecoder, LoopGuard
<1>0. /\ pc = "loop" /\ m_decoders # <<>> /\ UNCHANGED <<encoder, appended, results>>
      /\ TypeOK /\ PlaylistIsTheRest /\ ~Head(m_decoders).open
  BY DEF IInv
<1>1. ASSUME m_decoders' = [m_decoders EXCEPT ![1].open = TRUE]
      PROVE  /\ Len(m_decoders') = Len(m_decoders) /\ m_decoders' # <<>>
             /\ Head(m_decoders').read = Head(m_decoders).read
  <2>1. m_decoders' # <<>> /\ Head(m_decoders').read = 0
    BY <1>0, <1>1, FrontOpens
  <2>2. Head(m_decoders) = m_decoders[1] /\ ~m_decoders[1].open /\ 1 \in 1..Len(m_decoders)
    BY <1>0, FrontEntry
  <2>3. Head(m_decoders).read = 0
    BY <1>0, <2>2 DEF PlaylistIsTheRest, EntryFits
  <2>4. Len(m_decoders') = Len(m_decoders)
    BY <1>0, <1>1 DEF TypeOK
  <2>. QED  BY <2>1, <2>3, <2>4
<1>2. CASE /\ m_decoders' = [m_decoders EXCEPT ![1].open = TRUE]
           /\ UNCHANGED <<pc, n_bytes, os_buf_data, failures>>
  <2>1. UNCHANGED <<All, Pending, Position, Heard, fed, held, done, appended, delivered, failures>>
    BY <1>0, <1>2 DEF All, Pending, Position, Heard, encoder, results
  <2>2. PInv'
    BY <1>0, <1>1, <1>2, <2>1 DEF PInv, FedIsProgramme, PendingIsProgramme, AudioFirst
  <2>. QED  BY <2>1, <2>2
<1>3. CASE Throw("decoder") /\ UNCHANGED m_decoders
  BY <1>0, <1>3, ThrowPlays
<1>4. CASE Throw("probe") /\ m_decoders' = [m_decoders EXCEPT ![1].open = TRUE]
  BY <1>0, <1>1, <1>4, ThrowPlays
<1>. QED  BY <1>2, <1>3, <1>4

\* Every step of the stream is a step of Playback, or none.
LEMMA NextPlays ==
    ASSUME IInv, PInv, [Next]_vars
    PROVE  /\ PInv'
           /\ \/ P!AppendFile \/ P!Hear \/ P!Fail
              \/ UNCHANGED <<appended, Position, Heard, done, failures>>
<1>1. CASE UNCHANGED vars
  BY <1>1 DEF vars, PInv, FedIsProgramme, PendingIsProgramme, AudioFirst, All, Pending, Position, Heard
<1>2. CASE \E length \in Lengths : AppendFile(length)
  BY <1>2, AppendFilePlays
<1>3. CASE AdvanceBegin
  <2>1. UNCHANGED <<appended, Position, Heard, done, failures, All, Pending, m_decoders, fed, delivered>>
    BY <1>3 DEF AdvanceBegin, encoder, results, Position, Heard, All, Pending
  <2>. QED  BY <2>1 DEF PInv, FedIsProgramme, PendingIsProgramme, AudioFirst
<1>4. CASE OpenDecoder
  BY <1>4, OpenDecoderPlays
<1>5. CASE ReadAndFeed
  BY <1>5, ReadAndFeedPlays
<1>6. CASE Respond
  BY <1>6, RespondPlays
<1>. QED  BY <1>1, <1>2, <1>3, <1>4, <1>5, <1>6 DEF Next, Call, Step

\* The listener hears the files of the playlist in order, from the first to the
\* last sample and none twice; a failing call leaves a gap of at most a chunk
\* and a part of a frame; and the stream is finalized exactly at the end.
THEOREM StreamPlaysTheProgramme == Spec => PlaysTheProgramme
<1>1. Init => PInv /\ P!Init
  BY InitPlays
<1>2. IInv /\ PInv /\ [Next]_vars => PInv'
  BY NextPlays
<1>3. IInv /\ PInv /\ [Next]_vars => [P!AppendFile \/ P!Hear \/ P!Fail]_(P!vars)
  BY NextPlays DEF P!vars
<1>. QED  BY <1>1, <1>2, <1>3, StreamInvariant, PTL DEF Spec, PlaysTheProgramme, P!Spec
=============================================================================

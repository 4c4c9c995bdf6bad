---------------------------- MODULE EncoderProofs ----------------------------
(***************************************************************************)
(* Proofs about Encoder, for every rate, number of channels and input.     *)
(***************************************************************************)
EXTENDS Encoder, TLAPS

-----------------------------------------------------------------------------
(***************************************************************************)
(* Arithmetic of frames.                                                   *)
(***************************************************************************)

\* A frame holds at least one sample of every channel (rate >= 25).
LEMMA SizesPositive ==
    /\ FrameSize \in Nat \ {0}
    /\ BufSize \in Nat \ {0}
    /\ NChannels \in Nat \ {0}
    /\ NChannels <= BufSize
<1>1. FrameSize \in Nat \ {0}
  BY EncoderAssumption DEF FrameSize
<1>2. \A f, c \in Nat \ {0} : f * c \in Nat \ {0} /\ c <= f * c
  OBVIOUS
<1>. QED  BY <1>1, <1>2, EncoderAssumption DEF BufSize

\* Moving the granule on by a frame moves it on by a buffer of floats.
LEMMA NextGranule ==
    \A g \in Nat : (g + FrameSize) * NChannels = g * NChannels + BufSize
<1>1. \A g, f, c \in Nat : (g + f) * c = g * c + f * c
  OBVIOUS
<1>. QED  BY <1>1, SizesPositive DEF BufSize

\* Counting whole samples of floats loses nothing.
LEMMA DivExact ==
    \A q \in Nat, c \in Nat \ {0} : (q * c) \div c = q
OBVIOUS

\* The quotient is the number of whole buffers.
LEMMA DivUnique ==
    \A a, q \in Nat, b \in Nat \ {0} :
        q * b <= a /\ a < q * b + b => a \div b = q
OBVIOUS

\* An element of an extended sequence is an old one or the new one.
LEMMA AppendElement ==
    ASSUME NEW S, NEW s \in Seq(S), NEW e \in S, NEW k \in 1..Len(Append(s, e))
    PROVE  \/ k \in 1..Len(s) /\ Append(s, e)[k] = s[k]
           \/ k = Len(s) + 1 /\ Append(s, e)[k] = e
OBVIOUS

-----------------------------------------------------------------------------
(***************************************************************************)
(* The inductive invariant: what holds at every iteration of the loop of   *)
(* encode(), not only between two calls.                                   *)
(***************************************************************************)

\* The buffer is full only between the copy and the cut of a frame, and it
\* always holds whole samples, one float of every channel.
BufferHasRoom ==
    /\ pc # "emit" => m_buf_ptr < BufSize
    /\ \E q \in 0..FrameSize : m_buf_ptr = q * NChannels

\* The gathered cells hold the floats that follow the last frame.
BufferFollowsTheInput ==
    ~m_done => \A i \in BufIndex :
        i <= m_buf_ptr => m_buf[i] = FloatAt(m_granule * NChannels + i)

\* During a feed the floats still to be copied are those after the gathered
\* ones; the loop is left when there are none.
FeedProgress ==
    pc # "idle" /\ ~flush =>
        /\ ~m_done
        /\ m_granule * NChannels + m_buf_ptr + n_samples * NChannels = fed
        /\ pc \in {"copy", "emit"} => pcm = m_granule * NChannels + m_buf_ptr
        /\ pc = "emit" /\ m_buf_ptr < BufSize => n_samples = 0
        /\ pc = "return" => n_samples = 0

\* During a flush nothing is left to copy and one padded frame is cut.
FlushProgress ==
    pc # "idle" /\ flush =>
        /\ ~m_done
        /\ n_samples = 0
        /\ pc = "copy" => m_granule * NChannels + m_buf_ptr = fed
        /\ pc = "emit" => /\ m_buf_ptr = BufSize
                          /\ m_granule * NChannels <= fed
                          /\ fed < m_granule * NChannels + BufSize
        /\ pc = "return" => /\ m_granule * NChannels <= fed + BufSize
                            /\ fed < m_granule * NChannels

\* Between two calls.
Idle ==
    pc = "idle" =>
        /\ ~m_done => ~flush /\ m_granule * NChannels + m_buf_ptr = fed
        /\ dumped = Len(segment)

\* As long as the stream is open its frames hold no padding.
FramesAreFull ==
    ~m_done /\ ~flush =>
        \A k \in 1..Len(segment) :
            segment[k].granule * NChannels + BufSize <= fed

\* The granule counts the frames cut, also the rejected ones.
GranuleCountsFrames ==
    /\ ~m_done => m_granule = (Len(segment) + rejected) * FrameSize
    /\ OneFrameOfPadding

IInv ==
    /\ TypeOK
    /\ BufferHasRoom
    /\ BufferFollowsTheInput
    /\ FeedProgress
    /\ FlushProgress
    /\ Idle
    /\ FramesAreFull
    /\ FramesFollowTheInput
    /\ GranuleCountsFrames

-----------------------------------------------------------------------------
(***************************************************************************)
(* The inductive step, one lemma per action.                               *)
(***************************************************************************)

\* It holds for the encoder that has just been constructed.
LEMMA InitIInv == Init => IInv
<1>. SUFFICES ASSUME Init PROVE IInv
  OBVIOUS
<1>. USE SizesPositive DEF Init
<1>1. TypeOK
  <2>1. m_buf \in [BufIndex -> Nat]
    BY DEF Silence
  <2>2. segment \in Seq(FrameRecord)
    OBVIOUS
  <2>3. m_buf_ptr \in 0..BufSize
    OBVIOUS
  <2>. QED  BY <2>1, <2>2, <2>3 DEF TypeOK
<1>2. BufferHasRoom
  BY DEF BufferHasRoom
<1>3. BufferFollowsTheInput /\ FeedProgress /\ FlushProgress /\ Idle
  BY DEF BufferFollowsTheInput, FeedProgress, FlushProgress, Idle
<1>4. FramesAreFull /\ FramesFollowTheInput /\ GranuleCountsFrames
  BY DEF FramesAreFull, FramesFollowTheInput, GranuleCountsFrames, OneFrameOfPadding
<1>. QED  BY <1>1, <1>2, <1>3, <1>4 DEF IInv

\* The granule of a frame in the segment is a number.
LEMMA GranuleType ==
    ASSUME TypeOK, NEW k \in 1..Len(segment)
    PROVE  segment[k].granule \in Nat
<1>1. segment[k] \in FrameRecord
  BY DEF TypeOK
<1>. QED  BY <1>1 DEF FrameRecord

\* feed() keeps it, whatever number of samples it is given.
LEMMA FeedStep ==
    ASSUME IInv, NEW n \in 0..MaxFeed, Feed(n)
    PROVE  IInv'
<1>. USE SizesPositive DEF Feed, state
<1>0. /\ n \in Nat
      /\ n * NChannels \in Nat
      /\ fed \in Nat /\ fed' \in Nat /\ fed' = fed + n * NChannels /\ fed <= fed'
      /\ m_granule \in Nat /\ m_buf_ptr \in Nat /\ m_granule * NChannels \in Nat
      /\ BufIndex \subseteq Nat
  BY EncoderAssumption DEF IInv, TypeOK, BufIndex
<1>1. TypeOK'
  <2>. TypeOK BY DEF IInv
  <2>. HIDE SizesPositive
  <2>. QED  BY <1>0 DEF TypeOK
<1>2. BufferHasRoom'
  BY DEF IInv, BufferHasRoom
<1>3. BufferFollowsTheInput'
  <2>. SUFFICES ASSUME NEW i \in BufIndex, i <= m_buf_ptr
                PROVE  m_buf[i] = FloatAt(m_granule * NChannels + i)'
    BY DEF BufferFollowsTheInput
  <2>1. m_granule * NChannels + i <= fed
    BY <1>0 DEF IInv, Idle
  <2>2. m_buf[i] = m_granule * NChannels + i
    BY <2>1 DEF IInv, BufferFollowsTheInput, FloatAt
  <2>3. m_granule * NChannels + i <= fed'
    BY <2>1, <1>0
  <2>. QED  BY <2>2, <2>3 DEF FloatAt
<1>4. FeedProgress' /\ FlushProgress' /\ Idle'
  BY <1>0 DEF IInv, FeedProgress, FlushProgress, Idle
<1>5. FramesAreFull' /\ FramesFollowTheInput'
  <2>1. ASSUME NEW k \in 1..Len(segment)
        PROVE  /\ segment[k].granule \in Nat
               /\ segment[k].granule * NChannels \in Nat
               /\ segment[k].granule * NChannels + BufSize <= fed
               /\ segment[k].granule * NChannels + BufSize <= fed'
    <3>1. segment[k].granule * NChannels + BufSize <= fed
      BY DEF IInv, FramesAreFull, Idle
    <3>2. segment[k].granule \in Nat
      BY GranuleType DEF IInv
    <3>. QED  BY SMTT(30), <3>1, <3>2, <1>0
  <2>2. FramesAreFull'
    BY <2>1 DEF FramesAreFull
  <2>3. ASSUME NEW k \in 1..Len(segment), NEW i \in BufIndex
        PROVE  segment[k].data[i] = FloatAt(segment[k].granule * NChannels + i)'
    <3>0. i \in Nat /\ i <= BufSize
      BY DEF BufIndex
    <3>1. /\ segment[k].granule * NChannels + i <= fed
          /\ segment[k].granule * NChannels + i <= fed'
      <4>1. /\ segment[k].granule * NChannels \in Nat
            /\ segment[k].granule * NChannels + BufSize <= fed
        BY <2>1
      <4>. QED  BY SMTT(30), <3>0, <4>1, <1>0
    <3>2. segment[k].data[i] = segment[k].granule * NChannels + i
      BY <3>1 DEF IInv, FramesFollowTheInput, FloatAt
    <3>. QED  BY <3>1, <3>2 DEF FloatAt
  <2>. QED  BY <2>2, <2>3 DEF FramesFollowTheInput
<1>6. GranuleCountsFrames'
  BY DEF IInv, GranuleCountsFrames, OneFrameOfPadding
<1>. QED  BY <1>1, <1>2, <1>3, <1>4, <1>5, <1>6 DEF IInv

\* finalize() keeps it.
LEMMA FinalizeStep ==
    ASSUME IInv, Finalize
    PROVE  IInv'
<1>. USE SizesPositive DEF IInv, Finalize, state
<1>1. TypeOK' /\ BufferHasRoom'
  BY DEF TypeOK, BufferHasRoom
<1>2. BufferFollowsTheInput' /\ FramesFollowTheInput'
  BY DEF BufferFollowsTheInput, FramesFollowTheInput, FloatAt
<1>3. FeedProgress' /\ FlushProgress' /\ Idle'
  BY DEF FeedProgress, FlushProgress, Idle, TypeOK
<1>4. FramesAreFull' /\ GranuleCountsFrames'
  BY DEF FramesAreFull, GranuleCountsFrames, OneFrameOfPadding
<1>. QED  BY <1>1, <1>2, <1>3, <1>4

\* What an iteration copies is a whole number of samples: it either fills the
\* buffer or uses up what is left of the argument.
LEMMA WholeSamples ==
    ASSUME TypeOK, NEW q \in 0..FrameSize, m_buf_ptr = q * NChannels
    PROVE  \E s \in Nat :
              /\ FloatsIn = s * NChannels /\ SamplesIn(FloatsIn) = s
              /\ s <= n_samples /\ q + s <= FrameSize
              /\ m_buf_ptr + FloatsIn = (q + s) * NChannels
              /\ q + s = FrameSize \/ s = n_samples
<1>. DEFINE room == FrameSize - q
            s == IF room < n_samples THEN room ELSE n_samples
<1>0. /\ FrameSize \in Nat /\ NChannels \in Nat \ {0} /\ q \in Nat
      /\ n_samples \in Nat /\ room \in Nat /\ s \in Nat
  BY SizesPositive DEF TypeOK
<1>1. BufSize - m_buf_ptr = room * NChannels
  BY <1>0 DEF BufSize
<1>2. room * NChannels < n_samples * NChannels <=> room < n_samples
  <2>. HIDE DEF room
  <2>1. \A a, b \in Nat, c \in Nat \ {0} : a * c < b * c <=> a < b
    OBVIOUS
  <2>. QED  BY <2>1, <1>0
<1>3. FloatsIn = s * NChannels
  BY <1>1, <1>2 DEF FloatsIn
<1>4. SamplesIn(FloatsIn) = s
  <2>. HIDE DEF s
  <2>. QED  BY <1>0, <1>3, DivExact DEF SamplesIn
<1>5. m_buf_ptr + FloatsIn = (q + s) * NChannels
  <2>. HIDE DEF s
  <2>. QED  BY <1>0, <1>3
<1>6. s <= n_samples /\ q + s <= FrameSize /\ (q + s = FrameSize \/ s = n_samples)
  BY <1>0
<1>. QED  BY <1>0, <1>3, <1>4, <1>5, <1>6

\* Every iteration of a feed copies the floats the argument points at next.
LEMMA CopyInStep ==
    ASSUME IInv, CopyIn
    PROVE  IInv'
<1>1. ~flush /\ ~m_done /\ pc = "copy"
  <2>1. flush => n_samples = 0
    BY DEF CopyIn, IInv, FlushProgress
  <2>2. flush => AtEnd
    BY <2>1, SizesPositive DEF AtEnd
  <2>. QED  BY <2>2 DEF CopyIn, IInv, FeedProgress
<1>2. PICK q \in 0..FrameSize : m_buf_ptr = q * NChannels
  BY DEF IInv, BufferHasRoom
<1>3. PICK s \in Nat :
        /\ FloatsIn = s * NChannels /\ SamplesIn(FloatsIn) = s
        /\ s <= n_samples /\ q + s <= FrameSize
        /\ m_buf_ptr + FloatsIn = (q + s) * NChannels
        /\ q + s = FrameSize \/ s = n_samples
  BY <1>2, WholeSamples DEF IInv
<1>4. /\ FrameSize \in Nat /\ NChannels \in Nat \ {0} /\ BufSize \in Nat
      /\ q \in Nat /\ m_buf_ptr \in Nat /\ FloatsIn \in Nat /\ n_samples \in Nat
      /\ pcm \in Nat /\ fed \in Nat /\ m_granule \in Nat /\ m_granule * NChannels \in Nat
      /\ BufIndex \subseteq Nat
  BY <1>2, <1>3, SizesPositive DEF IInv, TypeOK, BufIndex
<1>5. m_buf_ptr + FloatsIn <= BufSize
  <2>1. (q + s) * NChannels <= FrameSize * NChannels
    BY <1>3, <1>4
  <2>. QED  BY <2>1, <1>3 DEF BufSize
<1>6. /\ m_granule * NChannels + m_buf_ptr + n_samples * NChannels = fed
      /\ pcm = m_granule * NChannels + m_buf_ptr
  BY <1>1 DEF IInv, FeedProgress
<1>7. n_samples * NChannels = FloatsIn + (n_samples - s) * NChannels
  BY <1>3, <1>4
<1>8. n_samples' \in Nat /\ n_samples' = n_samples - s
  BY <1>3, <1>4 DEF CopyIn
<1>. USE DEF CopyIn
<1>a. TypeOK'
  <2>1. m_buf' \in [BufIndex -> Nat]
    <3>. SUFFICES ASSUME NEW i \in BufIndex PROVE Copied[i] \in Nat
      BY DEF Copied
    <3>1. i \in Nat /\ m_buf[i] \in Nat
      BY <1>4 DEF IInv, TypeOK
    <3>. QED  BY <1>4, <3>1 DEF Copied
  <2>2. m_buf_ptr' \in 0..BufSize /\ pcm' \in Nat
    BY <1>4, <1>5
  <2>. QED  BY <2>1, <2>2, <1>8 DEF IInv, TypeOK
<1>b. BufferHasRoom'
  <2>1. q + s \in 0..FrameSize /\ m_buf_ptr' = (q + s) * NChannels
    BY <1>3, <1>4
  <2>. QED  BY <2>1 DEF BufferHasRoom
<1>c. BufferFollowsTheInput'
  <2>. SUFFICES ASSUME NEW i \in BufIndex, i <= m_buf_ptr'
                PROVE  m_buf'[i] = FloatAt(m_granule * NChannels + i)
    BY <1>1 DEF BufferFollowsTheInput, FloatAt
  <2>0. i \in Nat /\ i <= m_buf_ptr + FloatsIn
    BY <1>4
  <2>1. CASE i <= m_buf_ptr
    <3>1. m_buf'[i] = m_buf[i]
      BY <1>4, <2>0, <2>1 DEF Copied
    <3>. QED  BY <1>1, <2>1, <3>1 DEF IInv, BufferFollowsTheInput
  <2>2. CASE ~(i <= m_buf_ptr)
    <3>1. m_buf'[i] = pcm + (i - m_buf_ptr)
      BY <1>4, <2>0, <2>2 DEF Copied
    <3>2. m_buf'[i] = m_granule * NChannels + i
      BY <3>1, <1>4, <1>6, <2>0
    <3>3. (n_samples - s) * NChannels \in Nat
      BY <1>4, <1>8
    <3>4. m_granule * NChannels + i <= fed
      BY <3>3, <1>4, <1>6, <1>7, <2>0
    <3>. QED  BY <3>2, <3>4 DEF FloatAt
  <2>. QED  BY <2>1, <2>2
<1>d. FeedProgress'
  <2>1. m_granule * NChannels + m_buf_ptr' + n_samples' * NChannels = fed
    <3>1. (n_samples - s) * NChannels \in Nat
      BY <1>4, <1>8
    <3>2. n_samples' * NChannels = (n_samples - s) * NChannels
      BY <1>8
    <3>3. m_buf_ptr' = m_buf_ptr + FloatsIn
      OBVIOUS
    <3>. HIDE DEF CopyIn
    <3>. QED  BY <3>1, <3>2, <3>3, <1>4, <1>6, <1>7
  <2>2. pcm' = m_granule * NChannels + m_buf_ptr'
    BY <1>4, <1>6
  <2>3. m_buf_ptr' < BufSize => n_samples' = 0
    BY <1>3, <1>4, <1>8 DEF BufSize
  <2>. QED  BY <2>1, <2>2, <2>3, <1>1 DEF FeedProgress
<1>e. FlushProgress' /\ Idle'
  BY <1>1 DEF FlushProgress, Idle
<1>f. FramesAreFull' /\ FramesFollowTheInput'
  BY DEF IInv, FramesAreFull, FramesFollowTheInput, FloatAt
<1>g. GranuleCountsFrames'
  BY DEF IInv, GranuleCountsFrames, OneFrameOfPadding
<1>. QED  BY <1>a, <1>b, <1>c, <1>d, <1>e, <1>f, <1>g DEF IInv

\* The last iteration of a flush fills the buffer up with silence.
LEMMA PadOutStep ==
    ASSUME IInv, PadOut
    PROVE  IInv'
<1>. USE DEF PadOut
<1>1. flush /\ ~m_done /\ n_samples = 0 /\ m_granule * NChannels + m_buf_ptr = fed
  BY DEF IInv, FlushProgress, AtEnd
<1>2. /\ FrameSize \in Nat /\ NChannels \in Nat \ {0} /\ BufSize \in Nat \ {0}
      /\ m_buf_ptr \in Nat /\ m_buf_ptr < BufSize
      /\ fed \in Nat /\ m_granule \in Nat /\ m_granule * NChannels \in Nat
      /\ BufIndex \subseteq Nat
  BY SizesPositive DEF IInv, TypeOK, BufferHasRoom, BufIndex
<1>3. \A i \in BufIndex : i <= m_buf_ptr => Copied[i] = m_buf[i]
  BY <1>2 DEF Copied
<1>a. TypeOK'
  <2>1. m_buf' \in [BufIndex -> Nat]
    <3>. SUFFICES ASSUME NEW i \in BufIndex PROVE Padded[i] \in Nat
      BY DEF Padded
    <3>1. CASE i <= m_buf_ptr
      BY <1>2, <1>3, <3>1 DEF Padded, IInv, TypeOK
    <3>2. CASE ~(i <= m_buf_ptr)
      BY <1>2, <3>2 DEF Padded, Silence
    <3>. QED  BY <3>1, <3>2
  <2>2. m_buf_ptr' \in 0..BufSize /\ n_samples' \in Nat
    BY <1>2
  <2>. QED  BY <2>1, <2>2 DEF IInv, TypeOK
<1>b. BufferHasRoom'
  <2>1. FrameSize \in 0..FrameSize /\ m_buf_ptr' = FrameSize * NChannels
    BY <1>2 DEF BufSize
  <2>. QED  BY <2>1 DEF BufferHasRoom
<1>c. BufferFollowsTheInput'
  <2>. SUFFICES ASSUME NEW i \in BufIndex
                PROVE  Padded[i] = FloatAt(m_granule * NChannels + i)
    BY DEF BufferFollowsTheInput, FloatAt
  <2>1. CASE i <= m_buf_ptr
    BY <1>1, <1>2, <1>3, <2>1 DEF Padded, IInv, BufferFollowsTheInput
  <2>2. CASE ~(i <= m_buf_ptr)
    <3>1. ~(m_granule * NChannels + i <= fed)
      BY <1>1, <1>2, <2>2
    <3>. QED  BY <1>2, <2>2, <3>1 DEF Padded, FloatAt
  <2>. QED  BY <2>1, <2>2
<1>d. FlushProgress'
  BY <1>1, <1>2 DEF FlushProgress
<1>e. FeedProgress' /\ Idle' /\ FramesAreFull'
  BY <1>1 DEF FeedProgress, Idle, FramesAreFull
<1>f. FramesFollowTheInput' /\ GranuleCountsFrames'
  BY DEF IInv, FramesFollowTheInput, FloatAt, GranuleCountsFrames, OneFrameOfPadding
<1>. QED  BY <1>a, <1>b, <1>c, <1>d, <1>e, <1>f DEF IInv

\* A step that cuts no frame only leaves the loop, with nothing left to copy.
LEMMA NoFrameYetStep ==
    ASSUME IInv, NoFrameYet
    PROVE  IInv'
<1>. USE DEF NoFrameYet, LoopOrLeave, state, args, IInv
<1>0. /\ BufSize \in Nat /\ m_buf_ptr \in Nat /\ m_buf_ptr < BufSize /\ n_samples \in Nat
  BY SizesPositive DEF TypeOK
<1>1. ~flush /\ n_samples = 0 /\ pc' = "return"
  BY <1>0 DEF FlushProgress, FeedProgress
<1>a. TypeOK'
  BY <1>1 DEF TypeOK
<1>b. BufferHasRoom' /\ BufferFollowsTheInput'
  BY <1>0, <1>1 DEF BufferHasRoom, BufferFollowsTheInput, FloatAt
<1>c. FeedProgress' /\ FlushProgress' /\ Idle'
  BY <1>0, <1>1 DEF FeedProgress, FlushProgress, Idle
<1>d. FramesAreFull' /\ FramesFollowTheInput'
  BY DEF FramesAreFull, FramesFollowTheInput, FloatAt
<1>e. GranuleCountsFrames'
  BY DEF GranuleCountsFrames, OneFrameOfPadding
<1>. QED  BY <1>a, <1>b, <1>c, <1>d, <1>e

\* The frame that is cut is a record of the segment's type.
LEMMA FrameType ==
    ASSUME TypeOK
    PROVE  Frame \in FrameRecord
<1>1. Timestamp(m_granule) \in Nat
  <2>1. (m_granule * NanoScale) % TsModulus \in Nat
    <3>1. m_granule * NanoScale \in Nat
      BY EncoderAssumption DEF TypeOK
    <3>. QED  BY <3>1, EncoderAssumption
  <2>. QED  BY <2>1, EncoderAssumption DEF Timestamp
<1>. QED  BY <1>1 DEF Frame, FrameRecord, TypeOK

\* A full buffer becomes a frame, or a hole of one frame.
LEMMA CutFrameStep ==
    ASSUME IInv, CutFrame
    PROVE  IInv'
<1>. USE DEF CutFrame
<1>0. /\ FrameSize \in Nat \ {0} /\ NChannels \in Nat \ {0} /\ BufSize \in Nat \ {0}
      /\ m_granule \in Nat /\ m_granule' \in Nat /\ m_granule * NChannels \in Nat
      /\ fed \in Nat /\ n_samples \in Nat /\ n_samples * NChannels \in Nat
      /\ rejected \in Nat /\ segment \in Seq(FrameRecord)
      /\ flush \in BOOLEAN /\ pc = "emit" /\ m_buf_ptr = BufSize
  BY SizesPositive DEF IInv, TypeOK
<1>1. ~m_done
  BY <1>0 DEF IInv, FeedProgress, FlushProgress
<1>2. /\ m_granule' * NChannels = m_granule * NChannels + BufSize
      /\ ~flush => /\ m_granule * NChannels + BufSize + n_samples * NChannels = fed
                   /\ pcm = m_granule * NChannels + BufSize
      /\ flush => /\ n_samples = 0
                  /\ m_granule * NChannels <= fed
                  /\ fed < m_granule * NChannels + BufSize
  BY <1>0, NextGranule DEF IInv, FeedProgress, FlushProgress
<1>3. pc' \in {"copy", "return"} /\ (pc' = "return" <=> n_samples = 0)
  BY <1>0 DEF LoopOrLeave
<1>4. \/ segment' = Append(segment, Frame) /\ rejected' = rejected
      \/ segment' = segment /\ rejected' = rejected + 1
  OBVIOUS
<1>5. Frame \in FrameRecord
  BY FrameType DEF IInv
<1>6. \A k \in 1..Len(segment') :
        segment'[k] = Frame \/ (k \in 1..Len(segment) /\ segment'[k] = segment[k])
  <2>1. CASE segment' = Append(segment, Frame)
    BY <1>0, <1>5, <2>1, AppendElement
  <2>2. CASE segment' = segment
    BY <2>2
  <2>. QED  BY <1>4, <2>1, <2>2
<1>a. TypeOK'
  <2>1. segment' \in Seq(FrameRecord) /\ rejected' \in Nat
    BY <1>0, <1>4, <1>5
  <2>2. m_buf_ptr' \in 0..BufSize
    BY <1>0
  <2>. QED  BY <1>0, <1>3, <2>1, <2>2 DEF IInv, TypeOK, args
<1>b. BufferHasRoom' /\ BufferFollowsTheInput'
  <2>1. 0 \in 0..FrameSize /\ m_buf_ptr' = 0 * NChannels
    BY <1>0
  <2>. QED  BY <2>1, <1>0 DEF BufferHasRoom, BufferFollowsTheInput, BufIndex
<1>c. FeedProgress'
  BY <1>0, <1>1, <1>2, <1>3 DEF FeedProgress, args
<1>d. FlushProgress'
  BY <1>0, <1>1, <1>2, <1>3 DEF FlushProgress, args
<1>e. Idle'
  BY <1>3 DEF Idle
<1>f. FramesAreFull'
  <2>1. ASSUME ~flush, NEW k \in 1..Len(segment)
        PROVE  segment[k].granule * NChannels + BufSize <= fed
    BY <1>1, <2>1 DEF IInv, FramesAreFull
  <2>2. ~flush => Frame.granule * NChannels + BufSize <= fed
    BY <1>0, <1>2 DEF Frame
  <2>3. ASSUME ~flush, NEW k \in 1..Len(segment')
        PROVE  segment'[k].granule * NChannels + BufSize <= fed
    <3>1. CASE segment'[k] = Frame
      BY <2>2, <2>3, <3>1
    <3>2. CASE segment'[k] = segment[k] /\ k \in 1..Len(segment)
      BY <2>1, <2>3, <3>2
    <3>. QED  BY <1>6, <3>1, <3>2
  <2>. QED  BY <2>3 DEF FramesAreFull, args
<1>g. FramesFollowTheInput'
  <2>1. ASSUME NEW i \in BufIndex
        PROVE  Frame.data[i] = FloatAt(Frame.granule * NChannels + i)
    BY <1>0, <1>1 DEF IInv, BufferFollowsTheInput, Frame, BufIndex
  <2>2. ASSUME NEW k \in 1..Len(segment), NEW i \in BufIndex
        PROVE  segment[k].data[i] = FloatAt(segment[k].granule * NChannels + i)
    BY DEF IInv, FramesFollowTheInput
  <2>3. ASSUME NEW k \in 1..Len(segment'), NEW i \in BufIndex
        PROVE  segment'[k].data[i] = FloatAt(segment'[k].granule * NChannels + i)
    <3>1. CASE segment'[k] = Frame
      BY <2>1, <3>1
    <3>2. CASE segment'[k] = segment[k] /\ k \in 1..Len(segment)
      BY <2>2, <3>2
    <3>. QED  BY <1>6, <3>1, <3>2
  <2>. QED  BY <2>3 DEF FramesFollowTheInput, FloatAt
<1>h. GranuleCountsFrames'
  <2>. DEFINE cut == Len(segment) + rejected
  <2>1. cut \in Nat /\ (cut + 1) * FrameSize = cut * FrameSize + FrameSize
    BY <1>0
  <2>2. Len(segment') + rejected' = cut + 1
    BY <1>0, <1>4
  <2>3. m_granule = cut * FrameSize
    BY <1>1 DEF IInv, GranuleCountsFrames
  <2>. QED  BY <2>1, <2>2, <2>3, <1>1 DEF GranuleCountsFrames, OneFrameOfPadding
<1>. QED  BY <1>a, <1>b, <1>c, <1>d, <1>e, <1>f, <1>g, <1>h DEF IInv

\* The end of a call; a flush ends one padded frame after the last full one.
LEMMA ReturnStep ==
    ASSUME IInv, Return
    PROVE  IInv'
<1>. USE DEF Return
<1>0. /\ FrameSize \in Nat \ {0} /\ NChannels \in Nat \ {0} /\ BufSize \in Nat \ {0}
      /\ m_granule \in Nat /\ fed \in Nat /\ rejected \in Nat
      /\ segment \in Seq(FrameRecord) /\ Len(segment) \in Nat
      /\ flush \in BOOLEAN /\ pc = "return" /\ m_buf_ptr < BufSize
  BY SizesPositive DEF IInv, TypeOK, BufferHasRoom
<1>1. ~m_done /\ n_samples = 0
  BY <1>0 DEF IInv, FeedProgress, FlushProgress
<1>2. m_granule = (Len(segment) + rejected) * FrameSize
  BY <1>1 DEF IInv, GranuleCountsFrames
<1>a. TypeOK'
  <2>1. m_granule' \in Nat /\ m_done' \in BOOLEAN /\ closings' \in Nat
    <3>1. closings \in Nat /\ m_done \in BOOLEAN /\ m_granule \in Nat
      BY DEF IInv, TypeOK
    <3>2. CASE flush
      BY <3>1, <3>2
    <3>3. CASE ~flush
      BY <3>1, <3>3
    <3>. QED  BY <3>2, <3>3
  <2>2. dumped' \in Nat
    BY <1>0
  <2>. QED  BY <2>1, <2>2 DEF IInv, TypeOK, args
<1>b. BufferHasRoom' /\ FeedProgress' /\ FlushProgress'
  BY <1>0 DEF IInv, BufferHasRoom, FeedProgress, FlushProgress
<1>c. Idle'
  BY SMTT(30), <1>0, <1>1 DEF IInv, FeedProgress, Idle, args, TypeOK
<1>d. BufferFollowsTheInput' /\ FramesFollowTheInput' /\ FramesAreFull'
  BY <1>1 DEF IInv, BufferFollowsTheInput, FramesFollowTheInput, FramesAreFull, FloatAt, args
<1>e. GranuleCountsFrames'
  <2>1. CASE ~flush
    BY <1>1, <1>2, <2>1 DEF GranuleCountsFrames, OneFrameOfPadding
  <2>2. CASE flush
    <3>. DEFINE cut == Len(segment) + rejected
    <3>0. cut \in Nat
      BY <1>0
    <3>1. fed < m_granule * NChannels /\ m_granule * NChannels <= fed + BufSize
      BY <1>0, <2>2 DEF IInv, FlushProgress
    <3>2. m_granule * NChannels = cut * BufSize
      <4>1. \A c, f, n \in Nat : (c * f) * n = c * (f * n)
        OBVIOUS
      <4>. HIDE DEF cut
      <4>2. m_granule = cut * FrameSize
        BY <1>2 DEF cut
      <4>. QED  BY <4>1, <4>2, <3>0, <1>0 DEF BufSize
    <3>3. cut # 0
      BY <3>1, <3>2, <1>0
    <3>. HIDE DEF cut
    <3>4. cut - 1 \in Nat /\ (cut - 1) * BufSize + BufSize = cut * BufSize
      BY <3>0, <3>3, <1>0
    <3>5. (cut - 1) * BufSize <= fed /\ fed < (cut - 1) * BufSize + BufSize
      <4>1. (cut - 1) * BufSize \in Nat /\ cut * BufSize \in Nat
        BY <3>0, <3>4, <1>0
      <4>. QED  BY <3>1, <3>2, <3>4, <4>1, <1>0
    <3>6. fed \div BufSize = cut - 1
      BY <3>4, <3>5, <1>0, DivUnique
    <3>7. cut = (fed \div BufSize) + 1
      BY <3>0, <3>6
    <3>. QED  BY <2>2, <3>7 DEF GranuleCountsFrames, OneFrameOfPadding, cut
  <2>. QED  BY <2>1, <2>2, <1>0
<1>. QED  BY <1>a, <1>b, <1>c, <1>d, <1>e DEF IInv

-----------------------------------------------------------------------------
(***************************************************************************)
(* The theorems.                                                           *)
(***************************************************************************)

\* Every step keeps it.
LEMMA NextIInv == IInv /\ [Next]_vars => IInv'
<1>. SUFFICES ASSUME IInv, [Next]_vars PROVE IInv'
  OBVIOUS
<1>1. CASE UNCHANGED vars
  BY <1>1 DEF vars, IInv, TypeOK, BufferHasRoom, BufferFollowsTheInput, FeedProgress,
     FlushProgress, Idle, FramesAreFull, FramesFollowTheInput, GranuleCountsFrames,
     OneFrameOfPadding, FloatAt
<1>2. CASE Call
  BY <1>1, <1>2, FeedStep, FinalizeStep DEF Call, CallWhenDone
<1>3. CASE Step
  BY <1>3, CopyInStep, PadOutStep, CutFrameStep, NoFrameYetStep, ReturnStep DEF Step
<1>. QED  BY <1>1, <1>2, <1>3 DEF Next

\* The strengthened invariant holds at every iteration of encode().
THEOREM EncoderInvariant == Spec => []IInv
<1>1. Init => IInv
  BY InitIInv
<1>2. IInv /\ [Next]_vars => IInv'
  BY NextIInv
<1>. QED  BY <1>1, <1>2, PTL DEF Spec

\* Every variable of the encoder keeps its type; in particular m_buf_ptr never
\* leaves m_buf and n_samples, a size_t, never wraps below zero.
THEOREM EncoderTypeCorrect == Spec => []TypeOK
<1>1. IInv => TypeOK
  BY DEF IInv
<1>. QED  BY <1>1, EncoderInvariant, PTL

\* Every frame of the segment holds the floats that were fed at its position.
THEOREM EncoderIsFaithful == Spec => []FramesFollowTheInput
<1>1. IInv => FramesFollowTheInput
  BY DEF IInv
<1>. QED  BY <1>1, EncoderInvariant, PTL

\* Between two calls no float fed and no byte written is left anywhere else
\* than in the buffer.
THEOREM EncoderKeepsNothingBack == Spec => []NothingLeftBehind
<1>1. IInv => NothingLeftBehind
  BY DEF IInv, NothingLeftBehind, Idle, BufferHasRoom, GranuleCountsFrames
<1>. QED  BY <1>1, EncoderInvariant, PTL

\* finalize() cuts exactly one frame after the full ones.
THEOREM EncoderPadsOnce == Spec => []OneFrameOfPadding
<1>1. IInv => OneFrameOfPadding
  BY DEF IInv, GranuleCountsFrames
<1>. QED  BY <1>1, EncoderInvariant, PTL

\* The segment has been closed once if the encoder is done, and else never.
ClosedOnce == closings = IF m_done THEN 1 ELSE 0

\* The end of the container is written by finalize() alone.
LEMMA ClosedOnceInv == Spec => []ClosedOnce
<1>1. Init => ClosedOnce
  BY DEF Init, ClosedOnce
<1>2. IInv /\ ClosedOnce /\ [Next]_vars => ClosedOnce'
  <2>. SUFFICES ASSUME IInv, ClosedOnce, [Next]_vars PROVE ClosedOnce'
    OBVIOUS
  <2>1. pc # "idle" => ~m_done
    BY DEF IInv, TypeOK, FeedProgress, FlushProgress
  <2>2. CASE Return
    BY <2>1, <2>2 DEF Return, ClosedOnce
  <2>3. CASE UNCHANGED <<closings, m_done>>
    BY <2>3 DEF ClosedOnce
  <2>. QED
    BY <2>2, <2>3 DEF Next, Call, Step, Feed, Finalize, CallWhenDone, CopyIn, PadOut,
       CutFrame, NoFrameYet, state, vars
<1>. QED  BY <1>1, <1>2, EncoderInvariant, PTL DEF Spec

\* Nothing is added to a segment that has been closed, and it is never closed
\* a second time.
THEOREM EncoderClosesOnce == Spec => ClosedForGood
<1>1. IInv /\ ClosedOnce /\ [Next]_vars
        => [closings > 0 => UNCHANGED <<segment, rejected, closings>>]_vars
  <2>. SUFFICES ASSUME IInv, ClosedOnce, Next, closings > 0
                PROVE  UNCHANGED <<segment, rejected, closings>>
    OBVIOUS
  <2>1. m_done /\ pc = "idle"
    BY DEF ClosedOnce, IInv, TypeOK, FeedProgress, FlushProgress
  <2>. QED
    BY <2>1 DEF Next, Call, Step, Feed, Finalize, CallWhenDone, CopyIn, PadOut,
       CutFrame, NoFrameYet, Return, vars
<1>. QED  BY <1>1, EncoderInvariant, ClosedOnceInv, PTL DEF Spec, ClosedForGood

-----------------------------------------------------------------------------
(***************************************************************************)
(* Time stamps.                                                            *)
(***************************************************************************)

\* Frames lie one behind the other, before the frame being gathered, and each
\* has the time stamp that belongs to its granule.
FramesInOrder ==
    /\ \A k \in 1..Len(segment) : segment[k].ts = Timestamp(segment[k].granule)
    /\ \A j, k \in 1..Len(segment) :
           j < k => segment[j].granule + FrameSize <= segment[k].granule
    /\ ~m_done => \A k \in 1..Len(segment) : segment[k].granule + FrameSize <= m_granule

\* A frame that is cut lies behind the ones cut before.
LEMMA CutFrameInOrder ==
    ASSUME IInv, FramesInOrder, CutFrame
    PROVE  FramesInOrder'
<1>. USE DEF CutFrame
<1>0. /\ FrameSize \in Nat \ {0} /\ m_granule \in Nat /\ segment \in Seq(FrameRecord)
      /\ m_granule' = m_granule + FrameSize /\ pc = "emit"
  BY SizesPositive DEF IInv, TypeOK
<1>1. ~m_done
  BY <1>0 DEF IInv, TypeOK, FeedProgress, FlushProgress
<1>2. \A k \in 1..Len(segment) :
        segment[k].granule \in Nat /\ segment[k].granule + FrameSize <= m_granule
  BY <1>1, GranuleType DEF IInv, FramesInOrder
<1>3. CASE segment' = Append(segment, Frame)
  <2>0. Frame \in FrameRecord /\ Frame.granule = m_granule /\ Frame.ts = Timestamp(m_granule)
    BY FrameType DEF IInv, Frame
  <2>1. \A k \in 1..Len(segment') :
          \/ k \in 1..Len(segment) /\ segment'[k] = segment[k]
          \/ k = Len(segment) + 1 /\ segment'[k] = Frame
    BY <1>0, <1>3, <2>0, AppendElement
  <2>. HIDE DEF CutFrame
  <2>2. \A k \in 1..Len(segment') : segment'[k].ts = Timestamp(segment'[k].granule)
    BY <2>0, <2>1 DEF FramesInOrder
  <2>3. ASSUME NEW j \in 1..Len(segment'), NEW k \in 1..Len(segment'), j < k
        PROVE  segment'[j].granule + FrameSize <= segment'[k].granule
    <3>0. Len(segment) \in Nat /\ Len(segment') = Len(segment) + 1
      BY <1>0, <1>3, <2>0
    <3>1. j \in 1..Len(segment) /\ segment'[j] = segment[j]
      BY <2>1, <2>3, <3>0
    <3>2. CASE k \in 1..Len(segment) /\ segment'[k] = segment[k]
      BY <2>3, <3>1, <3>2 DEF FramesInOrder
    <3>3. CASE segment'[k] = Frame
      BY <1>2, <2>0, <3>1, <3>3
    <3>. QED  BY <2>1, <3>2, <3>3
  <2>4. ASSUME NEW k \in 1..Len(segment')
        PROVE  segment'[k].granule + FrameSize <= m_granule'
    <3>1. CASE k \in 1..Len(segment) /\ segment'[k] = segment[k]
      BY <1>0, <1>2, <3>1
    <3>2. CASE segment'[k] = Frame
      BY <1>0, <2>0, <3>2
    <3>. QED  BY <2>1, <3>1, <3>2
  <2>. QED  BY <2>2, <2>3, <2>4 DEF FramesInOrder, Timestamp
<1>4. CASE segment' = segment
  <2>1. ASSUME NEW k \in 1..Len(segment)
        PROVE  segment[k].granule + FrameSize <= m_granule'
    BY <1>0, <1>2
  <2>. QED  BY <1>4, <2>1 DEF FramesInOrder, Timestamp
<1>. QED  BY <1>3, <1>4

\* The frames that have been written stay in their order.
LEMMA FramesInOrderInv == Spec => []FramesInOrder
<1>1. Init => FramesInOrder
  BY DEF Init, FramesInOrder
<1>2. IInv /\ FramesInOrder /\ [Next]_vars => FramesInOrder'
  <2>. SUFFICES ASSUME IInv, FramesInOrder, [Next]_vars PROVE FramesInOrder'
    OBVIOUS
  <2>1. CASE CutFrame
    BY <2>1, CutFrameInOrder
  <2>2. CASE segment' = segment /\ (m_done' \/ UNCHANGED <<m_granule, m_done>>)
    BY <2>2 DEF FramesInOrder, Timestamp
  <2>. QED
    BY <2>1, <2>2 DEF Next, Call, Step, Feed, Finalize, CallWhenDone, CopyIn, PadOut,
       NoFrameYet, Return, state, vars
<1>. QED  BY <1>1, <1>2, EncoderInvariant, PTL DEF Spec

\* A time stamp is exact as long as its product fits, and a sample later is a
\* nanosecond later.
LEMMA ExactTimestamp ==
    ASSUME NEW g \in Nat, g * NanoScale < TsModulus
    PROVE  Timestamp(g) = (g * NanoScale) \div Rate
<1>1. g * NanoScale \in Nat /\ TsModulus \in Nat \ {0}
  BY EncoderAssumption
<1>2. \A n, m \in Nat : n < m => n % m = n
  OBVIOUS
<1>3. (g * NanoScale) % TsModulus = g * NanoScale
  BY <1>1, <1>2
<1>. QED  BY <1>3 DEF Timestamp

\* Numbers that are at least the divisor apart have different quotients.
LEMMA QuotientsRise ==
    ASSUME NEW a \in Nat, NEW b \in Nat, NEW d \in Nat \ {0}, a + d <= b
    PROVE  a \div d < b \div d
OBVIOUS

\* Time stamps rise from frame to frame, whatever the rate, until the 64 bits
\* are used up.
THEOREM TimestampsAreOrdered == Spec => []TimestampsRise
<1>1. IInv /\ FramesInOrder => TimestampsRise
  <2>. SUFFICES ASSUME IInv, FramesInOrder,
                       NEW j \in 1..Len(segment), NEW k \in 1..Len(segment),
                       j < k, segment[k].granule * NanoScale < TsModulus
                PROVE  segment[j].ts < segment[k].ts
    BY DEF TimestampsRise
  <2>. DEFINE g == segment[j].granule
              h == segment[k].granule
  <2>1. g \in Nat /\ h \in Nat /\ g + FrameSize <= h
    BY GranuleType DEF IInv, FramesInOrder
  <2>2. segment[j].ts = Timestamp(g) /\ segment[k].ts = Timestamp(h)
    BY DEF FramesInOrder
  <2>3. h * NanoScale < TsModulus
    OBVIOUS
  <2>. HIDE DEF g, h
  <2>4. /\ NanoScale \in Nat /\ Rate \in Nat \ {0} /\ Rate <= NanoScale /\ TsModulus \in Nat
        /\ FrameSize \in Nat \ {0}
    BY EncoderAssumption, SizesPositive
  <2>5. g + 1 <= h
    BY <2>1, <2>4
  <2>6. g * NanoScale + NanoScale <= h * NanoScale
    <3>1. \A x, y, n \in Nat : x + 1 <= y => x * n + n <= y * n
      <4>. SUFFICES ASSUME NEW x \in Nat, NEW y \in Nat, NEW n \in Nat, x + 1 <= y
                    PROVE  x * n + n <= y * n
        OBVIOUS
      <4>1. y - (x + 1) \in Nat /\ y = (x + 1) + (y - (x + 1))
        OBVIOUS
      <4>2. y * n = x * n + n + (y - (x + 1)) * n /\ (y - (x + 1)) * n >= 0
        BY <4>1
      <4>. QED  BY <4>1, <4>2
    <3>. QED  BY <2>1, <2>4, <2>5, <3>1
  <2>7. g * NanoScale \in Nat /\ h * NanoScale \in Nat
    BY <2>1, <2>4
  <2>8. g * NanoScale < TsModulus /\ g * NanoScale + Rate <= h * NanoScale
    BY <2>3, <2>4, <2>6, <2>7
  <2>9. Timestamp(g) = (g * NanoScale) \div Rate /\ Timestamp(h) = (h * NanoScale) \div Rate
    BY <2>1, <2>3, <2>8, ExactTimestamp
  <2>10. (g * NanoScale) \div Rate < (h * NanoScale) \div Rate
    BY <2>4, <2>7, <2>8, QuotientsRise
  <2>. QED  BY <2>2, <2>9, <2>10
<1>. QED  BY <1>1, EncoderInvariant, FramesInOrderInv, PTL
=============================================================================

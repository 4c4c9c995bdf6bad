------------------------------- MODULE Encoder -------------------------------
(***************************************************************************)
(* EncoderImpl of http_audio_server/encoder.cpp: the float samples of      *)
(* feed() are gathered in a buffer of one Opus frame, every full frame is  *)
(* encoded and added to the WebM segment with a time stamp derived from    *)
(* m_granule, and finalize() pads and closes the segment.                  *)
(*                                                                         *)
(* encode() is modelled iteration by iteration of its do-while loop.  What *)
(* Opus and libwebm do with a frame is left out; what is kept is which     *)
(* float ends up where.  The floats that callers pass in are numbered 1,   *)
(* 2, 3, ... in the order they are passed, so the value of a buffer cell   *)
(* says which float it holds.                                              *)
(***************************************************************************)
EXTENDS Integers, Sequences

CONSTANTS
    Rate,       \* m_rate, in samples per second
    NChannels,  \* m_n_channels
    NanoScale,  \* 1000 * 1000 * 1000: time stamps are in nanoseconds
    TsModulus,  \* 2^64: the time stamp is computed in uint64_t
    MaxFeed,    \* bound: samples passed by one feed()
    MaxFed      \* bound: samples passed by all calls of feed()

FrameSize == Rate \div 25            \* m_frame_size
BufSize   == FrameSize * NChannels   \* m_buf.size()

ASSUME EncoderAssumption ==
    /\ Rate \in Nat /\ Rate >= 25
    /\ NChannels \in Nat \ {0}
    /\ NanoScale \in Nat /\ Rate <= NanoScale  \* Opus takes 48000 Hz at most
    /\ TsModulus \in Nat \ {0}
    /\ MaxFeed \in Nat
    /\ MaxFed \in Nat

Silence  == 0          \* the float that std::fill writes; no caller's float
BufIndex == 1..BufSize \* cell i is m_buf[i - 1]

VARIABLES
    m_buf,      \* the frame being gathered
    m_buf_ptr,  \* number of cells gathered so far
    m_granule,  \* position of the next frame, in samples per channel
    m_done,     \* finalize() has run
    segment,    \* the frames given to m_mkv_segment.AddFrame, in order
    rejected,   \* number of frames that opus_encode_float failed on
    closings,   \* number of calls of m_mkv_segment.Finalize
    dumped,     \* number of frames that have left m_mkv_writer for the caller
    pc,         \* where the call of encode() is; "idle" outside of a call
    pcm,        \* the argument pcm: number of floats before the one it points to
    n_samples,  \* the argument n_samples, counted down by the loop
    flush,      \* the argument flush
    fed         \* number of floats passed in by the accepted calls

vars == <<m_buf, m_buf_ptr, m_granule, m_done, segment, rejected, closings,
          dumped, pc, pcm, n_samples, flush, fed>>

state == <<m_buf, m_buf_ptr, m_granule, m_done, segment, rejected, closings, dumped>>
args  == <<pcm, n_samples, flush>>

-----------------------------------------------------------------------------
(***************************************************************************)
(* Expressions of encode().                                                *)
(***************************************************************************)

\* What-if: the room left in the buffer is not taken into account.
FloatsInUncapped == n_samples * NChannels

\* What-if: the last cell is kept free, as in a ring buffer.
FloatsInKeepsACell ==
    LET room == BufSize - 1 - m_buf_ptr
        left == n_samples * NChannels
    IN  IF room < left THEN room ELSE left

FloatsIn ==  \* n_floats_in
    LET room == BufSize - m_buf_ptr
        left == n_samples * NChannels
    IN  IF room < left THEN room ELSE left

SamplesIn(floats) == floats \div NChannels

AtEnd == flush /\ n_samples <= FrameSize  \* at_end

Copied ==  \* m_buf after std::copy
    [i \in BufIndex |-> IF i > m_buf_ptr /\ i <= m_buf_ptr + FloatsIn
                          THEN pcm + (i - m_buf_ptr)
                          ELSE m_buf[i]]

\* What-if: the rest of the buffer keeps what an earlier frame left there.
PaddedStale == Copied

Padded ==  \* m_buf after std::copy and std::fill
    [i \in BufIndex |-> IF i > m_buf_ptr THEN Silence ELSE Copied[i]]

\* What-if: the product is not computed in uint64_t but the other way round.
TimestampTruncated(granule) == (granule \div Rate) * NanoScale

Timestamp(granule) == ((granule * NanoScale) % TsModulus) \div Rate

Frame == [granule |-> m_granule, ts |-> Timestamp(m_granule), data |-> m_buf]

-----------------------------------------------------------------------------
(***************************************************************************)
(* The calls and the steps of the loop.                                    *)
(***************************************************************************)

Init ==
    /\ m_buf = [i \in BufIndex |-> Silence]
    /\ m_buf_ptr = 0
    /\ m_granule = 0
    /\ m_done = FALSE
    /\ segment = <<>>
    /\ rejected = 0
    /\ closings = 0
    /\ dumped = 0
    /\ pc = "idle"
    /\ pcm = 0
    /\ n_samples = 0
    /\ flush = FALSE
    /\ fed = 0

\* feed(): encode(pcm, n, bitrate, os, false) on an encoder that is not done.
Feed(n) ==
    /\ pc = "idle"
    /\ ~m_done
    /\ fed + n * NChannels <= MaxFed * NChannels
    /\ pc' = "copy"
    /\ pcm' = fed
    /\ n_samples' = n
    /\ flush' = FALSE
    /\ fed' = fed + n * NChannels
    /\ UNCHANGED state

\* What-if: encode() does not look at m_done first.
FinalizeUnguarded ==
    /\ pc = "idle"
    /\ pc' = "copy"
    /\ n_samples' = 0
    /\ flush' = TRUE
    /\ UNCHANGED <<state, pcm, fed>>

\* finalize(): encode(nullptr, 0, bitrate, os, true).
Finalize ==
    /\ pc = "idle"
    /\ ~m_done
    /\ pc' = "copy"
    /\ n_samples' = 0
    /\ flush' = TRUE
    /\ UNCHANGED <<state, pcm, fed>>

\* Any call on an encoder that is done returns at once.
CallWhenDone ==
    /\ pc = "idle"
    /\ m_done
    /\ UNCHANGED vars

\* The copy at the start of an iteration, when the stream goes on.
CopyIn ==
    /\ pc = "copy"
    /\ ~AtEnd
    /\ m_buf' = Copied
    /\ m_buf_ptr' = m_buf_ptr + FloatsIn
    /\ pcm' = pcm + FloatsIn
    /\ n_samples' = n_samples - SamplesIn(FloatsIn)
    /\ pc' = "emit"
    /\ UNCHANGED <<m_granule, m_done, segment, rejected, closings, dumped, flush, fed>>

\* The copy at the start of the last iteration of a flush.
PadOut ==
    /\ pc = "copy"
    /\ AtEnd
    /\ m_buf' = Padded
    /\ m_buf_ptr' = BufSize
    /\ n_samples' = 0
    /\ pc' = "emit"
    /\ UNCHANGED <<m_granule, m_done, segment, rejected, closings, dumped, pcm, flush, fed>>

LoopOrLeave == pc' = IF n_samples > 0 THEN "copy" ELSE "return"

\* What-if: the granule only counts the frames that made it into the segment.
CutFrameGranuleOnSuccess ==
    /\ pc = "emit"
    /\ m_buf_ptr = BufSize
    /\ \/ /\ segment' = Append(segment, Frame)
          /\ m_granule' = m_granule + FrameSize
          /\ UNCHANGED rejected
       \/ /\ rejected' = rejected + 1
          /\ UNCHANGED <<segment, m_granule>>
    /\ m_buf_ptr' = 0
    /\ LoopOrLeave
    /\ UNCHANGED <<m_buf, m_done, closings, dumped, args, fed>>

\* A full buffer is encoded; opus_encode_float may fail (size <= 0).
CutFrame ==
    /\ pc = "emit"
    /\ m_buf_ptr = BufSize
    /\ \/ segment' = Append(segment, Frame) /\ UNCHANGED rejected
       \/ rejected' = rejected + 1 /\ UNCHANGED segment
    /\ m_buf_ptr' = 0
    /\ m_granule' = m_granule + FrameSize
    /\ LoopOrLeave
    /\ UNCHANGED <<m_buf, m_done, closings, dumped, args, fed>>

NoFrameYet ==
    /\ pc = "emit"
    /\ m_buf_ptr # BufSize
    /\ LoopOrLeave
    /\ UNCHANGED <<state, args, fed>>

\* What-if: only feed() hands over what the writer has buffered.
ReturnWithoutDump ==
    /\ pc = "return"
    /\ \/ /\ flush
          /\ closings' = closings + 1
          /\ m_granule' = 0
          /\ m_done' = TRUE
          /\ UNCHANGED dumped
       \/ /\ ~flush
          /\ dumped' = Len(segment)
          /\ UNCHANGED <<closings, m_granule, m_done>>
    /\ pc' = "idle"
    /\ UNCHANGED <<m_buf, m_buf_ptr, segment, rejected, args, fed>>

\* The end of encode(): a flush closes the segment, the writer is emptied.
Return ==
    /\ pc = "return"
    /\ \/ /\ flush
          /\ closings' = closings + 1
          /\ m_granule' = 0
          /\ m_done' = TRUE
       \/ /\ ~flush
          /\ UNCHANGED <<closings, m_granule, m_done>>
    /\ dumped' = Len(segment)
    /\ pc' = "idle"
    /\ UNCHANGED <<m_buf, m_buf_ptr, segment, rejected, args, fed>>

Call == (\E n \in 0..MaxFeed : Feed(n)) \/ Finalize \/ CallWhenDone
Step == CopyIn \/ PadOut \/ CutFrame \/ NoFrameYet \/ Return
Next == Call \/ Step

\* A call that has begun runs to its end: encode() does not block.
Spec == Init /\ [][Next]_vars /\ WF_vars(Step)

-----------------------------------------------------------------------------
(***************************************************************************)
(* Properties.                                                             *)
(***************************************************************************)

FrameRecord == [granule : Nat, ts : Nat, data : [BufIndex -> Nat]]

TypeOK ==
    /\ m_buf \in [BufIndex -> Nat]
    /\ m_buf_ptr \in 0..BufSize
    /\ m_granule \in Nat
    /\ m_done \in BOOLEAN
    /\ segment \in Seq(FrameRecord)
    /\ rejected \in Nat
    /\ closings \in Nat
    /\ dumped \in Nat
    /\ pc \in {"idle", "copy", "emit", "return"}
    /\ pcm \in Nat
    /\ n_samples \in Nat
    /\ flush \in BOOLEAN
    /\ fed \in Nat

\* The float that belongs to a position of the stream: the one fed there, or
\* silence past the end.
FloatAt(position) == IF position <= fed THEN position ELSE Silence

\* Cell i of a frame holds the float that belongs to position i of the
\* frame: no float is skipped, repeated, taken from an earlier frame, or
\* replaced by silence, and a frame that Opus rejected leaves a hole of
\* exactly its own length.  (The buffer is reused without being cleared.)
FramesFollowTheInput ==
    \A k \in 1..Len(segment) : \A i \in BufIndex :
        segment[k].data[i] = FloatAt(segment[k].granule * NChannels + i)

\* Between two calls every float fed is either in a frame that was cut or
\* waiting in the buffer, less than one frame is waiting, and what the writer
\* held has been handed to the caller.  Stream relies on it: its sample
\* counter is the position of the next float to be fed.
NothingLeftBehind ==
    pc = "idle" =>
        /\ dumped = Len(segment)
        /\ ~m_done => /\ m_granule * NChannels + m_buf_ptr = fed
                      /\ m_buf_ptr < BufSize
                      /\ m_granule = (Len(segment) + rejected) * FrameSize

\* finalize() cuts exactly one more frame, whether a part of one was waiting
\* or not: a stream that ends on a frame boundary gains a frame of silence.
OneFrameOfPadding ==
    m_done => Len(segment) + rejected = (fed \div BufSize) + 1

\* The segment is closed once, and no frame is added to it afterwards,
\* however often the stream is advanced after its end.
ClosedForGood == [][closings > 0 => UNCHANGED <<segment, rejected, closings>>]_vars

\* Time stamps rise from frame to frame until the product that they are
\* computed from leaves 64 bits (after 106 hours of audio at 48 kHz).
TimestampsRise ==
    \A j, k \in 1..Len(segment) :
        j < k /\ segment[k].granule * NanoScale < TsModulus
            => segment[j].ts < segment[k].ts

\* Every call returns: the loop counts n_samples down to zero.
CallsReturn == (pc # "idle") ~> (pc = "idle")
=============================================================================

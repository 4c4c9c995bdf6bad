-------------------------------- MODULE Stream --------------------------------
(***************************************************************************)
(* Class Stream of http_audio_server/main.cpp: a playlist of files, played *)
(* one after the other through one encoder.  append() is atomic; advance() *)
(* is modelled iteration by iteration of its while loop, because an        *)
(* exception thrown inside of the loop leaves what the members have become *)
(* so far and loses what the local variables hold.                         *)
(*                                                                         *)
(* A file is the number of samples that ffmpeg makes of it; 0 stands for a *)
(* file that does not exist or cannot be decoded.  The encoder is taken at *)
(* its contract, which module Encoder shows as long as Opus rejects no     *)
(* frame: whole frames go out in order, less than a frame is held back,    *)
(* finalize() pads that to a frame, and after it nothing goes in or out.   *)
(* (A frame that Opus rejects is missing from the audio.)                  *)
(***************************************************************************)
EXTENDS Integers, Sequences, FiniteSets

CONSTANTS
    SampleBytes,   \* 2 * sizeof(float)
    ChunkSamples,  \* samples asked for by advance(5.0): 5 * 48000
    FrameSamples,  \* samples in a frame of the encoder
    Lengths,       \* the lengths a file can have, in samples
    MaxEntries,    \* bound: calls of append()
    Failures,      \* which of "decoder" and "probe" can throw
    MaxFailures    \* bound: exceptions thrown

ASSUME StreamAssumption ==
    /\ SampleBytes \in Nat \ {0}
    /\ ChunkSamples \in Nat \ {0}
    /\ FrameSamples \in 1..ChunkSamples
    /\ Lengths \subseteq Nat
    /\ MaxEntries \in Nat
    /\ Failures \subseteq {"decoder", "probe"}
    /\ MaxFailures \in Nat

VARIABLES
    m_decoders,   \* the playlist: entries with their decoder
    m_n_samples,  \* samples read from decoders so far
    held,         \* m_encoder: samples that do not fill a frame yet
    fed,          \* m_encoder: samples taken in so far
    done,         \* m_encoder: finalize() has run
    pc,           \* "loop" inside of advance(), else "idle"
    n_bytes,      \* local: bytes still to be read
    metadata,     \* local: entries announced by this call
    os_buf_data,  \* local: samples in the frames encoded by this call
    appended,     \* the lengths of all the files ever appended
    delivered,    \* the samples in all the responses so far
    announced,    \* the announcements in all the responses so far
    failures      \* number of calls of advance() that threw

vars == <<m_decoders, m_n_samples, held, fed, done, pc, n_bytes, metadata,
          os_buf_data, appended, delivered, announced, failures>>

encoder == <<held, fed, done>>
results == <<delivered, announced>>

-----------------------------------------------------------------------------
(***************************************************************************)
(* Samples and the encoder's contract.                                     *)
(***************************************************************************)

\* Sample k of entry id, at a position of the stream (counted from 0).
Sample(id, k, position) == [id |-> id, k |-> k, at |-> position]

\* What pads the last frame.
Silence(position) == Sample(0, 0, position)

\* What-if: every chunk is read from a decoder of its own.
SamplesFromStart(id, from, n) == [i \in 1..n |-> Sample(id, i, fed + i - 1)]

\* The next n samples of an entry of which `from` have been read.
Samples(id, from, n) == [i \in 1..n |-> Sample(id, from + i, fed + i - 1)]

\* How many of n samples fill whole frames.
InFrames(n) == (n \div FrameSamples) * FrameSamples

Padding == [i \in 1..(FrameSamples - Len(held)) |-> Silence(fed + i - 1)]

\* What-if: what does not fill a frame is not kept for the next call.
FeedEncoderDropsRest(samples) ==
    /\ os_buf_data' = os_buf_data \o SubSeq(samples, 1, InFrames(Len(samples)))
    /\ fed' = fed + Len(samples)
    /\ UNCHANGED <<held, done>>

\* m_encoder.feed(): an encoder that is done swallows the samples.
FeedEncoder(samples) ==
    IF done
      THEN UNCHANGED <<encoder, os_buf_data>>
      ELSE LET all  == held \o samples
               full == InFrames(Len(all))
           IN  /\ os_buf_data' = os_buf_data \o SubSeq(all, 1, full)
               /\ held' = SubSeq(all, full + 1, Len(all))
               /\ fed' = fed + Len(samples)
               /\ UNCHANGED done

-----------------------------------------------------------------------------
(***************************************************************************)
(* The calls.                                                              *)
(***************************************************************************)

Init ==
    /\ m_decoders = <<>>
    /\ m_n_samples = 0
    /\ held = <<>> /\ fed = 0 /\ done = FALSE
    /\ pc = "idle" /\ n_bytes = 0 /\ metadata = <<>> /\ os_buf_data = <<>>
    /\ appended = <<>>
    /\ delivered = <<>> /\ announced = <<>>
    /\ failures = 0

\* append(): the decoder is not created before it is needed.
AppendFile(length) ==
    /\ pc = "idle"
    /\ Len(appended) < MaxEntries
    /\ appended' = Append(appended, length)
    /\ m_decoders' = Append(m_decoders,
                        [id |-> Len(appended) + 1, open |-> FALSE, read |-> 0])
    /\ UNCHANGED <<m_n_samples, encoder, pc, n_bytes, metadata, os_buf_data, results, failures>>

AdvanceBegin ==
    /\ pc = "idle"
    /\ pc' = "loop"
    /\ n_bytes' = ChunkSamples * SampleBytes
    /\ UNCHANGED <<m_decoders, m_n_samples, encoder, metadata, os_buf_data, appended,
                   results, failures>>

\* What-if: the loop stops before the last sample.
LoopGuardShort == n_bytes > SampleBytes /\ m_decoders # <<>>

LoopGuard == n_bytes > 0 /\ m_decoders # <<>>

\* What-if: an entry is taken to start with the chunk in which it is opened.
AnnouncementAtChunk ==
    [id |-> Head(m_decoders).id, start |-> (m_n_samples \div ChunkSamples) * ChunkSamples]

Announcement == [id |-> Head(m_decoders).id, start |-> m_n_samples]

\* An exception leaves advance(): its local variables are gone.
Throw(kind) ==
    /\ kind \in Failures
    /\ failures < MaxFailures
    /\ failures' = failures + 1
    /\ pc' = "idle" /\ n_bytes' = 0 /\ metadata' = <<>> /\ os_buf_data' = <<>>

\* What-if: an announcement replaces the one before it.
OpenDecoderKeepsOne ==
    /\ pc = "loop"
    /\ LoopGuard
    /\ ~Head(m_decoders).open
    /\ m_decoders' = [m_decoders EXCEPT ![1].open = TRUE]
    /\ metadata' = <<Announcement>>
    /\ UNCHANGED <<m_n_samples, encoder, pc, n_bytes, os_buf_data, appended, results, failures>>

\* The front entry is opened and announced.  Without a pipe or a process for
\* its decoder the entry stays as it was; when metadata_from_file() throws the
\* decoder has been stored already.
OpenDecoder ==
    /\ pc = "loop"
    /\ LoopGuard
    /\ ~Head(m_decoders).open
    /\ \/ /\ m_decoders' = [m_decoders EXCEPT ![1].open = TRUE]
          /\ metadata' = Append(metadata, Announcement)
          /\ UNCHANGED <<pc, n_bytes, os_buf_data, failures>>
       \/ Throw("decoder") /\ UNCHANGED m_decoders
       \/ Throw("probe") /\ m_decoders' = [m_decoders EXCEPT ![1].open = TRUE]
    /\ UNCHANGED <<m_n_samples, encoder, appended, results>>

\* What-if: a file is read to its end at once.
BytesReadAll == appended[Head(m_decoders).id] * SampleBytes - Head(m_decoders).read

\* Bytes returned by dec->read(n_bytes, m_buf), short only at the end of file.
BytesRead ==
    LET left == appended[Head(m_decoders).id] * SampleBytes - Head(m_decoders).read
    IN  IF left < n_bytes THEN left ELSE n_bytes

\* What-if: n_bytes is not decremented before it is compared with.
IsShortOrFull(got) == got <= n_bytes

\* What-if: it is the number of bytes still missing that is compared.
IsShortNever(got) == n_bytes - got < 0

\* m_buf.size() < n_bytes, where n_bytes has been decremented already.
IsShort(got) == got < n_bytes - got

\* An iteration on an open decoder: read, feed, and remove it at its end.
ReadAndFeed ==
    /\ pc = "loop"
    /\ LoopGuard
    /\ Head(m_decoders).open
    /\ LET entry == Head(m_decoders)
           got   == BytesRead
           n     == got \div SampleBytes
       IN  /\ n_bytes' = n_bytes - got
           /\ FeedEncoder(Samples(entry.id, entry.read \div SampleBytes, n))
           /\ m_n_samples' = m_n_samples + n
           /\ m_decoders' = IF IsShort(got)
                              THEN Tail(m_decoders)
                              ELSE [m_decoders EXCEPT ![1].read = @ + got]
    /\ UNCHANGED <<pc, metadata, appended, results, failures>>

\* What-if: a call that read nothing does not finalize.
FinalizesIfRead == m_decoders = <<>> /\ n_bytes < ChunkSamples * SampleBytes

Finalizes == m_decoders = <<>>

\* The end of advance(): a stream that has run dry is finalized, then the
\* announcements and the encoded data go out.
Respond ==
    /\ pc = "loop"
    /\ ~LoopGuard
    /\ IF Finalizes /\ ~done
         THEN /\ delivered' = delivered \o os_buf_data \o held \o Padding
              /\ held' = <<>>
              /\ done' = TRUE
         ELSE /\ delivered' = delivered \o os_buf_data
              /\ UNCHANGED <<held, done>>
    /\ announced' = announced \o metadata
    /\ pc' = "idle" /\ n_bytes' = 0 /\ metadata' = <<>> /\ os_buf_data' = <<>>
    /\ UNCHANGED <<m_decoders, m_n_samples, fed, appended, failures>>

Step == OpenDecoder \/ ReadAndFeed \/ Respond
Call == (\E length \in Lengths : AppendFile(length)) \/ AdvanceBegin
Next == Call \/ Step

Spec == Init /\ [][Next]_vars

\* advance() runs to its end, and the listener keeps asking for more.
FairSpec == Spec /\ WF_vars(Step) /\ WF_vars(AdvanceBegin)

-----------------------------------------------------------------------------
(***************************************************************************)
(* Properties.                                                             *)
(***************************************************************************)

SampleRecord == [id : Nat, k : Nat, at : Nat]
EntryRecord  == [id : Nat \ {0}, open : BOOLEAN, read : Nat]
AnnouncementRecord == [id : Nat \ {0}, start : Nat]

TypeOK ==
    /\ m_decoders \in Seq(EntryRecord)
    /\ m_n_samples \in Nat
    /\ held \in Seq(SampleRecord) /\ Len(held) < FrameSamples
    /\ fed \in Nat /\ done \in BOOLEAN
    /\ pc \in {"idle", "loop"} /\ n_bytes \in Nat
    /\ metadata \in Seq(AnnouncementRecord)
    /\ os_buf_data \in Seq(SampleRecord)
    /\ appended \in Seq(Lengths)
    /\ delivered \in Seq(SampleRecord)
    /\ announced \in Seq(AnnouncementRecord)
    /\ failures \in Nat

\* Until it ends, and unless a call fails, the k-th response brings the stream
\* to k * 5 seconds: a chunk that begins in one file is filled up from the next
\* ones.  The browser counts on it (it adds 5 s to what it has buffered for
\* every response).
WholeChunks == pc = "idle" /\ ~done /\ failures = 0 => m_n_samples % ChunkSamples = 0

\* Unless a call fails (and takes its announcements along) no audio goes out
\* without the announcement of its file; and files are announced in order, none
\* twice, also when a failed call is repeated.
AudioIsAnnounced ==
    /\ failures = 0 =>
           \A i \in 1..Len(delivered) :
               delivered[i].id # 0 =>
                   \E j \in 1..Len(announced) : announced[j].id = delivered[i].id
    /\ \A i, j \in 1..Len(announced) : i < j => announced[i].id < announced[j].id

\* An entry is announced for the position at which the listener hears its
\* first sample, whatever was lost before it: two counters agree, m_n_samples
\* here and the granule of the encoder.
AnnouncedWhereHeard ==
    \A i \in 1..Len(delivered) : \A j \in 1..Len(announced) :
        delivered[i].k = 1 /\ delivered[i].id = announced[j].id
            => announced[j].start = delivered[i].at

\* What a call that throws can lose: its own chunk and the part of a frame that
\* was waiting.
MaxLoss == ChunkSamples + FrameSamples - 1

\* An empty data segment goes out only when the stream had ended before: it is
\* how the browser learns of the end.
EmptyMeansEnded ==
    [][pc = "loop" /\ pc' = "idle" /\ delivered' = delivered /\ failures' = failures
           => done]_vars

\* A file appended before the end is heard from its first to its last sample,
\* but for what failing calls lose.
HeardOf(id) == {delivered[i].k : i \in {j \in 1..Len(delivered) : delivered[j].id = id}}

AppendedIsHeard ==
    \A id \in 1..MaxEntries :
        (id <= Len(appended) /\ ~done)
            ~> (/\ id <= Len(appended)
                /\ Cardinality(1..appended[id] \ HeardOf(id)) <= failures * MaxLoss)

\* README.md promises "gapless playback": the samples in the responses follow
\* one another.
Gapless ==
    \A i \in 1..(Len(delivered) - 1) : delivered[i + 1].at = delivered[i].at + 1
=============================================================================

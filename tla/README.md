# A verification of http_audio_server

`http_audio_server` streams the files of a playlist as Opus in WebM to a web
page.  This directory holds TLA+ modules that model the program, TLC
configurations that check them on small instances, and proofs that TLAPS checks
for every value of the constants.  `PROJECT.json` lists the components, the runs,
the mutants that show what each property would catch, the map from definitions to
source lines, and the hazards the properties are for.

Contents: [1 the system](#1-the-system) - [2 the plan](#2-the-plan) -
[3 the modules](#3-the-modules) - [4 the runs](#4-the-runs) -
[5 fairness](#5-fairness) - [6 the proofs](#6-the-proofs) -
[7 findings](#7-findings) - [8 what is not modelled](#8-what-is-not-modelled)

## 1 The system

Source paths are relative to `src/http_audio_server/` unless they say otherwise.

    page (static/index.html)
      | POST stream/create, stream/<id>/append, .../advance, .../destroy
      v
    mongoose -> event_handler (server.cpp) -> handler (main.cpp) -> Response (server.cpp)
                                                 |                     ^
                                                 v                     | meta + data segments
                                              Stream (main.cpp) -------+
                                               |        |     \
                        Decoder (decoder.cpp) <+        |      +-> Encoder (encoder.cpp) -> libopus, libwebm
                               |                        v
                               |              metadata_from_file (metadata.cpp)
                               v                        v
                       Process (process.cpp)  Process::exec (process.cpp)
                               |                        |
                            ffmpeg                   ffprobe

| Component | State | Operations | What is hard | What makes it correct |
|---|---|---|---|---|
| Encoder | `m_buf`, `m_buf_ptr`, `m_granule`, `m_done`, the segment and the writer of libwebm | `feed`, `finalize`: `encode()` copies, cuts frames of 40 ms, pads, closes | the buffer is reused and not cleared; Opus can reject a frame; the server finalizes an ended stream again and again; 64-bit time stamps | every float lands at its place in the stream; nothing is kept back; one frame of padding; closed once |
| Stream | `m_decoders` (playlist), `m_n_samples`, `m_encoder`, the local variables of `advance` | `append`, `advance` | a chunk spans files, a file spans chunks; the end of a file is a short read; `advance` can be left by an exception half way | the listener hears the files in order without a gap, files are announced where they are heard, the end is signalled when it is the end |
| Decoder | a `Process`, a thread that collects messages, the state of `child_stdout()` | constructor, `read`, `wait`, destructor | the destructor meets a child that prints, is blocked, has died, has not run `execvp` yet | short reads mean the end; the destructor returns and leaves nothing |
| Process | `m_pid`, `m_exitcode`, three pipes | constructor, `wait`, `running`, `signal`, `exec`, `generic_pipe`, `generic_writer` | three threads and a child around three bounded pipes; `waitpid` works once; `kill(0, ...)` | no deadlock, all output, the child's own exit code |
| HTTP response | `m_header_sent`, the put area of `ChunkedHTTPResponseBuf` | `header`, `ok`, `error`, `stream`, `overflow`, `sync`, destructor | an empty chunk means the end; a full buffer; a handler that throws before or after its header | one header, all the bytes, one end |
| HTTP dispatch, registry | `m_request_map`, the `streams` map | `event_handler`, the five handlers | requests in portions, two at once, cut off by the end of a connection; identifiers that collide; handlers that throw | requests take effect in order, once, as a whole, on the stream they name; answers come in the same order |
| mongoose, as it is used (`src/lib/mongoose.c`) | the list of connections, `recv_mbuf`, `send_mbuf`, `flags` | `mg_mgr_poll`, `mg_mgr_free`, `mg_http_handler` | one pass reads and writes, a second one closes; a closed connection still calls handlers | every request is answered as long as the client listens; clients that are gone are closed |
| Main loop | `cancel` | start-up checks, `poll(1000)`, SIGINT, destruction | the signal arrives anywhere; the server is destroyed before the streams | after SIGINT the program ends, and no handler meets destroyed streams |
| Metadata | none | `metadata_from_file` | tags that are no numbers throw; matching keys are consumed | the fields come from the tags that name them; nothing but a number that is none throws |
| Logger | `m_backends`, `m_counts`, a mutex | `log`, `add_backend`, `min_level`, `count` | accessors without the lock | counts and levels agree with what was logged |
| Browser client (`src/static/index.html`) | the chain of `add_first()`, `buffer_ts`, the source buffer, `metadata` | Add, Play, `next_chunk`, `check_next_chunk`, `update_info` | requests and answers cross or get lost; `appendBuffer` is asynchronous and throws when busy; the end is an overlooked empty segment; a second click on Play | order, every chunk once, a bounded buffer, the right title, playing to the end |

All requests are handled on one thread.  Concurrency is in the child processes,
in the threads that collect their output, and in the browser.  Nothing is
persisted, so there is no crash recovery.

Terminal, the logger and the JSON library are listed in `PROJECT.json` with the
reason why they have no module.

## 2 The plan

The order follows the audio: first what decides which sample is heard when, then
the processes it comes from, then the way to the listener.

Done:

1. `Encoder` with the theorems in `EncoderProofs`.
2. `Playback`, the promise to the listener; `Stream`, which uses the encoder at
   the contract that 1 shows; `StreamPlayback`, the refinement between them.
3. `Process`, the child and its pipes, and on top of it `Decoder`, at whose
   contract Stream reads files, and `ProcessExec`.
4. `Response`, from `stream()` to the wire.
5. `Player` with `PlayerMC`, the page, which uses the server at the contract that
   2 shows, with requests that get lost and a second Play.
6. `Service`, what the server promises to all its clients; `Server` with `ServerMC`,
   from the sockets to the streams and back, which implements it.
7. `Metadata` with `MetadataMC`, on top of `ProcessExec`.

8. `ProcessProofs`, the lemmas on a child and its collecting threads, and on top of them
   `DecoderProofs` and `MetadataProofs`.
9. `StreamProofs`: the invariants of Stream, and that it implements Playback.
10. `ResponseProofs` and `PlayerProofs`: what arrives, and what is heard.
11. `ServerProofs`: the types, and that the server implements Service.

To do in the model, if the questions come up: failures of `pipe2`, `fork` and of
thread creation with counted descriptors; a page that creates a second stream while
it plays the first.

## 3 The modules

Definitions have the names of the code.  Operators whose comment begins with
`What-if:` are faulty variants of the definition below them; they belong to no
specification and serve to show that the properties notice such a fault.  A module with
the suffix `Proofs` holds the theorems about the module it is named after (section 6);
recursion (`LookUps`, `Units`, `Bytes`) is written as recursive functions,
about which TLAPS can reason.

**Encoder** (`encoder.cpp:120-182`).  The floats passed to `feed` are numbered in
the order in which they are passed, so a cell of `m_buf` says whose float it holds.
One action per step of the do-while loop: `CopyIn` or `PadOut` (lines 138-156),
`CutFrame` or `NoFrameYet` (158-170), `Return` (174-182).  `opus_encode_float` may
fail for any frame.  `Timestamp` keeps the `uint64_t` product with its modulus.

**Stream** (`main.cpp:48-131`).  `AppendFile` is `append`, `AdvanceBegin` the call of
`advance(5.0)`, then one action per half of an iteration, `OpenDecoder` (84-96) and
`ReadAndFeed` (98-112), and `Respond` (113-130).  An exception is a disjunct of
`OpenDecoder`; it keeps the members as they have become and loses the local
variables.  A sample is a record of its entry, its number in the file and its
position in the stream, which makes gaps, repetitions and shifts visible.  The
encoder appears as `held`, `fed` and `done`: whole frames go out, the rest is held,
`finalize` pads it.  That this is what the encoder does is FramesFollowTheInput,
NothingLeftBehind, OneFrameOfPadding and ClosedForGood of `Encoder`, as long as Opus
rejects no frame: a rejected one is missing from the audio, which `Encoder` models and
`Stream` does not.  That a read is short only at the end of the file is ShortReadMeansEof
of `Decoder`.

**Playback** says what a listener is promised: the files of the playlist in order,
in portions of any size, an end when all of it has been played, and nothing left out
but a bounded piece in a call that fails.  **StreamPlayback** maps `delivered`, without
the padding, to `heard` (`Heard` keeps as many samples of the front as are no padding:
that those are the same ones is part of the proof), what has left the encoder and the call to `position`, `done` to
`ended` and `failures` to `errors`.

**Process** (`process.cpp:45-190, 221-243`).  The child is any program that prints up
to `MaxOutput` bytes on each descriptor in any order, blocks on a full pipe and ends
by itself or after a SIGINT; bytes are counted.  It begins as the copy of the server
that `fork` makes: a SIGINT before `execvp` is handled by the server's own handler,
which is lost the first time and ends the child when `cancel` is set already (`main.cpp:39-46`,
`ServerHandler`), one between `execvp` and ffmpeg's own handlers kills, a later one is
noticed outside of `write()`.  `Reap`, `AlreadyReaped` and `WaitThrows` are the
outcomes of `update_status(true)`; `Collect` and `CollectEnd` are a thread that runs
`generic_pipe`.  **Decoder** (`decoder.cpp:108-157`) adds the thread of the server:
`read` in steps, `wait` as a loop of reads between `Signal` and `WaitReturn`, and the
destructor as wait, `Join`, and the wait of `~ProcessImpl`.  **ProcessExec**
(`process.cpp:215-261`) adds the thread that writes the input and the caller of `exec`.

**Metadata** (`metadata.cpp:44-134`) adds to ProcessExec what `metadata_from_file` does when
`exec` returns.  The callers of `exec` are `metadata_from_file` and others, such as the
checks at the beginning of `main`.  A document is a function from keys to values, which
is what `flaten` makes of the output; it is chosen when it is parsed, so that the run
meets every document over `Keys` and `Values`.  `LookUp` is `get_json` with the conversion
around it, and takes the key out of the map; `Truncated` is the conversion to int, toward
zero.  The outcome "thrown" is the exception
`Throw("probe")` of Stream.  **MetadataMC** has a string, an int and a double field.

**Response** (`server.cpp:33-118, 137-177`).  What goes over the wire for a request
is a sequence of headers (-1) and chunk sizes.  `Put` is a character into the stream
with `overflow`, `Flush` is `sync`, `Destroy` the destructor.  `Kinds` are the ways the
handlers of `main.cpp` use a response, the two that throw included: before the
header (`append` with a body that is no JSON) and after it (`advance`).  `ErrorReply` is
what an error sends, of any size: the 404 repeats the client's URI and can fill the
buffer several times.

**Server** (`main.cpp:133-224`, `server.cpp:137-177`, `src/lib/mongoose.c`) puts the registry
and the handlers on top of the event loop.  A client sends a request as a head and
perhaps a body (`Ask`, `SendBody`), TCP delivers them in portions (`to_server`), and
`HttpReceive` handles the first request in the buffer when it is complete; `HttpClose`
handles what is left there when the connection is closed.  `mg_mgr_poll` is `Select`,
then per connection `ReadData` or `ReadEnd` and `WriteData` or `WriteFails`, `Accept` for
the listener, then `Sweep` for each connection to be closed, then `EndPoll`.  A pass over
the list is the set `todo` of the connections it has still to visit; `Visit` takes the
first of them in the list, as the code follows the `next` pointers, and `CloseConn` closes
the connection at a place in the list.  A handler
is one step with the outcomes that `Outcomes` gives: what is in an answer is Response,
what is in a stream is Stream, and both are numbers here.  An `advance()` that throws is
answered with one 500 here; that the header of a 200 has gone out before it, and what this
does to the client, is HeaderSentOnce and AnswerIsFramed of Response.  `Signal` may come between
any two steps; after it one more poll, `FreeConn` for each connection, and
`DestroyStreams`.  **Service** is the abstract view: requests of a client are served in
order, at most once, as a whole; the next one may be lost or refused when the
connection ends.  **ServerMC** has a page that waits for its answers and a script that
does not.

**Player** (`src/static/index.html:131-298`, `main.cpp:77-131, 168-196`).  Adding: a chain of
`PostNext`, one line per answer.  Playing: `ClickPlay`, then for the loop of every click
`ServerAdvance`, one of `HandleData`, `HandleThrows` (the source buffer is still updating,
or belongs to an earlier click) and `HandleEnd`, and `Timer` for `check_next_chunk`.
The server reads the playlist (`taken`, the `m_n_samples` of Stream) and sends it (`sent`);
after the end it sends no audio, but still opens and announces what is appended, and the
page queues these titles as well (`HandleEnd`).
`UpdateInfo` is a tick of `update_info`, which moves a title from the queue to the page.
`AddLost` and `AdvanceLost` are requests without a proper answer, for which the page has
no handler.  The browser's own part, `UpdateEnd` and `Listen`, is external.  Audio is
counted in units, `ChunkUnits` of which make five seconds.  **PlayerMC** gives the files
their lengths.

## 4 The runs

| Run | Configuration | Distinct states | What it shows |
|---|---|---|---|
| `encoder` | `Encoder.cfg` | 1269 | FramesFollowTheInput, NothingLeftBehind, OneFrameOfPadding, TimestampsRise, ClosedForGood, CallsReturn: all calls of `feed` with 0 to 7 samples, rejected frames, `finalize` at any moment |
| `stream` | `StreamPlayback.cfg` | 78463 | PlaysTheProgramme (the refinement), WholeChunks, AudioIsAnnounced, AnnouncedWhereHeard, EmptyMeansEnded, AppendedIsHeard, with up to two exceptions anywhere |
| `decoder` | `Decoder.cfg` | 119214 | ShortReadMeansEof, NothingLeft, StaysAlive, SignalsReachTheChild, Teardown |
| `probe` | `Metadata.cfg` | 27064 | OutputComplete, ResultIsTheChilds, ExecReturns; TagsAreFound, ThrowsForNumbersOnly |
| `response` | `Response.cfg` | 8211 | AnswerIsFramed: the answer is framed exactly if the handler does not throw after its header; BodyArrives for every kind of handler |
| `server` | `Server.cfg` | 331724 | Served (the refinement), Answered, HangUpIsNoticed, SigintStops |
| `player` | `Player.cfg` | 722926 | PlaylistInOrder, ChunksInOrder, BufferBounded, TitleIsHeard, PlaysToTheEnd |
| `stream_gap`, `decoder_wait`, `response_end`, `response_header`, `player_late_add` | | | a violation each, see section 7 |

Each passing run also checks the TypeOK of its module.

Bounds, and why they are enough:

- `encoder`: a rate of 75 makes frames of 3 samples and 2 channels give a buffer of 6
  floats, so that `feed` with up to 7 samples ends before, on and after a frame boundary
  and covers two boundaries in one call; 13 samples make four frames and a part.
  `TsModulus = 1024` lets the time stamps wrap within them.
- `stream`: a chunk of 3 samples, a frame of 2, a sample of 2 bytes; files of 0, 1, 2, 3
  and 5 samples are empty, shorter than, equal to and longer than a chunk, and the
  comparison of line 108 falls on both sides of one half.  Three files bring two
  boundaries into one chunk.  Two exceptions of either kind can hit the same call
  again when it is repeated, or two calls.
- `decoder`, `probe`: pipes of one or two bytes fill up in every order; up to three bytes
  per descriptor exceed a pipe; `ReadSizes` are below, at and above what there is.
- `response`: a buffer of 3 bytes and bodies up to 12 cross the spare cell three times;
  an error message takes a full buffer with its spare cell and a part of one.
- `probe`: the key that is written in two ways meets both orders of the map; each type of
  a field meets each type of a value.
- `server`: one identifier, so that every two streams collide; a client with a head and a
  body outstanding, one with two requests under way at once, requests without a length
  and garbage; with two connections one pass over the list can accept one, read from and
  write to the other.  More clients would only repeat this, since a handler is one step.
- `player`: files of 3, 0 and 3 units with chunks of 2 begin and end inside of a chunk,
  one of them plays nothing, and the last chunk is empty; they make more than the source buffer
  may hold; two clicks on either button, one request that is lost.  Files are appended
  before, during and after the end of the stream.

Deadlock is checked everywhere but in the runs of Player and Server, where nothing is
left to happen once everything has been heard, or once the program has ended.  The destroyed decoder and the returned `exec`
have explicit stuttering steps (`Gone`, `Returned`), so that a real deadlock is seen.

## 5 Fairness

- `Encoder`: weak fairness of the steps inside of a call.  The code between
  two steps does not block.
- `Stream`: the same, and of `AdvanceBegin`: a listener asks for the next chunk as long
  as the page plays (what the page does for it is Player).
- `Decoder`, `Metadata` (`ExecFairness`): weak fairness of each thread and of the child, which the
  operating system schedules.  The child eventually does what it is able to: a write
  is not started in vain, a child that has noticed a SIGINT ends.  Callers need not call.
- `Server`: weak fairness of the thread of the server as a whole: it goes on as long as
  it has something to do.  That no connection starves is then a result, not an
  assumption.  Clients need not do anything.
- `Player`: requests are answered unless they get lost, timers run, the source buffer
  finishes its updates and the audio plays on.  Nobody has to click.

## 6 The proofs

Every safety invariant, every action property and both refinements that the runs check
on a small instance are theorems: they hold for every value of the constants that the
`...Assumption` of the module admits.

| Module | Theorem | States |
|---|---|---|
| `EncoderProofs` | `EncoderInvariant` | `IInv` |
| | `EncoderTypeCorrect` | `TypeOK` |
| | `EncoderIsFaithful` | `FramesFollowTheInput` |
| | `EncoderKeepsNothingBack` | `NothingLeftBehind` |
| | `EncoderPadsOnce` | `OneFrameOfPadding` |
| | `EncoderClosesOnce` | `ClosedForGood` (an action property) |
| | `TimestampsAreOrdered` | `TimestampsRise` |
| `StreamProofs` | `StreamInvariant`, `StreamTypeCorrect` | `IInv`, `TypeOK` |
| | `ChunksAreWhole` | `WholeChunks` |
| | `NothingUnannounced` | `AudioIsAnnounced` |
| | `AnnouncedPosition` | `AnnouncedWhereHeard` |
| | `EmptyIsTheEnd` | `EmptyMeansEnded` (an action property) |
| | `StreamPlaysTheProgramme` | `PlaysTheProgramme`: Stream implements Playback |
| `DecoderProofs` | `DecoderInvariant`, `DecoderTypeCorrect` | `IInv`, `TypeOK` |
| | `ShortReadIsTheEnd` | `ShortReadMeansEof` |
| | `DecoderLeavesNothing` | `NothingLeft` |
| | `DecoderStaysAlive` | `StaysAlive` |
| | `SignalsAreAimed` | `SignalsReachTheChild` |
| `MetadataProofs` | `MetadataInvariant`, `MetadataTypeCorrect` | `IInv`, `TypeOK` |
| | `ExecReturnsAll` | `OutputComplete` |
| | `ExecReturnsTheStatus` | `ResultIsTheChilds` |
| | `MetadataIsFound` | `TagsAreFound` |
| | `MetadataSeldomThrows` | `ThrowsForNumbersOnly` |
| `ResponseProofs` | `ResponseInvariant`, `ResponseTypeCorrect` | `IInv`, `TypeOK` |
| | `AnswersAreFramed` | `AnswerIsFramed` |
| | `BodiesArrive` | `BodyArrives` |
| `ServerProofs` | `ServerInvariant`, `ServerTypeCorrect` | `IInv`, `TypeOK` |
| | `ServerServes` | `Served`: Server implements Service |
| `PlayerProofs` | `PlayerInvariant`, `PlayerTypeCorrect` | `IInv`, `TypeOK` |
| | `PlaylistOrdered` | `PlaylistInOrder` |
| | `ChunksOrdered` | `ChunksInOrder` |
| | `BufferStaysBounded` | `BufferBounded` |
| | `TitleMatchesAudio` | `TitleIsHeard` |

All but the action properties and the refinements are of the form `Spec => []Inv`.

### Assumptions

The bounds of the counters are arbitrary, so a theorem covers runs of any length.
What is assumed beyond types, and why the code justifies it:

- Encoder: `Rate >= 25`, as a frame of 40 ms would else be empty, and `Rate <= NanoScale`,
  a sample lasts at least a nanosecond; `Rate` is 48000.  TimestampsRise speaks of
  the frames before the product `m_granule * 10^9` wraps.
- Stream: `FrameSamples \in 1..ChunkSamples`: 40 ms fit into five seconds.
- Decoder: `Collected = {"stderr"}`, and ProcessExec: `Collected = Outputs`: the descriptors
  for which the code starts a thread (`decoder.cpp:112`, `process.cpp:250-251`).
- Player: `BufferSize` and `ChunkUnits` are positive; the code has ten seconds and five.  Files
  may be empty.
- Response: an error message is not empty.
- Server: a client is no listener, and `NoId`, the path without an identifier, is none.

### The inductive invariants

Hardly any of the properties is inductive as it stands.  A module has a lemma per action, and under it a step per
conjunct that the action can disturb.

- **Encoder.**  A frame is right because the buffer was right when it was cut, and
  that must be known in the middle of `encode()`: `IInv` adds what the gathered cells hold
  (BufferFollowsTheInput), that position, gathered floats and floats to be copied add up
  to what was fed (FeedProgress), what a flush looks like at each step (FlushProgress),
  that frames cut before the flush contain no padding (FramesAreFull), because a float
  fed later would otherwise be missing from an old frame, and that the granule counts the
  frames that Opus rejected too (GranuleCountsFrames).  TimestampsRise follows from the
  last one and from lemmas on division.
- **Process**, shared by Decoder and ProcessExec.  `ProcessInv` says that what was printed
  has been collected, or is in the buffer of a thread or in the pipe (PrintedIsAccounted),
  that a thread has finished only at the end of file with an empty pipe
  (CollectorsAreDone), that `m_pid` is 0 exactly when the child is reaped
  (PidIsTheChilds), and that a child that has ended has its status (EndHasItsStatus).
  Decoder adds what the states of the caller say about it: AsksForSomething, BadMeansEof,
  PidGoneMeansWaited, GoneMeansJoined.  ProcessExec adds in which order `exec` joins its
  threads (JoinsInOrder) and that the child prints until it ends (PrintsToTheEnd).
- **Metadata.**  When `exec` returns, one step looks up all fields; the lemma `LookedUp`
  says by induction over the list of fields what has been found, what is left in the
  map, and when it throws.
- **Stream.**  The local variables of `advance` and the encoder must fit together in
  the middle of a call: the decoders are the files that are not finished
  (PlaylistIsTheRest), `m_n_samples`, `n_bytes` and `fed` agree (CountersAgree), and samples
  and announcements fit: files are announced in their order and none before it is
  opened (AnnouncementsRise), no sample comes before its file is opened, and the first one
  of a file comes where it is announced (SamplesMatch), none without it unless a call
  failed (AllAnnounced).
  The refinement adds `PInv`: `fed` is the place in the programme at which the first decoder stands
  (FedIsProgramme), what is encoded or held is the programme up to there
  (PendingIsProgramme), and padding comes last (AudioFirst).  Each action of Stream is then
  a step of Playback or a stutter.
- **Response.**  What is on the wire at each `pc`: nothing before the header, a header
  and non-empty chunks until the destructor, then one empty chunk; and the chunks
  plus the put area make up what was printed (`Bytes`).  AnswersAreFramed is an
  equivalence: a handler that throws after its header always breaks the framing, because
  the client meets the second header before the first empty chunk, and no other one does.
- **Server.**  `Tidy(c)` relates the four buffers of a connection to its requests: what is in
  `recv_mbuf` and behind it in `to_server` are the requests that are not served, beginning
  with a head, without the body that the client has still to send; what was received and
  what is in `send_mbuf` are the answers so far.  ListIsActive says that the list of
  mongoose holds the active connections, each once, and PassIsActive that a pass visits
  no freed connection, wherever a connection was closed during it.  From it every step is a step
  of Service: asking is Ask, the handlers serve the next request, a closed connection
  is End with the request that HttpClose still serves, refuses or loses, the exit is Stop,
  and the buffers and the passes over the list are invisible.
- **Player.**  There are as many chains as lines that are waited for; as long as no two chains
  overlap, a request is out for the last line posted only (ChainsMatch,
  SingleChain); the loop of a click waits for at most one answer (RepliesAwaited); what is
  in the source buffer rises, does not exceed the limit that the last check left, and is
  complete as long as there was one click (SourceRises, BufferFits, SourceComplete);
  titles are queued in the order of their positions, those announced after the end
  included, and what is not announced yet begins behind all that was read (TitlesInOrder);
  and until the end all that was read has been sent, with each announced file begun in it
  (EndSeen).  So a title without audio begins no earlier than the end of the audio.

Induction over the naturals with an operator is out of TLAPS's reach here, but a set
that contains 0 and each successor of a member contains all of Nat (`NatSetInduction`,
from well-founded induction on `<`), and that is first-order.  The lemmas on the
recursive functions, sums and flattened sequences rest on it.

### Only model-checked

Liveness (CallsReturn, AppendedIsHeard, Teardown, ExecReturns, Answered,
HangUpIsNoticed, SigintStops, PlaysToTheEnd): TLAPS cannot prove formulas with
fairness, since it lacks ENABLED.  PlaysTheProgramme and Served are stated without
fairness, so the refinements are safety only.  The violations of section 7 are
counterexamples, found by TLC.

## 7 Findings

Each is a run that TLC ends with a counterexample.

- `stream_gap` (Gapless): when `metadata_from_file` throws for the next file, the end of
  the file before it has been encoded into a local buffer and is lost (`main.cpp:94`).
  PlaysTheProgramme shows that it is never more than the chunk and a part of a frame,
  ThrowsForNumbersOnly which files do it: those with a number tag such as "A1".
- `player_late_add` (AddedWhilePlayingIsHeard): the stream ends on the server while
  the page still plays up to ten seconds and more; files added then are accepted and
  never heard (`main.cpp:114-116`, `:178`), though the page invites to it.
- `response_header` (HeaderSentOnce): a handler that throws after its header gets a
  second header in the middle of its response (`server.cpp:168`).  AnswerIsFramed says
  that this is the one case in which the client cannot find the end of the answer.
- `response_end` (EmptyChunkIsLast): a message that ends in `std::endl` is followed by
  two empty chunks, the second one after the end of the response (`server.cpp:56`).
- `decoder_wait` (OnlyTheChildIsSignalled): after `wait()` the destructor sends SIGINT
  to process 0, the whole process group (`process.cpp:189`).  The server does not call
  `wait()`; SignalsReachTheChild shows that it is safe without it.

TitleIsHeard of Player says what becomes of the titles of files that are appended after
the end: they are announced and queued without audio, and as their start is not before
the end of what was sent, one is shown only when everything else has been heard.  Until
then the title displayed is that of the file being heard.

PlaysToTheEnd of Player is stated with the exception it needs: `appendBuffer()` throws
when the next chunk arrives while the source buffer is updating, and then the loop of
`next_chunk` is over (`src/static/index.html:238`).

## 8 What is not modelled

- Bits: what Opus and WebM make of a frame, ffmpeg's arguments, header fields, wording,
  the text of log messages, colours.
- The logger: this program logs three messages, all from the main thread and before the
  first request, so that neither of its mutexes ever meets a second thread; what is left
  is the layout of a line.  Its accessors `min_level` and `count` take no lock, and
  nothing calls them.
- `Process::running`, `exec_no_redirect` and `Decoder::messages`, which nothing calls.
- Failures of `pipe2`, `fork`, `std::thread` and of memory; samples cut in two by a
  killed ffmpeg, which the server never reads; numbers in tags that do not fit an int.
- The button that creates a stream, and with it a page that changes its stream while it
  plays or adds.
- Of mongoose what the server does not use (websockets, multipart and chunked requests,
  SSL, DNS, MQTT, the file server, UDP, timers), and a head that does not fit in its
  buffer or more connections than `FD_SETSIZE`.
- The JSON library, libopus, libwebm, ffmpeg and the browser: external; the
  definitions that stand for them are marked so in `PROJECT.json`.

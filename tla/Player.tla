-------------------------------- MODULE Player --------------------------------
(***************************************************************************)
(* The page static/index.html against the server: "Add to stream" posts    *)
(* the lines of the text area one by one; "Play" starts a loop of          *)
(* next_chunk(), which fetches a chunk, hands it to the source buffer and  *)
(* goes on when less than ten seconds are buffered; update_info() shows    *)
(* the title of what is heard.  Requests travel on connections of their    *)
(* own, answers come when they come, and some do not come: no request has  *)
(* a handler for that.  A second click on "Play" starts over with a source *)
(* buffer of its own, and leaves the loop of the first one running.        *)
(*                                                                         *)
(* Time and audio are counted in units of which a chunk has ChunkUnits.    *)
(* The server is what module Stream shows of advance(): it reads the files *)
(* of the playlist one after the other and announces each with the chunk   *)
(* it starts in; the chunk in which the playlist runs dry is shorter and   *)
(* ends the stream.  After that it still reads and announces what is       *)
(* appended, but sends no audio of it.                                     *)
(***************************************************************************)
EXTENDS Integers, Sequences, FiniteSets

CONSTANTS
    Lines,        \* the lengths of the files in the text area, in order
    ChunkUnits,   \* buffer_ival, 5 s
    BufferSize,   \* buffer_size, 10 s
    MaxChains,    \* bound: clicks on "Add to stream" that are at work at once
    MaxPlays,     \* bound: clicks on "Play"
    MaxFaults     \* bound: requests that get no answer or none with audio

ASSUME PlayerAssumption ==
    /\ Lines \in Seq(Nat)
    /\ ChunkUnits \in Nat \ {0}
    /\ BufferSize \in Nat \ {0}
    /\ MaxChains \in Nat \ {0} /\ MaxPlays \in Nat \ {0} /\ MaxFaults \in Nat

VARIABLES
    posted,     \* number of lines taken from the text area
    requests,   \* lines whose append request is on its way
    replies,    \* lines whose append request has been answered
    chains,     \* number of chains of add_first() calls under way
    overlap,    \* there have been two at once
    appended,   \* server: lines in the order in which they were appended
    taken,      \* server: units of the playlist read so far, m_n_samples
    sent,       \* server: units of the playlist sent so far
    opened,     \* server: entries of the playlist announced so far
    chunks,     \* server: chunks sent so far
    ended,      \* server: the stream has been finalized
    ignored,    \* lines that arrived after that, while the page was playing
    plays,      \* clicks on "Play"
    loop,       \* what the next_chunk() of every click is doing
    reply,      \* its answer to advance that has not been handled
    buffer_ts,  \* the audio it takes itself to have buffered
    updating,   \* sourceBuffer.updating, of the last click
    source,     \* the chunks given to sourceBuffer.appendBuffer
    buffered,   \* units of audio in the source buffer
    current,    \* audio.currentTime
    metadata,   \* announcements of files that have not been shown yet
    shown,      \* the line whose title is displayed, 0 for none
    faults      \* requests that failed

add_vars    == <<posted, requests, replies, chains, overlap>>
server_vars == <<appended, taken, sent, opened, chunks, ended, ignored>>
loop_vars   == <<loop, reply, buffer_ts>>
audio_vars  == <<updating, source, buffered, current>>
info_vars   == <<metadata, shown>>
play_vars   == <<plays, loop_vars, audio_vars, info_vars>>
vars        == <<add_vars, server_vars, play_vars, faults>>

Loops   == 1..MaxPlays
NoReply == [no |-> 0, units |-> 0, meta |-> <<>>]

Init ==
    /\ posted = 0 /\ requests = {} /\ replies = {} /\ chains = 0 /\ overlap = FALSE
    /\ appended = <<>> /\ taken = 0 /\ sent = 0 /\ opened = 0 /\ chunks = 0
    /\ ended = FALSE /\ ignored = {}
    /\ plays = 0
    /\ loop = [k \in Loops |-> "off"]
    /\ reply = [k \in Loops |-> NoReply] /\ buffer_ts = [k \in Loops |-> 0]
    /\ updating = FALSE /\ source = <<>> /\ buffered = 0 /\ current = 0
    /\ metadata = <<>> /\ shown = 0
    /\ faults = 0

-----------------------------------------------------------------------------
(***************************************************************************)
(* Adding files.                                                           *)
(***************************************************************************)

\* What-if: the lines are all posted at once.
PostAll ==
    /\ posted < Len(Lines)
    /\ requests' = requests \cup (posted + 1)..Len(Lines)
    /\ posted' = Len(Lines)

\* add_first() posts the next line, if there is one.
PostNext ==
    /\ posted < Len(Lines)
    /\ requests' = requests \cup {posted + 1}
    /\ posted' = posted + 1

\* A click starts a chain of its own, whether or not one is under way.
ClickAdd ==
    /\ chains < MaxChains
    /\ PostNext
    /\ chains' = chains + 1
    /\ overlap' = (overlap \/ chains > 0)
    /\ UNCHANGED <<replies, server_vars, play_vars, faults>>

\* The page is playing: there is audio that has not been heard.
Playing == current < buffered

\* handle_stream_append: an ended stream takes the file like any other.
ServerAppend ==
    /\ \E line \in requests :
          /\ requests' = requests \ {line}
          /\ replies' = replies \cup {line}
          /\ appended' = Append(appended, line)
          /\ ignored' = IF ended /\ Playing THEN ignored \cup {line} ELSE ignored
    /\ UNCHANGED <<posted, chains, overlap, taken, sent, opened, chunks, ended, play_vars, faults>>

\* The callback of the request posts the next line; the chain ends when there
\* is none.
AddReply ==
    /\ \E line \in replies : replies' = replies \ {line}
    /\ \/ PostNext /\ UNCHANGED chains
       \/ posted = Len(Lines) /\ chains' = chains - 1 /\ UNCHANGED <<posted, requests>>
    /\ UNCHANGED <<overlap, server_vars, play_vars, faults>>

\* A request gets lost, or its answer: the line is out of the text area, and
\* nobody calls add_first() again.
AddLost ==
    /\ faults < MaxFaults
    /\ \/ \E line \in requests : requests' = requests \ {line} /\ UNCHANGED replies
       \/ \E line \in replies : replies' = replies \ {line} /\ UNCHANGED requests
    /\ chains' = chains - 1
    /\ faults' = faults + 1
    /\ UNCHANGED <<posted, overlap, server_vars, play_vars>>

-----------------------------------------------------------------------------
(***************************************************************************)
(* The server.                                                             *)
(***************************************************************************)

\* The units in the first entries of a playlist, for every number of them.
Units(lines) ==
    LET units[n \in 0..Len(lines)] ==
            IF n = 0 THEN 0 ELSE units[n - 1] + Lines[lines[n]]
    IN  units

\* Where the i-th entry of the playlist begins.
Start(i) == Units(appended)[i - 1]

remaining == Units(appended)[Len(appended)] - taken

\* The entries that are opened, and announced, by the next call of advance().
Entries == {i \in (opened + 1)..Len(appended) : Start(i) < taken + ChunkUnits}

\* What-if: a file is announced with the beginning of the chunk.
AnnouncementOfChunk(i) == [line |-> appended[i], start |-> taken]

Announcement(i) == [line |-> appended[i], start |-> Start(i)]

\* What-if: a chunk that lacks one unit passes for a whole one.
RunsDryLate == remaining + 1 < ChunkUnits

RunsDry == remaining < ChunkUnits

\* handle_stream_advance.  The loop over the files is the same after the end;
\* what it feeds to the encoder does not come out.
ServerAdvance(k) ==
    LET units == IF RunsDry THEN remaining ELSE ChunkUnits
        n     == Cardinality(Entries)
    IN  /\ loop[k] = "fetching"
        /\ reply[k] = NoReply
        /\ reply' = [reply EXCEPT ![k] =
              [no    |-> IF ended THEN -1 ELSE chunks + 1,
               units |-> IF ended THEN 0 ELSE units,
               meta  |-> [i \in 1..n |-> Announcement(opened + i)]]]
        /\ taken' = taken + units
        /\ opened' = opened + n
        /\ IF ended
             THEN UNCHANGED <<sent, chunks>>
             ELSE sent' = sent + units /\ chunks' = chunks + 1
        /\ ended' = (ended \/ RunsDry)
        /\ UNCHANGED <<add_vars, appended, ignored, plays, loop, buffer_ts, audio_vars, info_vars,
                       faults>>

-----------------------------------------------------------------------------
(***************************************************************************)
(* Playing.                                                                *)
(***************************************************************************)

\* sourceOpen(): another source buffer, and the titles that are waiting go.
ClickPlay ==
    /\ plays < MaxPlays
    /\ plays' = plays + 1
    /\ loop' = [loop EXCEPT ![plays + 1] = "fetching"]
    /\ updating' = FALSE /\ source' = <<>> /\ buffered' = 0 /\ current' = 0
    /\ metadata' = <<>>
    /\ UNCHANGED <<add_vars, server_vars, reply, buffer_ts, shown, faults>>

\* What-if: what has been heard does not count.
WantsMoreOfAll(ts) == ts < 3 * BufferSize

\* What-if: the buffer is filled again when it is empty.
WantsMoreWhenEmpty(ts) == ts < current

WantsMore(ts) == ts - current < BufferSize  \* the condition of check_next_chunk()

\* appendBuffer() throws while the source buffer is updating, and when it
\* belongs to a click before the last one.
Appendable(k) == k = plays /\ ~updating

\* What-if: the titles replace those that have not been shown yet.
QueueReplaced(titles) == titles

Queue(titles) == metadata \o titles

\* The callback of fetchAB for an answer with audio: check_next_chunk() asks
\* for the next chunk at once or sets a timer; then the titles are queued.
HandleData(k) ==
    /\ reply[k].no > 0
    /\ Appendable(k)
    /\ source' = Append(source, reply[k].no)
    /\ buffered' = buffered + reply[k].units
    /\ updating' = TRUE
    /\ buffer_ts' = [buffer_ts EXCEPT ![k] = @ + ChunkUnits]
    /\ loop' = [loop EXCEPT ![k] = IF WantsMore(buffer_ts'[k]) THEN "fetching" ELSE "waiting"]
    /\ metadata' = Queue(reply[k].meta)
    /\ reply' = [reply EXCEPT ![k] = NoReply]
    /\ UNCHANGED <<add_vars, server_vars, plays, current, shown, faults>>

\* What-if: the exception is caught and the loop goes on.
ThrowsCaught(k) ==
    /\ reply[k].no > 0
    /\ ~Appendable(k)
    /\ reply' = [reply EXCEPT ![k] = NoReply]
    /\ UNCHANGED <<add_vars, server_vars, plays, loop, buffer_ts, audio_vars, info_vars, faults>>

\* The exception leaves the callback before it asks for the next chunk.
HandleThrows(k) ==
    /\ reply[k].no > 0
    /\ ~Appendable(k)
    /\ loop' = [loop EXCEPT ![k] = "failed"]
    /\ reply' = [reply EXCEPT ![k] = NoReply]
    /\ UNCHANGED <<add_vars, server_vars, plays, buffer_ts, audio_vars, info_vars, faults>>

\* The data segment is empty: parse_segments() does not list it, and the loop
\* is not continued.  The titles are queued all the same.
HandleEnd(k) ==
    /\ reply[k].no < 0
    /\ loop' = [loop EXCEPT ![k] = "stopped"]
    /\ metadata' = Queue(reply[k].meta)
    /\ reply' = [reply EXCEPT ![k] = NoReply]
    /\ UNCHANGED <<add_vars, server_vars, plays, buffer_ts, audio_vars, shown, faults>>

\* The request or its answer is lost, or an error comes instead that leaves the
\* stream as it is (what advance() loses when it throws is in module Stream);
\* parse_segments() finds no data in it, and the loop is not continued either.
AdvanceLost(k) ==
    /\ loop[k] = "fetching"
    /\ faults < MaxFaults
    /\ loop' = [loop EXCEPT ![k] = "failed"]
    /\ reply' = [reply EXCEPT ![k] = NoReply]
    /\ faults' = faults + 1
    /\ UNCHANGED <<add_vars, server_vars, plays, buffer_ts, audio_vars, info_vars>>

Timer(k) ==
    /\ loop[k] = "waiting"
    /\ WantsMore(buffer_ts[k])
    /\ loop' = [loop EXCEPT ![k] = "fetching"]
    /\ UNCHANGED <<add_vars, server_vars, plays, reply, buffer_ts, audio_vars, info_vars, faults>>

UpdateEnd ==
    /\ updating
    /\ updating' = FALSE
    /\ UNCHANGED <<add_vars, server_vars, plays, loop_vars, source, buffered, current, info_vars,
                   faults>>

Listen ==
    /\ Playing
    /\ current' = current + 1
    /\ UNCHANGED <<add_vars, server_vars, plays, loop_vars, updating, source, buffered, info_vars,
                   faults>>

\* A tick of update_info() shows the next title when its file has begun.
UpdateInfo ==
    /\ metadata # <<>>
    /\ current >= Head(metadata).start
    /\ shown' = Head(metadata).line
    /\ metadata' = Tail(metadata)
    /\ UNCHANGED <<add_vars, server_vars, plays, loop_vars, audio_vars, faults>>

Adding     == ServerAppend \/ AddReply
Fetched(k) == HandleData(k) \/ HandleThrows(k) \/ HandleEnd(k)

Next ==
    \/ ClickAdd \/ AddLost \/ Adding
    \/ ClickPlay
    \/ \E k \in Loops : ServerAdvance(k) \/ Fetched(k) \/ AdvanceLost(k) \/ Timer(k)
    \/ UpdateEnd \/ Listen \/ UpdateInfo

\* Requests are answered unless they are lost, callbacks and timers run, the
\* audio plays on; nobody has to click.
Spec ==
    /\ Init /\ [][Next]_vars
    /\ WF_vars(Adding)
    /\ \A k \in Loops : WF_vars(ServerAdvance(k)) /\ WF_vars(Fetched(k)) /\ WF_vars(Timer(k))
    /\ WF_vars(UpdateEnd) /\ WF_vars(Listen) /\ WF_vars(UpdateInfo)

-----------------------------------------------------------------------------
(***************************************************************************)
(* Properties.                                                             *)
(***************************************************************************)

Title == [line : 1..Len(Lines), start : Nat]

TypeOK ==
    /\ posted \in 0..Len(Lines)
    /\ requests \subseteq 1..Len(Lines) /\ replies \subseteq 1..Len(Lines)
    /\ chains \in 0..MaxChains /\ overlap \in BOOLEAN
    /\ appended \in Seq(1..Len(Lines))
    /\ taken \in Nat /\ remaining \in Nat /\ opened \in 0..Len(appended)
    /\ sent \in 0..taken /\ chunks \in Nat /\ ended \in BOOLEAN
    /\ ignored \subseteq 1..Len(Lines)
    /\ plays \in 0..MaxPlays
    /\ loop \in [Loops -> {"off", "fetching", "waiting", "stopped", "failed"}]
    /\ reply \in [Loops -> [no : Int, units : 0..ChunkUnits, meta : Seq(Title)]]
    /\ buffer_ts \in [Loops -> Nat]
    /\ updating \in BOOLEAN
    /\ source \in Seq(Nat)
    /\ buffered \in Nat /\ current \in 0..buffered
    /\ metadata \in Seq(Title) /\ shown \in 0..Len(Lines)
    /\ faults \in 0..MaxFaults

\* Unless the button is clicked again while the lines are being posted, the
\* playlist has the order of the text area, although every line travels in a
\* request of its own: add_first() posts a line when the one before it has been
\* answered.  Only a line whose request got lost is missing.
PlaylistInOrder ==
    ~overlap =>
        /\ \A i \in 2..Len(appended) : appended[i - 1] < appended[i]
        /\ faults = 0 => \A i \in 1..Len(appended) : appended[i] = i

\* The source buffer, which is in "sequence" mode and plays whatever comes
\* next, is given the chunks in order, none of them twice; and with a single
\* click on "Play" it misses none, whatever becomes of the requests.
ChunksInOrder ==
    /\ \A i \in 2..Len(source) : source[i - 1] < source[i]
    /\ plays = 1 => \A i \in 1..Len(source) : source[i] = i

\* The page never holds more than the ten seconds and the chunk that was
\* under way: its own clock, which adds five seconds per chunk, does not lag
\* behind what it has.
BufferBounded ==
    plays > 0 => /\ buffered - current < BufferSize + ChunkUnits
                 /\ buffered <= buffer_ts[plays]

\* The title displayed is that of the i-th entry, which has begun.
Shown(i) == shown = appended[i] /\ Start(i) <= current

\* As long as "Play" has been clicked once, the title displayed is that of the
\* file being heard as soon as update_info() has nothing more to show: the
\* server announces in the units that the page plays, and a title is queued no
\* later than its audio.  No title is shown before its file has begun.  That of
\* a file appended after the end, which is never heard, is announced too, but
\* is shown only when everything else has been heard: then it stays.
TitleIsHeard ==
    plays = 1 =>
        /\ Playing /\ (metadata # <<>> => current < Head(metadata).start) =>
               \E i \in 1..Len(appended) : Shown(i) /\ current < Start(i) + Lines[appended[i]]
        /\ shown # 0 =>
               \E i \in 1..Len(appended) :
                   /\ Shown(i)
                   /\ Start(i) >= sent => ended /\ current = buffered /\ buffered = sent

\* What has been started is heard to the end, unless a request or appendBuffer()
\* fails or "Play" is clicked again: the loop stops, but not before the end of
\* the stream, and everything in the playlist has been played.
PlaysToTheEnd ==
    (loop[1] = "fetching") ~>
        \/ loop[1] = "failed" \/ plays > 1
        \/ /\ loop[1] = "stopped" /\ ended
           /\ current = buffered /\ buffered = sent /\ Len(source) = chunks

\* The page says of the playlist: "You can also add new files during playback,
\* but not once the stream has ended."
AddedWhilePlayingIsHeard == ignored = {}
=============================================================================

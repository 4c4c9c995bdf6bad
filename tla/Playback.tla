------------------------------- MODULE Playback -------------------------------
(***************************************************************************)
(* What a stream promises its listener: a playlist can be appended to, the *)
(* listener hears the files in order, without a repetition, in portions of *)
(* any size; the stream ends when, and only when, everything in the        *)
(* playlist has been played, and what is appended later is not heard.      *)
(* Nothing is left out but in a call that fails, and that leaves out a     *)
(* bounded piece at the position that has been reached.                    *)
(***************************************************************************)
EXTENDS Integers, Sequences, SequencesExt

CONSTANTS
    Lengths,  \* the lengths a file can have, in samples
    MaxLoss   \* what one failing call can lose, in samples

VARIABLES
    playlist,  \* the lengths of the files appended so far
    position,  \* how much of the playlist has been heard or lost
    heard,     \* the samples heard so far
    ended,     \* the stream has ended
    errors     \* calls that failed

vars == <<playlist, position, heard, ended, errors>>

\* All the samples of the playlist in the order in which they are to be heard.
Programme ==
    FlattenSeq([id \in 1..Len(playlist) |-> [k \in 1..playlist[id] |-> <<id, k>>]])

Init == playlist = <<>> /\ position = 0 /\ heard = <<>> /\ ended = FALSE /\ errors = 0

AppendFile ==
    /\ \E length \in Lengths : playlist' = Append(playlist, length)
    /\ UNCHANGED <<position, heard, ended, errors>>

Hear ==
    /\ ~ended
    /\ position' \in position..Len(Programme)
    /\ heard' = heard \o SubSeq(Programme, position + 1, position')
    /\ ended' \in {FALSE, position' = Len(Programme)}
    /\ UNCHANGED <<playlist, errors>>

Fail ==
    /\ errors' = errors + 1
    /\ position' \in position..(position + MaxLoss)
    /\ position' <= Len(Programme)
    /\ ended => position' = position
    /\ UNCHANGED <<playlist, heard, ended>>

Spec == Init /\ [][AppendFile \/ Hear \/ Fail]_vars
=============================================================================

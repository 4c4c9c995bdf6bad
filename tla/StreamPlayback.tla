---------------------------- MODULE StreamPlayback ----------------------------
(***************************************************************************)
(* Stream implements Playback, also when calls of advance() throw: what is *)
(* heard is what the responses carry, without the padding.                 *)
(***************************************************************************)
EXTENDS Stream

\* What is not padding comes first.
Heard ==
    LET audio == {i \in 1..Len(delivered) : delivered[i].id # 0}
    IN  [i \in 1..Cardinality(audio) |-> <<delivered[i].id, delivered[i].k>>]

\* The samples that have left the encoder and the call for the listener, or for
\* nowhere.
Position == fed - Len(held) - Len(os_buf_data)

P == INSTANCE Playback WITH playlist <- appended, position <- Position,
        heard <- Heard, ended <- done, errors <- failures

\* Every response continues where the one before it stopped, across the end of
\* a file and the beginning of the next; a call that throws leaves a gap of at
\* most a chunk and a frame and nothing out of order; and the stream is
\* finalized when the last file has been read and not before.
PlaysTheProgramme == P!Spec
=============================================================================

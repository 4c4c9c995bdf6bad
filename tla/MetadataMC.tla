------------------------------ MODULE MetadataMC ------------------------------
(***************************************************************************)
(* An instance of Metadata: a title, a track number that is written in     *)
(* capitals as well, and a duration.                                       *)
(***************************************************************************)
EXTENDS Metadata

MCQueries == <<"title", "track", "duration">>

MCKeys == {<<"title", "lower">>, <<"track", "UPPER">>, <<"track", "lower">>,
           <<"duration", "lower">>}

MCValues == {[type |-> "null", tenths |-> NoNumber], [type |-> "other", tenths |-> NoNumber],
             Number(15), Text(15), Text(NoNumber)}
=============================================================================

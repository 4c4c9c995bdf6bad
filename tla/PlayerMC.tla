------------------------------- MODULE PlayerMC -------------------------------
(***************************************************************************)
(* Player for TLC: files of one and a half chunks, and one with no audio   *)
(* between them.                                                           *)
(***************************************************************************)
EXTENDS Player

MCLines == <<3, 0, 3>>
=============================================================================

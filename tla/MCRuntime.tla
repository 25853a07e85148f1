----------------------------- MODULE MCRuntime -----------------------------
(* Instances of OnlineRuntime for TLC. *)
EXTENDS OnlineRuntime, TLC

CONSTANTS s1, s2

TwoStreams == <<s1, s2>>
OneStream == <<s1>>

ThingSymmetry == Permutations(Things)
=============================================================================

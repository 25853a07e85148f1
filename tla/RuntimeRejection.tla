-------------------------- MODULE RuntimeRejection --------------------------
(***************************************************************************)
(* OnlineRuntime remembering what it kept when the call in progress began.  *)
(***************************************************************************)
EXTENDS OnlineRuntime

CONSTANT s1

OneStream == <<s1>>

VARIABLE before

RInit == Init /\ before = kept

RNext ==
  /\ Next
  /\ before' = IF Resting /\ ~Resting' THEN kept ELSE before

RSpec == RInit /\ [][RNext]_<<vars, before>>

(* The call in progress ends, but not by committing its last group.         *)
Raises == ~Resting /\ Resting' /\ revision' = revision

(* "Malformed packets, ... duplicate same-time stream keys, stale temporal  *)
(* evidence, and invalid prepared propagation reject atomically across      *)
(* belief, history, modality cache, runtime observation scheduler, ...      *)
(* ingest count" (project/STATUS.md:1218-1222): a call that raises leaves   *)
(* what the runtime keeps as it found it.                                   *)
RejectsAtomically == [][Raises => kept' = before]_<<vars, before>>
=============================================================================

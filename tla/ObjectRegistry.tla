--------------------------- MODULE ObjectRegistry ---------------------------
(***************************************************************************)
(* What a belief promises to whoever keeps something under an object's      *)
(* identifier, as the histories, caches, radii and hypotheses do: an        *)
(* identifier names one bearer as long as it is held, one that was let go   *)
(* is never given out again, and only the start of another episode takes    *)
(* anything back.  How tracks are born, matched and given up, how many at a *)
(* time and at which step of a group, is not said here.                     *)
(***************************************************************************)
EXTENDS Naturals, FiniteSets

CONSTANT Capacity

VARIABLES bearer,   \* identifier held -> who bears it
          next      \* the identifiers below it were given out

NoBearer == [i \in {} |-> i]

Init == bearer = NoBearer /\ next = 0

Turnover ==
  /\ next' >= next
  /\ \A i \in DOMAIN bearer' :
       IF i < next THEN i \in DOMAIN bearer /\ bearer'[i] = bearer[i] ELSE i < next'
  /\ Cardinality(DOMAIN bearer') <= Capacity

Restart == bearer' = NoBearer /\ next' = 0

(* One episode, and any number of them.                                    *)
Episode == Init /\ [][Turnover]_<<bearer, next>>
Spec == Init /\ [][Turnover \/ Restart]_<<bearer, next>>
=============================================================================

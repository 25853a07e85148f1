--------------------------- MODULE OneShotAccess ---------------------------
(***************************************************************************)
(* What the ordered split ledger promises whoever opens a protected split:  *)
(* "durably consume an exact split order once, stopping on any failure".   *)
(* The ledger is a history that only ever grows, and every history it       *)
(* grows into is a legal one.  Legality is stated over the whole history,   *)
(* not over the check one more entry has to pass.                           *)
(***************************************************************************)
EXTENDS Naturals, Sequences, FiniteSets

CONSTANTS SplitCount, Purposes

VARIABLE history

Positions(event) == {i \in DOMAIN history : history[i].event = event}

(* The n-th opening is of the n-th split, so no split is opened twice.     *)
InOrder ==
  \A i \in Positions("begin") :
    history[i].split = Cardinality({j \in Positions("begin") : j <= i})

(* A split is only left by its own completion, and only a passed one lets  *)
(* anything follow it.                                                     *)
StopsAtFailure ==
  \A i, j \in Positions("begin") :
    i < j => \E k \in Positions("complete") :
               /\ i < k /\ k < j
               /\ history[k].split = history[i].split
               /\ history[k].status = "passed"

(* Claims and completions are made by the holder of the split's permit,    *)
(* after its opening and not after its completion, each at most once.      *)
HeldByOpener ==
  \A i \in Positions("claim") \cup Positions("complete") :
    \E b \in Positions("begin") :
      /\ b < i
      /\ history[b].split = history[i].split
      /\ history[b].nonce = history[i].nonce

OnceEach ==
  \A i, j \in Positions("claim") \cup Positions("complete") :
    i < j /\ history[i].split = history[j].split =>
      /\ history[i].event = "claim"
      /\ history[i].purpose # history[j].purpose

Legal == InOrder /\ StopsAtFailure /\ HeldByOpener /\ OnceEach

Grows == SubSeq(history', 1, Len(history)) = history /\ Len(history') > Len(history)

Init == history = <<>>
Next == Grows /\ Legal'
Spec == Init /\ [][Next]_history
=============================================================================

------------------------ MODULE HypothesisController ------------------------
(***************************************************************************)
(* RuntimeHypothesisController (dynamics/hypothesis_rollout.py): after a    *)
(* committed group it forecasts the belief at each evidence horizon, scores *)
(* a forecast with what a colour packet measures at its due time, and lends *)
(* the learned forecast to the next propagation when that starts from the   *)
(* same belief.                                                             *)
(*                                                                         *)
(* A forecast or a belief has a time, the dynamics it was predicted under,  *)
(* its version and what its identifiers hold.  Each horizon has a pool with *)
(* weights of its own for every identifier and joint weights for the scene. *)
(* Numbers are left out: weights are the comparisons they were made from,   *)
(* each with the identifier compared, the thing forecast under it, the      *)
(* thing measured and the forecast's dynamics.                              *)
(***************************************************************************)
EXTENDS Naturals

CONSTANTS
  Horizons,         \* evidence horizons
  SharesPrior       \* axis_prior_strength is not zero

ASSUME HorizonAssumption == Horizons \subseteq Nat \ {0} /\ SharesPrior \in BOOLEAN

(* weights: entity_axis_log_weights; joint: log_weights.                    *)
NoEvidence == [weights |-> [i \in {} |-> {}], joint |-> {}]

(* context: the dynamics evidence was last synchronised with, {} if none.   *)
Fresh == [pending |-> {}, pools |-> [h \in Horizons |-> NoEvidence], context |-> {}]

(* dynamics.predict_step.                                                   *)
Predicted(b, t, d) == [b EXCEPT !.time = t, !.dynamics = d]

Invalidated(c) == [Fresh EXCEPT !.context = c.context]

SynchronisedPending(c, d) ==                     \* mutant: the weights are kept
  [c EXCEPT !.pending = {f \in @ : f.dynamics = d}, !.context = {d}]

Synchronised(c, d) ==
  IF c.context \subseteq {d}
  THEN [c EXCEPT !.pending = {f \in @ : f.dynamics = d}, !.context = {d}]
  ELSE [Invalidated(c) EXCEPT !.context = {d}]

ReusableAnyTime(c, b, t, revision, d) ==         \* mutant: due time not compared
  {f.step : f \in {f \in c.pending :
     /\ f.source = b.version /\ f.revision = revision /\ f.dynamics = d}}

(* Forecasts that are the very propagation asked for.                       *)
Reusable(c, b, t, revision, d) ==
  {f.step : f \in {f \in c.pending :
     /\ f.source = b.version /\ f.revision = revision /\ f.dynamics = d
     /\ f.due = t}}

EnsuredFromScene(pool, b) ==                     \* mutant: not reset to nothing
  [pool EXCEPT !.weights =
     [i \in DOMAIN b.holds |-> IF i \in DOMAIN @ THEN @[i] ELSE pool.joint]]

(* _ensure_weights: a slot whose identifier changed forgets its own         *)
(* weights; the joint weights stay as they are.                             *)
Ensured(pool, b) ==
  [pool EXCEPT !.weights = [i \in DOMAIN b.holds |-> IF i \in DOMAIN @ THEN @[i] ELSE {}]]

Scheduled(c, b, revision, d) ==
  [c EXCEPT
     !.pools = [h \in Horizons |-> Ensured(@[h], b)],
     !.pending = {f \in @ : b.time <= f.due} \cup
       {[horizon |-> h, source |-> b.version, revision |-> revision, dynamics |-> d,
         due |-> b.time + h, step |-> Predicted(b, b.time + h, d)] : h \in Horizons}]

Compared(i, of, at, d) == [under |-> i, of |-> of, at |-> at, dynamics |-> d]

TargetsBySlot(f, b, seen) ==                     \* mutant: identifiers not compared
  {Compared(i, f.step.holds[j], b.holds[i], f.dynamics) : i \in seen, j \in DOMAIN f.step.holds}

(* _associated_rgb_targets: the measured objects the forecast knew by the   *)
(* same identifier, each compared with what was forecast of it.             *)
Targets(f, b, seen) ==
  {Compared(i, f.step.holds[i], b.holds[i], f.dynamics) : i \in seen \cap DOMAIN f.step.holds}

(* _update_evidence, once for each of the forecasts due, oldest first: an   *)
(* object compared learns from its comparison and, as a prior, from what    *)
(* the joint weights rested on; these learn from all objects compared.      *)
Updated(pool, b, due, seen) ==
  LET own(f, i) == {e \in Targets(f, b, seen) : e.under = i}
      all(fs) == UNION {Targets(f, b, seen) : f \in fs}
      prior(f) == pool.joint \cup all({g \in due : g.source < f.source})
      learnt(i) == UNION {own(f, i) \cup (IF SharesPrior THEN prior(f) ELSE {}) :
                            f \in {f \in due : own(f, i) # {}}}
  IN  [weights |-> [i \in DOMAIN b.holds |-> Ensured(pool, b).weights[i] \cup learnt(i)],
       joint |-> pool.joint \cup all(due)]

(* A forecast whose time has passed unobserved is dropped, and one that is  *)
(* due is scored, if the packet measures any of its objects, and used up.   *)
Assimilated(c, b, seen) ==
  LET due(h) == {f \in c.pending :
        f.horizon = h /\ f.due = b.time /\ Targets(f, b, seen) # {}}
  IN  [c EXCEPT
         !.pending = {f \in @ : b.time < f.due},
         !.pools = [h \in Horizons |->
                      IF due(h) = {} THEN @[h] ELSE Updated(@[h], b, due(h), seen)]]

(* What the choice made for an identifier at a horizon rests on; with       *)
(* nothing the choice is the learned dynamics.                              *)
Weights(c, h, i) ==
  IF i \in DOMAIN c.pools[h].weights THEN c.pools[h].weights[i] ELSE {}

(* Every comparison the controller remembers.                               *)
Evidence(c) ==
  UNION {c.pools[h].joint \cup UNION {Weights(c, h, i) : i \in DOMAIN c.pools[h].weights} :
           h \in Horizons}
=============================================================================

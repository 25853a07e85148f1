----------------------------- MODULE TrainingRun -----------------------------
(***************************************************************************)
(* What train_from_config (trainer.py) does between "running" and the      *)
(* summary: the order in which it updates, validates, selects and saves    *)
(* its checkpoints, what an exact resume reads back, and what is on disk   *)
(* when the process dies between two of these.  Causal training only       *)
(* (rgb_pretrain_steps = 0).  Weights are named by the update that made    *)
(* them, a score is larger where the code's loss is smaller.               *)
(***************************************************************************)
EXTENDS TrainerContract

CONSTANTS Targets,          \* training.steps an invocation may ask for
          EvalEvery,        \* training.eval_every
          CheckpointEvery,  \* training.checkpoint_every
          Scores,           \* what a validation may measure
          MaxDeaths        \* bound: processes killed, exceptions raised

ASSUME RunAssumption ==
  /\ FirstTarget \in Targets /\ Targets \subseteq Nat \ {0}
  /\ EvalEvery \in Nat \ {0} /\ CheckpointEvery \in Nat \ {0}
  /\ Scores \subseteq Nat

VARIABLES mem,       \* locals of train_from_config, for every process
          tip,       \* checkpoints/last.pt: what it holds besides its step
          bestFile, refFile,  \* best_rollout.pt and reference_rollout.pt, {} without the file
          accepted,  \* steps with an accepted validation_step_<n>.pt
          asked,     \* history: the largest target so far
          diagnosed, \* history: an unsupported validation was put on file
          collapsed, \* history: weights whose last validation collapsed beside an incumbent
          deaths

inner == <<mem, tip, bestFile, refFile, accepted>>
history == <<asked, diagnosed, collapsed, deaths>>
runVars == <<contractVars, inner, history>>

Outcomes == [kind : {"unsupported", "collapsed", "unfit"}, score : {0}]
              \cup [kind : {"eligible"}, score : Scores]
NoOutcome == [kind |-> "none", score |-> 0]

Blank == [pc |-> "begin", step |-> 0, weights |-> 0, best |-> {}, ref |-> {}, deferred |-> FALSE,
          purpose |-> "none", outcome |-> NoOutcome, wins |-> FALSE, founds |-> FALSE]
NoTip == [weights |-> 0, best |-> {}, ref |-> {}, deferred |-> FALSE, marker |-> "absent"]

Selection == [step : Nat, score : Nat]
Reference == [step : Nat, supported : BOOLEAN]

Memory ==
  [pc : {"begin", "updating", "prevalidated", "validating", "numbering", "referencing",
         "promoting", "judged", "saving", "finishing"},
   step : Nat, weights : Nat, best : SUBSET Selection, ref : SUBSET Reference, deferred : BOOLEAN,
   purpose : {"none", "initial", "recovery"}, outcome : Outcomes \cup {NoOutcome},
   wins : BOOLEAN, founds : BOOLEAN]
Tip == [weights : Nat, best : SUBSET Selection, ref : SUBSET Reference, deferred : BOOLEAN,
        marker : {"absent", "pending", "validated"}]

AtMostOne(S) == \A x, y \in S : x = y

RunTypeOK ==
  /\ ContractTypeOK
  /\ mem \in [Pids -> Memory]
  /\ \A p \in Pids : AtMostOne(mem[p].best) /\ AtMostOne(mem[p].ref)
  /\ tip \in Tip /\ AtMostOne(tip.best) /\ AtMostOne(tip.ref)
  /\ bestFile \subseteq Selection /\ AtMostOne(bestFile)
  /\ refFile \subseteq Reference /\ AtMostOne(refFile)
  /\ accepted \subseteq Nat /\ collapsed \subseteq Nat
  /\ asked \in Targets /\ diagnosed \in BOOLEAN /\ deaths \in Nat

RunInit ==
  /\ ContractInit
  /\ mem = [p \in Pids |-> Blank]
  /\ tip = NoTip
  /\ bestFile = {} /\ refFile = {} /\ accepted = {}
  /\ asked = FirstTarget /\ diagnosed = FALSE /\ collapsed = {} /\ deaths = 0

Doing(p, pc) == proc[p].stage = "training" /\ mem[p].pc = pc
Proceeds(p, pc) == mem' = [mem EXCEPT ![p].pc = pc]
Target(p) == proc[p].target

-----------------------------------------------------------------------------
(* Where a process begins. *)

\* A fresh run validates its untrained weights first.
BeginFresh(p) ==
  /\ Doing(p, "begin") /\ proc[p].fresh
  /\ mem' = [mem EXCEPT ![p] = [@ EXCEPT !.pc = "validating", !.purpose = "initial"]]
  /\ UNCHANGED <<contractVars, tip, bestFile, refFile, accepted, history>>

\* The selectors named by last.pt must be the ones on disk.
Linked ==
  /\ tip.ref # {} => refFile = tip.ref
  /\ tip.best # {} => bestFile = tip.best

Loads(target) ==
  /\ last > 0 /\ last <= target
  /\ tip.deferred => tip.ref = {} /\ tip.best = {}
  /\ tip.best # {} => tip.ref # {}
  /\ Linked

NeverRequired(p) == FALSE              \* mutant: the marker is ignored

RequiresFinalValidation(p) == tip.marker = "pending" /\ last = Target(p)

LoadForgetful(p) ==                     \* mutant: the incumbent is not read back
  /\ Doing(p, "begin") /\ ~proc[p].fresh /\ Loads(Target(p))
  /\ mem' = [mem EXCEPT ![p] =
       [@ EXCEPT !.pc = IF last = Target(p) THEN "finishing" ELSE "updating",
                 !.step = last, !.weights = tip.weights, !.ref = tip.ref]]
  /\ UNCHANGED <<contractVars, tip, bestFile, refFile, accepted, history>>

LoadWeightsOnly(p) ==                   \* mutant: a resume counts its updates from 0
  /\ Doing(p, "begin") /\ ~proc[p].fresh /\ Loads(Target(p))
  /\ mem' = [mem EXCEPT ![p] = [@ EXCEPT !.pc = "updating", !.weights = tip.weights]]
  /\ UNCHANGED <<contractVars, tip, bestFile, refFile, accepted, history>>

Load(p) ==
  /\ Doing(p, "begin") /\ ~proc[p].fresh /\ Loads(Target(p))
  /\ mem' = [mem EXCEPT ![p] =
       [pc |-> IF RequiresFinalValidation(p) THEN "validating"
               ELSE IF last = Target(p) THEN "finishing" ELSE "updating",
        step |-> last, weights |-> tip.weights, best |-> tip.best, ref |-> tip.ref,
        deferred |-> tip.deferred,
        purpose |-> IF RequiresFinalValidation(p) THEN "recovery" ELSE "none",
        outcome |-> NoOutcome, wins |-> FALSE, founds |-> FALSE]]
  /\ UNCHANGED <<contractVars, tip, bestFile, refFile, accepted, history>>

LoadRaises(p) ==
  /\ Doing(p, "begin") /\ ~proc[p].fresh /\ ~Loads(Target(p))
  /\ Raise(p)
  /\ UNCHANGED <<inner, history>>

-----------------------------------------------------------------------------
(* The loop of train_from_config. *)

Divides(n, step) == step % n = 0

Update(p) ==
  LET step == mem[p].step + 1 IN
  /\ Doing(p, "updating") /\ mem[p].step < Target(p)
  /\ mem' = [mem EXCEPT ![p] = [@ EXCEPT !.step = step, !.weights = step, !.purpose = "none",
       !.pc = CASE step = Target(p)                -> "prevalidated"
                   [] step # Target(p) /\ Divides(EvalEvery, step) -> "validating"
                   [] step # Target(p) /\ ~Divides(EvalEvery, step)
                        /\ Divides(CheckpointEvery, step) -> "saving"
                   [] OTHER                           -> "updating"]]
  /\ UNCHANGED <<contractVars, tip, bestFile, refFile, accepted, history>>

SavesRestoredStep(p, marker) ==         \* mutant: stamped with the step of the weights restored
  /\ last' = mem[p].weights
  /\ tip' = [weights |-> mem[p].weights, best |-> mem[p].best, ref |-> mem[p].ref,
             deferred |-> mem[p].deferred, marker |-> marker]
  /\ UNCHANGED <<proc, lock, state, failure, summary, bestFile, refFile, accepted, history>>

\* save_checkpoint(last.pt) with retained_selector_metrics.
SavesLast(p, marker) ==
  /\ last' = mem[p].step
  /\ tip' = [weights |-> mem[p].weights, best |-> mem[p].best, ref |-> mem[p].ref,
             deferred |-> mem[p].deferred, marker |-> marker]
  /\ diagnosed' = (diagnosed \/ mem[p].deferred)
  /\ UNCHANGED <<proc, lock, state, failure, summary, bestFile, refFile, accepted,
                 asked, collapsed, deaths>>

SavePending(p) ==
  /\ Doing(p, "prevalidated")
  /\ SavesLast(p, "pending")
  /\ Proceeds(p, "validating")

(* validate_closed_loop_incumbent *)

NothingDeferred(p) == FALSE            \* mutant: the marker is not consulted

ComparisonDeferred(p) == mem[p].deferred \/ (mem[p].ref = {} /\ refFile # {})

\* The candidate becomes the fixed reference; the candidate becomes the incumbent.
Founds(p, outcome) == outcome.kind # "unsupported" /\ mem[p].ref = {}
Wins(p, outcome) ==
  /\ outcome.kind = "eligible"
  /\ IF mem[p].best = {}
     THEN ~(mem[p].ref = {} /\ ComparisonDeferred(p))
     ELSE \A b \in mem[p].best : outcome.score > b.score

Judgement(p, outcome) ==
  LET step == mem[p].step IN
  [mem[p] EXCEPT
     !.pc = "numbering", !.outcome = outcome,
     !.founds = Founds(p, outcome), !.wins = Wins(p, outcome),
     !.deferred = IF outcome.kind = "unsupported" THEN @ \/ mem[p].ref = {} ELSE @ /\ mem[p].ref # {},
     !.ref = IF Founds(p, outcome) THEN {[step |-> step, supported |-> TRUE]} ELSE @,
     !.best = IF Wins(p, outcome) THEN {[step |-> step, score |-> outcome.score]} ELSE @]

Validate(p) ==
  /\ Doing(p, "validating")
  /\ \E outcome \in Outcomes :
       /\ mem' = [mem EXCEPT ![p] = Judgement(p, outcome)]
       /\ collapsed' = IF outcome.kind \in {"unsupported", "collapsed"} /\ mem[p].best # {}
                       THEN collapsed \cup {mem[p].weights} ELSE collapsed \ {mem[p].weights}
  /\ UNCHANGED <<contractVars, tip, bestFile, refFile, accepted, asked, diagnosed, deaths>>

SaveNumbered(p) ==
  /\ Doing(p, "numbering")
  /\ accepted' = IF mem[p].wins THEN accepted \cup {mem[p].step} ELSE accepted \ {mem[p].step}
  /\ Proceeds(p, "referencing")
  /\ UNCHANGED <<contractVars, tip, bestFile, refFile, history>>

SaveReferenceAgain(p) ==                \* mutant: every incumbent becomes the reference
  /\ Doing(p, "referencing")
  /\ refFile' = IF mem[p].founds \/ mem[p].wins
                THEN {[step |-> mem[p].step, supported |-> TRUE]} ELSE refFile
  /\ Proceeds(p, "promoting")
  /\ UNCHANGED <<contractVars, tip, bestFile, accepted, history>>

\* The first supported candidate is the reference; before it, the first unsupported one is kept.
SaveReference(p) ==
  /\ Doing(p, "referencing")
  /\ IF mem[p].founds
     THEN refFile' = mem[p].ref
     ELSE IF mem[p].ref = {} /\ refFile = {}
          THEN refFile' = {[step |-> mem[p].step, supported |-> FALSE]}
          ELSE UNCHANGED refFile
  /\ diagnosed' = (diagnosed \/ \E r \in refFile' : ~r.supported)
  /\ Proceeds(p, "promoting")
  /\ UNCHANGED <<contractVars, tip, bestFile, accepted, asked, collapsed, deaths>>

SaveBest(p) ==
  /\ Doing(p, "promoting")
  /\ bestFile' = IF mem[p].wins THEN mem[p].best ELSE bestFile
  /\ Proceeds(p, "judged")
  /\ UNCHANGED <<contractVars, tip, refFile, accepted, history>>

(* What follows a validation. *)

RollsBackUnlessRecovering(p) ==         \* mutant: the recovery path forgets it
  /\ mem[p].outcome.kind \in {"unsupported", "collapsed"}
  /\ mem[p].best # {} /\ mem[p].purpose = "none"

\* restore_safe_causal_incumbent
RollsBack(p) ==
  /\ mem[p].outcome.kind \in {"unsupported", "collapsed"}
  /\ mem[p].best # {} /\ mem[p].purpose # "initial"

SavesAfter(p) ==
  \/ mem[p].purpose = "recovery"
  \/ /\ mem[p].purpose = "none"
     /\ mem[p].step = Target(p) \/ Divides(CheckpointEvery, mem[p].step)

Restored(p) == IF RollsBack(p) THEN (CHOOSE b \in bestFile : TRUE).step ELSE mem[p].weights

AfterValidation(p) ==
  /\ Doing(p, "judged")
  /\ mem' = [mem EXCEPT ![p] =
       [@ EXCEPT !.pc = IF SavesAfter(p) THEN "saving" ELSE "updating", !.weights = Restored(p),
                 !.outcome = NoOutcome, !.wins = FALSE, !.founds = FALSE]]
  /\ UNCHANGED <<contractVars, tip, bestFile, refFile, accepted, history>>

SaveLast(p) ==
  /\ Doing(p, "saving")
  /\ SavesLast(p, IF mem[p].step = Target(p) THEN "validated" ELSE "absent")
  /\ Proceeds(p, IF mem[p].step = Target(p) THEN "finishing" ELSE "updating")

\* A resume that found nothing to do leaves an existing summary alone.
Finish(p) ==
  /\ Doing(p, "finishing")
  /\ summary' = IF proc[p].noop /\ mem[p].purpose # "recovery" /\ summary # 0
                THEN summary ELSE Target(p)
  /\ proc' = [proc EXCEPT ![p].stage = "published"]
  /\ mem' = [mem EXCEPT ![p] = Blank]
  /\ UNCHANGED <<lock, state, failure, last, tip, bestFile, refFile, accepted, history>>

-----------------------------------------------------------------------------
(* Around it: train.py, the operating system, and who starts the next process. *)

Outside(p) ==
  /\ \/ Claim(p) \/ Refused(p) \/ ClearFailure(p) \/ Begin(p) \/ RecordRaise(p)
     \/ ClearOnSuccess(p) \/ Complete(p) \/ Exit(p)
  /\ UNCHANGED <<inner, history>>

Mishap(p) ==
  /\ deaths < MaxDeaths
  /\ deaths' = deaths + 1
  /\ Raise(p) \/ Killed(p)
  /\ mem' = [mem EXCEPT ![p] = Blank]
  /\ UNCHANGED <<tip, bestFile, refFile, accepted, asked, diagnosed, collapsed>>

Reaped(p) == Reap(p) /\ UNCHANGED <<inner, history>>

World == Elsewhere /\ UNCHANGED <<inner, history>>

\* Targets do not shrink: a resume repeats the last target, or extends it when no other
\* process still trains.
Resume(p) ==
  /\ \E target \in Targets :
       /\ target >= asked /\ asked' = target
       /\ \A q \in Pids : Trains(q) => Target(q) = target
       /\ Launch(p, target)
  /\ UNCHANGED <<inner, diagnosed, collapsed, deaths>>

Inside(p) ==
  \/ BeginFresh(p) \/ Load(p) \/ LoadRaises(p) \/ Update(p) \/ SavePending(p)
  \/ Validate(p) \/ SaveNumbered(p) \/ SaveReference(p) \/ SaveBest(p)
  \/ AfterValidation(p) \/ SaveLast(p) \/ Finish(p)

RunNext ==
  \/ World
  \/ \E p \in Pids : Inside(p) \/ Outside(p) \/ Reaped(p) \/ Mishap(p) \/ Resume(p)

RunSpec == RunInit /\ [][RunNext]_runVars

-----------------------------------------------------------------------------
(* Properties. *)

\* A process that reports success leaves a last.pt that was fully validated, whose
\* linked selectors are the ones on disk and whose incumbent has its accepted
\* numbered checkpoint: what inspect_completed_campaign asks for.
PublishedIsValidated ==
  \A p \in Pids : proc[p].stage \in {"published", "completing", "done"} =>
    /\ tip.marker = "validated" /\ Linked
    /\ \A b \in tip.best : b.step \in accepted

\* The incumbent last.pt names is never lost and only ever replaced by a better one,
\* over validations, rollbacks, deaths and resumes.
IncumbentOnlyImproves ==
  [][\A b \in tip.best : \E c \in tip'.best : c = b \/ c.score > b.score]_runVars

\* Once last.pt names a reference, neither it nor the file changes again.
ReferenceIsFixed ==
  [][tip.ref # {} => tip.ref' = tip.ref /\ refFile' = refFile]_runVars

\* "The first supported candidate after an unsupported diagnostic state establishes a
\* complete fixed reference but cannot compare with and promote itself" (CHANGELOG.md).
NoSelfPromotion ==
  diagnosed => \A b \in tip.best, r \in tip.ref : b.step # r.step

\* Weights that collapsed while an incumbent was at hand are not what training resumes
\* from, unless their validation is still pending.
CollapsedIsNotResumed == tip.weights \in collapsed => tip.marker = "pending"

\* What the comment above the pending checkpoint says: "an interrupted validation can be
\* resumed without repeating an update".  Whenever nobody is at work and last.pt awaits its
\* validation, an exact resume loads.
InterruptedValidationResumes ==
  tip.marker = "pending" /\ (\A p \in Pids : ~Alive(p)) => Loads(last)

\* What is true of it: wherever processes died, an exact resume is refused only where
\* best_rollout.pt is ahead, of a later and better validation than last.pt knows of.
RefusedOnlyAhead ==
  last > 0 /\ ~Loads(last) =>
    /\ tip.best # {}
    /\ \E c \in bestFile : \A b \in tip.best : c.score > b.score /\ c.step > b.step
=============================================================================

-------------------------- MODULE TrainingRun_proof --------------------------
(***************************************************************************)
(* For every set of processes, targets, cadences and scores: a training    *)
(* run keeps the contract the supervisor is written against, whatever is   *)
(* killed or raises; its incumbent is only replaced by a better one and    *)
(* its reference is fixed; what it publishes was validated, and what it    *)
(* resumes did not collapse.  All of it rests on the lock: what the one    *)
(* process that trains has in memory is ahead of what is on disk, and      *)
(* nobody else moves the files.                                            *)
(***************************************************************************)
EXTENDS TrainingRun, TLAPS

Holding == Working \ {"launched"}

\* fcntl lock: whoever got past _acquire_training_lock has it.
Held == \A p \in Pids : proc[p].stage \in Holding => lock = p

\* The fresh process is the first one, and until it begins there is no checkpoint.
Ready(p) ==
  /\ proc[p].fresh
  /\ proc[p].stage \in {"launched", "claimed", "cleared"}
       \/ (proc[p].stage = "training" /\ mem[p].pc = "begin")
Nothing == last = 0 /\ tip.best = {} /\ tip.ref = {}
FreshFirst ==
  \A p \in Pids : /\ proc[p].fresh => p = FirstPid
                  /\ Ready(p) => Nothing

\* Before a process begins, and once it is gone, it has nothing in memory.
Clean == \A p \in Pids : /\ mem[p].pc = "begin" => mem[p] = Blank
                         /\ proc[p].stage # "training" => mem[p].pc = "begin"

Improves(S, T) == \A b \in S : \E c \in T : c = b \/ c.score > b.score

\* Its step is ahead of last.pt and within its target; its incumbent and its reference
\* are those of last.pt or come after them; the incumbent it could roll back to is on disk.
Ahead(p) ==
  /\ last <= mem[p].step /\ mem[p].step <= proc[p].target
  /\ proc[p].fresh \/ last > 0
  /\ mem[p].pc = "finishing" => last = proc[p].target
  /\ Improves(tip.best, mem[p].best)
  /\ tip.ref # {} => mem[p].ref = tip.ref /\ ~mem[p].founds
  /\ mem[p].wins =>
       mem[p].best # {} /\ mem[p].pc \in {"numbering", "referencing", "promoting", "judged"}
  /\ mem[p].founds => mem[p].pc \in {"numbering", "referencing", "promoting", "judged"}
  /\ mem[p].best # {} /\ (mem[p].wins => mem[p].pc = "judged") => bestFile # {}

RInv ==
  /\ RunTypeOK
  /\ Held /\ FreshFirst /\ Clean
  /\ \A p \in Pids : mem[p].pc # "begin" => Ahead(p)

-----------------------------------------------------------------------------
(* Only the process that trains moves the run. *)

LEMMA OneTrains ==
  ASSUME RInv, NEW p \in Pids, proc[p].stage \in Holding
  PROVE  \A q \in Pids \ {p} : proc[q].stage \notin Holding /\ mem[q].pc = "begin"
<1>1. \A q \in Pids \ {p} : proc[q].stage \notin Holding
  BY DEF RInv, Held
<1> QED BY <1>1 DEF RInv, Clean, Holding, Working

\* A step inside train_from_config that leaves the process table and the lock alone.
LEMMA InsideKeeps ==
  ASSUME RInv, RunTypeOK', NEW p \in Pids, proc[p].stage = "training",
         UNCHANGED <<proc, lock>>,
         \A q \in Pids \ {p} : mem'[q] = mem[q],
         mem'[p].pc # "begin", Ahead(p)',
         UNCHANGED <<last, tip>> \/ mem[p].pc # "begin"
  PROVE  RInv'
<1>1. proc[p].stage \in Holding
  BY DEF Holding, Working
<1>2. \A q \in Pids \ {p} : proc[q].stage \notin Holding /\ mem[q].pc = "begin"
  BY <1>1, OneTrains
<1>3. Held'
  BY DEF RInv, Held
<1>4. FreshFirst'
  <2>1. ASSUME NEW q \in Pids, Ready(q)'
        PROVE  Nothing'
    <3>1. q # p
      BY <2>1 DEF Ready
    <3>2. Ready(q) /\ Nothing /\ q = FirstPid
      BY <2>1, <3>1 DEF Ready, RInv, FreshFirst
    <3>3. UNCHANGED <<last, tip>>
      <4>1. ASSUME mem[p].pc # "begin"
            PROVE  FALSE
        <5>1. proc[p].fresh \/ last > 0
          BY <4>1 DEF RInv, Ahead
        <5> QED BY <3>1, <3>2, <5>1 DEF Nothing, RInv, FreshFirst
      <4> QED BY <4>1
    <3> QED BY <3>2, <3>3 DEF Nothing
  <2>2. \A q \in Pids : (proc[q].fresh => q = FirstPid)'
    BY DEF RInv, FreshFirst
  <2> QED BY <2>1, <2>2 DEF FreshFirst
<1>5. Clean'
  BY DEF RInv, Clean
<1>6. \A q \in Pids : mem'[q].pc # "begin" => Ahead(q)'
  BY <1>2
<1> QED BY <1>3, <1>4, <1>5, <1>6 DEF RInv

\* A step around it: the files stay, and whoever changes its stage does so by the lock.
LEMMA OutsideKeeps ==
  ASSUME RInv, RunTypeOK', NEW p \in Pids,
         \A q \in Pids \ {p} : proc'[q] = proc[q] /\ mem'[q] = mem[q],
         UNCHANGED <<last, tip, bestFile>>,
         mem'[p] = mem[p] \/ mem'[p] = Blank,
         proc'[p].stage # "training" => mem'[p].pc = "begin",
         mem'[p].pc # "begin" => mem'[p] = mem[p] /\ proc'[p] = proc[p],
         proc'[p].fresh => proc[p].fresh,
         Ready(p)' => Ready(p),
         \/ lock' = lock
         \/ proc[p].stage = "launched" /\ lock = Nobody /\ lock' = p
         \/ lock = p /\ lock' = Nobody,
         proc'[p].stage \in Holding => lock' = p
  PROVE  RInv'
<1>1. Held'
  <2>1. ASSUME NEW q \in Pids \ {p}, proc'[q].stage \in Holding
        PROVE  lock' = q
    <3>1. lock = q
      BY <2>1 DEF RInv, Held
    <3> QED BY <3>1, ProcessAssumption
  <2> QED BY <2>1 DEF Held
<1>2. FreshFirst'
  BY DEF RInv, FreshFirst, Ready, Nothing
<1>3. Clean'
  BY DEF RInv, Clean, Blank
<1>4. ASSUME NEW q \in Pids, mem'[q].pc # "begin"
      PROVE  Ahead(q)'
  <2>1. mem'[q] = mem[q] /\ proc'[q] = proc[q]
    BY <1>4
  <2>2. Ahead(q)
    BY <1>4, <2>1 DEF RInv
  <2> QED BY <2>1, <2>2 DEF Ahead
<1> QED BY <1>1, <1>2, <1>3, <1>4 DEF RInv

-----------------------------------------------------------------------------
(* Types. *)

LEMMA JudgementTypes ==
  ASSUME RunTypeOK, NEW p \in Pids, NEW outcome \in Outcomes
  PROVE  /\ Judgement(p, outcome) \in Memory
         /\ AtMostOne(Judgement(p, outcome).best) /\ AtMostOne(Judgement(p, outcome).ref)
         /\ Judgement(p, outcome).pc = "numbering"
         /\ Judgement(p, outcome).step = mem[p].step
         /\ Judgement(p, outcome).wins = Wins(p, outcome)
         /\ Judgement(p, outcome).founds = Founds(p, outcome)
         /\ Judgement(p, outcome).ref =
              IF Founds(p, outcome) THEN {[step |-> mem[p].step, supported |-> TRUE]} ELSE mem[p].ref
         /\ Judgement(p, outcome).best =
              IF Wins(p, outcome) THEN {[step |-> mem[p].step, score |-> outcome.score]}
              ELSE mem[p].best
<1>1. mem[p] \in Memory /\ AtMostOne(mem[p].best) /\ AtMostOne(mem[p].ref)
  BY DEF RunTypeOK
<1>2. outcome.score \in Nat
  <2>1. CASE outcome \in [kind : {"unsupported", "collapsed", "unfit"}, score : {0}]
    BY <2>1
  <2>2. CASE outcome \in [kind : {"eligible"}, score : Scores]
    <3>1. outcome.score \in Scores
      BY <2>2
    <3> QED BY <3>1, RunAssumption
  <2> QED BY <2>1, <2>2 DEF Outcomes
<1>3. mem[p].step \in Nat /\ mem[p].ref \subseteq Reference /\ mem[p].best \subseteq Selection
      /\ mem[p].deferred \in BOOLEAN
  BY <1>1 DEF Memory
<1> DEFINE founds == Founds(p, outcome)
           wins == Wins(p, outcome)
           deferred == IF outcome.kind = "unsupported" THEN mem[p].deferred \/ mem[p].ref = {}
                       ELSE mem[p].deferred /\ mem[p].ref # {}
           ref == IF founds THEN {[step |-> mem[p].step, supported |-> TRUE]} ELSE mem[p].ref
           best == IF wins THEN {[step |-> mem[p].step, score |-> outcome.score]} ELSE mem[p].best
<1>4. ref \in SUBSET Reference /\ AtMostOne(ref)
  <2>1. CASE founds
    <3>1. [step |-> mem[p].step, supported |-> TRUE] \in Reference
      BY <1>3 DEF Reference
    <3> QED BY <2>1, <3>1 DEF AtMostOne
  <2>2. CASE ~founds
    BY <1>1, <1>3, <2>2
  <2> QED BY <2>1, <2>2
<1>5. best \in SUBSET Selection /\ AtMostOne(best)
  <2>1. CASE wins
    BY <1>2, <1>3, <2>1 DEF Selection, AtMostOne
  <2>2. CASE ~wins
    BY <1>1, <1>3, <2>2
  <2> QED BY <2>1, <2>2
<1>6. wins \in BOOLEAN /\ founds \in BOOLEAN /\ deferred \in BOOLEAN
  BY <1>3 DEF Wins, Founds
<1>7. Judgement(p, outcome) =
        [mem[p] EXCEPT !.pc = "numbering", !.outcome = outcome, !.founds = founds, !.wins = wins,
                       !.deferred = deferred, !.ref = ref, !.best = best]
  BY Zenon DEF Judgement
<1> HIDE DEF founds, wins, deferred, ref, best
<1>8. Judgement(p, outcome) \in Memory
  BY <1>1, <1>4, <1>5, <1>6, <1>7 DEF Memory
<1>9. /\ Judgement(p, outcome).pc = "numbering" /\ Judgement(p, outcome).step = mem[p].step
      /\ Judgement(p, outcome).ref = ref /\ Judgement(p, outcome).best = best
  BY <1>1, <1>7 DEF Memory
<1>10. Judgement(p, outcome).wins = wins
  BY <1>1, <1>7 DEF Memory
<1>11. Judgement(p, outcome).founds = founds
  BY <1>1, <1>7 DEF Memory
<1> QED BY <1>4, <1>5, <1>8, <1>9, <1>10, <1>11 DEF founds, wins, ref, best

LEMMA RunStepTypes ==
  ASSUME RInv, NEW p \in Pids, Inside(p) \/ Outside(p) \/ Reaped(p) \/ Mishap(p) \/ Resume(p)
  PROVE  RunTypeOK'
<1> USE RunAssumption DEF RunTypeOK, Doing, Proceeds, Target
<1>1. /\ RunTypeOK /\ mem[p] \in Memory /\ proc[p] \in Process
      /\ mem[p].pc # "begin" => Ahead(p)
      /\ mem[p].pc = "begin" => mem[p] = Blank
  BY DEF RInv, ContractTypeOK, Clean
<1> USE <1>1
<1>2. ASSUME UNCHANGED <<proc, lock, state, failure, summary, diagnosed, asked, deaths, collapsed>>,
             NEW m \in Memory, mem' = [mem EXCEPT ![p] = m], AtMostOne(m.best), AtMostOne(m.ref),
             UNCHANGED <<last, tip, bestFile, refFile, accepted>>
      PROVE  RunTypeOK'
  BY <1>2 DEF ContractTypeOK, AtMostOne
<1>3. CASE BeginFresh(p)
  <2> DEFINE m == [mem[p] EXCEPT !.pc = "validating", !.purpose = "initial"]
  <2>1. m \in Memory /\ m.best = mem[p].best /\ m.ref = mem[p].ref
    BY DEF Memory
  <2>2. mem' = [mem EXCEPT ![p] = m]
    BY <1>3 DEF BeginFresh
  <2> HIDE DEF m
  <2> QED BY <1>2, <1>3, <2>1, <2>2 DEF BeginFresh, contractVars, files, history
<1>4. CASE Load(p)
  <2> DEFINE pc == IF RequiresFinalValidation(p) THEN "validating"
                   ELSE IF last = Target(p) THEN "finishing" ELSE "updating"
             purpose == IF RequiresFinalValidation(p) THEN "recovery" ELSE "none"
             m == [pc |-> pc, step |-> last, weights |-> tip.weights, best |-> tip.best,
                   ref |-> tip.ref, deferred |-> tip.deferred, purpose |-> purpose,
                   outcome |-> NoOutcome, wins |-> FALSE, founds |-> FALSE]
  <2>1. m \in Memory /\ m.best = tip.best /\ m.ref = tip.ref
    <3>1. pc \in {"validating", "finishing", "updating"} /\ purpose \in {"none", "recovery"}
      OBVIOUS
    <3> HIDE DEF pc, purpose
    <3> QED BY <3>1 DEF Memory, Tip, NoOutcome, ContractTypeOK
  <2>2. mem' = [mem EXCEPT ![p] = m]
    BY <1>4 DEF Load
  <2> HIDE DEF m
  <2> QED BY <1>2, <1>4, <2>1, <2>2 DEF Load, contractVars, files, history
<1>5. CASE LoadRaises(p)
  BY <1>5 DEF LoadRaises, Raise, MovesTo, Process, Working, ContractTypeOK, inner, history
<1>6. CASE Update(p)
  <2> DEFINE step == mem[p].step + 1
             pc == CASE step = Target(p)                -> "prevalidated"
                     [] step # Target(p) /\ Divides(EvalEvery, step) -> "validating"
                     [] step # Target(p) /\ ~Divides(EvalEvery, step)
                          /\ Divides(CheckpointEvery, step) -> "saving"
                     [] OTHER                           -> "updating"
             m == [mem[p] EXCEPT !.step = step, !.weights = step, !.purpose = "none", !.pc = pc]
  <2>1. step \in Nat
    BY DEF Memory
  <2>2. pc \in {"prevalidated", "validating", "saving", "updating"}
    <3> HIDE DEF step
    <3> QED OBVIOUS
  <2>3. mem' = [mem EXCEPT ![p] = m]
    BY <1>6 DEF Update
  <2>4. m \in Memory /\ m.best = mem[p].best /\ m.ref = mem[p].ref
    <3> HIDE DEF step, pc
    <3> QED BY <2>1, <2>2 DEF Memory
  <2> HIDE DEF m
  <2> QED BY <1>2, <1>6, <2>3, <2>4 DEF Update, contractVars, files, history
<1>7. ASSUME NEW marker \in {"pending", "validated", "absent"}, NEW pc \in {"validating", "finishing", "updating"},
             SavesLast(p, marker), Proceeds(p, pc)
      PROVE  RunTypeOK'
  <2> DEFINE new == [weights |-> mem[p].weights, best |-> mem[p].best, ref |-> mem[p].ref,
                     deferred |-> mem[p].deferred, marker |-> marker]
  <2>1. new \in Tip /\ new.best = mem[p].best /\ new.ref = mem[p].ref
    BY DEF Tip, Memory
  <2>2. tip' = new /\ last' = mem[p].step /\ last' \in Nat
    BY <1>7 DEF SavesLast, Memory
  <2>3. diagnosed' \in BOOLEAN
    BY <1>7 DEF SavesLast, Memory
  <2>4. mem' \in [Pids -> Memory] /\ \A q \in Pids : mem'[q].best = mem[q].best /\ mem'[q].ref = mem[q].ref
    BY <1>7 DEF Memory
  <2> HIDE DEF new
  <2> QED BY <1>7, <2>1, <2>2, <2>3, <2>4 DEF SavesLast, ContractTypeOK
<1>8. CASE SavePending(p)
  BY <1>7, <1>8 DEF SavePending
<1>9. CASE SaveLast(p)
  <2>1. CASE mem[p].step = Target(p)
    BY <1>7, <1>9, <2>1 DEF SaveLast
  <2>2. CASE mem[p].step # Target(p)
    BY <1>7, <1>9, <2>2 DEF SaveLast
  <2> QED BY <2>1, <2>2
<1>10. CASE Validate(p)
  <2>1. PICK outcome \in Outcomes :
          /\ mem' = [mem EXCEPT ![p] = Judgement(p, outcome)]
          /\ collapsed' = IF outcome.kind \in {"unsupported", "collapsed"} /\ mem[p].best # {}
                          THEN collapsed \cup {mem[p].weights} ELSE collapsed \ {mem[p].weights}
    BY <1>10 DEF Validate
  <2>2. Judgement(p, outcome) \in Memory /\ AtMostOne(Judgement(p, outcome).best)
        /\ AtMostOne(Judgement(p, outcome).ref)
    BY JudgementTypes
  <2>3. collapsed' \subseteq Nat
    BY <2>1 DEF Memory
  <2> HIDE DEF Memory
  <2> QED BY <1>10, <2>1, <2>2, <2>3
          DEF Validate, contractVars, files, ContractTypeOK, AtMostOne
<1>11. CASE SaveNumbered(p)
  BY <1>11 DEF SaveNumbered, contractVars, files, history, ContractTypeOK, Memory
<1>12. CASE SaveReference(p)
  <2>1. refFile' \subseteq Reference /\ AtMostOne(refFile')
    <3>1. refFile' \in {refFile, mem[p].ref, {[step |-> mem[p].step, supported |-> FALSE]}}
      BY <1>12 DEF SaveReference
    <3>2. {[step |-> mem[p].step, supported |-> FALSE]} \subseteq Reference
      BY DEF Memory, Reference
    <3> QED BY <3>1, <3>2 DEF Memory, AtMostOne
  <2>2. diagnosed' \in BOOLEAN
    BY <1>12 DEF SaveReference
  <2>3. mem' \in [Pids -> Memory] /\ \A q \in Pids : mem'[q].best = mem[q].best /\ mem'[q].ref = mem[q].ref
    BY <1>12 DEF SaveReference, Memory
  <2> QED BY <1>12, <2>1, <2>2, <2>3 DEF SaveReference, contractVars, files, ContractTypeOK
<1>13. CASE SaveBest(p)
  BY <1>13 DEF SaveBest, contractVars, files, history, ContractTypeOK, Memory
<1>14. CASE AfterValidation(p)
  <2> DEFINE pc == IF SavesAfter(p) THEN "saving" ELSE "updating"
             m == [mem[p] EXCEPT !.pc = pc, !.weights = Restored(p), !.outcome = NoOutcome,
                                 !.wins = FALSE, !.founds = FALSE]
  <2>1. Restored(p) \in Nat
    <3>1. CASE RollsBack(p)
      <4>1. bestFile # {}
        BY <1>14, <3>1 DEF AfterValidation, RollsBack, Ahead
      <4>2. (CHOOSE b \in bestFile : TRUE) \in Selection
        BY <4>1
      <4> QED BY <3>1, <4>2 DEF Restored, Selection
    <3>2. CASE ~RollsBack(p)
      BY <3>2 DEF Restored, Memory
    <3> QED BY <3>1, <3>2
  <2>2. pc \in {"saving", "updating"}
    OBVIOUS
  <2>3. mem' = [mem EXCEPT ![p] = m]
    BY <1>14 DEF AfterValidation
  <2>4. m \in Memory /\ m.best = mem[p].best /\ m.ref = mem[p].ref
    <3> HIDE DEF pc
    <3> QED BY <2>1, <2>2 DEF Memory
  <2> HIDE DEF m
  <2> QED BY <1>2, <1>14, <2>3, <2>4 DEF AfterValidation, contractVars, files, history
<1>15. Blank \in Memory /\ AtMostOne(Blank.best) /\ AtMostOne(Blank.ref)
  BY DEF Blank, Memory, NoOutcome, AtMostOne
<1>16. CASE Finish(p)
  <2>1. summary' \in Nat
    BY <1>16 DEF Finish, ContractTypeOK, Process
  <2>2. proc' \in [Pids -> Process]
    BY <1>16 DEF Finish, ContractTypeOK, Process, Working
  <2>3. mem' \in [Pids -> Memory] /\ \A q \in Pids : AtMostOne(mem'[q].best) /\ AtMostOne(mem'[q].ref)
    <3> HIDE DEF Memory
    <3> QED BY <1>15, <1>16 DEF Finish
  <2> QED BY <1>16, <2>1, <2>2, <2>3 DEF Finish, ContractTypeOK, history
<1>17. proc \in [Pids -> Process] /\ lock \in Pids \cup {Nobody}
  BY DEF ContractTypeOK
<1>18. ASSUME NEW stage \in Working \cup Exited
       PROVE  [proc EXCEPT ![p].stage = stage] \in [Pids -> Process]
  BY <1>17, <1>18 DEF Process
<1>19. CASE Outside(p) \/ Reaped(p)
  <2>1. UNCHANGED <<mem, tip, bestFile, refFile, accepted, asked, diagnosed, collapsed, deaths>>
    BY <1>19 DEF Outside, Reaped, inner, history
  <2>2. proc' \in [Pids -> Process]
    <3>1. CASE Begin(p)
      <4> DEFINE finished == ~proc[p].fresh /\ last = proc[p].target
      <4>1. finished \in BOOLEAN
        BY Zenon
      <4>2. proc' = [proc EXCEPT ![p] = [@ EXCEPT !.stage = "training", !.noop = finished]]
        BY <3>1 DEF Begin
      <4> HIDE DEF finished
      <4>3. [proc[p] EXCEPT !.stage = "training", !.noop = finished] \in Process
        BY <1>17, <4>1 DEF Process, Working
      <4> QED BY <1>17, <4>2, <4>3
    <3>2. CASE Reap(p)
      <4>1. Free \in Process
        BY DEF Free, Process
      <4> HIDE DEF Process
      <4> QED BY <1>17, <3>2, <4>1 DEF Reap
    <3>3. CASE Exit(p)
      BY <1>18, <3>3 DEF Exit, MovesTo, Exited
    <3>4. CASE \/ Claim(p) \/ Refused(p) \/ ClearFailure(p) \/ RecordRaise(p)
               \/ ClearOnSuccess(p) \/ Complete(p)
      <4>1. PICK stage \in {"claimed", "died", "cleared", "failing", "completing", "done"} :
              proc' = [proc EXCEPT ![p].stage = stage]
        BY <3>4 DEF Claim, Refused, ClearFailure, RecordRaise, ClearOnSuccess, Complete, MovesTo
      <4> QED BY <1>18, <4>1 DEF Working, Exited
    <3> QED BY <1>19, <3>1, <3>2, <3>3, <3>4 DEF Outside, Reaped
  <2>3. /\ lock' \in {p, lock, Nobody} /\ state' \in {state, "running", "failed", "completed"}
        /\ failure' \in {failure, FALSE, TRUE} /\ last' = last /\ summary' = summary
    BY <1>19 DEF Outside, Reaped, Claim, Refused, ClearFailure, Begin, RecordRaise, ClearOnSuccess,
                 Complete, Exit, Released, Reap, files
  <2>4. ContractTypeOK'
    BY <1>17, <2>2, <2>3 DEF ContractTypeOK
  <2> HIDE DEF Memory
  <2> QED BY <2>1, <2>4
<1>20. CASE Mishap(p)
  <2>1. ContractTypeOK'
    <3>1. PICK stage \in {"raised", "died"} : proc' = [proc EXCEPT ![p].stage = stage]
      BY <1>20 DEF Mishap, Raise, Killed, MovesTo
    <3>2. lock' \in {lock, Nobody} /\ failure' \in {failure, TRUE} /\ UNCHANGED <<state, last, summary>>
      BY <1>20 DEF Mishap, Raise, Killed, Released, files
    <3>3. proc' \in [Pids -> Process]
      BY <1>18, <3>1 DEF Working, Exited
    <3> QED BY <1>17, <3>2, <3>3 DEF ContractTypeOK
  <2>2. mem' \in [Pids -> Memory] /\ \A q \in Pids : AtMostOne(mem'[q].best) /\ AtMostOne(mem'[q].ref)
    BY <1>15, <1>20 DEF Mishap
  <2> QED BY <1>20, <2>1, <2>2 DEF Mishap
<1>21. CASE Resume(p)
  BY <1>21, RunAssumption DEF Resume, Launch, Trainer, files, Process, Working, ContractTypeOK, inner
<1> QED BY <1>3, <1>4, <1>5, <1>6, <1>8, <1>9, <1>10, <1>11, <1>12, <1>13, <1>14, <1>16, <1>19,
           <1>20, <1>21
        DEF Inside

-----------------------------------------------------------------------------
(* Every step keeps the invariant. *)

LEMMA Orders ==
  ASSUME RInv, NEW p \in Pids
  PROVE  /\ last \in Nat /\ mem[p].step \in Nat /\ proc[p].target \in Nat
         /\ tip.best \subseteq Selection /\ mem[p].best \subseteq Selection
         /\ mem \in [Pids -> Memory] /\ mem[p] \in Memory
         /\ proc \in [Pids -> Process]
<1>1. proc[p] \in Process /\ mem[p] \in Memory /\ tip \in Tip
  BY DEF RInv, RunTypeOK, ContractTypeOK
<1>2. proc[p].target \in Nat
  BY <1>1 DEF Process
<1>3. mem[p].step \in Nat /\ mem[p].best \subseteq Selection
  BY <1>1 DEF Memory
<1>4. tip.best \subseteq Selection
  BY <1>1 DEF Tip
<1> QED BY <1>1, <1>2, <1>3, <1>4 DEF RInv, RunTypeOK, ContractTypeOK

LEMMA BeginnersKeep ==
  ASSUME RInv, RunTypeOK', NEW p \in Pids, BeginFresh(p) \/ Load(p)
  PROVE  RInv'
<1> USE DEF Doing, Target, contractVars, files
<1>1. proc[p].stage = "training" /\ mem[p] = Blank /\ UNCHANGED <<proc, lock, last, tip, bestFile>>
  BY DEF BeginFresh, Load, RInv, Clean
<1>2. /\ last \in Nat /\ proc[p].target \in Nat /\ mem \in [Pids -> Memory]
      /\ Improves(tip.best, tip.best)
  BY Orders DEF Improves
<1>3. \A q \in Pids \ {p} : mem'[q] = mem[q]
  BY <1>2 DEF BeginFresh, Load
<1>4. CASE BeginFresh(p)
  <2>1. Nothing
    BY <1>1, <1>4 DEF BeginFresh, RInv, FreshFirst, Ready
  <2>2. /\ mem'[p].pc = "validating" /\ mem'[p].step = 0 /\ mem'[p].best = {} /\ ~mem'[p].wins
        /\ ~mem'[p].founds
    <3>1. mem'[p] = [Blank EXCEPT !.pc = "validating", !.purpose = "initial"]
      BY <1>1, <1>2, <1>4 DEF BeginFresh
    <3> QED BY <3>1 DEF Blank
  <2>3. Ahead(p)'
    BY <1>1, <1>2, <1>4, <2>1, <2>2 DEF BeginFresh, Nothing, Ahead, Improves
  <2> QED BY <1>1, <1>3, <2>2, <2>3, InsideKeeps
<1>5. CASE Load(p)
  <2>1. Loads(proc[p].target)
    BY <1>5 DEF Load
  <2>2. /\ mem'[p].pc \in {"validating", "finishing", "updating"}
        /\ mem'[p].pc = "finishing" => last = proc[p].target
        /\ mem'[p].step = last /\ mem'[p].best = tip.best /\ mem'[p].ref = tip.ref
        /\ ~mem'[p].wins /\ ~mem'[p].founds
    BY <1>2, <1>5 DEF Load
  <2>3. Ahead(p)'
    BY <1>1, <1>2, <2>1, <2>2 DEF Ahead, Loads, Linked
  <2> QED BY <1>1, <1>3, <2>2, <2>3, InsideKeeps
<1> QED BY <1>4, <1>5

LEMMA LoopKeeps ==
  ASSUME RInv, RunTypeOK', NEW p \in Pids,
         \/ Update(p) \/ SavePending(p) \/ Validate(p) \/ SaveNumbered(p) \/ SaveReference(p)
         \/ SaveBest(p) \/ AfterValidation(p) \/ SaveLast(p)
  PROVE  RInv'
<1> USE DEF Doing, Proceeds, Target, contractVars, files
<1>1. /\ proc[p].stage = "training" /\ mem[p].pc # "begin" /\ UNCHANGED <<proc, lock>>
      /\ \A q \in Pids \ {p} : mem'[q] = mem[q]
  <2>1. mem \in [Pids -> Memory]
    BY Orders
  <2>2. CASE SavePending(p)
    BY <2>1, <2>2 DEF SavePending, SavesLast
  <2>3. CASE SaveLast(p)
    BY <2>1, <2>3 DEF SaveLast, SavesLast
  <2>4. CASE Update(p)
    BY <2>1, <2>4 DEF Update
  <2>5. CASE Validate(p)
    BY <2>1, <2>5 DEF Validate
  <2>6. CASE SaveNumbered(p) \/ SaveReference(p) \/ SaveBest(p)
    BY <2>1, <2>6 DEF SaveNumbered, SaveReference, SaveBest
  <2>7. CASE AfterValidation(p)
    BY <2>1, <2>7 DEF AfterValidation
  <2> QED BY <2>2, <2>3, <2>4, <2>5, <2>6, <2>7
<1>2. Ahead(p)
  BY <1>1 DEF RInv
<1>3. /\ last \in Nat /\ mem[p].step \in Nat /\ proc[p].target \in Nat
      /\ tip.best \subseteq Selection /\ mem[p].best \subseteq Selection
      /\ mem \in [Pids -> Memory] /\ mem[p] \in Memory
  BY Orders
<1>4. SUFFICES mem'[p].pc # "begin" /\ Ahead(p)'
  BY <1>1, InsideKeeps
<1>5. CASE Update(p)
  <2>1. /\ mem[p].step < proc[p].target /\ mem[p].pc = "updating"
        /\ UNCHANGED <<last, tip, bestFile>>
    BY <1>5 DEF Update
  <2>2. /\ mem'[p].step = mem[p].step + 1
        /\ mem'[p].pc \in {"prevalidated", "validating", "saving", "updating"}
        /\ mem'[p].best = mem[p].best /\ mem'[p].ref = mem[p].ref
        /\ mem'[p].wins = mem[p].wins /\ mem'[p].founds = mem[p].founds
    <3> DEFINE pc == CASE mem[p].step + 1 = Target(p)                -> "prevalidated"
                 [] mem[p].step + 1 # Target(p) /\ Divides(EvalEvery, mem[p].step + 1) -> "validating"
                 [] mem[p].step + 1 # Target(p) /\ ~Divides(EvalEvery, mem[p].step + 1)
                        /\ Divides(CheckpointEvery, mem[p].step + 1) -> "saving"
                 [] OTHER                           -> "updating"
               step == mem[p].step + 1
    <3>1. pc \in {"prevalidated", "validating", "saving", "updating"}
      <4> HIDE DEF Target
      <4> QED OBVIOUS
    <3>2. mem' = [mem EXCEPT ![p] = [@ EXCEPT !.step = step, !.weights = step, !.purpose = "none",
                                              !.pc = pc]]
      BY <1>5 DEF Update
    <3> HIDE DEF pc, step
    <3>3. /\ mem'[p].step = step /\ mem'[p].pc = pc
          /\ mem'[p].best = mem[p].best /\ mem'[p].ref = mem[p].ref
      BY <1>3, <3>2 DEF Memory
    <3>4. mem'[p].wins = mem[p].wins
      BY <1>3, <3>2 DEF Memory
    <3>5. mem'[p].founds = mem[p].founds
      BY <1>3, <3>2 DEF Memory
    <3> QED BY <3>1, <3>3, <3>4, <3>5 DEF step
  <2> QED BY <1>1, <1>2, <1>3, <2>1, <2>2 DEF Ahead
<1>6. ASSUME SavesLast(p, "pending") \/ SavesLast(p, "validated") \/ SavesLast(p, "absent"),
             NEW pc \in {"validating", "finishing", "updating"}, Proceeds(p, pc),
             mem[p].pc \in {"prevalidated", "saving"}, pc = "finishing" => mem[p].step = proc[p].target
      PROVE  mem'[p].pc # "begin" /\ Ahead(p)'
  <2>1. last' = mem[p].step /\ tip'.best = mem[p].best /\ tip'.ref = mem[p].ref /\ bestFile' = bestFile
    BY <1>6 DEF SavesLast
  <2>2. /\ mem'[p].pc = pc /\ mem'[p].step = mem[p].step
        /\ mem'[p].best = mem[p].best /\ mem'[p].ref = mem[p].ref
    BY <1>3, <1>6 DEF Memory
  <2>3. mem'[p].wins = mem[p].wins /\ mem'[p].founds = mem[p].founds
    BY <1>3, <1>6 DEF Memory
  <2>4. proc[p].fresh \/ last' > 0
    BY <1>2, <1>3, <2>1 DEF Ahead
  <2> QED BY <1>1, <1>2, <1>3, <1>6, <2>1, <2>2, <2>3, <2>4 DEF Ahead, Improves
<1>7. CASE SavePending(p)
  BY <1>6, <1>7 DEF SavePending
<1>8. CASE SaveLast(p)
  <2>1. CASE mem[p].step = Target(p)
    BY <1>6, <1>8, <2>1 DEF SaveLast
  <2>2. CASE mem[p].step # Target(p)
    BY <1>6, <1>8, <2>2 DEF SaveLast
  <2> QED BY <2>1, <2>2
<1>9. CASE Validate(p)
  <2>1. PICK outcome \in Outcomes : mem' = [mem EXCEPT ![p] = Judgement(p, outcome)]
    BY <1>9 DEF Validate
  <2>2. UNCHANGED <<last, tip, bestFile>> /\ mem[p].pc = "validating"
    BY <1>9 DEF Validate
  <2>3. mem'[p] = Judgement(p, outcome)
    BY <1>3, <2>1
  <2>4. /\ mem'[p].pc = "numbering" /\ mem'[p].step = mem[p].step
        /\ mem'[p].wins = Wins(p, outcome) /\ mem'[p].founds = Founds(p, outcome)
        /\ mem'[p].ref = IF Founds(p, outcome) THEN {[step |-> mem[p].step, supported |-> TRUE]}
                         ELSE mem[p].ref
        /\ mem'[p].best = IF Wins(p, outcome) THEN {[step |-> mem[p].step, score |-> outcome.score]}
                          ELSE mem[p].best
    BY <2>3, JudgementTypes DEF RInv
  <2>5. Improves(tip.best, mem'[p].best)
    <3>1. CASE Wins(p, outcome)
      <4> DEFINE new == [step |-> mem[p].step, score |-> outcome.score]
      <4>1. new \in mem'[p].best /\ new.score = outcome.score
        BY <2>4, <3>1
      <4>2. outcome.score \in Nat
        <5>1. mem'[p].best \subseteq Selection
          BY DEF RunTypeOK, Memory
        <5> QED BY <4>1, <5>1 DEF Selection
      <4>3. \A b \in mem[p].best : outcome.score > b.score
        BY <3>1 DEF Wins
      <4>4. ASSUME NEW b \in tip.best
            PROVE  new.score > b.score
        <5>1. PICK c \in mem[p].best : c = b \/ c.score > b.score
          BY <1>2 DEF Ahead, Improves
        <5>2. b.score \in Nat /\ c.score \in Nat
          BY <1>3 DEF Selection
        <5> QED BY <4>1, <4>2, <4>3, <5>1, <5>2
      <4> QED BY <4>1, <4>4 DEF Improves
    <3>2. CASE ~Wins(p, outcome)
      BY <1>2, <2>4, <3>2 DEF Ahead
    <3> QED BY <3>1, <3>2
  <2>6. tip.ref # {} => ~Founds(p, outcome)
    BY <1>2 DEF Ahead, Founds
  <2>7. mem'[p].wins => mem'[p].best # {}
    BY <2>4
  <2>8. mem'[p].best # {} /\ ~mem'[p].wins => bestFile # {}
    BY <1>2, <2>2, <2>4 DEF Ahead
  <2> QED BY <1>1, <1>2, <2>2, <2>4, <2>5, <2>6, <2>7, <2>8 DEF Ahead
<1>10. ASSUME UNCHANGED <<last, tip>>,
              NEW from \in {"numbering", "referencing", "promoting"}, mem[p].pc = from,
              NEW pc \in {"referencing", "promoting", "judged"}, Proceeds(p, pc),
              pc = "judged" /\ mem[p].best # {} => bestFile' # {},
              mem[p].best # {} /\ ~mem[p].wins => bestFile' # {}
       PROVE  mem'[p].pc # "begin" /\ Ahead(p)'
  <2>1. /\ mem'[p].pc = pc /\ mem'[p].step = mem[p].step
        /\ mem'[p].best = mem[p].best /\ mem'[p].ref = mem[p].ref
    BY <1>3, <1>10 DEF Memory
  <2>2. mem'[p].wins = mem[p].wins /\ mem'[p].founds = mem[p].founds
    BY <1>3, <1>10 DEF Memory
  <2> QED BY <1>1, <1>2, <1>10, <2>1, <2>2 DEF Ahead
<1>11. CASE SaveNumbered(p)
  BY <1>2, <1>10, <1>11 DEF SaveNumbered, Ahead
<1>12. CASE SaveReference(p)
  BY <1>2, <1>10, <1>12 DEF SaveReference, Ahead
<1>13. CASE SaveBest(p)
  BY <1>2, <1>10, <1>13 DEF SaveBest, Ahead
<1>14. CASE AfterValidation(p)
  <2> DEFINE pc == IF SavesAfter(p) THEN "saving" ELSE "updating"
             weights == Restored(p)
  <2>1. mem' = [mem EXCEPT ![p] = [@ EXCEPT !.pc = pc, !.weights = weights, !.outcome = NoOutcome,
                                            !.wins = FALSE, !.founds = FALSE]]
    BY <1>14 DEF AfterValidation
  <2>2. pc \in {"saving", "updating"}
    OBVIOUS
  <2> HIDE DEF pc, weights
  <2>3. /\ mem'[p].pc = pc /\ mem'[p].step = mem[p].step
        /\ mem'[p].best = mem[p].best /\ mem'[p].ref = mem[p].ref
    BY <1>3, <2>1 DEF Memory
  <2>4. mem'[p].wins = FALSE /\ mem'[p].founds = FALSE
    BY <1>3, <2>1 DEF Memory
  <2>5. UNCHANGED <<last, tip, bestFile>> /\ mem[p].pc = "judged"
    BY <1>14 DEF AfterValidation
  <2> QED BY <1>1, <1>2, <2>2, <2>3, <2>4, <2>5 DEF Ahead
<1> QED BY <1>5, <1>7, <1>8, <1>9, <1>11, <1>12, <1>13, <1>14

LEMMA AroundKeeps ==
  ASSUME RInv, RunTypeOK', NEW p \in Pids,
         LoadRaises(p) \/ Finish(p) \/ Outside(p) \/ Reaped(p) \/ Mishap(p) \/ Resume(p)
  PROVE  RInv'
<1> USE DEF Doing, Target, contractVars, files, inner, history, MovesTo
<1>1. /\ mem \in [Pids -> Memory] /\ proc \in [Pids -> Process] /\ proc[p] \in Process
      /\ proc[p].stage \in Holding => lock = p
      /\ mem[p].pc = "begin" => mem[p] = Blank
      /\ proc[p].stage # "training" => mem[p].pc = "begin"
      /\ Blank.pc = "begin"
  BY Orders DEF RInv, Held, Clean, Blank
<1>2. /\ Holding = {"claimed", "cleared", "training", "raised", "failing", "published",
                    "completing", "done"}
      /\ Working = Holding \cup {"launched"}
  BY DEF Holding, Working
<1>3. ASSUME \A q \in Pids \ {p} : proc'[q] = proc[q], UNCHANGED <<last, tip, bestFile>>,
             mem' = mem \/ mem' = [mem EXCEPT ![p] = Blank],
             mem' = mem => mem[p].pc = "begin",
             proc'[p].fresh => proc[p].fresh,
             Ready(p)' => Ready(p),
             \/ lock' = lock
             \/ proc[p].stage = "launched" /\ lock = Nobody /\ lock' = p
             \/ lock = p /\ lock' = Nobody,
             proc'[p].stage \in Holding => lock' = p
      PROVE  RInv'
  <2>1. \A q \in Pids \ {p} : mem'[q] = mem[q]
    BY <1>1, <1>3
  <2>2. mem'[p].pc = "begin" /\ (mem'[p] = mem[p] \/ mem'[p] = Blank)
    BY <1>1, <1>3
  <2> QED BY <1>3, <2>1, <2>2, OutsideKeeps
<1>4. CASE Outside(p) \/ Reaped(p)
  <2>1. mem' = mem /\ UNCHANGED <<last, tip, bestFile>> /\ proc[p].stage # "training"
    BY <1>4 DEF Outside, Reaped, Claim, Refused, ClearFailure, Begin, RecordRaise, ClearOnSuccess, Complete,
                Exit, Reap, Exited
  <2>2. \A q \in Pids \ {p} : proc'[q] = proc[q]
    BY <1>1, <1>4 DEF Outside, Reaped, Claim, Refused, ClearFailure, Begin, RecordRaise, ClearOnSuccess,
                      Complete, Exit, Reap
  <2>3. CASE Claim(p)
    <3>1. proc'[p].stage = "claimed" /\ proc'[p].fresh = proc[p].fresh
      BY <1>1, <2>3 DEF Claim
    <3> QED BY <1>1, <1>2, <1>3, <2>1, <2>2, <2>3, <3>1 DEF Claim, Ready
  <2>4. CASE Begin(p)
    <3>1. proc'[p].stage = "training" /\ proc'[p].fresh = proc[p].fresh
      BY <1>1, <2>4 DEF Begin
    <3> QED BY <1>1, <1>2, <1>3, <2>1, <2>2, <2>4, <3>1 DEF Begin, Ready
  <2>5. CASE ClearFailure(p)
    <3>1. proc'[p].stage = "cleared" /\ proc'[p].fresh = proc[p].fresh
      BY <1>1, <2>5 DEF ClearFailure
    <3> QED BY <1>1, <1>2, <1>3, <2>1, <2>2, <2>5, <3>1 DEF ClearFailure, Ready
  <2>6. CASE Refused(p)
    <3>1. proc'[p].stage = "died" /\ proc'[p].fresh = proc[p].fresh
      BY <1>1, <2>6 DEF Refused
    <3> QED BY <1>1, <1>2, <1>3, <2>1, <2>2, <2>6, <3>1 DEF Refused, Ready
  <2>7. CASE RecordRaise(p) \/ ClearOnSuccess(p) \/ Complete(p)
    <3>1. /\ proc'[p].stage \in {"failing", "completing", "done"} /\ proc'[p].fresh = proc[p].fresh
          /\ proc[p].stage \in Holding /\ lock' = lock
      <4>1. CASE RecordRaise(p)
        BY <1>1, <1>2, <4>1 DEF RecordRaise
      <4>2. CASE ClearOnSuccess(p)
        BY <1>1, <1>2, <4>2 DEF ClearOnSuccess
      <4>3. CASE Complete(p)
        BY <1>1, <1>2, <4>3 DEF Complete
      <4> QED BY <2>7, <4>1, <4>2, <4>3
    <3> QED BY <1>1, <1>2, <1>3, <2>1, <2>2, <3>1 DEF Ready
  <2>8. CASE Exit(p)
    <3>1. /\ proc'[p].stage \in {"succeeded", "died"} /\ proc'[p].fresh = proc[p].fresh
          /\ lock' = lock \/ (lock = p /\ lock' = Nobody)
      <4>1. PICK from \in {"done", "failing"}, to \in {"succeeded", "died"} : MovesTo(p, from, to)
        BY <2>8 DEF Exit
      <4>2. proc'[p].stage = to /\ proc'[p].fresh = proc[p].fresh
        BY <1>1, <4>1
      <4> QED BY <2>8, <4>2 DEF Exit, Released
    <3> QED BY <1>1, <1>2, <1>3, <2>1, <2>2, <3>1 DEF Ready
  <2>9. CASE Reap(p)
    <3>1. proc'[p].stage = "none" /\ proc'[p].fresh = FALSE /\ lock' = lock
      BY <1>1, <2>9 DEF Reap, Free
    <3> QED BY <1>1, <1>2, <1>3, <2>1, <2>2, <3>1 DEF Ready
  <2> QED BY <1>4, <2>3, <2>4, <2>5, <2>6, <2>7, <2>8, <2>9 DEF Outside, Reaped
<1>5. ASSUME Raise(p) \/ Killed(p), UNCHANGED <<tip, bestFile>>,
             mem' = [mem EXCEPT ![p] = Blank] \/ (mem' = mem /\ mem[p].pc = "begin")
      PROVE  RInv'
  <2>1. UNCHANGED last /\ \A q \in Pids \ {p} : proc'[q] = proc[q]
    BY <1>1, <1>5 DEF Raise, Killed
  <2>2. CASE Raise(p)
    <3>1. proc'[p].stage = "raised" /\ proc'[p].fresh = proc[p].fresh /\ proc[p].stage \in Holding
          /\ lock' = lock
      BY <1>1, <1>2, <2>2 DEF Raise
    <3> QED BY <1>1, <1>2, <1>3, <1>5, <2>1, <3>1 DEF Ready
  <2>3. CASE Killed(p)
    <3>1. /\ proc'[p].stage = "died" /\ proc'[p].fresh = proc[p].fresh
          /\ lock' = lock \/ (lock = p /\ lock' = Nobody)
      BY <1>1, <2>3 DEF Killed, Released
    <3> QED BY <1>1, <1>2, <1>3, <1>5, <2>1, <3>1 DEF Ready
  <2> QED BY <1>5, <2>2, <2>3
<1>6. CASE LoadRaises(p)
  BY <1>5, <1>6 DEF LoadRaises
<1>7. CASE Mishap(p)
  BY <1>5, <1>7 DEF Mishap
<1>8. CASE Finish(p)
  <2>1. /\ proc'[p].stage = "published" /\ proc'[p].fresh = proc[p].fresh
        /\ proc[p].stage \in Holding
        /\ \A q \in Pids \ {p} : proc'[q] = proc[q]
    BY <1>1, <1>2, <1>8 DEF Finish
  <2>2. UNCHANGED <<lock, last, tip, bestFile>> /\ mem' = [mem EXCEPT ![p] = Blank]
    BY <1>8 DEF Finish
  <2>3. mem' = mem => mem[p].pc = "begin"
    BY <1>1, <2>2
  <2> QED BY <1>1, <1>2, <1>3, <2>1, <2>2, <2>3 DEF Ready
<1>9. CASE Resume(p)
  <2>1. PICK target : Launch(p, target)
    BY <1>9 DEF Resume
  <2>2. /\ proc'[p].stage = "launched" /\ proc'[p].fresh = FALSE /\ proc[p].stage = "none"
        /\ \A q \in Pids \ {p} : proc'[q] = proc[q]
    BY <1>1, <2>1 DEF Launch, Trainer, Free
  <2>3. UNCHANGED <<lock, last, tip, bestFile, mem>>
    BY <1>9, <2>1 DEF Resume, Launch
  <2> QED BY <1>1, <1>2, <1>3, <2>2, <2>3 DEF Ready
<1> QED BY <1>4, <1>6, <1>7, <1>8, <1>9

\* What others do leaves the processes of the run, its lock and its checkpoints alone.
LEMMA WorldMoves ==
  ASSUME RInv, World
  PROVE  /\ RunTypeOK'
         /\ UNCHANGED <<lock, last, summary, mem, tip, bestFile, refFile, accepted, asked, diagnosed,
                        collapsed, deaths>>
         /\ \A p \in Pids : \/ proc'[p] = proc[p]
                            \/ /\ proc[p].stage = "none"
                               /\ proc'[p].stage = "none" /\ ~proc'[p].fresh
<1> USE DEF World, Elsewhere, FailureNoted, FailedNoted, IdReused, OtherEnds, files, inner, history,
            Other, Free
<1>1. proc \in [Pids -> Process]
  BY DEF RInv, RunTypeOK, ContractTypeOK
<1>2. Free \in Process /\ Other \in Process
  BY DEF Process
<1>3. \/ proc' = proc
      \/ \E p \in Pids : \/ proc[p] = Free /\ proc' = [proc EXCEPT ![p] = Other]
                         \/ proc[p] = Other /\ proc' = [proc EXCEPT ![p] = Free]
  <2>1. CASE FailureNoted \/ FailedNoted
    BY <2>1
  <2>2. CASE \E p \in Pids : IdReused(p) \/ OtherEnds(p)
    BY <2>2
  <2> QED BY <2>1, <2>2
<1>4. proc' \in [Pids -> Process]
  BY <1>1, <1>2, <1>3
<1>5. RunTypeOK'
  BY <1>4 DEF RInv, RunTypeOK, ContractTypeOK
<1> QED BY <1>1, <1>3, <1>5

LEMMA WorldKeeps ==
  ASSUME RInv, World
  PROVE  RInv'
<1>1. \A p \in Pids : mem[p].pc # "begin" => proc[p].stage = "training"
  BY DEF RInv, Clean
<1>2. Held'
  BY WorldMoves DEF RInv, Held, Holding, Working
<1>3. FreshFirst'
  BY WorldMoves DEF RInv, FreshFirst, Ready, Nothing
<1>4. Clean'
  BY WorldMoves DEF RInv, Clean
<1>5. ASSUME NEW p \in Pids, mem'[p].pc # "begin"
      PROVE  Ahead(p)'
  BY <1>1, <1>5, WorldMoves DEF RInv, Ahead
<1> QED BY <1>2, <1>3, <1>4, <1>5, WorldMoves DEF RInv

LEMMA RunStepKeeps ==
  ASSUME RInv, [RunNext]_runVars
  PROVE  RInv'
<1>0. CASE World
  BY <1>0, WorldKeeps
<1>1. CASE RunNext /\ ~World
  <2>1. PICK p \in Pids : Inside(p) \/ Outside(p) \/ Reaped(p) \/ Mishap(p) \/ Resume(p)
    BY <1>1 DEF RunNext
  <2>2. RunTypeOK'
    BY <2>1, RunStepTypes
  <2> QED BY <2>1, <2>2, BeginnersKeep, LoopKeeps, AroundKeeps DEF Inside
<1>2. CASE UNCHANGED runVars
  <2>1. UNCHANGED <<proc, lock, state, failure, last, summary, mem, tip, bestFile, refFile, accepted,
                    asked, diagnosed, collapsed, deaths>>
    BY <1>2 DEF runVars, contractVars, files, inner, history
  <2>2. RunTypeOK'
    BY <2>1 DEF RInv, RunTypeOK, ContractTypeOK
  <2> QED BY <2>1, <2>2 DEF RInv, Held, FreshFirst, Ready, Nothing, Clean, Ahead
<1> QED BY <1>0, <1>1, <1>2

LEMMA RunInitEstablishes ==
  ASSUME RunInit
  PROVE  RInv
<1> USE DEF RunInit, ContractInit
<1>1. \A p \in Pids : proc[p] = IF p = FirstPid THEN Trainer(FirstTarget, TRUE) ELSE Free
  BY ProcessAssumption
<1>2. /\ Blank \in Memory /\ AtMostOne(Blank.best) /\ AtMostOne(Blank.ref)
      /\ NoTip \in Tip /\ NoTip.best = {} /\ NoTip.ref = {} /\ AtMostOne({}) /\ Blank.pc = "begin"
  BY DEF Blank, Memory, NoOutcome, AtMostOne, NoTip, Tip
<1>3. ContractTypeOK
  <2>1. Trainer(FirstTarget, TRUE) \in Process /\ Free \in Process
    BY TargetAssumption DEF Trainer, Free, Process, Working
  <2> QED BY <2>1, ProcessAssumption DEF ContractTypeOK
<1>4. RunTypeOK
  BY <1>2, <1>3, RunAssumption DEF RunTypeOK
<1>5. Held /\ FreshFirst
  BY <1>1, <1>2 DEF Held, FreshFirst, Nothing, Trainer, Free, Holding, Working
<1>6. Clean /\ \A p \in Pids : mem[p].pc = "begin"
  BY <1>2 DEF Clean
<1> QED BY <1>4, <1>5, <1>6 DEF RInv

-----------------------------------------------------------------------------
(* The theorems. *)

THEOREM RunInvariance == RunSpec => []RInv
BY RunInitEstablishes, RunStepKeeps, PTL DEF RunSpec

\* Types, and that no selector file or link ever names two checkpoints.
THEOREM RunTypeCorrect == RunSpec => []RunTypeOK
<1>1. RInv => RunTypeOK
  BY DEF RInv
<1> QED BY <1>1, RunInvariance, PTL

\* Inside train_from_config a process goes on as the contract says, or raises: every save of
\* last.pt moves it forward within the target, and whoever publishes has reached it or keeps
\* the summary it found.
LEMMA InsideProgresses ==
  ASSUME RInv, NEW p \in Pids, Inside(p)
  PROVE  Progress(p) \/ Raise(p) \/ UNCHANGED contractVars
<1> USE DEF Doing, Proceeds, Target
<1>1. mem[p].pc # "begin" => Ahead(p)
  BY DEF RInv
<1>2. ASSUME proc[p].stage = "training", mem[p].pc # "begin",
             SavesLast(p, "pending") \/ SavesLast(p, "validated") \/ SavesLast(p, "absent")
      PROVE  Checkpoint(p) \/ UNCHANGED contractVars
  <2>1. UNCHANGED <<proc, lock, state, failure, summary>> /\ last' = mem[p].step
    BY <1>2 DEF SavesLast
  <2>2. CASE last' = last
    BY <2>1, <2>2 DEF contractVars, files
  <2>3. CASE last' # last
    <3>1. last' \in last + 1 .. proc[p].target /\ (proc[p].fresh \/ last > 0)
      BY <1>1, <1>2, <2>1, <2>3, Orders DEF Ahead
    <3> QED BY <1>2, <2>1, <3>1 DEF Checkpoint
  <2> QED BY <2>2, <2>3
<1>3. CASE SavePending(p) \/ SaveLast(p)
  BY <1>2, <1>3 DEF SavePending, SaveLast, Progress
<1>4. CASE Finish(p)
  <2>1. /\ proc[p].stage = "training" /\ proc' = [proc EXCEPT ![p].stage = "published"]
        /\ UNCHANGED <<lock, state, failure, last>>
        /\ last = proc[p].target
    BY <1>1, <1>4 DEF Finish, Ahead
  <2>2. CASE proc[p].noop /\ mem[p].purpose # "recovery" /\ summary # 0
    BY <1>4, <2>1, <2>2 DEF Finish, KeepSummary, MovesTo, files, Progress
  <2>3. CASE ~(proc[p].noop /\ mem[p].purpose # "recovery" /\ summary # 0)
    BY <1>4, <2>1, <2>3 DEF Finish, Publish, MovesTo, Progress
  <2> QED BY <2>2, <2>3
<1>5. CASE LoadRaises(p)
  BY <1>5 DEF LoadRaises
<1>6. CASE BeginFresh(p) \/ Load(p) \/ Update(p) \/ Validate(p) \/ SaveNumbered(p)
           \/ SaveReference(p) \/ SaveBest(p) \/ AfterValidation(p)
  BY <1>6 DEF BeginFresh, Load, Update, Validate, SaveNumbered, SaveBest, AfterValidation,
              SaveReference
<1> QED BY <1>3, <1>4, <1>5, <1>6 DEF Inside

LEMMA StepRefines ==
  ASSUME RInv, NEW p \in Pids, Inside(p) \/ Outside(p) \/ Reaped(p) \/ Mishap(p) \/ Resume(p)
  PROVE  [ContractNext]_contractVars
<1>1. CASE Inside(p)
  BY <1>1, InsideProgresses DEF ContractNext
<1>2. CASE Resume(p)
  <2>1. PICK target \in Targets : Launch(p, target)
    BY <1>2 DEF Resume
  <2>2. proc'[p].target = target
    BY <2>1, Orders DEF Launch, Trainer
  <2> QED BY <2>1, <2>2 DEF ContractNext
<1>3. CASE Mishap(p)
  BY <1>3 DEF Mishap, ContractNext
<1>4. CASE Outside(p) \/ Reaped(p)
  BY <1>4 DEF Outside, Reaped, ContractNext, Progress
<1> QED BY <1>1, <1>2, <1>3, <1>4

\* A training run is an implementation of what the supervisor assumes of it.
THEOREM RunImplementsContract == RunSpec => Contract
<1>1. RunInit => ContractInit
  BY DEF RunInit
<1>2. RInv /\ RInv' /\ [RunNext]_runVars => [ContractNext]_contractVars
  <2>1. CASE RunNext
    BY <2>1, StepRefines DEF RunNext, World, ContractNext
  <2>2. CASE UNCHANGED runVars
    BY <2>2 DEF runVars
  <2> QED BY <2>1, <2>2
<1> QED BY <1>1, <1>2, RunInvariance, PTL DEF RunSpec, Contract

\* last.pt's selection changes only when it is saved, by the process that trains.
LEMMA TipMoves ==
  ASSUME RInv, [RunNext]_runVars
  PROVE  \/ UNCHANGED <<tip>>
         \/ \E p \in Pids : /\ mem[p].pc # "begin" /\ refFile' = refFile
                            /\ tip'.best = mem[p].best /\ tip'.ref = mem[p].ref
<1>1. CASE UNCHANGED runVars
  BY <1>1 DEF runVars, inner
<1>2. ASSUME NEW p \in Pids, Inside(p) \/ Outside(p) \/ Reaped(p) \/ Mishap(p) \/ Resume(p)
      PROVE  \/ UNCHANGED <<tip>>
             \/ /\ mem[p].pc # "begin" /\ refFile' = refFile
                /\ tip'.best = mem[p].best /\ tip'.ref = mem[p].ref
  <2>1. CASE SavePending(p) \/ SaveLast(p)
    BY <2>1 DEF SavePending, SaveLast, SavesLast, Doing
  <2>2. CASE ~(SavePending(p) \/ SaveLast(p))
    BY <1>2, <2>2 DEF Inside, Outside, Reaped, Mishap, Resume, BeginFresh, Load, LoadRaises, Update, Validate,
                      SaveNumbered, SaveReference, SaveBest, AfterValidation, Finish, inner
  <2> QED BY <2>1, <2>2
<1>3. CASE World
  BY <1>3 DEF World, inner
<1> QED BY <1>1, <1>2, <1>3 DEF RunNext

\* The incumbent is never lost and never replaced by a worse one, over validations,
\* rollbacks, deaths and resumes.
THEOREM IncumbentStands == RunSpec => IncumbentOnlyImproves
<1>1. RInv /\ [RunNext]_runVars =>
        [\A b \in tip.best : \E c \in tip'.best : c = b \/ c.score > b.score]_runVars
  <2>1. SUFFICES ASSUME RInv, [RunNext]_runVars, NEW b \in tip.best
                 PROVE  \E c \in tip'.best : c = b \/ c.score > b.score
    OBVIOUS
  <2> QED BY <2>1, TipMoves DEF RInv, Ahead, Improves
<1> QED BY <1>1, RunInvariance, PTL DEF RunSpec, IncumbentOnlyImproves

\* Once last.pt names its reference, neither the name nor the file changes.
THEOREM ReferenceStands == RunSpec => ReferenceIsFixed
<1>1. RInv /\ [RunNext]_runVars => [tip.ref # {} => tip.ref' = tip.ref /\ refFile' = refFile]_runVars
  <2>1. SUFFICES ASSUME RInv, [RunNext]_runVars, tip.ref # {}
                 PROVE  tip'.ref = tip.ref /\ refFile' = refFile
    OBVIOUS
  <2>2. tip'.ref = tip.ref
    BY <2>1, TipMoves DEF RInv, Ahead
  <2>3. ASSUME NEW p \in Pids, SaveReference(p)
        PROVE  refFile' = refFile
    BY <2>1, <2>3 DEF SaveReference, Doing, RInv, Ahead
  <2>4. (\A p \in Pids : ~SaveReference(p)) => refFile' = refFile
    BY <2>1 DEF RunNext, World, Inside, Outside, Reaped, Mishap, Resume, BeginFresh, Load, LoadRaises, Update, Validate,
                SaveNumbered, SaveBest, AfterValidation, Finish, SavePending, SaveLast,
                SavesLast, inner, runVars
  <2> QED BY <2>2, <2>3, <2>4
<1> QED BY <1>1, RunInvariance, PTL DEF RunSpec, ReferenceIsFixed

-----------------------------------------------------------------------------
(* What is on disk, and what may be resumed from it. *)

Unjudged == {"prevalidated", "validating"}
Judging == {"numbering", "referencing", "promoting", "judged"}

\* What a process has in memory is on disk, but for the files its validation has yet
\* to write.
Filed(p) ==
  /\ mem[p].best # {} /\ (mem[p].wins => mem[p].pc = "judged") => bestFile = mem[p].best
  /\ mem[p].ref # {} /\ (mem[p].founds => mem[p].pc \in {"promoting", "judged"}) =>
       refFile = mem[p].ref
  /\ \A b \in mem[p].best : (mem[p].wins => mem[p].pc # "numbering") => b.step \in accepted
TipFiled ==
  /\ \A b \in tip.best : b.step \in accepted
  /\ tip.marker = "absent" => last < asked

\* Selections are of validated steps, and a validation is of a step nothing was selected at.
Past(p) ==
  /\ \A b \in mem[p].best : b.step <= mem[p].step
  /\ \A r \in mem[p].ref : r.step <= mem[p].step /\ r.supported
  /\ mem[p].best # {} => mem[p].ref # {}
  /\ mem[p].pc \in Unjudged =>
       /\ \A b \in mem[p].best : b.step < mem[p].step
       /\ \A r \in mem[p].ref : r.step < mem[p].step
  /\ mem[p].pc \in Unjudged \cup {"numbering", "referencing", "promoting"} =>
       \A b \in tip.best : b.step < mem[p].step
  /\ mem[p].pc \in Judging /\ ~mem[p].wins => \A b \in mem[p].best : b.step < mem[p].step
  /\ mem[p].wins => \A b \in mem[p].best : b.step = mem[p].step
  /\ mem[p].founds => mem[p].ref # {}
TipPast ==
  /\ \A b \in tip.best : b.step <= last
  /\ \A r \in tip.ref : r.step <= last /\ r.supported
  /\ tip.marker = "pending" =>
       (\A b \in tip.best : b.step < last) /\ (\A r \in tip.ref : r.step < last)

\* The reference last.pt names is the one on disk; best_rollout.pt is its incumbent, or the
\* later and better one of a validation whose last.pt was not saved.
TipLinked ==
  /\ tip.best # {} => tip.ref # {}
  /\ tip.ref # {} => refFile = tip.ref
  /\ tip.best # {} =>
       \/ bestFile = tip.best
       \/ \E c \in bestFile : \A b \in tip.best : c.score > b.score /\ c.step > b.step

\* Whoever trains was asked for the largest target, and ends with last.pt validated.
Finished(p) ==
  /\ Trains(p) => proc[p].target = asked
  /\ proc[p].stage \in {"published", "completing", "done"} \/ mem[p].pc = "finishing" =>
       tip.marker = "validated" /\ Linked

\* An unsupported diagnosis leaves a reference file, beside which nothing wins at once.
Apart(best, ref) == \A b \in best, r \in ref : b.step = r.step => ~diagnosed
Deferral(p) ==
  /\ mem[p].deferred => mem[p].ref = {}
  /\ mem[p].deferred /\ mem[p].pc \notin {"numbering", "referencing"} => refFile # {}
  /\ Apart(mem[p].best, mem[p].ref)
TipDeferral ==
  /\ diagnosed \/ tip.deferred => refFile # {}
  /\ (\E r \in refFile : ~r.supported) => diagnosed
  /\ tip.deferred => tip.ref = {}
  /\ Apart(tip.best, tip.ref)

\* Where weights that collapsed may still be.
Collapse(p) ==
  /\ \A b \in mem[p].best : b.step \notin collapsed
  /\ mem[p].weights <= mem[p].step
  /\ mem[p].pc \in Unjudged \cup Judging => mem[p].weights = mem[p].step
  /\ mem[p].pc = "saving" => mem[p].weights \notin collapsed
  /\ mem[p].pc = "prevalidated" => mem[p].purpose = "none" /\ last < mem[p].step
  /\ mem[p].pc = "validating" /\ mem[p].best # {} =>
       /\ mem[p].purpose # "initial"
       /\ \/ tip.marker = "pending" /\ last = mem[p].step
          \/ last < mem[p].step /\ Divides(EvalEvery, mem[p].step)
  /\ mem[p].pc \in Judging /\ mem[p].weights \in collapsed => RollsBack(p) /\ ~mem[p].wins
TipCollapse ==
  /\ \A w \in collapsed : w <= last \/ Divides(EvalEvery, w)
  /\ tip.weights <= last /\ (tip.marker = "pending" => tip.weights = last)
  /\ tip.weights \in collapsed => tip.marker = "pending"
  /\ \A b \in tip.best : b.step \notin collapsed

TipInv == TipFiled /\ TipPast /\ TipLinked /\ TipDeferral /\ TipCollapse
MemInv(p) == Filed(p) /\ Past(p) /\ Deferral(p) /\ Collapse(p)
DInv ==
  /\ RInv /\ TipInv
  /\ \A p \in Pids : Finished(p) /\ (mem[p].pc # "begin" => MemInv(p))

\* An invariant follows from what the one process that trains keeps of it.
LEMMA OneKeeps ==
  ASSUME DInv, RInv', NEW p \in Pids, proc[p].stage = "training", UNCHANGED <<proc, asked>>,
         \A q \in Pids \ {p} : mem'[q] = mem[q],
         TipInv', MemInv(p)', mem'[p].pc = "finishing" => (tip.marker = "validated" /\ Linked)'
  PROVE  DInv'
<1>1. proc[p].stage \in Holding
  BY DEF Holding, Working
<1>2. \A q \in Pids \ {p} : proc[q].stage \notin Holding /\ mem[q].pc = "begin"
  BY <1>1, OneTrains DEF DInv
<1>3. ASSUME NEW q \in Pids
      PROVE  Finished(q)' /\ (mem'[q].pc # "begin" => MemInv(q)')
  <2>1. CASE q = p
    BY <2>1 DEF DInv, Finished, Trains
  <2>2. CASE q # p
    <3>1. proc[q].stage \notin {"published", "completing", "done"} /\ mem'[q].pc = "begin"
      BY <1>2, <2>2 DEF Holding, Working
    <3> QED BY <3>1 DEF DInv, Finished, Trains
  <2> QED BY <2>1, <2>2
<1> QED BY <1>3 DEF DInv

\* Steps around the training move no file but the summary.
LEMMA AroundDisk ==
  ASSUME DInv, RInv', NEW p \in Pids,
         LoadRaises(p) \/ Finish(p) \/ Outside(p) \/ Reaped(p) \/ Mishap(p) \/ Resume(p)
  PROVE  DInv'
<1> USE DEF Doing, Target, contractVars, files, inner, history, MovesTo
<1>1. /\ mem \in [Pids -> Memory] /\ proc \in [Pids -> Process] /\ Blank.pc = "begin"
      /\ proc[p] \in Process
      /\ proc[p].stage # "training" => mem[p].pc = "begin"
      /\ Finished(p)
  BY Orders DEF DInv, RInv, Clean, Blank
<1>2. UNCHANGED <<last, tip, bestFile, refFile, accepted, diagnosed, collapsed>>
  BY DEF LoadRaises, Finish, Outside, Reaped, Mishap, Resume, Raise, Killed, Launch, Claim, Refused,
         ClearFailure, Begin, RecordRaise, ClearOnSuccess, Complete, Exit, Reap
<1>3. \A q \in Pids \ {p} : proc'[q] = proc[q] /\ mem'[q] = mem[q]
  BY <1>1 DEF LoadRaises, Finish, Outside, Reaped, Mishap, Resume, Raise, Killed, Launch, Claim, Refused,
              ClearFailure, Begin, RecordRaise, ClearOnSuccess, Complete, Exit, Reap
<1>4. mem'[p].pc = "begin"
  <2>1. CASE LoadRaises(p) \/ Finish(p) \/ Mishap(p)
    BY <1>1, <2>1 DEF LoadRaises, Finish, Mishap
  <2>2. CASE Resume(p)
    BY <1>1, <2>2 DEF Resume, Launch, Free
  <2>3. CASE Outside(p) \/ Reaped(p)
    <3>1. proc[p].stage # "training" /\ mem' = mem
      BY <2>3 DEF Outside, Reaped, Claim, Refused, ClearFailure, Begin, RecordRaise, ClearOnSuccess,
                  Complete, Exit, Reap, Exited
    <3> QED BY <1>1, <3>1
  <2> QED BY <2>1, <2>2, <2>3
<1>5. asked' = asked \/ (Resume(p) /\ asked' >= asked /\ \A q \in Pids : Trains(q) => proc[q].target = asked')
  BY DEF LoadRaises, Finish, Outside, Reaped, Mishap, Resume
<1>6. asked \in Nat /\ asked' \in Nat /\ last \in Nat
  BY RunAssumption, Orders DEF DInv, RInv, RunTypeOK, ContractTypeOK
<1>7. TipInv'
  <2>1. TipFiled'
    BY <1>2, <1>5, <1>6 DEF DInv, TipInv, TipFiled
  <2> QED BY <1>2, <2>1 DEF DInv, TipInv, TipPast, TipLinked, TipDeferral, Apart, TipCollapse
<1>8. ASSUME NEW q \in Pids \ {p}
      PROVE  Finished(q)' /\ (mem'[q].pc # "begin" => MemInv(q)')
  <2>1. Finished(q)'
    <3>1. Finished(q)
      BY DEF DInv
    <3> QED BY <1>2, <1>3, <1>5, <3>1 DEF Finished, Trains, Linked
  <2>2. ASSUME mem'[q].pc # "begin"
        PROVE  MemInv(q)'
    <3>1. MemInv(q)
      BY <1>3, <2>2 DEF DInv
    <3> QED BY <1>2, <1>3, <3>1 DEF MemInv, Filed, Past, Deferral, Apart, Collapse, RollsBack
  <2> QED BY <2>1, <2>2
<1>9. Finished(p)'
  <2>1. CASE Resume(p)
    <3>1. PICK target \in Targets : asked' = target /\ Launch(p, target)
      BY <2>1 DEF Resume
    <3>2. proc'[p].target = asked' /\ proc'[p].stage = "launched"
      BY <1>1, <3>1 DEF Launch, Trainer
    <3> QED BY <1>4, <3>2 DEF Finished
  <2>2. CASE Finish(p)
    <3>1. proc'[p].stage = "published" /\ proc'[p].target = proc[p].target /\ mem[p].pc = "finishing"
          /\ proc[p].stage = "training" /\ asked' = asked
      BY <1>1, <2>2 DEF Finish
    <3> QED BY <1>1, <1>2, <3>1 DEF Finished, Linked, Trains, Working
  <2>3. ASSUME NEW to, proc' = [proc EXCEPT ![p].stage = to]
        PROVE  proc'[p].stage = to /\ proc'[p].target = proc[p].target
    BY <1>1, <2>3 DEF Process
  <2>4. CASE Outside(p) \/ Reaped(p)
    <3>1. CASE Reap(p)
      BY <1>1, <1>4, <3>1 DEF Reap, Free, Finished, Trains, Working
    <3>2. ASSUME Trains(p)' => Trains(p), proc'[p].target = proc[p].target,
                 proc'[p].stage \notin {"published", "completing", "done"}
                   \/ proc[p].stage \in {"published", "completing", "done"}
          PROVE  Finished(p)'
      BY <1>1, <1>2, <1>4, <1>5, <2>4, <3>2 DEF Outside, Reaped, Finished, Linked
    <3>3. CASE Begin(p)
      <4>1. Trains(p)
        BY <3>3 DEF Begin, Trains, Working
      <4>2. proc'[p].stage = "training" /\ proc'[p].target = proc[p].target
        BY <1>1, <3>3 DEF Begin
      <4> QED BY <3>2, <4>1, <4>2
    <3>4. CASE Claim(p) \/ ClearFailure(p) \/ RecordRaise(p) \/ ClearOnSuccess(p) \/ Complete(p)
      <4> QED BY <2>3, <3>2, <3>4
              DEF Claim, ClearFailure, RecordRaise, ClearOnSuccess, Complete, Trains
    <3>5. CASE Exit(p) \/ Refused(p)
      <4>1. proc'[p].stage \in {"succeeded", "died"} /\ proc'[p].target = proc[p].target
        BY <2>3, <3>5 DEF Exit, Refused
      <4> QED BY <3>2, <4>1 DEF Trains
    <3> QED BY <2>4, <3>1, <3>3, <3>4, <3>5 DEF Outside, Reaped
  <2>5. CASE LoadRaises(p) \/ Mishap(p)
    <3>1. asked' = asked /\ (Raise(p) \/ Killed(p))
      BY <2>5 DEF LoadRaises, Mishap
    <3>2. proc'[p].stage \in {"raised", "died"} /\ proc'[p].target = proc[p].target
      BY <2>3, <3>1 DEF Raise, Killed
    <3> QED BY <1>1, <1>4, <3>1, <3>2 DEF Finished, Trains
  <2> QED BY <2>1, <2>2, <2>4, <2>5
<1> QED BY <1>4, <1>7, <1>8, <1>9 DEF DInv

\* Where a process that validates or trains has gone, and what it keeps.
LEMMA Fields ==
  ASSUME RInv, NEW p \in Pids, NEW pc, Proceeds(p, pc)
  PROVE  /\ mem'[p].pc = pc /\ mem'[p].step = mem[p].step /\ mem'[p].weights = mem[p].weights
         /\ mem'[p].best = mem[p].best /\ mem'[p].ref = mem[p].ref
         /\ mem'[p].purpose = mem[p].purpose /\ mem'[p].outcome = mem[p].outcome
         /\ mem'[p].deferred = mem[p].deferred
         /\ mem'[p].wins = mem[p].wins /\ mem'[p].founds = mem[p].founds
         /\ \A q \in Pids \ {p} : mem'[q] = mem[q]
<1>1. mem \in [Pids -> Memory] /\ mem[p] \in Memory
  BY Orders
<1>2. mem'[p] = [mem[p] EXCEPT !.pc = pc] /\ \A q \in Pids \ {p} : mem'[q] = mem[q]
  BY <1>1 DEF Proceeds
<1>3. /\ mem'[p].pc = pc /\ mem'[p].step = mem[p].step /\ mem'[p].weights = mem[p].weights
      /\ mem'[p].best = mem[p].best /\ mem'[p].ref = mem[p].ref
      /\ mem'[p].purpose = mem[p].purpose /\ mem'[p].outcome = mem[p].outcome
  BY <1>1, <1>2 DEF Memory
<1>4. mem'[p].deferred = mem[p].deferred
  BY <1>1, <1>2 DEF Memory
<1>5. mem'[p].wins = mem[p].wins
  BY <1>1, <1>2 DEF Memory
<1>6. mem'[p].founds = mem[p].founds
  BY <1>1, <1>2 DEF Memory
<1> QED BY <1>2, <1>3, <1>4, <1>5, <1>6

\* What a beginner reads is what last.pt and its selectors hold.
LEMMA BeginnersDisk ==
  ASSUME DInv, RInv', NEW p \in Pids, BeginFresh(p) \/ Load(p)
  PROVE  DInv'
<1> USE DEF Doing, Target, contractVars, files, history
<1>1. /\ proc[p].stage = "training" /\ mem[p] = Blank
      /\ UNCHANGED <<proc, asked, last, tip, bestFile, refFile, accepted, diagnosed, collapsed>>
  BY DEF BeginFresh, Load, DInv, RInv, Clean
<1>2. /\ last \in Nat /\ proc[p].target \in Nat /\ mem \in [Pids -> Memory] /\ tip \in Tip
  BY Orders DEF DInv, RInv, RunTypeOK
<1>3. \A q \in Pids \ {p} : mem'[q] = mem[q]
  BY <1>2 DEF BeginFresh, Load
<1>4. TipInv /\ TipInv'
  BY <1>1 DEF DInv, TipInv, TipFiled, TipPast, TipLinked, TipDeferral, TipCollapse, Apart
<1>5. CASE BeginFresh(p)
  <2>1. Nothing
    BY <1>1, <1>5 DEF BeginFresh, DInv, RInv, FreshFirst, Ready, Blank
  <2>2. mem'[p] = [Blank EXCEPT !.pc = "validating", !.purpose = "initial"]
    BY <1>1, <1>2, <1>5 DEF BeginFresh
  <2>3. /\ mem'[p].pc = "validating" /\ mem'[p].step = 0 /\ mem'[p].weights = 0
        /\ mem'[p].best = {} /\ mem'[p].ref = {} /\ ~mem'[p].wins /\ ~mem'[p].founds
        /\ ~mem'[p].deferred
    BY <2>2 DEF Blank
  <2>4. MemInv(p)'
    BY <1>1, <2>1, <2>3 DEF Nothing, MemInv, Filed, Past, Unjudged, Judging, Deferral, Apart, Collapse
  <2> QED BY <1>1, <1>3, <1>4, <2>3, <2>4, OneKeeps
<1>6. CASE Load(p)
  <2>1. Loads(proc[p].target)
    BY <1>6 DEF Load
  <2>2. /\ mem'[p].pc = IF RequiresFinalValidation(p) THEN "validating"
                        ELSE IF last = proc[p].target THEN "finishing" ELSE "updating"
        /\ mem'[p].purpose = IF RequiresFinalValidation(p) THEN "recovery" ELSE "none"
        /\ mem'[p].step = last /\ mem'[p].weights = tip.weights
        /\ mem'[p].best = tip.best /\ mem'[p].ref = tip.ref
        /\ mem'[p].deferred = tip.deferred
        /\ ~mem'[p].wins /\ ~mem'[p].founds
    BY <1>2, <1>6 DEF Load
  <2>3. mem'[p].pc = "validating" => tip.marker = "pending" /\ mem'[p].purpose = "recovery"
    BY <2>2 DEF RequiresFinalValidation
  <2>4. mem'[p].pc \in {"validating", "finishing", "updating"}
    BY <2>2
  <2>5. Filed(p)'
    BY <1>1, <1>4, <2>1, <2>2 DEF TipInv, TipFiled, Loads, Linked, Filed
  <2>6. Past(p)'
    BY <1>1, <1>4, <2>1, <2>2, <2>3, <2>4 DEF TipInv, TipPast, Loads, Past, Unjudged, Judging
  <2>7. Deferral(p)'
    BY <1>1, <1>4, <2>2 DEF TipInv, TipDeferral, Deferral, Apart
  <2>8. Collapse(p)'
    BY <1>1, <1>4, <2>2, <2>3, <2>4 DEF TipInv, TipCollapse, Collapse, Unjudged, Judging
  <2>9. mem'[p].pc = "finishing" => tip.marker = "validated" /\ Linked
    <3>1. SUFFICES ASSUME mem'[p].pc = "finishing"
                   PROVE  tip.marker = "validated" /\ Linked
      OBVIOUS
    <3>2. last = proc[p].target /\ tip.marker # "pending"
      BY <2>2, <3>1 DEF RequiresFinalValidation
    <3>3. proc[p].target = asked
      BY <1>1 DEF DInv, Finished, Trains, Working
    <3>4. tip.marker # "absent"
      BY <1>2, <1>4, <3>2, <3>3 DEF TipInv, TipFiled
    <3> QED BY <1>2, <2>1, <3>2, <3>4 DEF Tip, Loads
  <2>10. mem'[p].pc = "finishing" => (tip.marker = "validated" /\ Linked)'
    BY <1>1, <2>9 DEF Linked
  <2> QED BY <1>1, <1>3, <1>4, <2>5, <2>6, <2>7, <2>8, <2>10, OneKeeps DEF MemInv
<1> QED BY <1>5, <1>6

\* A selection made at the step of a save is of a step that is past, and an update's
\* weights are not among those that collapsed unless they are to be validated.
LEMMA UpdateDisk ==
  ASSUME DInv, RInv', NEW p \in Pids, Update(p)
  PROVE  DInv'
<1> USE DEF Doing, Target, contractVars, files, history
<1>1. /\ proc[p].stage = "training" /\ mem[p].pc = "updating" /\ mem[p].step < proc[p].target
      /\ UNCHANGED <<proc, asked, last, tip, bestFile, refFile, accepted, diagnosed, collapsed>>
  BY DEF Update
<1>2. /\ last \in Nat /\ mem[p].step \in Nat /\ mem \in [Pids -> Memory] /\ mem[p] \in Memory
      /\ tip.best \subseteq Selection /\ mem[p].best \subseteq Selection
      /\ mem[p].ref \subseteq Reference
  BY Orders DEF DInv, Memory
<1>3. TipInv /\ TipInv' /\ MemInv(p) /\ Ahead(p)
  BY <1>1 DEF DInv, RInv, TipInv, TipFiled, TipPast, TipLinked, TipDeferral, TipCollapse, Apart
<1> DEFINE step == mem[p].step + 1
           pc == CASE step = Target(p)                -> "prevalidated"
                   [] step # Target(p) /\ Divides(EvalEvery, step) -> "validating"
                   [] step # Target(p) /\ ~Divides(EvalEvery, step)
                        /\ Divides(CheckpointEvery, step) -> "saving"
                   [] OTHER                           -> "updating"
<1>4. /\ pc \in {"prevalidated", "validating", "saving", "updating"}
      /\ pc = "validating" => Divides(EvalEvery, step)
      /\ pc = "saving" => ~Divides(EvalEvery, step)
  <2> HIDE DEF Target, step
  <2> QED OBVIOUS
<1>5. mem' = [mem EXCEPT ![p] = [@ EXCEPT !.step = step, !.weights = step, !.purpose = "none",
                                          !.pc = pc]]
  BY DEF Update
<1>6. step = mem[p].step + 1
  OBVIOUS
<1> HIDE DEF step, pc
<1>7. mem'[p] = [mem[p] EXCEPT !.step = step, !.weights = step, !.purpose = "none", !.pc = pc]
      /\ \A q \in Pids \ {p} : mem'[q] = mem[q]
  BY <1>2, <1>5
<1>8. /\ mem'[p].pc = pc /\ mem'[p].step = step /\ mem'[p].weights = step
      /\ mem'[p].best = mem[p].best /\ mem'[p].ref = mem[p].ref /\ mem'[p].purpose = "none"
  BY <1>2, <1>7 DEF Memory
<1>9. mem'[p].deferred = mem[p].deferred
  BY <1>2, <1>7 DEF Memory
<1>10. ~mem'[p].wins /\ ~mem[p].wins
  <2>1. mem'[p].wins = mem[p].wins
    BY <1>2, <1>7 DEF Memory
  <2> QED BY <1>1, <1>3, <2>1 DEF Ahead
<1>11. ~mem'[p].founds /\ ~mem[p].founds
  <2>1. mem'[p].founds = mem[p].founds
    BY <1>2, <1>7 DEF Memory
  <2> QED BY <1>1, <1>3, <2>1 DEF Ahead
<1>12. Filed(p)'
  BY <1>1, <1>3, <1>8, <1>10, <1>11 DEF MemInv, Filed
<1>13. Past(p)'
  <2>1. \A b \in mem[p].best : b.step < step
    BY <1>2, <1>3, <1>6 DEF MemInv, Past, Selection
  <2>2. \A r \in mem[p].ref : r.step < step /\ r.supported
    BY <1>2, <1>3, <1>6 DEF MemInv, Past, Reference
  <2>3. \A b \in tip.best : b.step < step
    BY <1>2, <1>3, <1>6 DEF TipInv, TipPast, Ahead, Selection
  <2>4. mem[p].best # {} => mem[p].ref # {}
    BY <1>3 DEF MemInv, Past
  <2>5. \A b \in mem[p].best : b.step <= step
    BY <1>2, <1>6, <2>1 DEF Selection
  <2>6. \A r \in mem[p].ref : r.step <= step
    BY <1>2, <1>6, <2>2 DEF Reference
  <2> QED BY <1>1, <1>8, <1>10, <1>11, <2>1, <2>2, <2>3, <2>4, <2>5, <2>6 DEF Past
<1>14. Deferral(p)'
  BY <1>1, <1>3, <1>8, <1>9 DEF MemInv, Deferral, Apart
<1>15. Collapse(p)'
  <2>1. last < step
    BY <1>2, <1>3, <1>6 DEF Ahead
  <2>2. pc = "saving" => step \notin collapsed
    BY <1>2, <1>3, <1>4, <1>6, <2>1 DEF TipInv, TipCollapse
  <2>3. \A b \in mem[p].best : b.step \notin collapsed
    BY <1>3 DEF MemInv, Collapse
  <2> QED BY <1>1, <1>2, <1>4, <1>6, <1>8, <1>10, <2>1, <2>2, <2>3 DEF Collapse, Unjudged, Judging
<1> QED BY <1>1, <1>3, <1>4, <1>7, <1>8, <1>12, <1>13, <1>14, <1>15, OneKeeps DEF MemInv

\* What last.pt is given, and what the process goes on with.
LEMMA SaveDisk ==
  ASSUME DInv, RInv', NEW p \in Pids, SavePending(p) \/ SaveLast(p)
  PROVE  DInv'
<1> USE DEF Doing, Target
<1>1. PICK marker \in {"pending", "validated", "absent"}, pc \in {"validating", "finishing", "updating"} :
        /\ proc[p].stage = "training" /\ mem[p].pc \in {"prevalidated", "saving"}
        /\ SavesLast(p, marker) /\ Proceeds(p, pc)
        /\ marker = "pending" <=> mem[p].pc = "prevalidated"
        /\ marker = "pending" <=> pc = "validating"
        /\ marker = "absent" => mem[p].step # proc[p].target
        /\ pc = "finishing" => marker = "validated"
  BY DEF SavePending, SaveLast
<1>2. /\ last' = mem[p].step /\ tip'.weights = mem[p].weights /\ tip'.best = mem[p].best
      /\ tip'.ref = mem[p].ref /\ tip'.deferred = mem[p].deferred /\ tip'.marker = marker
      /\ diagnosed' = (diagnosed \/ mem[p].deferred)
      /\ UNCHANGED <<proc, bestFile, refFile, accepted, asked, collapsed>>
  BY <1>1 DEF SavesLast
<1>3. /\ last \in Nat /\ mem[p].step \in Nat /\ proc[p].target \in Nat
      /\ mem[p].best \subseteq Selection /\ mem[p].ref \subseteq Reference
      /\ collapsed \subseteq Nat /\ mem[p].weights \in Nat
  BY Orders DEF DInv, RInv, RunTypeOK, Memory
<1>4. TipInv /\ MemInv(p) /\ Ahead(p) /\ proc[p].target = asked
  BY <1>1 DEF DInv, RInv, Finished, Trains, Working
<1>5. /\ mem'[p].pc = pc /\ mem'[p].step = mem[p].step /\ mem'[p].weights = mem[p].weights
      /\ mem'[p].best = mem[p].best /\ mem'[p].ref = mem[p].ref
      /\ mem'[p].purpose = mem[p].purpose /\ mem'[p].deferred = mem[p].deferred
      /\ \A q \in Pids \ {p} : mem'[q] = mem[q]
  BY <1>1, Fields DEF DInv
<1>6. ~mem[p].wins /\ ~mem'[p].wins /\ ~mem[p].founds /\ ~mem'[p].founds
  <2>1. mem'[p].wins = mem[p].wins /\ mem'[p].founds = mem[p].founds
    BY <1>1, Fields DEF DInv
  <2> QED BY <1>1, <1>4, <2>1 DEF Ahead
<1>7. TipFiled'
  BY <1>1, <1>2, <1>3, <1>4, <1>6 DEF TipFiled, MemInv, Filed, Ahead
<1>8. TipPast' /\ TipLinked'
  BY <1>1, <1>2, <1>4, <1>6 DEF TipPast, TipLinked, MemInv, Filed, Past, Unjudged
<1>9. /\ diagnosed' => refFile # {}
      /\ mem[p].deferred => refFile # {} /\ mem[p].ref = {}
  BY <1>1, <1>2, <1>4 DEF MemInv, Deferral, TipInv, TipDeferral
<1>10. Apart(mem[p].best, mem[p].ref)'
  <2>1. SUFFICES ASSUME NEW b \in mem[p].best, NEW r \in mem[p].ref, b.step = r.step
                 PROVE  ~diagnosed'
    BY <1>5 DEF Apart
  <2> QED BY <1>2, <1>4, <1>9, <2>1 DEF MemInv, Deferral, Apart
<1>11. TipDeferral'
  BY <1>2, <1>4, <1>5, <1>9, <1>10 DEF TipInv, TipDeferral, Apart
<1>12. TipCollapse'
  <2>1. \A w \in collapsed : w <= mem[p].step \/ Divides(EvalEvery, w)
    <3>1. last <= mem[p].step
      BY <1>4 DEF Ahead
    <3>2. \A w \in collapsed : w <= last \/ Divides(EvalEvery, w)
      BY <1>4 DEF TipInv, TipCollapse
    <3>3. ASSUME NEW w \in collapsed
          PROVE  w <= mem[p].step \/ Divides(EvalEvery, w)
      <4>1. w \in Nat /\ last \in Nat /\ mem[p].step \in Nat
        BY <1>3
      <4>2. w <= last \/ Divides(EvalEvery, w)
        BY <3>2
      <4>3. w <= last => w <= mem[p].step
        BY <3>1, <4>1
      <4> QED BY <4>2, <4>3
    <3> QED BY <3>3
  <2>2. mem[p].pc = "saving" => mem[p].weights \notin collapsed
    BY <1>4 DEF MemInv, Collapse
  <2>3. mem[p].weights <= mem[p].step /\ (mem[p].pc = "prevalidated" => mem[p].weights = mem[p].step)
    BY <1>4 DEF MemInv, Collapse, Unjudged
  <2>4. \A b \in mem[p].best : b.step \notin collapsed
    BY <1>4 DEF MemInv, Collapse
  <2> QED BY <1>1, <1>2, <2>1, <2>2, <2>3, <2>4 DEF TipCollapse
<1>13. Filed(p)'
  BY <1>2, <1>4, <1>5, <1>6 DEF MemInv, Filed
<1>14. Past(p)'
  BY <1>1, <1>2, <1>4, <1>5, <1>6 DEF MemInv, Past, Unjudged, Judging
<1>15. Deferral(p)'
  BY <1>2, <1>5, <1>9, <1>10 DEF Deferral, Apart
<1>16. Collapse(p)'
  BY <1>1, <1>2, <1>4, <1>5 DEF MemInv, Collapse, Unjudged, Judging
<1>17. mem'[p].pc = "finishing" => (tip.marker = "validated" /\ Linked)'
  BY <1>1, <1>2, <1>4, <1>5, <1>6 DEF MemInv, Filed, Linked
<1> QED BY <1>1, <1>2, <1>5, <1>7, <1>8, <1>11, <1>12, <1>13, <1>14, <1>15, <1>16, <1>17, OneKeeps
        DEF MemInv, TipInv

\* A candidate that wins does so over what is on disk; weights that collapse are about to
\* be rolled back.
LEMMA ValidateDisk ==
  ASSUME DInv, RInv', NEW p \in Pids, Validate(p)
  PROVE  DInv'
<1> USE DEF Doing, Target, contractVars, files
<1>1. /\ proc[p].stage = "training" /\ mem[p].pc = "validating"
      /\ UNCHANGED <<proc, asked, last, tip, bestFile, refFile, accepted, diagnosed>>
  BY DEF Validate
<1>2. /\ last \in Nat /\ mem[p].step \in Nat /\ mem \in [Pids -> Memory] /\ mem[p] \in Memory
      /\ tip.best \subseteq Selection /\ mem[p].best \subseteq Selection
      /\ mem[p].ref \subseteq Reference /\ mem[p].deferred \in BOOLEAN
  BY Orders DEF DInv, Memory
<1>3. TipInv /\ MemInv(p) /\ Ahead(p) /\ RunTypeOK
  BY <1>1 DEF DInv, RInv
<1>4. ~mem[p].wins /\ ~mem[p].founds /\ mem[p].weights = mem[p].step
  BY <1>1, <1>3 DEF Ahead, MemInv, Collapse, Unjudged
<1>5. PICK outcome \in Outcomes :
        /\ mem' = [mem EXCEPT ![p] = Judgement(p, outcome)]
        /\ collapsed' = IF outcome.kind \in {"unsupported", "collapsed"} /\ mem[p].best # {}
                        THEN collapsed \cup {mem[p].weights} ELSE collapsed \ {mem[p].weights}
  BY DEF Validate
<1> DEFINE founds == Founds(p, outcome)
           wins == Wins(p, outcome)
<1>6. mem'[p] = Judgement(p, outcome) /\ \A q \in Pids \ {p} : mem'[q] = mem[q]
  BY <1>2, <1>5
<1>7. /\ mem'[p].pc = "numbering" /\ mem'[p].step = mem[p].step
      /\ mem'[p].wins = wins /\ mem'[p].founds = founds
      /\ mem'[p].ref = IF founds THEN {[step |-> mem[p].step, supported |-> TRUE]} ELSE mem[p].ref
      /\ mem'[p].best = IF wins THEN {[step |-> mem[p].step, score |-> outcome.score]}
                        ELSE mem[p].best
  BY <1>3, <1>6, JudgementTypes
<1>8. /\ mem'[p].weights = mem[p].weights /\ mem'[p].purpose = mem[p].purpose
      /\ mem'[p].outcome = outcome
  BY <1>2, <1>6 DEF Judgement, Memory
<1>9. mem'[p].deferred = IF outcome.kind = "unsupported" THEN mem[p].deferred \/ mem[p].ref = {}
                         ELSE mem[p].deferred /\ mem[p].ref # {}
  BY <1>2, <1>6 DEF Judgement, Memory
<1>10. /\ wins => outcome.kind = "eligible"
       /\ wins /\ mem[p].best = {} => ~(mem[p].ref = {} /\ (mem[p].deferred \/ refFile # {}))
       /\ founds <=> outcome.kind # "unsupported" /\ mem[p].ref = {}
  BY DEF Wins, Founds, ComparisonDeferred
<1> HIDE DEF founds, wins
<1>11. /\ wins => \A b \in mem'[p].best : b.step = mem[p].step
       /\ ~wins => mem'[p].best = mem[p].best
       /\ founds => mem'[p].ref # {} /\ \A r \in mem'[p].ref : r.step = mem[p].step /\ r.supported
       /\ ~founds => mem'[p].ref = mem[p].ref
  <2>1. [step |-> mem[p].step, supported |-> TRUE].step = mem[p].step
        /\ [step |-> mem[p].step, supported |-> TRUE].supported
    OBVIOUS
  <2>2. founds => mem'[p].ref # {} /\ \A r \in mem'[p].ref : r.step = mem[p].step /\ r.supported
    BY <1>7, <2>1, Zenon
  <2>3. wins => \A b \in mem'[p].best : b.step = mem[p].step
    BY <1>7
  <2> QED BY <1>7, <2>2, <2>3
<1>12. /\ \A b \in mem[p].best : b.step < mem[p].step
       /\ \A r \in mem[p].ref : r.step < mem[p].step /\ r.supported
       /\ \A b \in tip.best : b.step < mem[p].step
       /\ mem[p].best # {} => mem[p].ref # {}
  BY <1>1, <1>3 DEF MemInv, Past, Unjudged
<1>13. TipFiled' /\ TipPast' /\ TipLinked' /\ TipDeferral'
  BY <1>1, <1>3 DEF TipInv, TipFiled, TipPast, TipLinked, TipDeferral, Apart
<1>14. collapsed' \subseteq collapsed \cup {mem[p].step}
       /\ (mem[p].step \in collapsed' =>
             outcome.kind \in {"unsupported", "collapsed"} /\ mem[p].best # {})
  BY <1>4, <1>5
<1>15. /\ \A b \in mem[p].best : b.step \notin collapsed
       /\ mem[p].best # {} =>
            /\ mem[p].purpose # "initial"
            /\ \/ tip.marker = "pending" /\ last = mem[p].step
               \/ last < mem[p].step /\ Divides(EvalEvery, mem[p].step)
  BY <1>1, <1>3 DEF MemInv, Collapse
<1>16. \A b \in mem[p].best : b.step # mem[p].step
  BY <1>2, <1>12
<1>17. TipCollapse'
  <2>1. \A w \in collapsed' : w <= last \/ Divides(EvalEvery, w)
    BY <1>2, <1>3, <1>14, <1>15 DEF TipInv, TipCollapse
  <2>2. tip.weights \in collapsed' => tip.marker = "pending"
    <3>1. CASE tip.weights = mem[p].step
      <4>1. tip.weights <= last
        BY <1>3 DEF TipInv, TipCollapse
      <4> QED BY <1>2, <1>14, <1>15, <3>1, <4>1
    <3>2. CASE tip.weights # mem[p].step
      BY <1>3, <1>14, <3>2 DEF TipInv, TipCollapse
    <3> QED BY <3>1, <3>2
  <2>3. \A b \in tip.best : b.step \notin collapsed'
    <3>1. \A b \in tip.best : b.step # mem[p].step
      BY <1>2, <1>12
    <3> QED BY <1>3, <1>14, <3>1 DEF TipInv, TipCollapse
  <2> QED BY <1>1, <1>3, <2>1, <2>2, <2>3 DEF TipInv, TipCollapse
<1>18. Filed(p)'
  BY <1>1, <1>3, <1>4, <1>7, <1>11 DEF MemInv, Filed
<1>19. Past(p)'
  <2>1. \A b \in mem'[p].best : b.step <= mem[p].step
    BY <1>2, <1>11, <1>12 DEF Selection
  <2>2. \A r \in mem'[p].ref : r.step <= mem[p].step /\ r.supported
    <3>1. CASE founds
      BY <1>2, <1>11, <3>1
    <3>2. CASE ~founds
      BY <1>2, <1>11, <1>12, <3>2 DEF Reference
    <3> QED BY <3>1, <3>2
  <2>3. mem'[p].best # {} => mem'[p].ref # {}
    BY <1>10, <1>11, <1>12
  <2> QED BY <1>1, <1>7, <1>11, <1>12, <2>1, <2>2, <2>3 DEF Past, Unjudged, Judging
<1>20. Deferral(p)'
  <2>1. mem'[p].deferred => mem'[p].ref = {}
    <3>1. mem[p].deferred => mem[p].ref = {}
      BY <1>3 DEF MemInv, Deferral
    <3> QED BY <1>2, <1>9, <1>10, <1>11, <3>1
  <2>2. ASSUME NEW b \in mem'[p].best, NEW r \in mem'[p].ref, b.step = r.step
        PROVE  ~diagnosed
    <3>1. CASE wins /\ founds
      <4>1. refFile = {}
        BY <1>10, <1>12, <3>1
      <4> QED BY <1>3, <4>1 DEF TipInv, TipDeferral
    <3>2. CASE wins /\ ~founds
      BY <1>2, <1>11, <1>12, <2>2, <3>2
    <3>3. CASE ~wins /\ founds
      BY <1>2, <1>11, <1>16, <2>2, <3>3
    <3>4. CASE ~wins /\ ~founds
      BY <1>3, <1>11, <2>2, <3>4 DEF MemInv, Deferral, Apart
    <3> QED BY <3>1, <3>2, <3>3, <3>4
  <2> QED BY <1>1, <1>7, <2>1, <2>2 DEF Deferral, Apart
<1>21. Collapse(p)'
  <2>1. \A b \in mem'[p].best : b.step \notin collapsed'
    <3>1. CASE wins
      BY <1>10, <1>11, <1>14, <3>1
    <3>2. CASE ~wins
      BY <1>11, <1>14, <1>15, <1>16, <3>2
    <3> QED BY <3>1, <3>2
  <2>2. mem[p].step \in collapsed' => RollsBack(p)' /\ ~wins
    <3>1. SUFFICES ASSUME mem[p].step \in collapsed'
                   PROVE  RollsBack(p)' /\ ~wins
      OBVIOUS
    <3>2. outcome.kind \in {"unsupported", "collapsed"} /\ mem[p].best # {}
      BY <1>14, <3>1
    <3>3. ~wins /\ mem'[p].best = mem[p].best
      BY <1>10, <1>11, <3>2
    <3> QED BY <1>8, <1>15, <3>2, <3>3 DEF RollsBack
  <2>3. mem[p].step <= mem[p].step
    BY <1>2
  <2> QED BY <1>4, <1>7, <1>8, <2>1, <2>2, <2>3 DEF Collapse, Unjudged, Judging
<1> QED BY <1>1, <1>6, <1>7, <1>13, <1>17, <1>18, <1>19, <1>20, <1>21, OneKeeps DEF MemInv, TipInv

\* The three files of an extended validation, one after the other.
LEMMA FileDisk ==
  ASSUME DInv, RInv', NEW p \in Pids, SaveNumbered(p) \/ SaveReference(p) \/ SaveBest(p)
  PROVE  DInv'
<1> USE DEF Doing, contractVars, files, history
<1>1. PICK pc \in {"referencing", "promoting", "judged"} : Proceeds(p, pc)
  BY DEF SaveNumbered, SaveReference, SaveBest
<1>2. /\ proc[p].stage = "training" /\ mem[p].pc \in {"numbering", "referencing", "promoting"}
      /\ UNCHANGED <<proc, asked, last, tip, collapsed>>
  BY DEF SaveNumbered, SaveReference, SaveBest
<1>3. /\ TipInv /\ MemInv(p) /\ Ahead(p)
      /\ mem[p].step \in Nat /\ mem[p].best \subseteq Selection /\ tip.best \subseteq Selection
  BY <1>2, Orders DEF DInv, RInv
<1>4. /\ mem'[p].pc = pc /\ mem'[p].step = mem[p].step /\ mem'[p].weights = mem[p].weights
      /\ mem'[p].best = mem[p].best /\ mem'[p].ref = mem[p].ref
      /\ mem'[p].purpose = mem[p].purpose /\ mem'[p].outcome = mem[p].outcome
      /\ \A q \in Pids \ {p} : mem'[q] = mem[q]
  BY <1>1, Fields DEF DInv
<1>5. mem'[p].deferred = mem[p].deferred
  BY <1>1, Fields DEF DInv
<1>6. mem'[p].wins = mem[p].wins /\ mem'[p].founds = mem[p].founds
  BY <1>1, Fields DEF DInv
<1>7. TipPast' /\ TipCollapse'
  BY <1>2, <1>3 DEF TipInv, TipPast, TipCollapse
<1>8. Past(p)'
  BY <1>2, <1>3, <1>4, <1>6 DEF MemInv, Past, Unjudged, Judging
<1>9. Collapse(p)'
  BY <1>2, <1>3, <1>4, <1>6 DEF MemInv, Collapse, Unjudged, Judging, RollsBack
<1>10. CASE SaveNumbered(p)
  <2>1. /\ mem[p].pc = "numbering" /\ pc = "referencing"
        /\ UNCHANGED <<bestFile, refFile, diagnosed>>
        /\ accepted' = IF mem[p].wins THEN accepted \cup {mem[p].step} ELSE accepted \ {mem[p].step}
    BY <1>4, <1>10, Fields DEF SaveNumbered, DInv
  <2>2. \A b \in tip.best : b.step \in accepted'
    <3>1. \A b \in tip.best : b.step # mem[p].step
      BY <1>3, <2>1 DEF MemInv, Past
    <3> QED BY <1>3, <2>1, <3>1 DEF TipInv, TipFiled
  <2>3. \A b \in mem[p].best : b.step \in accepted'
    <3>1. CASE mem[p].wins
      BY <1>3, <2>1, <3>1 DEF MemInv, Past
    <3>2. CASE ~mem[p].wins
      <4>1. \A b \in mem[p].best : b.step # mem[p].step
        BY <1>3, <2>1, <3>2 DEF MemInv, Past, Judging
      <4> QED BY <1>3, <2>1, <3>2, <4>1 DEF MemInv, Filed
    <3> QED BY <3>1, <3>2
  <2>4. TipFiled' /\ TipLinked' /\ TipDeferral'
    BY <1>2, <1>3, <2>1, <2>2 DEF TipInv, TipFiled, TipLinked, TipDeferral, Apart
  <2>5. Filed(p)' /\ Deferral(p)'
    BY <1>2, <1>3, <1>4, <1>5, <1>6, <2>1, <2>3 DEF MemInv, Filed, Deferral, Apart
  <2> QED BY <1>2, <1>4, <1>7, <1>8, <1>9, <2>1, <2>4, <2>5, OneKeeps DEF MemInv, TipInv
<1>11. CASE SaveReference(p)
  <2>1. /\ mem[p].pc = "referencing" /\ pc = "promoting"
        /\ UNCHANGED <<bestFile, accepted>>
        /\ diagnosed' = (diagnosed \/ \E r \in refFile' : ~r.supported)
    BY <1>4, <1>11, Fields DEF SaveReference, DInv
  <2>2. IF mem[p].founds THEN refFile' = mem[p].ref
        ELSE IF mem[p].ref = {} /\ refFile = {}
             THEN refFile' = {[step |-> mem[p].step, supported |-> FALSE]}
             ELSE refFile' = refFile
    BY <1>11 DEF SaveReference
  <2>3. /\ mem[p].founds => mem[p].ref # {}
        /\ \A r \in mem[p].ref : r.supported
        /\ tip.ref # {} => mem[p].ref # {}
    BY <1>3 DEF MemInv, Past, Ahead
  <2>4. diagnosed' => refFile' # {}
    BY <1>3, <2>1, <2>2, <2>3 DEF TipInv, TipDeferral
  <2>5. mem[p].ref # {} /\ ~diagnosed => ~diagnosed'
    <3>1. CASE mem[p].founds
      BY <2>1, <2>2, <2>3, <3>1
    <3>2. CASE ~mem[p].founds /\ mem[p].ref # {}
      BY <1>3, <2>1, <2>2, <3>2 DEF TipInv, TipDeferral
    <3> QED BY <2>3, <3>1, <3>2
  <2>6. refFile # {} => refFile' # {}
    BY <2>2, <2>3
  <2>7. Apart(tip.best, tip.ref)' /\ Apart(mem[p].best, mem[p].ref)'
    BY <1>2, <1>3, <1>4, <2>3, <2>5 DEF TipInv, TipDeferral, MemInv, Deferral, Apart
  <2>8. mem[p].deferred => mem[p].ref = {} /\ refFile' # {}
    BY <1>3, <2>2, <2>3 DEF MemInv, Deferral
  <2>9. TipFiled' /\ TipDeferral'
    BY <1>2, <1>3, <2>1, <2>4, <2>6, <2>7 DEF TipInv, TipFiled, TipDeferral
  <2>13. TipLinked'
    <3>1. tip.ref # {} => refFile' = refFile
      BY <1>3, <2>2, <2>3 DEF Ahead
    <3> QED BY <1>2, <1>3, <2>1, <3>1 DEF TipInv, TipLinked
  <2>10. mem[p].ref # {} => refFile' = mem[p].ref
    BY <1>3, <2>1, <2>2 DEF MemInv, Filed
  <2>11. Filed(p)'
    BY <1>3, <1>4, <1>6, <2>1, <2>10 DEF MemInv, Filed
  <2>12. Deferral(p)'
    BY <1>4, <1>5, <2>1, <2>7, <2>8 DEF Deferral
  <2> QED BY <1>2, <1>4, <1>7, <1>8, <1>9, <2>1, <2>9, <2>11, <2>12, <2>13,
                OneKeeps
             DEF MemInv, TipInv
<1>12. CASE SaveBest(p)
  <2>1. /\ mem[p].pc = "promoting" /\ pc = "judged"
        /\ UNCHANGED <<refFile, accepted, diagnosed>>
        /\ bestFile' = IF mem[p].wins THEN mem[p].best ELSE bestFile
    BY <1>4, <1>12, Fields DEF SaveBest, DInv
  <2>2. TipFiled' /\ TipDeferral'
    BY <1>2, <1>3, <2>1 DEF TipInv, TipFiled, TipDeferral, Apart
  <2>5. TipLinked'
    <3>1. CASE ~mem[p].wins
      BY <1>2, <1>3, <2>1, <3>1 DEF TipInv, TipLinked
    <3>2. CASE mem[p].wins
      <4>1. /\ bestFile' = mem[p].best /\ mem[p].best # {}
            /\ \A c \in mem[p].best : c.step = mem[p].step
            /\ \A b \in tip.best : b.step < mem[p].step
        BY <1>3, <2>1, <3>2 DEF MemInv, Past, Ahead
      <4>2. PICK c \in mem[p].best : mem[p].best = {c}
        BY <4>1 DEF DInv, RInv, RunTypeOK, AtMostOne
      <4>3. ASSUME NEW b \in tip.best
            PROVE  c.score > b.score /\ c.step > b.step
        <5>1. c = b \/ c.score > b.score
          BY <1>3, <4>2 DEF Ahead, Improves
        <5>2. c.step = mem[p].step /\ b.step < mem[p].step /\ b.step \in Nat
          BY <1>3, <4>1, <4>2 DEF Selection
        <5> QED BY <1>3, <5>1, <5>2
      <4> QED BY <1>2, <1>3, <2>1, <4>1, <4>2, <4>3 DEF TipInv, TipLinked
    <3> QED BY <3>1, <3>2
  <2>3. Filed(p)'
    BY <1>3, <1>4, <1>6, <2>1 DEF MemInv, Filed
  <2>4. Deferral(p)'
    BY <1>3, <1>4, <1>5, <2>1 DEF MemInv, Deferral, Apart
  <2> QED BY <1>2, <1>4, <1>7, <1>8, <1>9, <2>1, <2>2, <2>3, <2>4, <2>5, OneKeeps
          DEF MemInv, TipInv
<1> QED BY <1>10, <1>11, <1>12

\* What a rollback restores is the incumbent, and what it leaves did not collapse.
LEMMA JudgedDisk ==
  ASSUME DInv, RInv', NEW p \in Pids, AfterValidation(p)
  PROVE  DInv'
<1> USE DEF Doing, Target, contractVars, files, history
<1>1. /\ proc[p].stage = "training" /\ mem[p].pc = "judged"
      /\ UNCHANGED <<proc, asked, last, tip, bestFile, refFile, accepted, diagnosed, collapsed>>
  BY DEF AfterValidation
<1>2. mem \in [Pids -> Memory] /\ mem[p] \in Memory /\ mem[p].step \in Nat
  BY Orders DEF DInv
<1>3. TipInv /\ TipInv' /\ MemInv(p)
  BY <1>1 DEF DInv, TipInv, TipFiled, TipPast, TipLinked, TipDeferral, TipCollapse, Apart
<1> DEFINE pc == IF SavesAfter(p) THEN "saving" ELSE "updating"
           weights == Restored(p)
<1>4. mem' = [mem EXCEPT ![p] = [@ EXCEPT !.pc = pc, !.weights = weights, !.outcome = NoOutcome,
                                          !.wins = FALSE, !.founds = FALSE]]
  BY DEF AfterValidation
<1>5. pc \in {"saving", "updating"}
  OBVIOUS
<1>6. weights <= mem[p].step /\ weights \notin collapsed
  <2>1. CASE RollsBack(p)
    <3>1. mem[p].best # {} /\ bestFile = mem[p].best
      BY <1>1, <1>3, <2>1 DEF RollsBack, MemInv, Filed
    <3>2. PICK b \in mem[p].best : weights = b.step
      BY <2>1, <3>1 DEF Restored
    <3> QED BY <1>3, <3>2 DEF MemInv, Past, Collapse
  <2>2. CASE ~RollsBack(p)
    <3>1. weights = mem[p].weights
      BY <2>2 DEF Restored
    <3> QED BY <1>1, <1>3, <2>2, <3>1 DEF MemInv, Collapse, Judging
  <2> QED BY <2>1, <2>2
<1> HIDE DEF pc, weights
<1>7. mem'[p] = [mem[p] EXCEPT !.pc = pc, !.weights = weights, !.outcome = NoOutcome,
                               !.wins = FALSE, !.founds = FALSE]
      /\ \A q \in Pids \ {p} : mem'[q] = mem[q]
  BY <1>2, <1>4
<1>8. /\ mem'[p].pc = pc /\ mem'[p].step = mem[p].step /\ mem'[p].weights = weights
      /\ mem'[p].best = mem[p].best /\ mem'[p].ref = mem[p].ref
  BY <1>2, <1>7 DEF Memory
<1>9. mem'[p].deferred = mem[p].deferred
  BY <1>2, <1>7 DEF Memory
<1>10. ~mem'[p].wins /\ ~mem'[p].founds
  BY <1>2, <1>7 DEF Memory
<1>11. Filed(p)'
  BY <1>1, <1>3, <1>8, <1>10 DEF MemInv, Filed
<1>12. Past(p)'
  BY <1>1, <1>3, <1>5, <1>8, <1>10 DEF MemInv, Past, Unjudged, Judging
<1>13. Deferral(p)'
  BY <1>1, <1>3, <1>8, <1>9 DEF MemInv, Deferral, Apart
<1>14. Collapse(p)'
  BY <1>1, <1>3, <1>5, <1>6, <1>8 DEF MemInv, Collapse, Unjudged, Judging
<1> QED BY <1>1, <1>3, <1>5, <1>7, <1>8, <1>11, <1>12, <1>13, <1>14, OneKeeps DEF MemInv

LEMMA WorldDisk ==
  ASSUME DInv, World
  PROVE  DInv'
<1>1. /\ RInv /\ RInv'
      /\ \A p \in Pids : mem[p].pc # "begin" => proc[p].stage = "training"
  BY WorldKeeps DEF DInv, RInv, Clean
<1>2. TipInv'
  BY <1>1, WorldMoves DEF DInv, TipInv, TipFiled, TipPast, TipLinked, TipDeferral, TipCollapse, Apart
<1>3. ASSUME NEW p \in Pids
      PROVE  Finished(p)' /\ (mem'[p].pc # "begin" => MemInv(p)')
  <2>1. Finished(p)'
    BY <1>1, WorldMoves DEF DInv, Finished, Trains, Linked
  <2>2. ASSUME mem'[p].pc # "begin"
        PROVE  MemInv(p)'
    <3>1. MemInv(p) /\ proc'[p] = proc[p]
      BY <1>1, <2>2, WorldMoves DEF DInv
    <3> QED BY <1>1, <3>1, WorldMoves DEF MemInv, Filed, Past, Deferral, Apart, Collapse, RollsBack
  <2> QED BY <2>1, <2>2
<1> QED BY <1>1, <1>2, <1>3 DEF DInv

LEMMA DiskKeeps ==
  ASSUME DInv, [RunNext]_runVars
  PROVE  DInv'
<1>1. RInv'
  BY RunStepKeeps DEF DInv
<1>0. CASE World
  BY <1>0, WorldDisk
<1>2. CASE RunNext /\ ~World
  <2>1. PICK p \in Pids : Inside(p) \/ Outside(p) \/ Reaped(p) \/ Mishap(p) \/ Resume(p)
    BY <1>2 DEF RunNext
  <2> QED BY <1>1, <2>1, AroundDisk, BeginnersDisk, UpdateDisk, SaveDisk, ValidateDisk, FileDisk,
             JudgedDisk
          DEF Inside
<1>3. CASE UNCHANGED runVars
  <2>1. UNCHANGED <<proc, lock, state, failure, last, summary, mem, tip, bestFile, refFile, accepted,
                    asked, diagnosed, collapsed, deaths>>
    BY <1>3 DEF runVars, contractVars, files, inner, history
  <2>2. TipInv'
    BY <2>1 DEF DInv, TipInv, TipFiled, TipPast, TipLinked, TipDeferral, TipCollapse, Apart
  <2>3. ASSUME NEW p \in Pids
        PROVE  Finished(p)' /\ (mem'[p].pc # "begin" => MemInv(p)')
    <3>1. Finished(p)'
      BY <2>1 DEF DInv, Finished, Trains, Linked
    <3>2. ASSUME mem'[p].pc # "begin"
          PROVE  MemInv(p)'
      <4>1. MemInv(p)
        BY <2>1, <3>2 DEF DInv
      <4> QED BY <2>1, <4>1 DEF MemInv, Filed, Past, Deferral, Apart, Collapse, RollsBack
    <3> QED BY <3>1, <3>2
  <2> QED BY <1>1, <2>2, <2>3 DEF DInv
<1> QED BY <1>0, <1>2, <1>3

LEMMA DiskStarts ==
  ASSUME RunInit
  PROVE  DInv
<1>1. RInv
  BY RunInitEstablishes
<1>2. /\ tip.best = {} /\ tip.ref = {} /\ tip.marker = "absent" /\ ~tip.deferred /\ tip.weights = 0
      /\ refFile = {} /\ ~diagnosed /\ collapsed = {} /\ last = 0 /\ asked = FirstTarget
      /\ \A p \in Pids : mem[p].pc = "begin"
  BY DEF RunInit, ContractInit, NoTip, Blank
<1>3. FirstTarget > 0
  BY TargetAssumption
<1>4. TipInv
  BY <1>2, <1>3 DEF TipInv, TipFiled, TipPast, TipLinked, TipDeferral, TipCollapse, Apart
<1>5. ASSUME NEW p \in Pids
      PROVE  Finished(p)
  <2>1. proc[p] = IF p = FirstPid THEN Trainer(FirstTarget, TRUE) ELSE Free
    BY ProcessAssumption DEF RunInit, ContractInit
  <2> QED BY <1>2, <2>1 DEF Finished, Trains, Working, Trainer, Free
<1> QED BY <1>1, <1>2, <1>4, <1>5 DEF DInv

\* What every reachable state has on disk.
THEOREM DiskInvariance == RunSpec => []DInv
BY DiskStarts, DiskKeeps, PTL DEF RunSpec

\* Whatever was killed or raised on the way, a process that reports success leaves a
\* validated last.pt, linked to the selectors on disk, with its incumbent's numbered file.
THEOREM PublishedStands == RunSpec => []PublishedIsValidated
<1>1. DInv => PublishedIsValidated
  BY DEF DInv, TipInv, TipFiled, Finished, PublishedIsValidated
<1> QED BY <1>1, DiskInvariance, PTL

\* The first supported candidate after an unsupported diagnosis is never promoted by the
\* validation that makes it the reference.
THEOREM NeverSelfPromoted == RunSpec => []NoSelfPromotion
<1>1. DInv => NoSelfPromotion
  BY DEF DInv, TipInv, TipDeferral, Apart, NoSelfPromotion
<1> QED BY <1>1, DiskInvariance, PTL

\* No process resumes from weights that collapsed beside an incumbent, unless it validates
\* them again first.
THEOREM CollapsedIsLeft == RunSpec => []CollapsedIsNotResumed
<1>1. DInv => CollapsedIsNotResumed
  BY DEF DInv, TipInv, TipCollapse, CollapsedIsNotResumed
<1> QED BY <1>1, DiskInvariance, PTL

\* A resume that is refused names its cause: a selector that outran last.pt when its
\* process died, and nothing else.
THEOREM RefusalIsExplained == RunSpec => []RefusedOnlyAhead
<1>1. DInv => RefusedOnlyAhead
  <2>1. SUFFICES ASSUME DInv, last > 0, ~Loads(last)
                 PROVE  /\ tip.best # {}
                        /\ \E c \in bestFile : \A b \in tip.best : c.score > b.score /\ c.step > b.step
    BY DEF RefusedOnlyAhead
  <2>2. last \in Nat
    BY <2>1 DEF DInv, RInv, RunTypeOK, ContractTypeOK
  <2> QED BY <2>1, <2>2 DEF DInv, TipInv, TipDeferral, TipLinked, Loads, Linked
<1> QED BY <1>1, DiskInvariance, PTL
=============================================================================

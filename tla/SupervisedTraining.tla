-------------------------- MODULE SupervisedTraining --------------------------
(***************************************************************************)
(* The supervisor beside the trainers it really has: every process it      *)
(* waits for, reattaches to or launches is one of TrainingRun, with its    *)
(* checkpoints, instead of any process that keeps the contract.  What a    *)
(* verdict of scripts/supervise_convergence.py is worth on disk, and what  *)
(* the next block of training starts from, is a matter of both.            *)
(***************************************************************************)
EXTENDS ConvergenceSupervisor, TrainingRun

\* Every process is asked for a whole number of blocks past the minimum.
ASSUME BlockAssumption == Targets = Grid

watched == <<supVars, kills, mishaps>>
systemVars == <<contractVars, supVars, kills, mishaps, inner, history>>

SystemInit == Init /\ RunInit

\* The supervisor reads and writes state files, and looks at last.pt and the summary;
\* no checkpoint is changed by it.
Supervise(s) ==
  /\ Start(s) \/ Attends(s) \/ RefuseArtifacts(s) \/ BootOutRaises(s) \/ KillSupervisor(s)
  /\ UNCHANGED <<inner, history>>

\* _launch_extension: the next process is an exact resume towards the target on file.
Extend(s) ==
  /\ Spawn(s)
  /\ asked' = sup[s].target
  /\ UNCHANGED <<inner, diagnosed, collapsed, deaths>>

Train(p) == (Inside(p) \/ Outside(p)) /\ UNCHANGED watched

Fail(p) == Mishap(p) /\ (TrainerRaises(p) \/ TrainerKilled(p))

\* A child of the supervisor is reaped by it (ChildExits), any other by init.
Vanish(p) == Orphan(p) /\ Reaped(p) /\ UNCHANGED watched

Unrelated(p) == (ReusePid(p) \/ OtherExits(p)) /\ UNCHANGED <<inner, history>>

SystemNext ==
  \/ \E s \in Supervisors : Supervise(s) \/ Extend(s)
  \/ \E p \in Pids : Train(p) \/ Fail(p) \/ Vanish(p) \/ Unrelated(p)

System == SystemInit /\ [][SystemNext]_systemVars

-----------------------------------------------------------------------------
(* Properties. *)

\* What inspect_completed_campaign asks of the artifacts before a segment counts.
Backed ==
  /\ tip.marker = "validated" /\ Linked
  /\ \A b \in tip.best : b.step \in accepted

\* A verdict is about checkpoints that are there: whoever was killed on the way to it,
\* last.pt is of the step the verdict names and was fully validated, the selectors it
\* names are the ones on disk, and its incumbent has its accepted validation.
VerdictIsBacked ==
  saved.status \in Verdicts => last = saved.completed /\ Backed

\* The first process asked for a target can resume: it starts from a validated last.pt
\* whose selectors are on disk.  (A later one, launched because a supervisor died, may
\* find what its predecessor left in the middle of a validation.)
FirstLaunchLoads ==
  [][\A t \in Grid : launches[t] = 0 /\ launches'[t] > 0 =>
       Loads(t) /\ tip.marker = "validated"]_systemVars

\* Beside real trainers the supervisor does nothing that is not in its own specification,
\* and beside a supervisor a trainer's run is still one: what it launches, and what it
\* writes into the trainer's files, is what TrainingRun expects of the world.
SupervisionHolds == Spec
RunHolds == RunSpec
ComponentsHold == SupervisionHolds /\ RunHolds
=============================================================================

--------------------------- MODULE TrainerContract ---------------------------
(***************************************************************************)
(* What a trainer process (train.py) does to its run directory, as far as  *)
(* another process can see it: the process table, the lock file, the two   *)
(* state files, the step of checkpoints/last.pt and the completed_steps of *)
(* train_summary.json.  Everything train_from_config does besides is in    *)
(* TrainingRun, which implements this contract; ConvergenceSupervisor is   *)
(* written against it.                                                     *)
(***************************************************************************)
EXTENDS Naturals

CONSTANTS Pids,         \* process identifiers; the system uses them again
          Nobody,       \* not a process identifier
          FirstPid,     \* the process launchd started for the fresh run
          FirstTarget   \* its training.steps

ASSUME ProcessAssumption == Nobody \notin Pids /\ FirstPid \in Pids
ASSUME TargetAssumption == FirstTarget \in Nat \ {0}

VARIABLES proc,      \* the process table
          lock,      \* who holds .training.lock
          state,     \* "state" in training_state.json, "none" without the file
          failure,   \* whether training_failure.json exists
          last,      \* the step in checkpoints/last.pt, 0 without the file
          summary    \* completed_steps in train_summary.json, 0 without it

files == <<state, failure, last, summary>>
contractVars == <<proc, lock, files>>

Working == {"launched", "claimed", "cleared", "training", "raised", "failing",
            "published", "completing", "done"}
Exited == {"succeeded", "died"}

Process == [kind : {"free", "other", "trainer"}, stage : Working \cup Exited \cup {"none"},
            target : Nat, fresh : BOOLEAN, noop : BOOLEAN]

Free == [kind |-> "free", stage |-> "none", target |-> 0, fresh |-> FALSE, noop |-> FALSE]
Other == [Free EXCEPT !.kind = "other"]
Trainer(target, fresh) ==
  [kind |-> "trainer", stage |-> "launched", target |-> target, fresh |-> fresh, noop |-> FALSE]

ContractTypeOK ==
  /\ proc \in [Pids -> Process]
  /\ lock \in Pids \cup {Nobody}
  /\ state \in {"none", "running", "completed", "failed"}
  /\ failure \in BOOLEAN
  /\ last \in Nat /\ summary \in Nat

Alive(p) == proc[p].stage \in Working
\* It may still write last.pt or train_summary.json.
Trains(p) == proc[p].stage \in {"launched", "claimed", "cleared", "training"}

ContractInit ==
  /\ proc = [[p \in Pids |-> Free] EXCEPT ![FirstPid] = Trainer(FirstTarget, TRUE)]
  /\ lock = Nobody
  /\ state = "none" /\ failure = FALSE
  /\ last = 0 /\ summary = 0

MovesTo(p, from, to) ==
  /\ proc[p].stage = from
  /\ proc' = [proc EXCEPT ![p].stage = to]

\* python train.py --resume .../last.pt --set training.steps=target
Launch(p, target) ==
  /\ proc[p] = Free
  /\ proc' = [proc EXCEPT ![p] = Trainer(target, FALSE)]
  /\ UNCHANGED <<lock, files>>

Claim(p) ==
  /\ lock = Nobody
  /\ MovesTo(p, "launched", "claimed")
  /\ lock' = p
  /\ UNCHANGED files

\* The lock is refused before anything is written: nothing records the exit.
Refused(p) ==
  /\ lock # Nobody
  /\ MovesTo(p, "launched", "died")
  /\ UNCHANGED <<lock, files>>

ClearFailure(p) ==
  /\ MovesTo(p, "claimed", "cleared")
  /\ failure' = FALSE
  /\ UNCHANGED <<lock, state, last, summary>>

\* "starting" and "running" are written one after the other; nobody tells them apart.
Begin(p) ==
  /\ proc[p].stage = "cleared"
  /\ proc' = [proc EXCEPT ![p] =
       [@ EXCEPT !.stage = "training", !.noop = ~proc[p].fresh /\ last = proc[p].target]]
  /\ state' = "running"
  /\ UNCHANGED <<lock, failure, last, summary>>

Checkpoint(p) ==
  /\ proc[p].stage = "training"
  /\ proc[p].fresh \/ last > 0
  /\ \E step \in last + 1 .. proc[p].target : last' = step
  /\ UNCHANGED <<proc, lock, state, failure, summary>>

Publish(p) ==
  /\ last = proc[p].target
  /\ MovesTo(p, "training", "published")
  /\ summary' = last
  /\ UNCHANGED <<lock, state, failure, last>>

\* A resume that finds last.pt at its target and some summary keeps that summary.
KeepSummary(p) ==
  /\ proc[p].noop /\ summary # 0
  /\ MovesTo(p, "training", "published")
  /\ UNCHANGED <<lock, files>>

Raise(p) ==
  /\ MovesTo(p, "training", "raised")
  /\ failure' = TRUE
  /\ UNCHANGED <<lock, state, last, summary>>

RecordRaise(p) ==
  /\ MovesTo(p, "raised", "failing")
  /\ state' = "failed"
  /\ UNCHANGED <<lock, failure, last, summary>>

ClearOnSuccess(p) ==
  /\ MovesTo(p, "published", "completing")
  /\ failure' = FALSE
  /\ UNCHANGED <<lock, state, last, summary>>

Complete(p) ==
  /\ MovesTo(p, "completing", "done")
  /\ state' = "completed"
  /\ UNCHANGED <<lock, failure, last, summary>>

Released(p) == IF lock = p THEN Nobody ELSE lock

Exit(p) ==
  /\ \/ MovesTo(p, "done", "succeeded")
     \/ MovesTo(p, "failing", "died")
  /\ lock' = Released(p)
  /\ UNCHANGED files

\* The operating system ends it; the kernel releases the lock.
Killed(p) ==
  /\ Alive(p)
  /\ proc' = [proc EXCEPT ![p].stage = "died"]
  /\ lock' = Released(p)
  /\ UNCHANGED files

Reap(p) ==
  /\ proc[p].stage \in Exited
  /\ proc' = [proc EXCEPT ![p] = Free]
  /\ UNCHANGED <<lock, files>>

(* What others do to the same process table and files. *)

\* A released identifier is given to an unrelated process.
IdReused(p) ==
  /\ proc[p] = Free
  /\ proc' = [proc EXCEPT ![p] = Other]
  /\ UNCHANGED <<lock, files>>

OtherEnds(p) ==
  /\ proc[p] = Other
  /\ proc' = [proc EXCEPT ![p] = Free]
  /\ UNCHANGED <<lock, files>>

\* A supervisor records that the trainer failed (_record_external_trainer_failure).
FailureNoted ==
  /\ failure' = TRUE
  /\ UNCHANGED <<proc, lock, state, last, summary>>

FailedNoted ==
  /\ state' = "failed"
  /\ UNCHANGED <<proc, lock, failure, last, summary>>

Elsewhere == FailureNoted \/ FailedNoted \/ \E p \in Pids : IdReused(p) \/ OtherEnds(p)

Progress(p) ==
  \/ Claim(p) \/ Refused(p) \/ ClearFailure(p) \/ Begin(p)
  \/ Checkpoint(p) \/ Publish(p) \/ KeepSummary(p)
  \/ RecordRaise(p) \/ ClearOnSuccess(p) \/ Complete(p) \/ Exit(p)

ContractNext ==
  \/ Elsewhere
  \/ \E p \in Pids :
       \/ Progress(p)
       \/ Raise(p) \/ Killed(p) \/ Reap(p)
       \/ Launch(p, proc'[p].target)

Contract == ContractInit /\ [][ContractNext]_contractVars
=============================================================================

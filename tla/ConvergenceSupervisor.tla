------------------------ MODULE ConvergenceSupervisor ------------------------
(***************************************************************************)
(* scripts/supervise_convergence.py beside the trainers it watches: it     *)
(* waits for the first segment of a run, judges it, and resumes training   *)
(* block by block until the objective is flat or the budget is spent.  It  *)
(* may be killed between any two steps and started again, twice over if    *)
(* launchd and an operator both do; all it remembers is one state file.    *)
(***************************************************************************)
EXTENDS TrainerContract, FiniteSets

CONSTANTS Supervisors,   \* invocations of the script
          Extension,     \* --extension-steps
          Maximum,       \* --maximum-total-steps
          MaxKills,      \* bound: supervisors killed
          MaxMishaps     \* bound: trainers killed, cleanups and verifications that fail

\* main, lines 566 to 574: the budget is a whole number of blocks past the minimum.
ASSUME BudgetAssumption ==
  /\ Extension \in Nat \ {0} /\ Maximum \in Nat
  /\ Maximum >= FirstTarget /\ (Maximum - FirstTarget) % Extension = 0
ASSUME SupervisorAssumption == Nobody \notin Supervisors

Minimum == FirstTarget

VARIABLES sup,        \* each supervisor's control state and locals
          supLock,    \* who holds .convergence_supervisor.lock
          saved,      \* convergence_supervisor_state.json
          flatFrom,   \* the first target at which the validations are flat
          launches,   \* history: how often each target was launched
          ended,      \* history: a final status was written
          kills, mishaps

supVars == <<sup, supLock, saved, flatFrom, launches, ended>>
vars == <<contractVars, supVars, kills, mishaps>>

Grid == {t \in Minimum .. Maximum : \E k \in 0 .. Maximum : t = Minimum + k * Extension}

Down == [pc |-> "down", kind |-> "initial", target |-> 0, pid |-> Nobody, completed |-> 0]

Failures == {"initial_trainer_failed", "extension_failed"}
Verdicts == {"plateau", "limit_hit"}
Pending == {"extension_starting", "extension_running"}

Saved(status, target, pid, completed) ==
  [status |-> status, target |-> target, pid |-> pid, completed |-> completed]

Locals ==
  [pc : {"down", "started", "listing", "comparing", "waiting", "polling", "watching",
         "inspecting", "verified", "booting", "deciding", "starting", "spawning", "spawned",
         "attached", "recording", "recording_failure", "recording_state", "giving_up"},
   kind : {"initial", "reattached", "recovered", "found", "extension"},
   target : Grid \cup {0}, pid : Pids \cup {Nobody}, completed : Grid \cup {0}]

StateFile ==
  [status : {"none", "segment_completed"} \cup Failures \cup Verdicts \cup Pending,
   target : Grid \cup {0}, pid : Pids \cup {Nobody}, completed : Grid \cup {0}]

TypeOK ==
  /\ ContractTypeOK
  /\ sup \in [Supervisors -> Locals]
  /\ supLock \in Supervisors \cup {Nobody}
  /\ saved \in StateFile
  /\ flatFrom \in Nat
  /\ launches \in [Grid -> Nat]
  /\ ended \in BOOLEAN
  /\ kills \in Nat /\ mishaps \in Nat

Init ==
  /\ ContractInit
  /\ sup = [s \in Supervisors |-> Down]
  /\ supLock = Nobody
  /\ saved = Saved("none", 0, Nobody, 0)
  /\ flatFrom \in Grid \cup {Maximum + Extension}
  /\ launches = [t \in Grid |-> 0]
  /\ ended = FALSE
  /\ kills = 0 /\ mishaps = 0

-----------------------------------------------------------------------------
(* Steps of a supervisor. *)

At(s, pc) == sup[s].pc = pc
Goes(s, pc) == sup' = [sup EXCEPT ![s].pc = pc]
\* The process is gone: its locals are lost, the kernel releases its lock.
Leaves(s) ==
  /\ sup' = [sup EXCEPT ![s] = Down]
  /\ supLock' = IF supLock = s THEN Nobody ELSE supLock

Writes(status, target, pid, completed) ==
  /\ saved' = Saved(status, target, pid, completed)
  /\ ended' = (ended \/ status \in Failures \cup Verdicts)

Silent == UNCHANGED <<saved, flatFrom, launches, ended, contractVars, kills>>

StartUnlocked(s) ==                     \* mutant: no lock
  /\ At(s, "down")
  /\ supLock' = s
  /\ Goes(s, "started")
  /\ Silent /\ UNCHANGED mishaps

\* An invocation that finds the lock taken returns 0 and changes nothing.
Start(s) ==
  /\ At(s, "down") /\ supLock = Nobody
  /\ supLock' = s
  /\ Goes(s, "started")
  /\ Silent /\ UNCHANGED mishaps

ReadStateRetrying(s) ==                 \* mutant: a recorded failure is no obstacle
  /\ At(s, "started")
  /\ sup' = [sup EXCEPT ![s] =
       IF saved.status \in Pending
       THEN [Down EXCEPT !.pc = "listing", !.target = saved.target, !.pid = saved.pid]
       ELSE [Down EXCEPT !.pc = "waiting", !.target = Minimum, !.pid = FirstPid]]
  /\ Silent /\ UNCHANGED <<supLock, mishaps>>

ReadState(s) ==
  /\ At(s, "started")
  /\ \/ saved.status \in Failures /\ Leaves(s)
     \/ /\ saved.status \in Pending
        /\ sup' = [sup EXCEPT ![s] = [Down EXCEPT !.pc = "listing", !.target = saved.target,
                                                  !.pid = saved.pid]]
        /\ UNCHANGED supLock
     \/ /\ saved.status \notin Failures \cup Pending
        /\ sup' = [sup EXCEPT ![s] = [Down EXCEPT !.pc = "waiting", !.target = Minimum,
                                                  !.pid = FirstPid]]
        /\ UNCHANGED supLock
  /\ Silent /\ UNCHANGED mishaps

\* Live processes with the extension's own command line.
Matches(target) == {p \in Pids : Alive(p) /\ ~proc[p].fresh /\ proc[p].target = target}

ListStored(s) ==                        \* mutant: only the recorded process is looked for
  /\ At(s, "listing")
  /\ sup' = [sup EXCEPT ![s] =
       [@ EXCEPT !.pc = "comparing", !.pid = IF @ \in Matches(sup[s].target) THEN @ ELSE Nobody]]
  /\ Silent /\ UNCHANGED <<supLock, mishaps>>

ListTrainers(s) ==
  LET matches == Matches(sup[s].target) IN
  /\ At(s, "listing")
  /\ IF Cardinality(matches) > 1
     THEN Leaves(s)
     ELSE /\ \/ /\ sup[s].pid \in matches
                /\ Goes(s, "comparing")
             \/ /\ sup[s].pid \notin matches
                /\ \E p \in IF matches = {} THEN {Nobody} ELSE matches :
                     sup' = [sup EXCEPT ![s] = [@ EXCEPT !.pc = "comparing", !.pid = p]]
          /\ UNCHANGED supLock
  /\ Silent /\ UNCHANGED mishaps

ReadNoSummary(s) ==                     \* mutant: launched whether finished or not
  /\ At(s, "comparing")
  /\ LET found == sup[s].pid # Nobody IN
     sup' = [sup EXCEPT ![s] = [@ EXCEPT !.pc = IF found THEN "waiting" ELSE "starting",
                                         !.kind = IF found THEN "reattached" ELSE "recovered"]]
  /\ UNCHANGED <<supLock, mishaps>> /\ Silent

ReadSummary(s) ==
  LET next == CASE sup[s].pid # Nobody        -> [pc |-> "waiting", kind |-> "reattached"]
                [] summary < sup[s].target /\ sup[s].pid = Nobody
                                              -> [pc |-> "starting", kind |-> "recovered"]
                [] OTHER                      -> [pc |-> "inspecting", kind |-> "found"]
  IN /\ At(s, "comparing")
     /\ sup' = [sup EXCEPT ![s] = [@ EXCEPT !.pc = next.pc, !.kind = next.kind]]
     /\ UNCHANGED <<supLock, mishaps>> /\ Silent

(* _wait_for_completed_segment *)

CheckFailure(s) ==
  /\ At(s, "waiting")
  /\ Goes(s, IF failure \/ state = "failed" THEN "giving_up" ELSE "polling")
  /\ UNCHANGED <<supLock, mishaps>> /\ Silent

PollSummary(s) ==
  /\ At(s, "polling")
  /\ Goes(s, IF summary >= sup[s].target THEN "inspecting" ELSE "watching")
  /\ UNCHANGED <<supLock, mishaps>> /\ Silent

AnyProcess(p) == proc[p].kind # "free"  \* mutant: its command line is not looked at

\* os.kill(pid, 0), then the command line: is it still this run's trainer?
TrainsThisRun(p) == Alive(p)

Watch(s) ==
  /\ At(s, "watching")
  /\ Goes(s, IF TrainsThisRun(sup[s].pid) THEN "waiting"
             ELSE IF sup[s].kind = "initial" THEN "recording" ELSE "giving_up")
  /\ UNCHANGED <<supLock, mishaps>> /\ Silent

(* _record_external_trainer_failure *)

Record(s) ==
  /\ At(s, "recording")
  /\ Goes(s, IF state \in {"completed", "failed"} THEN "giving_up" ELSE "recording_failure")
  /\ UNCHANGED <<supLock, mishaps>> /\ Silent

RecordFailure(s) ==
  /\ At(s, "recording_failure")
  /\ FailureNoted
  /\ Goes(s, "recording_state")
  /\ UNCHANGED <<supLock, saved, flatFrom, launches, ended, kills, mishaps>>

RecordState(s) ==
  /\ At(s, "recording_state")
  /\ FailedNoted
  /\ Goes(s, "giving_up")
  /\ UNCHANGED <<supLock, saved, flatFrom, launches, ended, kills, mishaps>>

GiveUp(s) ==
  /\ At(s, "giving_up")
  /\ Writes(IF sup[s].kind = "initial" THEN "initial_trainer_failed" ELSE "extension_failed",
            sup[s].target, Nobody, 0)
  /\ Leaves(s)
  /\ UNCHANGED <<flatFrom, launches, contractVars, kills, mishaps>>

(* inspect_completed_campaign and the check of its caller *)

ReachesTarget(s) ==
  CASE sup[s].kind = "extension" -> summary = sup[s].target
    [] sup[s].kind = "recovered" -> summary >= sup[s].target
    [] OTHER                     -> TRUE

InspectTrusting(s) ==                   \* mutant: the exit code is believed
  /\ At(s, "inspecting")
  /\ sup' = [sup EXCEPT ![s] = [@ EXCEPT !.pc = "verified", !.completed = sup[s].target]]
  /\ UNCHANGED <<supLock, mishaps>> /\ Silent

Inspect(s) ==
  /\ At(s, "inspecting")
  /\ IF summary > 0 /\ last = summary /\ ReachesTarget(s)
     THEN IF sup[s].kind = "extension" \/ summary \in Grid
          THEN /\ sup' = [sup EXCEPT ![s] = [@ EXCEPT !.pc = "verified", !.completed = summary]]
               /\ UNCHANGED supLock
          ELSE Leaves(s)
     ELSE Goes(s, "giving_up") /\ UNCHANGED supLock
  /\ UNCHANGED mishaps /\ Silent

\* The linked selectors do not verify, or no numbered validation was accepted.
RefuseArtifacts(s) ==
  /\ At(s, "inspecting") /\ mishaps < MaxMishaps
  /\ mishaps' = mishaps + 1
  /\ Goes(s, "giving_up")
  /\ UNCHANGED supLock /\ Silent

SaveCompleted(s) ==
  /\ At(s, "verified")
  /\ Writes("segment_completed", 0, Nobody, sup[s].completed)
  /\ Goes(s, IF sup[s].kind = "extension" THEN "deciding" ELSE "booting")
  /\ UNCHANGED <<supLock, flatFrom, launches, contractVars, kills, mishaps>>

BootOut(s) ==
  /\ At(s, "booting")
  /\ Goes(s, "deciding")
  /\ UNCHANGED <<supLock, mishaps>> /\ Silent

BootOutRaises(s) ==
  /\ At(s, "booting") /\ mishaps < MaxMishaps
  /\ mishaps' = mishaps + 1
  /\ Leaves(s)
  /\ Silent

(* decide_continuation and what main does with it *)

Conclude(s) ==
  LET completed == sup[s].completed
      flat == completed >= flatFrom
  IN /\ At(s, "deciding")
     /\ flat \/ completed + Extension > Maximum
     /\ Writes(IF flat THEN "plateau" ELSE "limit_hit", 0, Nobody, completed)
     /\ Leaves(s)
     /\ UNCHANGED <<flatFrom, launches, contractVars, kills, mishaps>>

Continue(s) ==
  LET completed == sup[s].completed IN
  /\ At(s, "deciding")
  /\ completed < flatFrom /\ completed + Extension <= Maximum
  /\ sup' = [sup EXCEPT ![s] = [@ EXCEPT !.pc = "starting", !.kind = "extension",
                                      !.target = completed + Extension]]
  /\ UNCHANGED <<supLock, mishaps>> /\ Silent

(* _launch_extension *)

SaveStarting(s) ==
  /\ At(s, "starting")
  /\ Writes("extension_starting", sup[s].target, Nobody, 0)
  /\ Goes(s, "spawning")
  /\ UNCHANGED <<supLock, flatFrom, launches, contractVars, kills, mishaps>>

Spawn(s) ==
  /\ At(s, "spawning")
  /\ \E p \in Pids :
       /\ Launch(p, sup[s].target)
       /\ sup' = [sup EXCEPT ![s] = [@ EXCEPT !.pc = "spawned", !.pid = p]]
  /\ launches' = [launches EXCEPT ![sup[s].target] = @ + 1]
  /\ UNCHANGED <<supLock, saved, flatFrom, ended, kills, mishaps>>

SaveRunning(s) ==
  /\ At(s, "spawned")
  /\ Writes("extension_running", sup[s].target, sup[s].pid, 0)
  /\ Goes(s, "attached")
  /\ UNCHANGED <<supLock, flatFrom, launches, contractVars, kills, mishaps>>

ChildExits(s) ==
  /\ At(s, "attached")
  /\ Goes(s, IF proc[sup[s].pid].stage = "succeeded" THEN "inspecting" ELSE "recording")
  /\ Reap(sup[s].pid)
  /\ UNCHANGED <<supLock, saved, flatFrom, launches, ended, kills, mishaps>>

KillSupervisor(s) ==
  /\ sup[s].pc # "down" /\ kills < MaxKills
  /\ kills' = kills + 1
  /\ Leaves(s)
  /\ UNCHANGED <<saved, flatFrom, launches, ended, contractVars, mishaps>>

Attends(s) ==
  \/ ReadState(s) \/ ListTrainers(s) \/ ReadSummary(s)
  \/ CheckFailure(s) \/ PollSummary(s) \/ Watch(s)
  \/ Record(s) \/ RecordFailure(s) \/ RecordState(s) \/ GiveUp(s)
  \/ Inspect(s) \/ SaveCompleted(s) \/ BootOut(s) \/ Conclude(s) \/ Continue(s)
  \/ SaveStarting(s) \/ SaveRunning(s) \/ ChildExits(s)

SupervisorStep(s) == Attends(s) \/ Spawn(s)

-----------------------------------------------------------------------------
(* Steps of the trainers and of the system around them. *)

\* A process whose parent is gone is reaped by init.
Orphan(p) == \A s \in Supervisors : ~(sup[s].pc \in {"spawned", "attached"} /\ sup[s].pid = p)

TrainerStep(p) ==
  /\ Progress(p) \/ (Orphan(p) /\ Reap(p))
  /\ UNCHANGED <<supVars, kills, mishaps>>

TrainerRaises(p) == Raise(p) /\ UNCHANGED <<supVars, kills, mishaps>>

TrainerKilled(p) ==
  /\ mishaps < MaxMishaps
  /\ mishaps' = mishaps + 1
  /\ Killed(p)
  /\ UNCHANGED <<supVars, kills>>

\* A released identifier is given to an unrelated process; one always stays free.
ReusePid(p) ==
  /\ \E q \in Pids \ {p} : proc[q] = Free
  /\ IdReused(p)
  /\ UNCHANGED <<supVars, kills, mishaps>>

OtherExits(p) == OtherEnds(p) /\ UNCHANGED <<supVars, kills, mishaps>>

Next ==
  \/ \E s \in Supervisors :
       \/ Start(s) \/ SupervisorStep(s)
       \/ RefuseArtifacts(s) \/ BootOutRaises(s) \/ KillSupervisor(s)
  \/ \E p \in Pids : TrainerStep(p) \/ TrainerRaises(p) \/ TrainerKilled(p) \/ ReusePid(p) \/ OtherExits(p)

Spec == Init /\ [][Next]_vars

\* A supervisor keeps taking steps, one that died is started again by launchd,
\* and a trainer that is not disturbed goes on to its target.
FairSpec ==
  /\ Spec
  /\ \A s \in Supervisors : WF_vars(Start(s)) /\ WF_vars(SupervisorStep(s))
  /\ \A p \in Pids : WF_vars(TrainerStep(p))

-----------------------------------------------------------------------------
(* Properties. *)

\* Two trainers never work on the run at once, whenever supervisors die and
\* return: a successor finds the process its predecessor did not live to record
\* (_matching_trainer_pid), and the lock admits one supervisor.
NoOverlap == \A p, q \in Pids : Trains(p) /\ Trains(q) => p = q

\* A segment is launched only while its summary is still missing, also when the
\* trainer exits while the successor is looking for it.
OnlyUnfinishedLaunched ==
  [][\A t \in Grid : launches'[t] > launches[t] => summary < t]_vars

\* Every launch of a target after its first is owed to a supervisor that died: a
\* trainer that fails is tried again only where its supervisor was killed before
\* it recorded the failure ("cannot become an infinite automatic retry loop", main).
RetriesAreForDeaths == \A t \in Grid : launches[t] <= 1 + kills

\* Once a verdict or a failure is on file, no later invocation launches anything.
StoppedIsFinal == [][ended => launches' = launches]_vars

\* A verdict is about the run as it is: the last checkpoint, the summary and the
\* verdict name one step, a whole number of blocks past the minimum, and no
\* trainer is left that could move them.
VerdictIsEarned ==
  saved.status \in Verdicts =>
    /\ saved.completed \in Grid
    /\ last = saved.completed /\ summary = saved.completed
    /\ \A p \in Pids : ~Trains(p)

\* Supervision ends: nobody waits for a trainer that will not come back, even
\* when its identifier has been given to another process.
Settles == <>(saved.status \in Failures \cup Verdicts)
=============================================================================

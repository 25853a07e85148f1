--------------------- MODULE ConvergenceSupervisor_proof ---------------------
(***************************************************************************)
(* For every set of processes and supervisors and every budget: no two     *)
(* trainers work on the run at once, only an unfinished segment is         *)
(* launched, and every launch after a target's first follows the death of  *)
(* a supervisor.  The three hold together: a trainer is launched for the   *)
(* one target that is neither behind the summary nor in the hands of a     *)
(* live process, and that is so because nobody else moves the summary.     *)
(***************************************************************************)
EXTENDS ConvergenceSupervisor, TLAPS

Running(s) == sup[s].pc # "down"
NoneTrains == \A p \in Pids : ~Trains(p)
NothingBeyond(t) == \A u \in Grid : u > t => launches[u] = 0

\* The kernel's lock: a supervisor that runs holds it.
Exclusive == \A s \in Supervisors : Running(s) => supLock = s

\* The trainers: whoever trains works for a launched target the summary has not reached.
Trainers ==
  /\ summary <= last
  /\ summary \in Grid \cup {0}
  /\ \A p \in Pids : proc[p].stage \in Working =>
       /\ proc[p].target \in Grid
       /\ proc[p].fresh => proc[p].target = Minimum
       /\ ~proc[p].fresh => launches[proc[p].target] > 0
  /\ \A p \in Pids : Trains(p) => summary < proc[p].target
  /\ NoOverlap

\* The state file: what has been launched, as seen from the recorded status.
Recorded ==
  /\ saved.status = "none" => NothingBeyond(0)
  /\ saved.status \in {"segment_completed"} \cup Verdicts =>
       saved.completed \in Grid /\ saved.completed <= summary /\ NothingBeyond(saved.completed)
  /\ saved.status \in Pending =>
       /\ saved.target \in Grid /\ Minimum <= summary /\ NothingBeyond(saved.target)
       /\ \A u \in Grid : u < saved.target /\ launches[u] > 0 => u <= summary

\* A relaunch is paid for before anybody considers it.
Paid == saved.status \in Pending => launches[saved.target] <= kills

Launching(s) ==
  /\ sup[s].target \in Grid
  /\ NoneTrains /\ summary < sup[s].target
  /\ launches[sup[s].target] <= kills
  /\ NothingBeyond(sup[s].target)

Handling(s) == saved.status \in Pending /\ saved.target = sup[s].target

Control(s) ==
  /\ sup[s].pc = "started" => Paid
  /\ sup[s].pc \in {"listing", "comparing"} => Handling(s) /\ Paid
  /\ sup[s].pc = "comparing" /\ sup[s].pid = Nobody => Matches(sup[s].target) = {}
  /\ sup[s].pc \in {"waiting", "polling", "watching", "inspecting", "recording",
                    "recording_failure", "recording_state", "giving_up"} =>
       IF sup[s].kind = "initial"
       THEN saved.status \notin Pending \cup Failures /\ sup[s].target = Minimum
       ELSE Handling(s)
  /\ sup[s].pc = "inspecting" /\ sup[s].kind \in {"initial", "reattached", "found"} =>
       summary >= sup[s].target
  /\ sup[s].pc \in {"verified", "booting", "deciding"} =>
       /\ sup[s].completed = summary /\ summary \in Grid
       /\ NoneTrains /\ NothingBeyond(summary)
  /\ sup[s].pc \in {"booting", "deciding"} =>
       saved.status = "segment_completed" /\ saved.completed = sup[s].completed
  /\ sup[s].pc = "starting" =>
       /\ Launching(s)
       /\ Handling(s) \/ (saved.status = "segment_completed" /\ Minimum <= summary)
  /\ sup[s].pc = "spawning" => Launching(s) /\ Handling(s)
  /\ sup[s].pc \in {"spawned", "attached"} => Handling(s) /\ sup[s].pid \in Pids
  /\ sup[s].pc \in {"starting", "spawning", "spawned", "attached"} =>
       sup[s].kind \in {"recovered", "extension"}

IInv ==
  /\ TypeOK
  /\ Exclusive /\ Trainers /\ Recorded
  /\ supLock = Nobody => Paid
  /\ \A s \in Supervisors : Control(s)
  /\ RetriesAreForDeaths

-----------------------------------------------------------------------------
(* The grid of targets. *)

LEMMA GridFacts ==
  /\ Grid \subseteq Nat /\ Minimum \in Grid
  /\ \A t \in Grid : t >= Minimum /\ t > 0 /\ t \in Nat
  /\ \A t \in Grid : t + Extension <= Maximum => t + Extension \in Grid
<1> USE BudgetAssumption, TargetAssumption DEF Minimum, Grid
<1>1. Grid \subseteq Nat /\ \A t \in Grid : t >= Minimum /\ t > 0 /\ t \in Nat
  OBVIOUS
<1>2. Minimum \in Grid
  <2>1. 0 \in 0 .. Maximum /\ Minimum = Minimum + 0 * Extension
    OBVIOUS
  <2>2. Minimum \in Minimum .. Maximum
    OBVIOUS
  <2> QED BY <2>1, <2>2
<1>3. ASSUME NEW t \in Grid, t + Extension <= Maximum
      PROVE  t + Extension \in Grid
  <2>1. PICK k \in 0 .. Maximum : t = Minimum + k * Extension
    OBVIOUS
  <2>2. t + Extension = Minimum + (k + 1) * Extension
    BY <2>1
  <2>3. k + 1 <= (k + 1) * Extension
    BY <2>1
  <2>4. k + 1 \in 0 .. Maximum
    BY <1>3, <2>2, <2>3
  <2>5. t + Extension \in Minimum .. Maximum
    BY <1>3
  <2> QED BY <2>2, <2>4, <2>5
<1> QED BY <1>1, <1>2, <1>3

-----------------------------------------------------------------------------
(* Types. *)

Steps ==
  {"down", "started", "listing", "comparing", "waiting", "polling", "watching",
   "inspecting", "verified", "booting", "deciding", "starting", "spawning", "spawned",
   "attached", "recording", "recording_failure", "recording_state", "giving_up"}
Kinds == {"initial", "reattached", "recovered", "found", "extension"}

\* What the steps of a supervisor change of its own variables.
LEMMA LocalTypes ==
  ASSUME NEW l \in Locals, NEW pc \in Steps
  PROVE  /\ [l EXCEPT !.pc = pc] \in Locals
         /\ \A kind \in Kinds :
              /\ [l EXCEPT !.pc = pc, !.kind = kind] \in Locals
              /\ \A t \in Grid \cup {0} :
                   [l EXCEPT !.pc = pc, !.kind = kind, !.target = t] \in Locals
         /\ \A p \in Pids \cup {Nobody} : [l EXCEPT !.pc = pc, !.pid = p] \in Locals
         /\ \A t \in Grid \cup {0} : [l EXCEPT !.pc = pc, !.completed = t] \in Locals
<1> USE DEF Locals, Steps, Kinds
<1>1. [l EXCEPT !.pc = pc] \in Locals
  OBVIOUS
<1>2. ASSUME NEW kind \in Kinds
      PROVE  [l EXCEPT !.pc = pc, !.kind = kind] \in Locals
  OBVIOUS
<1>3. ASSUME NEW kind \in Kinds, NEW t \in Grid \cup {0}
      PROVE  [l EXCEPT !.pc = pc, !.kind = kind, !.target = t] \in Locals
  OBVIOUS
<1>4. ASSUME NEW p \in Pids \cup {Nobody}
      PROVE  [l EXCEPT !.pc = pc, !.pid = p] \in Locals
  OBVIOUS
<1>5. ASSUME NEW t \in Grid \cup {0}
      PROVE  [l EXCEPT !.pc = pc, !.completed = t] \in Locals
  OBVIOUS
<1> HIDE DEF Locals, Steps, Kinds
<1> QED BY <1>1, <1>2, <1>3, <1>4, <1>5

LEMMA SlotTypes ==
  ASSUME NEW s \in Supervisors, NEW l \in Locals, TypeOK, sup' = [sup EXCEPT ![s] = l]
  PROVE  sup' \in [Supervisors -> Locals]
BY DEF TypeOK

\* The steps of a trainer keep the types of the process table and of the files.
LEMMA ContractTypes ==
  ASSUME ContractTypeOK, NEW p \in Pids,
         Progress(p) \/ Raise(p) \/ Killed(p) \/ Reap(p)
  PROVE  ContractTypeOK'
<1> USE DEF ContractTypeOK, MovesTo, files, Process, Working, Exited
<1>1. CASE Claim(p) BY <1>1 DEF Claim
<1>2. CASE Refused(p) BY <1>2 DEF Refused
<1>3. CASE ClearFailure(p) BY <1>3 DEF ClearFailure
<1>4. CASE Begin(p)
  <2> DEFINE finished == ~proc[p].fresh /\ last = proc[p].target
  <2>1. finished \in BOOLEAN
    BY Zenon
  <2>2. proc' = [proc EXCEPT ![p] = [@ EXCEPT !.stage = "training", !.noop = finished]]
    BY <1>4 DEF Begin
  <2> HIDE DEF finished
  <2>3. proc' \in [Pids -> Process]
    <3>1. CASE finished = TRUE BY <2>2, <3>1
    <3>2. CASE finished = FALSE BY <2>2, <3>2
    <3> QED BY <2>1, <3>1, <3>2
  <2> QED BY <1>4, <2>3 DEF Begin
<1>5. CASE Checkpoint(p) BY <1>5 DEF Checkpoint
<1>6. CASE Publish(p) BY <1>6 DEF Publish
<1>7. CASE KeepSummary(p) BY <1>7 DEF KeepSummary
<1>8. CASE RecordRaise(p) BY <1>8 DEF RecordRaise
<1>9. CASE ClearOnSuccess(p) BY <1>9 DEF ClearOnSuccess
<1>10. CASE Complete(p) BY <1>10 DEF Complete
<1>11. CASE Exit(p) BY <1>11 DEF Exit, Released
<1>12. CASE Raise(p) BY <1>12 DEF Raise
<1>13. CASE Killed(p) BY <1>13 DEF Killed, Released
<1>14. CASE Reap(p) BY <1>14 DEF Reap, Free
<1> QED BY <1>1, <1>2, <1>3, <1>4, <1>5, <1>6, <1>7, <1>8, <1>9, <1>10, <1>11, <1>12, <1>13, <1>14
        DEF Progress

LEMMA StepTypes ==
  ASSUME IInv, Next
  PROVE  TypeOK'
<1> USE DEF IInv, TypeOK
<1>1. ASSUME NEW s \in Supervisors, Start(s) \/ SupervisorStep(s)
             \/ RefuseArtifacts(s) \/ BootOutRaises(s) \/ KillSupervisor(s)
      PROVE  TypeOK'
  <2> USE DEF Silent, At, Goes, Leaves, Down, Locals, contractVars, files
  <2>0. sup[s] \in Locals OBVIOUS
  <2>1. CASE Start(s) BY <2>1 DEF Start, ContractTypeOK
  <2>2. CASE ReadState(s)
    <3> DEFINE pending == [Down EXCEPT !.pc = "listing", !.target = saved.target, !.pid = saved.pid]
               initial == [Down EXCEPT !.pc = "waiting", !.target = Minimum, !.pid = FirstPid]
    <3>1. pending \in Locals /\ initial \in Locals /\ Down \in Locals
      BY GridFacts, ProcessAssumption DEF StateFile
    <3>2. \/ sup' = [sup EXCEPT ![s] = Down] \/ sup' = [sup EXCEPT ![s] = pending]
          \/ sup' = [sup EXCEPT ![s] = initial]
      BY <2>2 DEF ReadState
    <3>3. sup' \in [Supervisors -> Locals]
      <4> HIDE DEF pending, initial, Down, Locals
      <4> QED BY <3>1, <3>2
    <3> QED BY <2>2, <3>3 DEF ReadState, ContractTypeOK
  <2>3. CASE ListTrainers(s)
    <3>1. sup' \in [Supervisors -> Locals]
      <4>1. CASE Cardinality(Matches(sup[s].target)) > 1
        BY <2>3, <4>1 DEF ListTrainers
      <4>2. CASE ~(Cardinality(Matches(sup[s].target)) > 1)
        <5>1. CASE Goes(s, "comparing")
          <6>1. sup' = [sup EXCEPT ![s] = [sup[s] EXCEPT !.pc = "comparing"]]
            BY <5>1
          <6>2. "comparing" \in Steps
            BY DEF Steps
          <6> HIDE DEF Locals
          <6> QED BY <2>0, <6>1, <6>2, LocalTypes, SlotTypes
        <5>2. ASSUME NEW p \in Pids \cup {Nobody},
                     sup' = [sup EXCEPT ![s] = [@ EXCEPT !.pc = "comparing", !.pid = p]]
              PROVE  sup' \in [Supervisors -> Locals]
          <6>1. "comparing" \in Steps
            BY DEF Steps
          <6> HIDE DEF Locals
          <6> QED BY <2>0, <5>2, <6>1, LocalTypes, SlotTypes
        <5> QED BY <2>3, <4>2, <5>1, <5>2 DEF ListTrainers, Matches
      <4> QED BY <4>1, <4>2
    <3> QED BY <2>3, <3>1 DEF ListTrainers, ContractTypeOK
  <2>4. CASE ReadSummary(s)
    <3>1. PICK pc \in {"waiting", "starting", "inspecting"},
               kind \in {"reattached", "recovered", "found"} :
            sup' = [sup EXCEPT ![s] = [@ EXCEPT !.pc = pc, !.kind = kind]]
      <4>1. CASE sup[s].pid # Nobody
        BY <2>4, <4>1 DEF ReadSummary
      <4>2. CASE sup[s].pid = Nobody /\ summary < sup[s].target
        BY <2>4, <4>2 DEF ReadSummary
      <4>3. CASE sup[s].pid = Nobody /\ ~(summary < sup[s].target)
        BY <2>4, <4>3 DEF ReadSummary
      <4> QED BY <4>1, <4>2, <4>3
    <3>2. sup' \in [Supervisors -> Locals]
      <4>1. pc \in Steps /\ kind \in Kinds
        BY DEF Steps, Kinds
      <4> HIDE DEF Locals
      <4> QED BY <2>0, <3>1, <4>1, LocalTypes, SlotTypes
    <3> QED BY <2>4, <3>2 DEF ReadSummary, ContractTypeOK
  <2>5. CASE CheckFailure(s) BY <2>5 DEF CheckFailure, ContractTypeOK
  <2>6. CASE PollSummary(s) BY <2>6 DEF PollSummary, ContractTypeOK
  <2>7. CASE Watch(s) BY <2>7 DEF Watch, ContractTypeOK
  <2>8. CASE Record(s) BY <2>8 DEF Record, ContractTypeOK
  <2>9. CASE RecordFailure(s) BY <2>9 DEF RecordFailure, FailureNoted, ContractTypeOK
  <2>10. CASE RecordState(s) BY <2>10 DEF RecordState, FailedNoted, ContractTypeOK
  <2>11. CASE GiveUp(s)
    BY <2>11 DEF GiveUp, Writes, Saved, StateFile, Failures, Verdicts, Pending, ContractTypeOK
  <2>12. CASE Inspect(s)
    <3>1. CASE sup' = [sup EXCEPT ![s] = [@ EXCEPT !.pc = "verified", !.completed = summary]]
               /\ summary \in Grid
      <4>1. sup' \in [Supervisors -> Locals]
        <5>1. "verified" \in Steps
          BY DEF Steps
        <5> HIDE DEF Locals
        <5> QED BY <2>0, <3>1, <5>1, LocalTypes, SlotTypes
      <4> QED BY <2>12, <4>1 DEF Inspect, ContractTypeOK
    <3>2. CASE Goes(s, "giving_up") /\ UNCHANGED supLock
      BY <2>12, <3>2 DEF Inspect, ContractTypeOK
    <3>3. CASE Leaves(s)
      BY <2>12, <3>3 DEF Inspect, ContractTypeOK
    <3>4. summary > 0 => summary \in Grid
      BY DEF Trainers
    <3> QED
      <4> HIDE DEF Goes, Leaves
      <4> QED BY <2>12, <3>1, <3>2, <3>3, <3>4 DEF Inspect
  <2>13. CASE SaveCompleted(s)
    BY <2>13 DEF SaveCompleted, Writes, Saved, StateFile, Failures, Verdicts, Pending, ContractTypeOK
  <2>14. CASE BootOut(s) BY <2>14 DEF BootOut, ContractTypeOK
  <2>15. CASE Conclude(s)
    BY <2>15 DEF Conclude, Writes, Saved, StateFile, Failures, Verdicts, Pending, ContractTypeOK
  <2>16. CASE Continue(s)
    <3>1. sup[s].completed \in Grid
      BY <2>16 DEF Continue, Control
    <3>2. sup[s].completed + Extension \in Grid
      BY <2>16, <3>1, GridFacts DEF Continue
    <3>3. sup' \in [Supervisors -> Locals]
      <4> DEFINE target == sup[s].completed + Extension
      <4>1. sup' = [sup EXCEPT ![s] = [@ EXCEPT !.pc = "starting", !.kind = "extension",
                                              !.target = target]]
        BY <2>16 DEF Continue
      <4>2. "starting" \in Steps /\ "extension" \in Kinds /\ target \in Grid
        BY <3>2 DEF Steps, Kinds
      <4> HIDE DEF target, Locals
      <4> QED BY <2>0, <4>1, <4>2, LocalTypes, SlotTypes
    <3> QED BY <2>16, <3>3 DEF Continue, ContractTypeOK
  <2>17. CASE SaveStarting(s)
    BY <2>17 DEF SaveStarting, Writes, Saved, StateFile, Failures, Verdicts, Pending, ContractTypeOK
  <2>18. CASE Spawn(s)
    <3>1. sup[s].target \in Grid /\ sup[s].target \in Nat
      BY <2>18, GridFacts DEF Spawn, Control, Launching
    <3>2. PICK p \in Pids : /\ Launch(p, sup[s].target)
                            /\ sup' = [sup EXCEPT ![s] = [@ EXCEPT !.pc = "spawned", !.pid = p]]
      BY <2>18 DEF Spawn
    <3>3. sup' \in [Supervisors -> Locals]
      <4>1. "spawned" \in Steps
        BY DEF Steps
      <4> HIDE DEF Locals
      <4> QED BY <2>0, <3>2, <4>1, LocalTypes, SlotTypes
    <3>4. proc' \in [Pids -> Process]
      BY <3>1, <3>2 DEF Launch, Trainer, ContractTypeOK, Process, Working
    <3>5. launches' \in [Grid -> Nat]
      BY <2>18, <3>1 DEF Spawn
    <3> QED BY <2>18, <3>2, <3>3, <3>4, <3>5 DEF Spawn, Launch, ContractTypeOK
  <2>19. CASE SaveRunning(s)
    BY <2>19 DEF SaveRunning, Writes, Saved, StateFile, Failures, Verdicts, Pending, ContractTypeOK
  <2>20. CASE ChildExits(s)
    <3>1. sup' \in [Supervisors -> Locals]
      BY <2>20 DEF ChildExits
    <3>2. Free \in Process
      BY DEF Free, Process
    <3>3. proc' \in [Pids -> Process]
      <4> HIDE DEF Locals
      <4> QED BY <2>20, <3>2 DEF ChildExits, Reap, ContractTypeOK
    <3> QED BY <2>20, <3>1, <3>3 DEF ChildExits, Reap, ContractTypeOK
  <2>21. CASE RefuseArtifacts(s) BY <2>21 DEF RefuseArtifacts, ContractTypeOK
  <2>22. CASE BootOutRaises(s) BY <2>22 DEF BootOutRaises, ContractTypeOK
  <2>23. CASE KillSupervisor(s) BY <2>23 DEF KillSupervisor, ContractTypeOK
  <2> QED BY <1>1, <2>1, <2>2, <2>3, <2>4, <2>5, <2>6, <2>7, <2>8, <2>9, <2>10, <2>11, <2>12,
             <2>13, <2>14, <2>15, <2>16, <2>17, <2>18, <2>19, <2>20, <2>21, <2>22, <2>23
          DEF SupervisorStep, Attends
<1>2. ASSUME NEW p \in Pids,
             TrainerStep(p) \/ TrainerRaises(p) \/ TrainerKilled(p) \/ ReusePid(p) \/ OtherExits(p)
      PROVE  TypeOK'
  <2>1. CASE TrainerStep(p)
    BY <2>1, ContractTypes DEF TrainerStep, supVars
  <2>2. CASE TrainerRaises(p) \/ TrainerKilled(p)
    BY <2>2, ContractTypes DEF TrainerRaises, TrainerKilled, supVars
  <2>3. CASE ReusePid(p)
    BY <2>3 DEF ReusePid, IdReused, supVars, files, ContractTypeOK, Other, Free, Process
  <2>4. CASE OtherExits(p)
    BY <2>4 DEF OtherExits, OtherEnds, supVars, files, ContractTypeOK, Free, Process
  <2> QED BY <1>2, <2>1, <2>2, <2>3, <2>4
<1> QED BY <1>1, <1>2 DEF Next

-----------------------------------------------------------------------------
(* What the steps have in common. *)

\* While one supervisor takes a step no other is running.
LEMMA OthersAreDown ==
  ASSUME IInv, NEW s \in Supervisors, Running(s) \/ supLock = Nobody,
         \A x \in Supervisors \ {s} : sup'[x] = sup[x]
  PROVE  \A x \in Supervisors \ {s} : ~Running(x)' /\ Control(x)'
<1>1. \A x \in Supervisors \ {s} : ~Running(x)
  BY SupervisorAssumption DEF IInv, Exclusive
<1>2. \A x \in Supervisors \ {s} : sup'[x].pc = "down"
  BY <1>1 DEF Running
<1> QED BY <1>2 DEF Running, Control

\* A supervisor's step that writes neither the state file nor anything of a trainer's
\* keeps the invariant if it keeps its own part of it.
LEMMA Moves ==
  ASSUME IInv, TypeOK', NEW s \in Supervisors, Running(s) \/ supLock = Nobody,
         \A x \in Supervisors \ {s} : sup'[x] = sup[x],
         UNCHANGED <<saved, launches, kills, proc, last, summary>>,
         Running(s)' => supLock' = s,
         supLock' = Nobody => Paid,
         Control(s)'
  PROVE  IInv'
<1>1. \A x \in Supervisors \ {s} : ~Running(x)' /\ Control(x)'
  BY OthersAreDown
<1>2. \A x \in Supervisors : Control(x)'
  BY <1>1
<1>3. Exclusive'
  BY <1>1 DEF Exclusive
<1>4. Trainers'
  BY DEF IInv, Trainers, NoOverlap, Trains
<1>5. Recorded'
  BY DEF IInv, Recorded, NothingBeyond
<1>6. (supLock = Nobody => Paid)'
  BY DEF Paid
<1>7. RetriesAreForDeaths'
  BY DEF IInv, RetriesAreForDeaths
<1> QED BY <1>2, <1>3, <1>4, <1>5, <1>6, <1>7 DEF IInv

\* What any step of the trainers does to the run, and what it leaves of the invariant.
EnvironmentMoves ==
  /\ UNCHANGED <<saved, launches, kills>>
  /\ \A q \in Pids : Alive(q)' =>
       Alive(q) /\ proc'[q].target = proc[q].target /\ proc'[q].fresh = proc[q].fresh
  /\ \A q \in Pids : Trains(q)' => Trains(q)
  /\ summary' <= last'
  /\ \/ summary' = summary
     \/ \E q \in Pids : Trains(q) /\ ~Trains(q)' /\ summary' = proc[q].target

LEMMA TrainersKeep ==
  ASSUME IInv, TypeOK', EnvironmentMoves
  PROVE  /\ Trainers' /\ Recorded' /\ summary <= summary'
         /\ NoneTrains => summary' = summary /\ NoneTrains'
<1> USE DEF EnvironmentMoves
<1>1. \A q \in Pids : Trains(q) => /\ Alive(q) /\ proc[q].target \in Grid
                                    /\ summary < proc[q].target
  BY DEF IInv, Trainers, Trains, Alive, Working
<1>2. \A p, q \in Pids : Trains(p) /\ Trains(q) => p = q
  BY DEF IInv, Trainers, NoOverlap
<1>3. summary \in Nat /\ summary' \in Nat
  BY DEF IInv, TypeOK, ContractTypeOK
<1>4. summary <= summary'
  BY <1>1, <1>3, GridFacts
<1>5. NoneTrains => summary' = summary /\ NoneTrains'
  BY DEF NoneTrains
<1>6. Trainers'
  <2>1. (summary \in Grid \cup {0})'
    BY <1>1 DEF IInv, Trainers
  <2>2. ASSUME NEW p \in Pids, (proc[p].stage \in Working)'
        PROVE  (/\ proc[p].target \in Grid
                /\ proc[p].fresh => proc[p].target = Minimum
                /\ ~proc[p].fresh => launches[proc[p].target] > 0)'
    <3>1. Alive(p)'
      BY <2>2 DEF Alive
    <3>2. proc[p].stage \in Working /\ proc'[p].target = proc[p].target /\ proc'[p].fresh = proc[p].fresh
      BY <3>1 DEF Alive
    <3> QED BY <3>2 DEF IInv, Trainers, Minimum
  <2>3. ASSUME NEW p \in Pids, Trains(p)'
        PROVE  (summary < proc[p].target)'
    <3>1. Trains(p) /\ proc'[p].target = proc[p].target
      BY <2>3 DEF Trains, Alive, Working
    <3> QED BY <1>1, <1>2, <2>3, <3>1
  <2>4. NoOverlap'
    BY <1>2 DEF NoOverlap
  <2> QED BY <2>1, <2>2, <2>3, <2>4 DEF Trainers
<1>7. Recorded'
  <2>1. Recorded /\ saved' = saved /\ launches' = launches
    BY DEF IInv
  <2>2. Minimum \in Nat /\ \A u \in Grid : u \in Nat
    BY GridFacts
  <2>3. \A t : NothingBeyond(t)' = NothingBeyond(t)
    BY <2>1 DEF NothingBeyond
  <2> QED BY <1>3, <1>4, <2>1, <2>2, <2>3 DEF Recorded, NothingBeyond, Minimum
<1> QED BY <1>4, <1>5, <1>6, <1>7

LEMMA EnvironmentKeeps ==
  ASSUME IInv, TypeOK', EnvironmentMoves, UNCHANGED <<sup, supLock>>
  PROVE  IInv'
<1>1. /\ Trainers' /\ Recorded' /\ summary <= summary'
      /\ NoneTrains => summary' = summary /\ NoneTrains'
  BY TrainersKeep
<1>2. Exclusive' /\ RetriesAreForDeaths' /\ (supLock = Nobody => Paid)'
  BY DEF IInv, Exclusive, Running, RetriesAreForDeaths, Paid, EnvironmentMoves
<1>3. ASSUME NEW s \in Supervisors
      PROVE  Control(s)'
  <2>1. UNCHANGED <<saved, launches, kills, sup>>
    BY DEF EnvironmentMoves
  <2>2. Handling(s)' = Handling(s) /\ Paid' = Paid
    BY <2>1 DEF Handling, Paid
  <2>3. \A t : NothingBeyond(t)' = NothingBeyond(t)
    BY <2>1 DEF NothingBeyond
  <2>4. Launching(s) => Launching(s)'
    BY <1>1, <2>1, <2>3 DEF Launching
  <2>5. Matches(sup[s].target) = {} => (Matches(sup[s].target) = {})'
    BY <2>1 DEF EnvironmentMoves, Matches
  <2>6. summary \in Nat /\ summary' \in Nat /\ sup[s].target \in Nat /\ Minimum \in Nat
    <3>1. sup[s].target \in Grid \cup {0}
      BY DEF IInv, TypeOK, Locals
    <3>2. Minimum \in Nat /\ \A t \in Grid \cup {0} : t \in Nat
      BY GridFacts
    <3>3. sup[s].target \in Nat
      BY <3>1, <3>2
    <3> QED BY <3>2, <3>3 DEF IInv, TypeOK, ContractTypeOK
  <2>7. Control(s)
    BY DEF IInv
  <2> QED BY <1>1, <2>1, <2>2, <2>3, <2>4, <2>5, <2>6, <2>7 DEF Control, Minimum
<1> QED BY <1>1, <1>2, <1>3 DEF IInv

-----------------------------------------------------------------------------
(* The facts a verdict and a launch rest on. *)

\* Nobody trains beyond what has been launched.
LEMMA NothingTrains ==
  ASSUME IInv, NothingBeyond(summary), summary \in Grid
  PROVE  NoneTrains
<1> SUFFICES ASSUME NEW p \in Pids, Trains(p)
             PROVE  FALSE
  BY DEF NoneTrains
<1>1. /\ proc[p].target \in Grid /\ summary < proc[p].target
      /\ proc[p].fresh => proc[p].target = Minimum
      /\ ~proc[p].fresh => launches[proc[p].target] > 0
  BY DEF IInv, Trainers, Trains, Working
<1>2. launches[proc[p].target] = 0
  BY <1>1, GridFacts DEF NothingBeyond
<1>3. proc[p].fresh
  BY <1>1, <1>2
<1> QED BY <1>1, <1>3, GridFacts

\* A recorded segment whose summary is there leaves nothing running beyond it.
LEMMA SegmentIsOver ==
  ASSUME IInv, NEW s \in Supervisors, sup[s].pc = "inspecting", summary > 0,
         sup[s].kind \in {"extension", "recovered"} => summary >= sup[s].target
  PROVE  summary \in Grid /\ NothingBeyond(summary) /\ NoneTrains
<1>1. summary \in Grid
  BY DEF IInv, Trainers
<1>2. Control(s) /\ sup[s] \in Locals
  BY DEF IInv, TypeOK
<1>3. NothingBeyond(summary)
  <2>1. CASE sup[s].kind = "initial"
    <3>1. saved.status \in {"none", "segment_completed"} \cup Verdicts
      BY <1>2, <2>1 DEF Control, IInv, TypeOK, StateFile
    <3>2. PICK t \in Grid \cup {0} : t <= summary /\ NothingBeyond(t)
      <4>1. CASE saved.status = "none"
        <5>1. NothingBeyond(0)
          BY <4>1 DEF IInv, Recorded
        <5>2. 0 <= summary
          BY DEF IInv, TypeOK, ContractTypeOK
        <5> QED BY <5>1, <5>2
      <4>2. CASE saved.status \in {"segment_completed"} \cup Verdicts
        <5>1. /\ saved.completed \in Grid /\ saved.completed <= summary
              /\ NothingBeyond(saved.completed)
          BY <4>2 DEF IInv, Recorded
        <5> QED BY <5>1
      <4> QED BY <3>1, <4>1, <4>2
    <3>3. /\ t \in Nat /\ summary \in Nat
          /\ \A u \in Grid : u \in Nat
      BY <1>1, GridFacts
    <3> QED BY <3>2, <3>3 DEF NothingBeyond
  <2>2. CASE sup[s].kind # "initial"
    <3>1. Handling(s) /\ NothingBeyond(saved.target)
      BY <1>2, <2>2 DEF Control, Handling, IInv, Recorded
    <3>2. sup[s].kind \in {"reattached", "found", "recovered", "extension"}
      BY <1>2, <2>2 DEF Locals
    <3>3. summary >= sup[s].target
      BY <1>2, <3>2 DEF Control
    <3>4. saved.target = sup[s].target /\ saved.target \in Grid
      BY <3>1 DEF Handling, IInv, Recorded
    <3>5. /\ saved.target \in Nat /\ summary \in Nat /\ saved.target <= summary
          /\ \A u \in Grid : u \in Nat
      BY <1>1, <3>3, <3>4, GridFacts
    <3>6. \A u \in Grid : u > summary => u > saved.target
      <4> HIDE DEF Grid
      <4> QED BY <3>5
    <3> QED BY <3>1, <3>6 DEF NothingBeyond
  <2> QED BY <2>1, <2>2
<1> QED BY <1>1, <1>3, NothingTrains

\* An unfinished pending segment nobody works for may be launched again.
LEMMA SegmentIsFree ==
  ASSUME IInv, NEW s \in Supervisors, sup[s].pc = "comparing", sup[s].pid = Nobody,
         summary < sup[s].target
  PROVE  Launching(s) /\ Handling(s)
<1>1. Handling(s) /\ Paid /\ Matches(sup[s].target) = {}
  BY DEF IInv, Control
<1>2. /\ saved.target = sup[s].target /\ sup[s].target \in Grid /\ Minimum <= summary
      /\ NothingBeyond(sup[s].target)
      /\ \A u \in Grid : u < sup[s].target /\ launches[u] > 0 => u <= summary
      /\ launches[sup[s].target] <= kills
  BY <1>1 DEF Handling, Paid, IInv, Recorded
<1>3. ASSUME NEW p \in Pids, Trains(p)
      PROVE  FALSE
  <2>1. /\ Alive(p) /\ proc[p].target \in Grid /\ summary < proc[p].target
        /\ proc[p].fresh => proc[p].target = Minimum
        /\ ~proc[p].fresh => launches[proc[p].target] > 0
    BY <1>3 DEF IInv, Trainers, Trains, Alive, Working
  <2>2. summary \in Nat /\ proc[p].target \in Nat /\ sup[s].target \in Nat /\ Minimum \in Nat
    BY <1>2, <2>1, GridFacts DEF IInv, TypeOK, ContractTypeOK
  <2>3. ~proc[p].fresh /\ proc[p].target # sup[s].target
    BY <1>1, <1>2, <2>1, <2>2, <1>3 DEF Matches
  <2>4. ~(proc[p].target > sup[s].target)
    BY <1>2, <2>1, <2>2, <2>3 DEF NothingBeyond
  <2> QED BY <1>2, <2>1, <2>2, <2>3, <2>4
<1> QED BY <1>1, <1>2, <1>3 DEF Launching, NoneTrains

-----------------------------------------------------------------------------
(* Every step keeps the invariant. *)

LEMMA SupervisorMovesKeep ==
  ASSUME IInv, TypeOK', NEW s \in Supervisors,
         \/ Start(s) \/ ReadState(s) \/ ListTrainers(s) \/ ReadSummary(s)
         \/ CheckFailure(s) \/ PollSummary(s) \/ Watch(s) \/ Record(s)
         \/ RecordFailure(s) \/ RecordState(s) \/ Inspect(s) \/ RefuseArtifacts(s)
         \/ BootOut(s) \/ BootOutRaises(s) \/ Continue(s)
  PROVE  IInv'
<1>1. sup \in [Supervisors -> Locals] /\ sup[s] \in Locals /\ Control(s)
  BY DEF IInv, TypeOK
<1>2. Running(s) => supLock = s
  BY DEF IInv, Exclusive
<1>3. /\ \A t : UNCHANGED launches => NothingBeyond(t)' = NothingBeyond(t)
      /\ UNCHANGED proc => NoneTrains' = NoneTrains
      /\ UNCHANGED <<saved, launches, kills>> => Paid' = Paid
      /\ UNCHANGED proc => \A t : Matches(t)' = Matches(t)
  BY DEF NothingBeyond, NoneTrains, Trains, Paid, Matches, Alive
<1> USE DEF At, Goes, Leaves, Silent, contractVars, files
<1>4. CASE Start(s)
  <2>1. sup'[s].pc = "started" /\ Paid
    BY <1>1, <1>4 DEF Start, IInv, Locals
  <2>2. Control(s)'
    BY <1>3, <1>4, <2>1 DEF Start, Control
  <2>3. \A x \in Supervisors \ {s} : sup'[x] = sup[x]
    BY <1>1, <1>4 DEF Start
  <2>4. supLock' = s /\ supLock' # Nobody /\ supLock = Nobody
    BY <1>4, SupervisorAssumption DEF Start
  <2> QED BY <1>4, <2>2, <2>3, <2>4, Moves DEF Start
<1>5. CASE ReadState(s)
  <2>1. Paid
    BY <1>1, <1>5 DEF ReadState, Control
  <2>2. Control(s)'
    <3>1. CASE sup' = [sup EXCEPT ![s] = Down]
      BY <1>1, <3>1 DEF Down, Control
    <3>2. CASE /\ saved.status \in Pending
               /\ sup' = [sup EXCEPT ![s] = [Down EXCEPT !.pc = "listing", !.target = saved.target,
                                                         !.pid = saved.pid]]
      <4>1. sup'[s].pc = "listing" /\ sup'[s].target = saved.target
        BY <1>1, <3>2 DEF Down
      <4> QED BY <1>3, <1>5, <2>1, <3>2, <4>1 DEF ReadState, Control, Handling
    <3>3. CASE /\ saved.status \notin Failures \cup Pending
               /\ sup' = [sup EXCEPT ![s] = [Down EXCEPT !.pc = "waiting", !.target = Minimum,
                                                         !.pid = FirstPid]]
      <4>1. sup'[s].pc = "waiting" /\ sup'[s].target = Minimum /\ sup'[s].kind = "initial"
        BY <1>1, <3>3 DEF Down
      <4> QED BY <1>5, <3>3, <4>1 DEF ReadState, Control, Minimum
    <3> QED BY <1>5, <3>1, <3>2, <3>3 DEF ReadState
  <2> QED BY <1>1, <1>2, <1>5, <2>1, <2>2, Moves DEF ReadState, Running, Down
<1>6. CASE ListTrainers(s)
  <2>1. Paid /\ Handling(s)
    BY <1>1, <1>6 DEF ListTrainers, Control
  <2>2. Control(s)'
    <3>1. CASE sup' = [sup EXCEPT ![s] = Down]
      BY <1>1, <3>1 DEF Down, Control
    <3>2. CASE /\ sup[s].pid \in Matches(sup[s].target)
               /\ sup' = [sup EXCEPT ![s].pc = "comparing"]
      <4>1. /\ sup'[s].pc = "comparing" /\ sup'[s].target = sup[s].target
            /\ sup'[s].pid # Nobody
        BY <1>1, <3>2, ProcessAssumption DEF Matches
      <4> QED BY <1>3, <1>6, <2>1, <4>1 DEF ListTrainers, Control, Handling
    <3>3. ASSUME NEW p \in IF Matches(sup[s].target) = {} THEN {Nobody} ELSE Matches(sup[s].target),
                 sup' = [sup EXCEPT ![s] = [@ EXCEPT !.pc = "comparing", !.pid = p]]
          PROVE  Control(s)'
      <4>1. /\ sup'[s].pc = "comparing" /\ sup'[s].target = sup[s].target
            /\ sup'[s].pid = p
        BY <1>1, <3>3
      <4>2. p = Nobody => Matches(sup[s].target) = {}
        BY <3>3, ProcessAssumption DEF Matches
      <4> QED BY <1>3, <1>6, <2>1, <4>1, <4>2 DEF ListTrainers, Control, Handling
    <3> QED BY <1>6, <3>1, <3>2, <3>3 DEF ListTrainers
  <2>3. Running(s) /\ (Running(s)' => supLock' = s) /\ \A x \in Supervisors \ {s} : sup'[x] = sup[x]
    <3>1. Running(s)
      BY <1>6 DEF ListTrainers, Running
    <3>2. sup' = [sup EXCEPT ![s] = Down] \/ supLock' = supLock
      BY <1>6 DEF ListTrainers
    <3>3. \A x \in Supervisors \ {s} : sup'[x] = sup[x]
      BY <1>1, <1>6 DEF ListTrainers
    <3> QED BY <1>1, <1>2, <3>1, <3>2, <3>3 DEF Running, Down
  <2> QED BY <1>6, <2>1, <2>2, <2>3, Moves DEF ListTrainers
<1>7. CASE ReadSummary(s)
  <2>1. Paid /\ Handling(s)
    BY <1>1, <1>7 DEF ReadSummary, Control
  <2>2. Control(s)'
    <3>1. CASE sup[s].pid # Nobody
      <4>1. sup'[s].pc = "waiting" /\ sup'[s].kind = "reattached" /\ sup'[s].target = sup[s].target
        BY <1>1, <1>7, <3>1 DEF ReadSummary
      <4> QED BY <1>7, <2>1, <4>1 DEF ReadSummary, Control, Handling
    <3>2. CASE sup[s].pid = Nobody /\ summary < sup[s].target
      <4>1. sup'[s].pc = "starting" /\ sup'[s].kind = "recovered" /\ sup'[s].target = sup[s].target
        BY <1>1, <1>7, <3>2 DEF ReadSummary
      <4>2. Launching(s) /\ Handling(s)
        BY <1>7, <3>2, SegmentIsFree DEF ReadSummary
      <4> QED BY <1>3, <1>7, <4>1, <4>2 DEF ReadSummary, Control, Handling, Launching
    <3>3. CASE sup[s].pid = Nobody /\ ~(summary < sup[s].target)
      <4>1. sup'[s].pc = "inspecting" /\ sup'[s].kind = "found" /\ sup'[s].target = sup[s].target
        BY <1>1, <1>7, <3>3 DEF ReadSummary
      <4>2. summary \in Nat /\ sup[s].target \in Nat
        <5>1. sup[s].target \in Grid \cup {0}
          BY <1>1 DEF Locals
        <5>2. \A t \in Grid \cup {0} : t \in Nat
          BY GridFacts
        <5>3. sup[s].target \in Nat
          BY <5>1, <5>2
        <5> QED BY <5>3 DEF IInv, TypeOK, ContractTypeOK
      <4>3. summary' >= sup'[s].target
        BY <1>7, <3>3, <4>1, <4>2 DEF ReadSummary
      <4> QED BY <1>7, <2>1, <4>1, <4>3 DEF ReadSummary, Control, Handling
    <3> QED BY <3>1, <3>2, <3>3
  <2>3. Running(s) /\ \A x \in Supervisors \ {s} : sup'[x] = sup[x]
    BY <1>1, <1>7 DEF ReadSummary, Running
  <2> QED BY <1>2, <1>7, <2>1, <2>2, <2>3, Moves DEF ReadSummary
<1>8. CASE CheckFailure(s)
  <2>1. /\ sup'[s].pc \in {"giving_up", "polling"}
        /\ sup'[s].kind = sup[s].kind /\ sup'[s].target = sup[s].target
    BY <1>1, <1>8 DEF CheckFailure
  <2>2. Control(s)'
    BY <1>1, <1>8, <2>1 DEF CheckFailure, Control, Handling
  <2>3. Running(s) /\ \A x \in Supervisors \ {s} : sup'[x] = sup[x]
    BY <1>1, <1>8 DEF CheckFailure, Running
  <2> QED BY <1>2, <1>8, <2>2, <2>3, Moves, SupervisorAssumption DEF CheckFailure
<1>9. CASE PollSummary(s)
  <2>1. /\ sup'[s].pc = IF summary >= sup[s].target THEN "inspecting" ELSE "watching"
        /\ sup'[s].kind = sup[s].kind /\ sup'[s].target = sup[s].target
    BY <1>1, <1>9 DEF PollSummary
  <2>2. Control(s)'
    BY <1>1, <1>9, <2>1 DEF PollSummary, Control, Handling
  <2>3. Running(s) /\ \A x \in Supervisors \ {s} : sup'[x] = sup[x]
    BY <1>1, <1>9 DEF PollSummary, Running
  <2> QED BY <1>2, <1>9, <2>2, <2>3, Moves, SupervisorAssumption DEF PollSummary
<1>10. CASE Watch(s)
  <2>1. /\ sup'[s].pc \in {"waiting", "recording", "giving_up"}
        /\ sup'[s].kind = sup[s].kind /\ sup'[s].target = sup[s].target
    BY <1>1, <1>10 DEF Watch
  <2>2. Control(s)'
    BY <1>1, <1>10, <2>1 DEF Watch, Control, Handling
  <2>3. Running(s) /\ \A x \in Supervisors \ {s} : sup'[x] = sup[x]
    BY <1>1, <1>10 DEF Watch, Running
  <2> QED BY <1>2, <1>10, <2>2, <2>3, Moves, SupervisorAssumption DEF Watch
<1>11. CASE Record(s)
  <2>1. /\ sup'[s].pc \in {"giving_up", "recording_failure"}
        /\ sup'[s].kind = sup[s].kind /\ sup'[s].target = sup[s].target
    BY <1>1, <1>11 DEF Record
  <2>2. Control(s)'
    BY <1>1, <1>11, <2>1 DEF Record, Control, Handling
  <2>3. Running(s) /\ \A x \in Supervisors \ {s} : sup'[x] = sup[x]
    BY <1>1, <1>11 DEF Record, Running
  <2> QED BY <1>2, <1>11, <2>2, <2>3, Moves, SupervisorAssumption DEF Record
<1>12. CASE RecordFailure(s)
  <2>1. /\ sup'[s].pc = "recording_state"
        /\ sup'[s].kind = sup[s].kind /\ sup'[s].target = sup[s].target
    BY <1>1, <1>12 DEF RecordFailure, FailureNoted
  <2>2. Control(s)'
    BY <1>1, <1>12, <2>1 DEF RecordFailure, FailureNoted, Control, Handling
  <2>3. Running(s) /\ \A x \in Supervisors \ {s} : sup'[x] = sup[x]
    BY <1>1, <1>12 DEF RecordFailure, FailureNoted, Running
  <2> QED BY <1>2, <1>12, <2>2, <2>3, Moves, SupervisorAssumption DEF RecordFailure, FailureNoted
<1>13. CASE RecordState(s)
  <2>1. /\ sup'[s].pc = "giving_up"
        /\ sup'[s].kind = sup[s].kind /\ sup'[s].target = sup[s].target
    BY <1>1, <1>13 DEF RecordState, FailedNoted
  <2>2. Control(s)'
    BY <1>1, <1>13, <2>1 DEF RecordState, FailedNoted, Control, Handling
  <2>3. Running(s) /\ \A x \in Supervisors \ {s} : sup'[x] = sup[x]
    BY <1>1, <1>13 DEF RecordState, FailedNoted, Running
  <2> QED BY <1>2, <1>13, <2>2, <2>3, Moves, SupervisorAssumption DEF RecordState, FailedNoted
<1>14. CASE Inspect(s)
  <2>1. Running(s) /\ \A x \in Supervisors \ {s} : sup'[x] = sup[x]
    BY <1>1, <1>14 DEF Inspect, Running
  <2>2. CASE summary > 0 /\ last = summary /\ ReachesTarget(s)
    <3>1. sup[s].kind \in {"extension", "recovered"} => summary >= sup[s].target
      BY <1>1, <2>2 DEF ReachesTarget, Locals, IInv, TypeOK, ContractTypeOK
    <3>2. summary \in Grid /\ NothingBeyond(summary) /\ NoneTrains
      BY <1>14, <2>2, <3>1, SegmentIsOver DEF Inspect
    <3>3. /\ sup' = [sup EXCEPT ![s] = [@ EXCEPT !.pc = "verified", !.completed = summary]]
          /\ supLock' = supLock
      BY <1>14, <2>2, <3>2 DEF Inspect
    <3>4. sup'[s].pc = "verified" /\ sup'[s].completed = summary
      BY <1>1, <3>3
    <3>5. Control(s)'
      BY <1>3, <1>14, <3>2, <3>4 DEF Inspect, Control
    <3> QED BY <1>2, <1>14, <2>1, <3>3, <3>5, Moves, SupervisorAssumption DEF Inspect
  <2>3. CASE ~(summary > 0 /\ last = summary /\ ReachesTarget(s))
    <3>1. Goes(s, "giving_up") /\ supLock' = supLock
      BY <1>14, <2>3 DEF Inspect
    <3>2. /\ sup'[s].pc = "giving_up"
          /\ sup'[s].kind = sup[s].kind /\ sup'[s].target = sup[s].target
      BY <1>1, <3>1
    <3>3. Control(s)'
      BY <1>1, <1>14, <3>2 DEF Inspect, Control, Handling
    <3> QED BY <1>2, <1>14, <2>1, <3>1, <3>3, Moves, SupervisorAssumption DEF Inspect
  <2> QED BY <2>2, <2>3
<1>15. CASE RefuseArtifacts(s)
  <2>1. /\ sup'[s].pc = "giving_up"
        /\ sup'[s].kind = sup[s].kind /\ sup'[s].target = sup[s].target
    BY <1>1, <1>15 DEF RefuseArtifacts
  <2>2. Control(s)'
    BY <1>1, <1>15, <2>1 DEF RefuseArtifacts, Control, Handling
  <2>3. Running(s) /\ \A x \in Supervisors \ {s} : sup'[x] = sup[x]
    BY <1>1, <1>15 DEF RefuseArtifacts, Running
  <2> QED BY <1>2, <1>15, <2>2, <2>3, Moves, SupervisorAssumption DEF RefuseArtifacts
<1>16. CASE BootOut(s)
  <2>1. sup'[s].pc = "deciding" /\ sup'[s].completed = sup[s].completed
    BY <1>1, <1>16 DEF BootOut
  <2>2. Control(s)'
    BY <1>1, <1>3, <1>16, <2>1 DEF BootOut, Control
  <2>3. Running(s) /\ \A x \in Supervisors \ {s} : sup'[x] = sup[x]
    BY <1>1, <1>16 DEF BootOut, Running
  <2> QED BY <1>2, <1>16, <2>2, <2>3, Moves, SupervisorAssumption DEF BootOut
<1>17. CASE BootOutRaises(s)
  <2>1. sup'[s].pc = "down"
    BY <1>1, <1>17 DEF BootOutRaises, Down
  <2>2. Control(s)' /\ ~Running(s)'
    BY <2>1 DEF Control, Running
  <2>3. Running(s) /\ \A x \in Supervisors \ {s} : sup'[x] = sup[x]
    BY <1>1, <1>17 DEF BootOutRaises, Running
  <2>4. Paid
    BY <1>1, <1>17 DEF BootOutRaises, Control, Paid, Pending
  <2> QED BY <1>17, <2>2, <2>3, <2>4, Moves DEF BootOutRaises
<1>18. CASE Continue(s)
  <2> DEFINE target == sup[s].completed + Extension
  <2>1. /\ sup[s].completed = summary /\ summary \in Grid /\ NoneTrains /\ NothingBeyond(summary)
        /\ saved.status = "segment_completed"
    BY <1>1, <1>18 DEF Continue, Control
  <2>2. target \in Grid /\ target > summary
    BY <1>18, <2>1, GridFacts, BudgetAssumption DEF Continue
  <2>3. sup'[s].pc = "starting" /\ sup'[s].kind = "extension" /\ sup'[s].target = target
    BY <1>1, <1>18 DEF Continue
  <2>4. Launching(s)'
    <3>1. launches[target] = 0 /\ NothingBeyond(target) /\ kills \in Nat
      <4>1. /\ target \in Grid /\ target > summary /\ summary \in Nat /\ target \in Nat
            /\ \A u \in Grid : u \in Nat
        BY <2>1, <2>2, GridFacts
      <4> HIDE DEF target
      <4>2. launches[target] = 0
        BY <2>1, <4>1 DEF NothingBeyond
      <4>3. NothingBeyond(target)
        BY <2>1, <4>1 DEF NothingBeyond
      <4> QED BY <4>2, <4>3 DEF IInv, TypeOK
    <3> HIDE DEF target
    <3> QED BY <1>3, <1>18, <2>1, <2>2, <2>3, <3>1 DEF Continue, Launching
  <2>5. Minimum <= summary
    BY <2>1, GridFacts
  <2>6. Control(s)'
    <3> HIDE DEF target
    <3> QED BY <1>18, <2>1, <2>3, <2>4, <2>5 DEF Continue, Control, Minimum
  <2>7. Running(s) /\ \A x \in Supervisors \ {s} : sup'[x] = sup[x]
    BY <1>1, <1>18 DEF Continue, Running
  <2> QED BY <1>2, <1>18, <2>6, <2>7, Moves, SupervisorAssumption DEF Continue
<1> QED BY <1>4, <1>5, <1>6, <1>7, <1>8, <1>9, <1>10, <1>11, <1>12, <1>13, <1>14, <1>15, <1>16,
           <1>17, <1>18

\* A write of the state file: what is left to show is the file's own part.
LEMMA WritesKeep ==
  ASSUME IInv, TypeOK', NEW s \in Supervisors, Running(s),
         \A x \in Supervisors \ {s} : sup'[x] = sup[x],
         UNCHANGED <<launches, kills, proc, last, summary>>,
         Running(s)' => supLock' = s,
         supLock' = Nobody => Paid',
         Recorded', Control(s)'
  PROVE  IInv'
<1>1. \A x \in Supervisors \ {s} : ~Running(x)' /\ Control(x)'
  BY OthersAreDown
<1>2. \A x \in Supervisors : Control(x)'
  BY <1>1
<1>3. Exclusive'
  BY <1>1 DEF Exclusive
<1>4. Trainers'
  BY DEF IInv, Trainers, NoOverlap, Trains
<1>5. RetriesAreForDeaths'
  BY DEF IInv, RetriesAreForDeaths
<1> QED BY <1>2, <1>3, <1>4, <1>5 DEF IInv

LEMMA SupervisorWritesKeep ==
  ASSUME IInv, TypeOK', NEW s \in Supervisors,
         SaveCompleted(s) \/ SaveStarting(s) \/ SaveRunning(s) \/ GiveUp(s) \/ Conclude(s)
  PROVE  IInv'
<1>1. sup \in [Supervisors -> Locals] /\ sup[s] \in Locals /\ Control(s) /\ Recorded
  BY DEF IInv, TypeOK
<1>2. Running(s) => supLock = s
  BY DEF IInv, Exclusive
<1>3. /\ \A t : UNCHANGED launches => NothingBeyond(t)' = NothingBeyond(t)
      /\ UNCHANGED proc => NoneTrains' = NoneTrains
  BY DEF NothingBeyond, NoneTrains, Trains
<1>4. /\ Failures = {"initial_trainer_failed", "extension_failed"}
      /\ Verdicts = {"plateau", "limit_hit"} /\ Pending = {"extension_starting", "extension_running"}
  BY DEF Failures, Verdicts, Pending
<1>5. summary \in Nat /\ Minimum \in Nat /\ \A t \in Grid : t \in Nat /\ t >= Minimum
  BY GridFacts DEF IInv, TypeOK, ContractTypeOK
<1> USE DEF At, Goes, Leaves, Writes, Saved, contractVars, files
<1>6. CASE SaveCompleted(s)
  <2>1. /\ sup[s].completed = summary /\ summary \in Grid /\ NoneTrains /\ NothingBeyond(summary)
    BY <1>1, <1>6 DEF SaveCompleted, Control
  <2>2. /\ sup'[s].pc \in {"booting", "deciding"} /\ sup'[s].completed = sup[s].completed
    BY <1>1, <1>6 DEF SaveCompleted
  <2>3. saved'.status = "segment_completed" /\ saved'.completed = summary
    BY <1>6, <2>1 DEF SaveCompleted
  <2>4. UNCHANGED <<launches, kills, proc, last, summary, supLock>>
    BY <1>6 DEF SaveCompleted
  <2>5. Recorded'
    BY <1>3, <1>4, <1>5, <2>1, <2>3, <2>4 DEF Recorded
  <2>6. Control(s)'
    BY <1>3, <2>1, <2>2, <2>3, <2>4 DEF Control
  <2>7. Running(s) /\ \A x \in Supervisors \ {s} : sup'[x] = sup[x]
    BY <1>1, <1>6 DEF SaveCompleted, Running
  <2> QED BY <1>2, <2>4, <2>5, <2>6, <2>7, WritesKeep, SupervisorAssumption
<1>7. CASE SaveStarting(s)
  <2>1. /\ Launching(s) /\ sup[s].kind \in {"recovered", "extension"}
        /\ Handling(s) \/ (saved.status = "segment_completed" /\ Minimum <= summary)
    BY <1>1, <1>7 DEF SaveStarting, Control
  <2>2. /\ sup'[s].pc = "spawning" /\ sup'[s].target = sup[s].target /\ sup'[s].kind = sup[s].kind
    BY <1>1, <1>7 DEF SaveStarting
  <2>3. saved'.status = "extension_starting" /\ saved'.target = sup[s].target
    BY <1>7 DEF SaveStarting
  <2>4. UNCHANGED <<launches, kills, proc, last, summary, supLock>>
    BY <1>7 DEF SaveStarting
  <2>5. sup[s].target \in Grid /\ Minimum <= summary /\ NothingBeyond(sup[s].target)
    BY <1>1, <2>1 DEF Launching, Handling, Recorded
  <2>6. ASSUME NEW u \in Grid, u < sup[s].target, launches[u] > 0
        PROVE  u <= summary
    <3>1. CASE Handling(s)
      BY <1>1, <2>6, <3>1 DEF Handling, Recorded
    <3>2. CASE saved.status = "segment_completed"
      <4>1. saved.completed \in Grid /\ saved.completed <= summary /\ NothingBeyond(saved.completed)
        BY <1>1, <3>2 DEF Recorded
      <4>2. ~(u > saved.completed)
        BY <2>6, <4>1 DEF NothingBeyond
      <4> QED BY <1>5, <4>1, <4>2
    <3> QED BY <2>1, <3>1, <3>2
  <2>7. Recorded'
    BY <1>3, <1>4, <2>3, <2>4, <2>5, <2>6 DEF Recorded, Minimum
  <2>8. Control(s)'
    BY <1>3, <1>4, <2>1, <2>2, <2>3, <2>4 DEF Control, Launching, Handling
  <2>9. Running(s) /\ \A x \in Supervisors \ {s} : sup'[x] = sup[x]
    BY <1>1, <1>7 DEF SaveStarting, Running
  <2> QED BY <1>2, <2>4, <2>7, <2>8, <2>9, WritesKeep, SupervisorAssumption
<1>8. CASE SaveRunning(s)
  <2>1. Handling(s) /\ sup[s].kind \in {"recovered", "extension"} /\ sup[s].pid \in Pids
    BY <1>1, <1>8 DEF SaveRunning, Control
  <2>2. /\ sup'[s].pc = "attached" /\ sup'[s].target = sup[s].target
        /\ sup'[s].kind = sup[s].kind /\ sup'[s].pid = sup[s].pid
    BY <1>1, <1>8 DEF SaveRunning
  <2>3. saved'.status = "extension_running" /\ saved'.target = saved.target
    BY <1>8, <2>1 DEF SaveRunning, Handling
  <2>4. UNCHANGED <<launches, kills, proc, last, summary, supLock>>
    BY <1>8 DEF SaveRunning
  <2>5. saved.status \in Pending
    BY <2>1 DEF Handling
  <2>6. Recorded'
    BY <1>1, <1>3, <1>4, <2>3, <2>4, <2>5 DEF Recorded, Minimum
  <2>7. Control(s)'
    BY <1>4, <2>1, <2>2, <2>3 DEF Control, Handling
  <2>8. Running(s) /\ \A x \in Supervisors \ {s} : sup'[x] = sup[x]
    BY <1>1, <1>8 DEF SaveRunning, Running
  <2> QED BY <1>2, <2>4, <2>6, <2>7, <2>8, WritesKeep, SupervisorAssumption
<1>9. ASSUME GiveUp(s) \/ Conclude(s)
      PROVE  IInv'
  <2>1. sup'[s].pc = "down" /\ Running(s) /\ \A x \in Supervisors \ {s} : sup'[x] = sup[x]
    BY <1>1, <1>9 DEF GiveUp, Conclude, Running, Down
  <2>2. UNCHANGED <<launches, kills, proc, last, summary>>
    BY <1>9 DEF GiveUp, Conclude
  <2>3. Control(s)' /\ ~Running(s)'
    BY <2>1 DEF Control, Running
  <2>4. CASE GiveUp(s)
    <3>1. saved'.status \in Failures
      BY <1>4, <2>4 DEF GiveUp
    <3> QED BY <1>4, <2>1, <2>2, <2>3, <3>1, WritesKeep DEF Recorded, Paid
  <2>5. CASE Conclude(s)
    <3>1. /\ sup[s].completed = summary /\ summary \in Grid /\ NothingBeyond(summary)
      BY <1>1, <2>5 DEF Conclude, Control
    <3>2. saved'.status \in Verdicts /\ saved'.completed = summary
      BY <1>4, <2>5, <3>1 DEF Conclude
    <3>3. Recorded' /\ Paid'
      BY <1>3, <1>4, <1>5, <2>2, <3>1, <3>2 DEF Recorded, Paid
    <3> QED BY <2>1, <2>2, <2>3, <3>3, WritesKeep
  <2> QED BY <1>9, <2>4, <2>5
<1> QED BY <1>6, <1>7, <1>8, <1>9

LEMMA SpawnKeeps ==
  ASSUME IInv, TypeOK', NEW s \in Supervisors, Spawn(s)
  PROVE  IInv' /\ summary < sup[s].target
<1> DEFINE t == sup[s].target
<1>1. sup \in [Supervisors -> Locals] /\ sup[s] \in Locals /\ Control(s) /\ Recorded
  BY DEF IInv, TypeOK
<1>2. /\ t \in Grid /\ NoneTrains /\ summary < t /\ launches[t] <= kills /\ NothingBeyond(t)
      /\ saved.status \in Pending /\ saved.target = t /\ sup[s].kind \in {"recovered", "extension"}
  BY <1>1 DEF Spawn, At, Control, Launching, Handling
<1>3. PICK p \in Pids : /\ Launch(p, t)
                        /\ sup' = [sup EXCEPT ![s] = [@ EXCEPT !.pc = "spawned", !.pid = p]]
  BY DEF Spawn
<1>4. UNCHANGED <<supLock, saved, kills, lock, state, failure, last, summary>>
      /\ launches' = [launches EXCEPT ![t] = @ + 1] /\ launches \in [Grid -> Nat] /\ kills \in Nat
  BY <1>3 DEF Spawn, Launch, files, IInv, TypeOK
<1>5. Running(s) /\ supLock = s /\ \A x \in Supervisors \ {s} : sup'[x] = sup[x]
  BY <1>1, <1>3 DEF Spawn, At, Running, IInv, Exclusive
<1>6. /\ sup'[s].pc = "spawned" /\ sup'[s].target = t /\ sup'[s].kind = sup[s].kind
      /\ sup'[s].pid \in Pids
  BY <1>1, <1>3
<1>7. /\ \A q \in Pids \ {p} : proc'[q] = proc[q]
      /\ proc'[p].target = t /\ proc'[p].fresh = FALSE
  BY <1>3 DEF Launch, Trainer, IInv, TypeOK, ContractTypeOK
<1> HIDE DEF t
<1>8. \A x \in Supervisors : Control(x)'
  <2>1. \A x \in Supervisors \ {s} : Control(x)'
    BY <1>5, OthersAreDown
  <2>2. Control(s)'
    BY <1>2, <1>4, <1>6 DEF Control, Handling
  <2> QED BY <2>1, <2>2
<1>9. Exclusive' /\ (supLock = Nobody => Paid)'
  BY <1>4, <1>5, OthersAreDown, SupervisorAssumption DEF Exclusive
<1>10. /\ \A u \in Grid : launches'[u] = IF u = t THEN launches[u] + 1 ELSE launches[u]
       /\ \A u \in Grid : u \in Nat /\ launches[u] \in Nat
       /\ t \in Nat
  BY <1>2, <1>4, GridFacts
<1>11. Trainers'
  <2>1. (summary <= last /\ summary \in Grid \cup {0})'
    BY <1>4 DEF IInv, Trainers
  <2>2. ASSUME NEW q \in Pids, proc'[q].stage \in Working
        PROVE  (/\ proc[q].target \in Grid
                /\ proc[q].fresh => proc[q].target = Minimum
                /\ ~proc[q].fresh => launches[proc[q].target] > 0)'
    <3>1. CASE q = p
      BY <1>2, <1>7, <1>10, <3>1
    <3>2. CASE q # p
      <4>1. proc'[q] = proc[q]
        BY <1>7, <3>2
      <4>2. /\ proc[q].target \in Grid
            /\ proc[q].fresh => proc[q].target = Minimum
            /\ ~proc[q].fresh => launches[proc[q].target] > 0
        BY <2>2, <4>1 DEF IInv, Trainers
      <4>3. launches[proc[q].target] > 0 => launches'[proc[q].target] > 0
        BY <1>10, <4>2
      <4> QED BY <4>1, <4>2, <4>3 DEF Minimum
    <3> QED BY <3>1, <3>2
  <2>3. \A q \in Pids : Trains(q)' => q = p
    BY <1>2, <1>7 DEF NoneTrains, Trains
  <2>4. \A q \in Pids : Trains(q)' => summary' < proc'[q].target
    BY <1>2, <1>4, <1>7, <2>3
  <2> QED BY <2>1, <2>2, <2>3, <2>4 DEF Trainers, NoOverlap
<1>12. Recorded'
  <2>1. \A u \in Grid : u > t => launches'[u] = 0
    BY <1>2, <1>10 DEF NothingBeyond
  <2>2. ASSUME NEW u \in Grid, u < t, launches'[u] > 0
        PROVE  u <= summary
    BY <1>1, <1>2, <1>10, <2>2 DEF Recorded
  <2>3. saved.status \notin {"none", "segment_completed"} \cup Verdicts
    BY <1>2 DEF Pending, Verdicts
  <2> QED BY <1>1, <1>2, <1>4, <2>1, <2>2, <2>3 DEF Recorded, NothingBeyond, Minimum
<1>13. RetriesAreForDeaths'
  BY <1>2, <1>4, <1>10 DEF IInv, RetriesAreForDeaths
<1> QED BY <1>2, <1>8, <1>9, <1>11, <1>12, <1>13 DEF IInv, t

LEMMA TrainersMove ==
  ASSUME IInv, NEW p \in Pids, Progress(p) \/ Raise(p) \/ Killed(p) \/ Reap(p),
         UNCHANGED <<saved, launches, kills>>
  PROVE  EnvironmentMoves
<1>1. proc \in [Pids -> Process] /\ summary \in Nat /\ last \in Nat /\ summary <= last
  BY DEF IInv, TypeOK, ContractTypeOK, Trainers
<1>2. /\ Working = {"launched", "claimed", "cleared", "training", "raised", "failing",
                    "published", "completing", "done"}
      /\ Exited = {"succeeded", "died"}
  BY DEF Working, Exited
<1> USE DEF MovesTo, Alive, Trains, files
<1>3. \A q \in Pids \ {p} : proc'[q] = proc[q]
  BY <1>1 DEF Progress, Claim, Refused, ClearFailure, Begin, Checkpoint, Publish, KeepSummary,
              RecordRaise, ClearOnSuccess, Complete, Exit, Raise, Killed, Reap
<1>4. /\ Alive(p)' => Alive(p) /\ proc'[p].target = proc[p].target /\ proc'[p].fresh = proc[p].fresh
      /\ Trains(p)' => Trains(p)
  <2>1. CASE Begin(p)
    BY <1>1, <1>2, <2>1 DEF Begin
  <2>2. CASE Checkpoint(p)
    BY <2>2 DEF Checkpoint
  <2>3. CASE Reap(p)
    BY <1>1, <1>2, <2>3 DEF Reap, Free
  <2>4. CASE Killed(p)
    BY <1>1, <1>2, <2>4 DEF Killed
  <2>5. ASSUME NEW from, NEW to, MovesTo(p, from, to),
               from \in Working, to \in Working => from # "training" \/ to \notin {"launched", "claimed", "cleared"},
               to \in {"claimed", "cleared"} => from \in {"launched", "claimed"},
               to # "launched" /\ to # "training"
        PROVE  /\ Alive(p)' => Alive(p) /\ proc'[p].target = proc[p].target
                               /\ proc'[p].fresh = proc[p].fresh
               /\ Trains(p)' => Trains(p)
    BY <1>1, <1>2, <2>5
  <2>6. CASE \/ Claim(p) \/ Refused(p) \/ ClearFailure(p) \/ Publish(p) \/ KeepSummary(p)
             \/ RecordRaise(p) \/ ClearOnSuccess(p) \/ Complete(p) \/ Exit(p) \/ Raise(p)
    <3> HIDE DEF MovesTo
    <3> QED BY <1>2, <2>5, <2>6 DEF Claim, Refused, ClearFailure, Publish, KeepSummary, RecordRaise,
                                    ClearOnSuccess, Complete, Exit, Raise
  <2> QED BY <2>1, <2>2, <2>3, <2>4, <2>6 DEF Progress
<1>5. /\ summary' <= last'
      /\ summary' = summary \/ (Trains(p) /\ ~Trains(p)' /\ summary' = proc[p].target)
  <2>1. CASE Publish(p)
    BY <1>1, <1>2, <2>1 DEF Publish
  <2>2. CASE Checkpoint(p)
    <3>1. summary' = summary /\ last' > last /\ last' \in Nat
      <4>1. proc[p].target \in Nat
        BY <1>1 DEF Process
      <4> QED BY <1>1, <2>2, <4>1 DEF Checkpoint
    <3> QED BY <1>1, <3>1
  <2>3. CASE ~Publish(p) /\ ~Checkpoint(p)
    <3>1. summary' = summary /\ last' = last
      BY <2>3 DEF Progress, Claim, Refused, ClearFailure, Begin, KeepSummary,
                  RecordRaise, ClearOnSuccess, Complete, Exit, Raise, Killed, Reap
    <3> QED BY <1>1, <3>1
  <2> QED BY <2>1, <2>2, <2>3
<1> QED BY <1>3, <1>4, <1>5 DEF EnvironmentMoves

LEMMA EnvironmentStepsKeep ==
  ASSUME IInv, TypeOK', NEW p \in Pids,
         TrainerStep(p) \/ TrainerRaises(p) \/ TrainerKilled(p) \/ ReusePid(p) \/ OtherExits(p)
  PROVE  IInv'
<1>1. UNCHANGED <<sup, supLock, saved, launches, kills>>
  BY DEF TrainerStep, TrainerRaises, TrainerKilled, ReusePid, OtherExits, supVars
<1>2. CASE TrainerStep(p) \/ TrainerRaises(p) \/ TrainerKilled(p)
  BY <1>1, <1>2, TrainersMove, EnvironmentKeeps DEF TrainerStep, TrainerRaises, TrainerKilled
<1>3. CASE ReusePid(p) \/ OtherExits(p)
  <2>1. /\ \A q \in Pids \ {p} : proc'[q] = proc[q]
        /\ proc'[p].stage = "none" /\ UNCHANGED <<last, summary>>
    BY <1>3 DEF ReusePid, IdReused, OtherExits, OtherEnds, Other, Free, files, IInv, TypeOK, ContractTypeOK
  <2>2. EnvironmentMoves
    BY <1>1, <2>1 DEF EnvironmentMoves, Alive, Trains, Working, IInv, Trainers
  <2> QED BY <1>1, <2>2, EnvironmentKeeps
<1> QED BY <1>2, <1>3

LEMMA ChildExitsKeeps ==
  ASSUME IInv, TypeOK', NEW s \in Supervisors, ChildExits(s)
  PROVE  IInv'
<1>1. sup \in [Supervisors -> Locals] /\ sup[s] \in Locals /\ Control(s)
  BY DEF IInv, TypeOK
<1>2. PICK p : p = sup[s].pid /\ Reap(p)
  BY DEF ChildExits
<1>3. UNCHANGED <<supLock, saved, launches, kills>>
  BY DEF ChildExits
<1>4. p \in Pids
  BY <1>1, <1>2 DEF ChildExits, At, Control
<1>5. Trainers' /\ Recorded'
  BY <1>2, <1>3, <1>4, TrainersMove, TrainersKeep
<1>6. /\ sup'[s].pc \in {"inspecting", "recording"}
      /\ sup'[s].kind = sup[s].kind /\ sup'[s].target = sup[s].target
  BY <1>1 DEF ChildExits, Goes
<1>7. Handling(s) /\ sup[s].kind \in {"recovered", "extension"}
  BY <1>1 DEF ChildExits, At, Control
<1>8. Control(s)'
  BY <1>3, <1>6, <1>7 DEF Control, Handling
<1>9. Running(s) /\ supLock = s /\ \A x \in Supervisors \ {s} : sup'[x] = sup[x]
  BY <1>1 DEF ChildExits, At, Goes, Running, IInv, Exclusive
<1>10. \A x \in Supervisors : Control(x)'
  BY <1>8, <1>9, OthersAreDown
<1>11. Exclusive' /\ (supLock = Nobody => Paid)'
  BY <1>3, <1>9, OthersAreDown, SupervisorAssumption DEF Exclusive
<1>12. RetriesAreForDeaths'
  BY <1>3 DEF IInv, RetriesAreForDeaths
<1> QED BY <1>5, <1>10, <1>11, <1>12 DEF IInv

LEMMA KillKeeps ==
  ASSUME IInv, TypeOK', NEW s \in Supervisors, KillSupervisor(s)
  PROVE  IInv'
<1>1. UNCHANGED <<saved, launches, proc, last, summary>> /\ kills' = kills + 1
  BY DEF KillSupervisor, contractVars, files
<1>2. Running(s) /\ ~Running(s)' /\ \A x \in Supervisors \ {s} : sup'[x] = sup[x]
  BY DEF KillSupervisor, Leaves, Down, Running, IInv, TypeOK
<1>3. \A x \in Supervisors : ~Running(x)'
  BY <1>2, OthersAreDown
<1>4. Exclusive' /\ \A x \in Supervisors : Control(x)'
  BY <1>3 DEF Exclusive, Running, Control
<1>5. Trainers' /\ Recorded'
  BY <1>1 DEF IInv, Trainers, NoOverlap, Trains, Recorded, NothingBeyond
<1>6. kills \in Nat /\ \A t \in Grid : launches[t] \in Nat /\ launches[t] <= 1 + kills
  BY DEF IInv, RetriesAreForDeaths, TypeOK
<1>7. RetriesAreForDeaths'
  BY <1>1, <1>6 DEF RetriesAreForDeaths
<1>8. Paid'
  <2>1. ASSUME saved.status \in Pending
        PROVE  launches[saved.target] <= kills'
    <3>1. saved.target \in Grid
      BY <2>1 DEF IInv, Recorded
    <3> QED BY <1>1, <1>6, <3>1
  <2> QED BY <1>1, <2>1 DEF Paid
<1> QED BY <1>4, <1>5, <1>7, <1>8 DEF IInv

LEMMA StepKeeps ==
  ASSUME IInv, [Next]_vars
  PROVE  IInv'
<1>1. CASE Next
  <2>1. TypeOK'
    BY <1>1, StepTypes
  <2>2. ASSUME NEW s \in Supervisors, Start(s) \/ SupervisorStep(s)
               \/ RefuseArtifacts(s) \/ BootOutRaises(s) \/ KillSupervisor(s)
        PROVE  IInv'
    BY <2>1, <2>2, SupervisorMovesKeep, SupervisorWritesKeep, SpawnKeeps, ChildExitsKeeps, KillKeeps
       DEF SupervisorStep, Attends
  <2>3. ASSUME NEW p \in Pids,
               TrainerStep(p) \/ TrainerRaises(p) \/ TrainerKilled(p) \/ ReusePid(p) \/ OtherExits(p)
        PROVE  IInv'
    BY <2>1, <2>3, EnvironmentStepsKeep
  <2> QED BY <1>1, <2>2, <2>3 DEF Next
<1>2. CASE UNCHANGED vars
  <2>1. UNCHANGED <<sup, supLock, saved, launches, kills>> /\ TypeOK'
    BY <1>2 DEF vars, supVars, contractVars, files, IInv, TypeOK, ContractTypeOK
  <2>2. EnvironmentMoves
    BY <1>2 DEF vars, supVars, contractVars, files, EnvironmentMoves, Alive, Trains, IInv, Trainers
  <2> QED BY <2>1, <2>2, EnvironmentKeeps
<1> QED BY <1>1, <1>2

LEMMA LaunchesOnlyBySpawn ==
  ASSUME [Next]_vars, \A s \in Supervisors : ~Spawn(s)
  PROVE  UNCHANGED launches
BY DEF Next, Start, SupervisorStep, Attends, RefuseArtifacts, BootOutRaises, KillSupervisor,
       ReadState, ListTrainers, ReadSummary, CheckFailure, PollSummary, Watch, Record,
       RecordFailure, RecordState, GiveUp, Inspect, SaveCompleted, BootOut, Conclude, Continue,
       SaveStarting, SaveRunning, ChildExits, Silent, TrainerStep, TrainerRaises, TrainerKilled, ReusePid,
       OtherExits, supVars, vars

LEMMA InitEstablishes ==
  ASSUME Init
  PROVE  IInv
<1> USE DEF Init, ContractInit
<1>1. \A p \in Pids : proc[p] = IF p = FirstPid THEN Trainer(FirstTarget, TRUE) ELSE Free
  BY ProcessAssumption
<1>2. TypeOK
  <2>1. Trainer(FirstTarget, TRUE) \in Process /\ Free \in Process
    BY TargetAssumption DEF Trainer, Free, Process, Working
  <2>2. ContractTypeOK
    BY <2>1, ProcessAssumption DEF ContractTypeOK
  <2>3. flatFrom \in Nat
    BY GridFacts, BudgetAssumption
  <2>4. Down \in Locals /\ saved \in StateFile
    BY DEF Down, Locals, Saved, StateFile
  <2> QED BY <2>2, <2>3, <2>4 DEF TypeOK
<1>3. Trainers
  <2>1. \A p \in Pids : proc[p].stage \in Working => p = FirstPid
    BY <1>1 DEF Free, Working
  <2>2. proc[FirstPid].target = Minimum /\ proc[FirstPid].fresh = TRUE
    BY <1>1, ProcessAssumption DEF Trainer, Minimum
  <2>3. Minimum \in Grid /\ Minimum > 0
    BY GridFacts
  <2>4. \A p \in Pids : Trains(p) => p = FirstPid
    BY <2>1 DEF Trains, Working
  <2>5. NoOverlap
    BY <2>4 DEF NoOverlap
  <2>6. summary = 0 /\ summary <= last /\ summary \in Grid \cup {0}
    OBVIOUS
  <2>7. \A p \in Pids : proc[p].stage \in Working =>
          /\ proc[p].target \in Grid
          /\ proc[p].fresh => proc[p].target = Minimum
          /\ ~proc[p].fresh => launches[proc[p].target] > 0
    BY <2>1, <2>2, <2>3
  <2>8. \A p \in Pids : Trains(p) => summary < proc[p].target
    BY <2>2, <2>3, <2>4, <2>6
  <2> HIDE DEF Init, ContractInit
  <2> QED BY <2>5, <2>6, <2>7, <2>8, Zenon DEF Trainers
<1>4. Recorded /\ Paid
  BY DEF Recorded, Paid, NothingBeyond, Saved, Verdicts, Pending
<1>5. Exclusive /\ \A s \in Supervisors : Control(s)
  BY DEF Exclusive, Running, Control, Down
<1>6. RetriesAreForDeaths
  BY DEF RetriesAreForDeaths
<1> QED BY <1>2, <1>3, <1>4, <1>5, <1>6 DEF IInv

-----------------------------------------------------------------------------
(* The theorems. *)

THEOREM Invariance == Spec => []IInv
<1>1. Init => IInv
  BY InitEstablishes
<1>2. IInv /\ [Next]_vars => IInv'
  BY StepKeeps
<1> QED BY <1>1, <1>2, PTL DEF Spec

\* Types: in particular a supervisor only ever names targets of its grid.
THEOREM TypeCorrect == Spec => []TypeOK
<1>1. IInv => TypeOK
  BY DEF IInv
<1> QED BY <1>1, Invariance, PTL

\* At most one trainer works on the run, however often supervisors are killed
\* between a launch and its record and whoever uses a process identifier next.
THEOREM OneTrainer == Spec => []NoOverlap
<1>1. IInv => NoOverlap
  BY DEF IInv, Trainers
<1> QED BY <1>1, Invariance, PTL

\* A failing segment cannot become a retry loop: every launch of a target after its
\* first is paid for by the death of a supervisor.
THEOREM NoRetryLoop == Spec => []RetriesAreForDeaths
<1>1. IInv => RetriesAreForDeaths
  BY DEF IInv
<1> QED BY <1>1, Invariance, PTL

\* A target is launched only while the summary is short of it.
THEOREM LaunchesUnfinished == Spec => OnlyUnfinishedLaunched
<1>1. ASSUME IInv, [Next]_vars
      PROVE  [\A t \in Grid : launches'[t] > launches[t] => summary < t]_vars
  <2>1. ASSUME NEW s \in Supervisors, Spawn(s)
        PROVE  \A t \in Grid : launches'[t] > launches[t] => summary < t
    <3>1. summary < sup[s].target
      BY <1>1, <2>1, SpawnKeeps, StepTypes DEF Next, SupervisorStep
    <3>2. \A t \in Grid : t # sup[s].target => launches'[t] = launches[t]
      BY <1>1, <2>1 DEF Spawn, IInv, TypeOK
    <3>3. \A t \in Grid : launches[t] \in Nat
      BY <1>1 DEF IInv, TypeOK
    <3> QED BY <3>1, <3>2, <3>3
  <2>2. CASE UNCHANGED launches
    <3>1. \A t \in Grid : launches[t] \in Nat
      BY <1>1 DEF IInv, TypeOK
    <3> QED BY <2>2, <3>1
  <2>3. (\A s \in Supervisors : ~Spawn(s)) => UNCHANGED launches
    BY <1>1, LaunchesOnlyBySpawn
  <2> QED BY <2>1, <2>2, <2>3
<1> QED BY <1>1, Invariance, PTL DEF Spec, OnlyUnfinishedLaunched

-----------------------------------------------------------------------------
(* What a final status is worth. *)

\* From the inspection to the verdict the checkpoint is the one the summary names.
Judged(s) ==
  sup[s].pc \in {"verified", "booting", "deciding"} => last = summary /\ saved.status \notin Failures

Halted(s) == ended => sup[s].pc \notin {"starting", "spawning"}

\* After a final status the file says so, or a later invocation is on its way to say so again.
Over ==
  \/ saved.status \in Failures
  \/ /\ saved.status \in Verdicts \cup {"segment_completed"}
     /\ summary \in Grid /\ NoneTrains /\ saved.completed = summary
     /\ summary >= flatFrom \/ summary + Extension > Maximum

FinalInv ==
  /\ IInv
  /\ VerdictIsEarned
  /\ \A s \in Supervisors : Judged(s) /\ Halted(s)
  /\ ended => Over

LEMMA Statuses ==
  /\ Failures = {"initial_trainer_failed", "extension_failed"}
  /\ Verdicts = {"plateau", "limit_hit"} /\ Pending = {"extension_starting", "extension_running"}
BY DEF Failures, Verdicts, Pending

\* Where the file and the run stay, only the supervisor that moved has something to show.
LEMMA FinalMoves ==
  ASSUME FinalInv, IInv', NEW s \in Supervisors, Running(s) \/ supLock = Nobody,
         \A x \in Supervisors \ {s} : sup'[x] = sup[x],
         UNCHANGED <<saved, ended, flatFrom, proc, last, summary>>,
         Judged(s)', Halted(s)'
  PROVE  FinalInv'
<1>1. \A x \in Supervisors : Judged(x)' /\ Halted(x)'
  BY OthersAreDown DEF FinalInv, Judged, Halted, Running
<1>2. VerdictIsEarned'
  BY DEF FinalInv, VerdictIsEarned, Trains
<1>3. (ended => Over)'
  BY DEF FinalInv, Over, NoneTrains, Trains
<1> QED BY <1>1, <1>2, <1>3 DEF FinalInv

LEMMA FinalMovesKeep ==
  ASSUME FinalInv, IInv', NEW s \in Supervisors,
         \/ Start(s) \/ ReadState(s) \/ ListTrainers(s) \/ ReadSummary(s)
         \/ CheckFailure(s) \/ PollSummary(s) \/ Watch(s) \/ Record(s)
         \/ RecordFailure(s) \/ RecordState(s) \/ Inspect(s) \/ RefuseArtifacts(s)
         \/ BootOut(s) \/ BootOutRaises(s) \/ Continue(s)
  PROVE  FinalInv'
<1>1. /\ sup \in [Supervisors -> Locals] /\ sup[s] \in Locals /\ Control(s) /\ Judged(s) /\ Halted(s)
      /\ Running(s) => supLock = s
  BY DEF FinalInv, IInv, TypeOK, Exclusive
<1> USE DEF At, Goes, Leaves, Silent, contractVars, files
<1>2. UNCHANGED <<saved, ended, flatFrom, proc, last, summary>>
  BY DEF Start, ReadState, ListTrainers, ReadSummary, CheckFailure, PollSummary, Watch, Record,
         RecordFailure, RecordState, FailureNoted, FailedNoted, Inspect, RefuseArtifacts, BootOut,
         BootOutRaises, Continue
<1>3. (Running(s) \/ supLock = Nobody) /\ \A x \in Supervisors \ {s} : sup'[x] = sup[x]
  <2>1. CASE Start(s) \/ ReadState(s) \/ ListTrainers(s) \/ ReadSummary(s) \/ Inspect(s)
    BY <1>1, <2>1 DEF Start, ReadState, ListTrainers, ReadSummary, Inspect, Running
  <2>2. CASE \/ CheckFailure(s) \/ PollSummary(s) \/ Watch(s) \/ Record(s)
             \/ RecordFailure(s) \/ RecordState(s) \/ RefuseArtifacts(s)
             \/ BootOut(s) \/ BootOutRaises(s) \/ Continue(s)
    BY <1>1, <2>2 DEF CheckFailure, PollSummary, Watch, Record, RecordFailure, RecordState,
                      RefuseArtifacts, BootOut, BootOutRaises, Continue, Running
  <2> QED BY <2>1, <2>2
<1>4. Judged(s)' /\ Halted(s)'
  <2>1. CASE \/ Start(s) \/ ReadState(s) \/ ListTrainers(s)
    <3>1. sup'[s].pc \in {"down", "started", "listing", "waiting", "comparing"}
      <4>1. CASE Start(s)
        BY <1>1, <4>1 DEF Start
      <4>2. CASE ReadState(s)
        <5> DEFINE pending == [Down EXCEPT !.pc = "listing", !.target = saved.target,
                                          !.pid = saved.pid]
                   initial == [Down EXCEPT !.pc = "waiting", !.target = Minimum, !.pid = FirstPid]
        <5>1. Down.pc = "down" /\ pending.pc = "listing" /\ initial.pc = "waiting"
          BY DEF Down
        <5>2. sup'[s] = Down \/ sup'[s] = pending \/ sup'[s] = initial
          <6> HIDE DEF Locals
          <6> QED BY <1>1, <4>2 DEF ReadState
        <5> HIDE DEF pending, initial
        <5> QED BY <5>1, <5>2
      <4>3. CASE ListTrainers(s)
        <5>1. CASE sup' = [sup EXCEPT ![s] = Down]
          BY <1>1, <5>1 DEF Down
        <5>2. CASE sup' # [sup EXCEPT ![s] = Down]
          <6>1. \/ sup' = [sup EXCEPT ![s].pc = "comparing"]
                \/ \E p \in Pids \cup {Nobody} :
                     sup' = [sup EXCEPT ![s] = [@ EXCEPT !.pc = "comparing", !.pid = p]]
            BY <4>3, <5>2 DEF ListTrainers, Matches
          <6>2. CASE sup' = [sup EXCEPT ![s].pc = "comparing"]
            BY <1>1, <6>2
          <6>3. ASSUME NEW p \in Pids \cup {Nobody},
                       sup' = [sup EXCEPT ![s] = [@ EXCEPT !.pc = "comparing", !.pid = p]]
                PROVE  sup'[s].pc = "comparing"
            BY <1>1, <6>3
          <6> QED BY <6>1, <6>2, <6>3
        <5> QED BY <5>1, <5>2
      <4> QED BY <2>1, <4>1, <4>2, <4>3
    <3> QED BY <3>1 DEF Judged, Halted
  <2>2. CASE \/ CheckFailure(s) \/ PollSummary(s) \/ Watch(s) \/ Record(s) \/ RecordFailure(s)
             \/ RecordState(s) \/ RefuseArtifacts(s) \/ BootOutRaises(s)
    <3>1. sup'[s].pc \notin {"verified", "booting", "deciding", "starting", "spawning"}
      <4>1. CASE BootOutRaises(s)
        BY <1>1, <4>1 DEF BootOutRaises, Down
      <4>2. CASE CheckFailure(s)
        BY <1>1, <4>2 DEF CheckFailure
      <4>3. CASE PollSummary(s)
        BY <1>1, <4>3 DEF PollSummary
      <4>4. CASE Watch(s)
        BY <1>1, <4>4 DEF Watch
      <4>5. CASE Record(s)
        BY <1>1, <4>5 DEF Record
      <4>6. CASE RecordFailure(s)
        BY <1>1, <4>6 DEF RecordFailure, FailureNoted
      <4>7. CASE RecordState(s)
        BY <1>1, <4>7 DEF RecordState, FailedNoted
      <4>8. CASE RefuseArtifacts(s)
        BY <1>1, <4>8 DEF RefuseArtifacts
      <4> QED BY <2>2, <4>1, <4>2, <4>3, <4>4, <4>5, <4>6, <4>7, <4>8
    <3> QED BY <3>1 DEF Judged, Halted
  <2>3. CASE ReadSummary(s)
    <3>1. saved.status \in Pending
      BY <1>1, <2>3 DEF ReadSummary, Control, Handling
    <3>2. ~ended
      BY <3>1, Statuses DEF FinalInv, Over
    <3>3. sup'[s].pc \in {"waiting", "starting", "inspecting"}
      <4>1. CASE sup[s].pid # Nobody
        BY <1>1, <2>3, <4>1 DEF ReadSummary
      <4>2. CASE sup[s].pid = Nobody /\ summary < sup[s].target
        BY <1>1, <2>3, <4>2 DEF ReadSummary
      <4>3. CASE sup[s].pid = Nobody /\ ~(summary < sup[s].target)
        BY <1>1, <2>3, <4>3 DEF ReadSummary
      <4> QED BY <4>1, <4>2, <4>3
    <3> QED BY <1>2, <3>2, <3>3 DEF Judged, Halted
  <2>4. CASE Inspect(s)
    <3>1. saved.status \notin Failures
      BY <1>1, <2>4, Statuses DEF Inspect, Control, Handling
    <3>2. CASE last = summary
      <4>1. sup'[s].pc \in {"verified", "down", "giving_up"}
        <5>1. \/ sup' = [sup EXCEPT ![s] = [@ EXCEPT !.pc = "verified", !.completed = summary]]
              \/ sup' = [sup EXCEPT ![s] = Down] \/ sup' = [sup EXCEPT ![s].pc = "giving_up"]
          BY <2>4 DEF Inspect
        <5>2. CASE sup' = [sup EXCEPT ![s] = [@ EXCEPT !.pc = "verified", !.completed = summary]]
          BY <1>1, <5>2
        <5>3. CASE sup' = [sup EXCEPT ![s] = Down]
          BY <1>1, <5>3 DEF Down
        <5>4. CASE sup' = [sup EXCEPT ![s].pc = "giving_up"]
          BY <1>1, <5>4
        <5> QED BY <5>1, <5>2, <5>3, <5>4
      <4> QED BY <1>2, <3>1, <3>2, <4>1 DEF Judged, Halted
    <3>3. CASE last # summary
      <4>1. sup'[s].pc = "giving_up"
        <5>1. sup' = [sup EXCEPT ![s].pc = "giving_up"]
          BY <2>4, <3>3 DEF Inspect
        <5> QED BY <1>1, <5>1
      <4> QED BY <4>1 DEF Judged, Halted
    <3> QED BY <3>2, <3>3
  <2>5. CASE BootOut(s)
    <3>1. sup'[s].pc = "deciding" /\ sup[s].pc = "booting"
      BY <1>1, <2>5 DEF BootOut
    <3> QED BY <1>1, <1>2, <3>1 DEF Judged, Halted
  <2>6. CASE Continue(s)
    <3>1. sup'[s].pc = "starting"
      BY <1>1, <2>6 DEF Continue
    <3>2. sup[s].completed = summary /\ summary < flatFrom /\ summary + Extension <= Maximum
          /\ saved.status \notin Failures
      BY <1>1, <2>6 DEF Continue, Control, Judged
    <3>3. summary \in Nat /\ flatFrom \in Nat
      BY DEF FinalInv, IInv, TypeOK, ContractTypeOK
    <3>4. ~ended
      BY <3>2, <3>3, BudgetAssumption DEF FinalInv, Over
    <3> QED BY <1>2, <3>1, <3>4 DEF Judged, Halted
  <2> QED BY <2>1, <2>2, <2>3, <2>4, <2>5, <2>6
<1> QED BY <1>2, <1>3, <1>4, FinalMoves

LEMMA FinalWritesKeep ==
  ASSUME FinalInv, IInv', NEW s \in Supervisors,
         \/ SaveCompleted(s) \/ SaveStarting(s) \/ SaveRunning(s) \/ GiveUp(s) \/ Conclude(s)
         \/ Spawn(s)
  PROVE  FinalInv'
<1>1. /\ sup \in [Supervisors -> Locals] /\ sup[s] \in Locals /\ Control(s) /\ Judged(s) /\ Halted(s)
  BY DEF FinalInv, IInv, TypeOK
<1> USE DEF At, Goes, Leaves, Writes, Saved, contractVars, files
<1>2. Running(s) /\ \A x \in Supervisors \ {s} : sup'[x] = sup[x]
  <2>1. CASE SaveCompleted(s) \/ SaveStarting(s) \/ SaveRunning(s)
    BY <1>1, <2>1 DEF SaveCompleted, SaveStarting, SaveRunning, Running
  <2>2. CASE GiveUp(s) \/ Conclude(s)
    BY <1>1, <2>2 DEF GiveUp, Conclude, Running
  <2>3. CASE Spawn(s)
    BY <1>1, <2>3 DEF Spawn, Running
  <2> QED BY <2>1, <2>2, <2>3
<1>3. \A x \in Supervisors \ {s} : Judged(x)' /\ Halted(x)'
  BY <1>2, OthersAreDown DEF FinalInv, Judged, Halted, Running
<1>4. CASE SaveCompleted(s)
  <2>1. /\ saved'.status = "segment_completed" /\ saved'.completed = sup[s].completed
        /\ ended' <=> ended
        /\ UNCHANGED <<flatFrom, proc, last, summary>>
    <3>1. saved' = [status |-> "segment_completed", target |-> 0, pid |-> Nobody,
                    completed |-> sup[s].completed]
      BY <1>4 DEF SaveCompleted
    <3>2. ended' <=> ended
      BY <1>4, Statuses DEF SaveCompleted
    <3> QED BY <1>4, <3>1, <3>2 DEF SaveCompleted
  <2>2. sup'[s].pc \in {"booting", "deciding"}
    BY <1>1, <1>4 DEF SaveCompleted
  <2>3. sup[s].completed = summary /\ summary \in Grid /\ NoneTrains /\ last = summary
        /\ saved.status \notin Failures
    BY <1>1, <1>4 DEF SaveCompleted, Control, Judged
  <2>4. (ended => Over)'
    BY <2>1, <2>3 DEF FinalInv, Over, NoneTrains, Trains
  <2>5. VerdictIsEarned' /\ Judged(s)' /\ Halted(s)'
    BY <2>1, <2>2, <2>3, Statuses DEF VerdictIsEarned, Judged, Halted
  <2> QED BY <1>3, <2>4, <2>5 DEF FinalInv
<1>5. CASE SaveStarting(s) \/ SaveRunning(s)
  <2>1. saved'.status \in Pending /\ (ended' <=> ended)
    <3>1. CASE SaveStarting(s)
      BY <3>1, Statuses DEF SaveStarting
    <3>2. CASE SaveRunning(s)
      BY <3>2, Statuses DEF SaveRunning
    <3> QED BY <1>5, <3>1, <3>2
  <2>2. ~ended
    <3>1. CASE SaveStarting(s)
      BY <1>1, <3>1 DEF SaveStarting, Halted
    <3>2. CASE SaveRunning(s)
      BY <1>1, <3>2, Statuses DEF SaveRunning, Control, Handling, FinalInv, Over
    <3> QED BY <1>5, <3>1, <3>2
  <2>3. sup'[s].pc \in {"spawning", "attached"}
    <3>1. CASE SaveStarting(s)
      BY <1>1, <3>1 DEF SaveStarting
    <3>2. CASE SaveRunning(s)
      BY <1>1, <3>2 DEF SaveRunning
    <3> QED BY <1>5, <3>1, <3>2
  <2> QED BY <1>3, <2>1, <2>2, <2>3, Statuses DEF FinalInv, VerdictIsEarned, Judged, Halted
<1>6. CASE GiveUp(s)
  <2>1. saved'.status \in Failures /\ sup'[s].pc = "down"
    BY <1>1, <1>6, Statuses DEF GiveUp, Down
  <2> QED BY <1>3, <2>1, Statuses DEF FinalInv, Over, VerdictIsEarned, Judged, Halted
<1>7. CASE Conclude(s)
  <2>1. sup[s].completed = summary /\ summary \in Grid /\ NoneTrains /\ last = summary
    BY <1>1, <1>7 DEF Conclude, Control, Judged
  <2>2. /\ saved'.status \in Verdicts /\ saved'.completed = summary /\ sup'[s].pc = "down"
        /\ UNCHANGED <<flatFrom, proc, last, summary>>
    BY <1>1, <1>7, <2>1, Statuses DEF Conclude, Down
  <2>3. summary >= flatFrom \/ summary + Extension > Maximum
    BY <1>7, <2>1 DEF Conclude
  <2>4. Over' /\ VerdictIsEarned'
    BY <2>1, <2>2, <2>3 DEF Over, VerdictIsEarned, NoneTrains, Trains
  <2> QED BY <1>3, <2>2, <2>4 DEF FinalInv, Judged, Halted
<1>8. CASE Spawn(s)
  <2>1. ~ended /\ ended' = ended /\ saved' = saved
    BY <1>1, <1>8 DEF Spawn, Halted
  <2>2. saved.status \in Pending
    BY <1>1, <1>8 DEF Spawn, Control, Handling
  <2>3. sup'[s].pc = "spawned"
    <3>1. PICK p \in Pids : sup' = [sup EXCEPT ![s] = [@ EXCEPT !.pc = "spawned", !.pid = p]]
      BY <1>8 DEF Spawn
    <3> QED BY <1>1, <3>1
  <2> QED BY <1>3, <2>1, <2>2, <2>3, Statuses DEF FinalInv, VerdictIsEarned, Judged, Halted
<1> QED BY <1>4, <1>5, <1>6, <1>7, <1>8

\* Without a trainer that trains the run stands still.
LEMMA RunStands ==
  ASSUME IInv, NoneTrains, NEW p \in Pids,
         Progress(p) \/ Raise(p) \/ Killed(p) \/ Reap(p)
  PROVE  UNCHANGED <<last, summary>>
BY DEF NoneTrains, Trains, MovesTo, files, Progress, Claim, Refused, ClearFailure, Begin, Checkpoint,
       Publish, KeepSummary, RecordRaise, ClearOnSuccess, Complete, Exit, Raise, Killed, Reap

LEMMA FinalTrainersKeep ==
  ASSUME FinalInv, IInv', UNCHANGED <<saved, ended, flatFrom>>, EnvironmentMoves,
         NoneTrains => UNCHANGED <<last, summary>>,
         \A s \in Supervisors :
           sup'[s].pc = sup[s].pc \/ sup'[s].pc \in {"down", "inspecting", "recording"}
  PROVE  FinalInv'
<1>1. NoneTrains => NoneTrains' /\ UNCHANGED <<last, summary>>
  BY DEF EnvironmentMoves, NoneTrains
<1>2. VerdictIsEarned'
  BY <1>1 DEF FinalInv, VerdictIsEarned, NoneTrains
<1>3. (ended => Over)'
  BY <1>1 DEF FinalInv, Over
<1>4. ASSUME NEW s \in Supervisors
      PROVE  Judged(s)' /\ Halted(s)'
  <2>1. sup[s].pc \in {"verified", "booting", "deciding"} => NoneTrains
    BY DEF FinalInv, IInv, Control
  <2> QED BY <1>1, <2>1 DEF FinalInv, Judged, Halted
<1> QED BY <1>2, <1>3, <1>4 DEF FinalInv

LEMMA FinalStepKeeps ==
  ASSUME FinalInv, [Next]_vars
  PROVE  FinalInv' /\ (ended => launches' = launches)
<1>1. IInv /\ IInv' /\ TypeOK'
  BY StepKeeps DEF FinalInv, IInv
<1>2. FinalInv'
  <2>1. CASE UNCHANGED vars
    <3>1. EnvironmentMoves
      BY <1>1, <2>1 DEF vars, supVars, contractVars, files, EnvironmentMoves, Alive, Trains, IInv, Trainers
    <3> QED BY <1>1, <2>1, <3>1, FinalTrainersKeep DEF vars, supVars, contractVars, files
  <2>2. ASSUME NEW p \in Pids, TrainerStep(p) \/ TrainerRaises(p) \/ TrainerKilled(p)
        PROVE  FinalInv'
    <3>1. UNCHANGED <<supVars, kills>> /\ (Progress(p) \/ Raise(p) \/ Killed(p) \/ Reap(p))
      BY <2>2 DEF TrainerStep, TrainerRaises, TrainerKilled
    <3> QED BY <1>1, <3>1, TrainersMove, RunStands, FinalTrainersKeep DEF supVars
  <2>3. ASSUME NEW p \in Pids, ReusePid(p) \/ OtherExits(p)
        PROVE  FinalInv'
    <3>1. /\ \A q \in Pids \ {p} : proc'[q] = proc[q]
          /\ proc'[p].stage = "none" /\ UNCHANGED <<last, summary, supVars, kills>>
      BY <1>1, <2>3 DEF ReusePid, IdReused, OtherExits, OtherEnds, Other, Free, files, IInv, TypeOK, ContractTypeOK
    <3>2. EnvironmentMoves
      BY <1>1, <3>1 DEF EnvironmentMoves, Alive, Trains, Working, IInv, Trainers, supVars
    <3> QED BY <1>1, <3>1, <3>2, FinalTrainersKeep DEF supVars
  <2>4. ASSUME NEW s \in Supervisors, ChildExits(s)
        PROVE  FinalInv'
    <3>1. Reap(sup[s].pid) /\ sup[s].pid \in Pids /\ UNCHANGED <<saved, ended, flatFrom, launches, kills>>
      BY <1>1, <2>4 DEF ChildExits, At, IInv, Control
    <3>2. \A x \in Supervisors : sup'[x].pc = sup[x].pc \/ sup'[x].pc \in {"inspecting", "recording"}
      BY <1>1, <2>4 DEF ChildExits, Goes, IInv, TypeOK
    <3> QED BY <1>1, <3>1, <3>2, TrainersMove, RunStands, FinalTrainersKeep
  <2>5. ASSUME NEW s \in Supervisors, KillSupervisor(s)
        PROVE  FinalInv'
    <3>1. Running(s) /\ sup'[s].pc = "down" /\ \A x \in Supervisors \ {s} : sup'[x] = sup[x]
      BY <1>1, <2>5 DEF KillSupervisor, Leaves, Down, Running, IInv, TypeOK
    <3>2. Judged(s)' /\ Halted(s)'
      BY <3>1 DEF Judged, Halted
    <3> QED BY <1>1, <2>5, <3>1, <3>2, FinalMoves DEF KillSupervisor, contractVars, files
  <2>6. ASSUME NEW s \in Supervisors, Start(s) \/ SupervisorStep(s)
               \/ RefuseArtifacts(s) \/ BootOutRaises(s)
        PROVE  FinalInv'
    BY <1>1, <2>4, <2>6, FinalMovesKeep, FinalWritesKeep DEF SupervisorStep, Attends
  <2> QED BY <2>1, <2>2, <2>3, <2>4, <2>5, <2>6 DEF Next
<1>3. ended => launches' = launches
  <2>1. \A s \in Supervisors : ended => ~Spawn(s)
    BY DEF FinalInv, Halted, Spawn, At
  <2>2. (\A s \in Supervisors : ~Spawn(s)) => UNCHANGED launches
    BY LaunchesOnlyBySpawn
  <2> QED BY <2>1, <2>2
<1> QED BY <1>2, <1>3

LEMMA FinalInit ==
  ASSUME Init
  PROVE  FinalInv
<1>1. IInv
  BY InitEstablishes
<1>2. ~ended /\ saved.status = "none" /\ \A s \in Supervisors : sup[s].pc = "down"
  BY DEF Init, Saved, Down
<1> QED BY <1>1, <1>2, Statuses DEF FinalInv, VerdictIsEarned, Judged, Halted

\* A verdict names the step of the last checkpoint and of the summary, and nobody is
\* left who could move either: also when the supervisor dies and is started again.
THEOREM VerdictsAreEarned == Spec => []VerdictIsEarned
<1>1. FinalInv /\ [Next]_vars => FinalInv'
  BY FinalStepKeeps
<1>2. FinalInv => VerdictIsEarned
  BY DEF FinalInv
<1> QED BY <1>1, <1>2, FinalInit, PTL DEF Spec

\* Once a verdict or a failure was on file nothing is ever launched again.
THEOREM StoppedStays == Spec => StoppedIsFinal
<1>1. FinalInv /\ [Next]_vars => FinalInv' /\ [ended => launches' = launches]_vars
  BY FinalStepKeeps
<1> QED BY <1>1, FinalInit, PTL DEF Spec, StoppedIsFinal
=============================================================================

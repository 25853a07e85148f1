----------------------- MODULE SupervisedTraining_proof -----------------------
(***************************************************************************)
(* For every set of processes, every budget and every cadence: the         *)
(* supervisor and its trainers, put together, are still the supervisor of  *)
(* one module and the training run of the other, and between segments      *)
(* last.pt is the validated checkpoint of the segment the summary names.   *)
(* The two invariants carry over; what is new is what they say together:   *)
(* once nothing beyond the summary was launched, nobody is left to move    *)
(* what the process that wrote the summary put on disk.                    *)
(***************************************************************************)
EXTENDS SupervisedTraining, ConvergenceSupervisor_proof, TrainingRun_proof

\* The largest target so far was launched, or is the fresh run's.
Asked == asked = Minimum \/ launches[asked] > 0

\* What the last process put on disk stands while nothing beyond its summary is launched.
SegmentBacked == summary > 0 /\ NothingBeyond(summary) => last = summary /\ Backed

JInv == FinalInv /\ DInv /\ Asked /\ SegmentBacked

-----------------------------------------------------------------------------
(* Every step of the system is a step of both. *)

LEMMA StepsOfSupervisor ==
  ASSUME RInv, [SystemNext]_systemVars
  PROVE  [Next]_vars
<1>1. ASSUME NEW s \in Supervisors, Supervise(s) \/ Extend(s)
      PROVE  Next
  BY <1>1 DEF Supervise, Extend, SupervisorStep, Next
<1>2. ASSUME NEW p \in Pids, Train(p)
      PROVE  [Next]_vars
  <2>1. Progress(p) \/ Raise(p) \/ UNCHANGED contractVars
    <3>1. CASE Inside(p)
      BY <3>1, InsideProgresses
    <3>2. CASE Outside(p)
      BY <3>2 DEF Outside, Progress
    <3> QED BY <1>2, <3>1, <3>2 DEF Train
  <2>2. UNCHANGED <<supVars, kills, mishaps>>
    BY <1>2 DEF Train, watched
  <2> QED BY <2>1, <2>2 DEF Next, TrainerStep, TrainerRaises, vars
<1>3. ASSUME NEW p \in Pids, Fail(p) \/ Vanish(p) \/ Unrelated(p)
      PROVE  Next
  BY <1>3 DEF Fail, Vanish, Unrelated, Reaped, watched, Next, TrainerStep
<1>4. CASE UNCHANGED systemVars
  BY <1>4 DEF systemVars, vars
<1> QED BY <1>1, <1>2, <1>3, <1>4 DEF SystemNext

\* A launched target is one of the run's, and no smaller than the last.
LEMMA ExtendResumes ==
  ASSUME JInv, NEW s \in Supervisors, Extend(s)
  PROVE  \E p \in Pids : Resume(p)
<1>1. sup[s].target \in Grid /\ NoneTrains /\ NothingBeyond(sup[s].target)
  BY DEF JInv, FinalInv, IInv, Control, Launching, Extend, Spawn, At
<1>2. asked \in Grid /\ (asked = Minimum \/ launches[asked] > 0)
  BY BlockAssumption DEF JInv, DInv, RInv, RunTypeOK, Asked
<1>3. asked <= sup[s].target
  <2>1. \A t \in Grid : t \in Nat /\ Minimum <= t
    BY GridFacts
  <2>2. launches[asked] \in Nat
    BY <1>2 DEF JInv, FinalInv, IInv, TypeOK
  <2> QED BY <1>1, <1>2, <2>1, <2>2 DEF NothingBeyond
<1>4. PICK p \in Pids : Launch(p, sup[s].target)
  BY DEF Extend, Spawn
<1> QED BY <1>1, <1>3, <1>4, BlockAssumption DEF Extend, Resume, NoneTrains

LEMMA StepsOfTrainers ==
  ASSUME JInv, [SystemNext]_systemVars
  PROVE  [RunNext]_runVars
<1>1. ASSUME NEW s \in Supervisors, Supervise(s)
      PROVE  [RunNext]_runVars
  <2>1. UNCHANGED <<inner, history>>
    BY <1>1 DEF Supervise
  <2>2. CASE RecordFailure(s) \/ RecordState(s)
    BY <2>1, <2>2 DEF RecordFailure, RecordState, RunNext, World, Elsewhere
  <2>3. CASE ChildExits(s)
    <3>1. sup[s].pid \in Pids
      BY <2>3 DEF ChildExits, At, JInv, FinalInv, IInv, Control
    <3> QED BY <2>1, <2>3, <3>1 DEF ChildExits, RunNext, Reaped
  <2>4. CASE ~(RecordFailure(s) \/ RecordState(s) \/ ChildExits(s))
    <3>1. UNCHANGED contractVars
      BY <1>1, <2>4 DEF Supervise, Start, Attends, RefuseArtifacts, BootOutRaises, KillSupervisor,
            ReadState, ListTrainers, ReadSummary, CheckFailure, PollSummary, Watch, Record, GiveUp,
            Inspect, SaveCompleted, BootOut, Conclude, Continue, SaveStarting, SaveRunning, Silent
    <3> QED BY <2>1, <3>1 DEF runVars
  <2> QED BY <2>2, <2>3, <2>4
<1>2. ASSUME NEW s \in Supervisors, Extend(s)
      PROVE  RunNext
  BY <1>2, ExtendResumes DEF RunNext
<1>3. ASSUME NEW p \in Pids, Train(p) \/ Fail(p) \/ Vanish(p) \/ Unrelated(p)
      PROVE  RunNext
  BY <1>3 DEF Train, Fail, Vanish, Unrelated, ReusePid, OtherExits, RunNext, World, Elsewhere
<1>4. CASE UNCHANGED systemVars
  BY <1>4 DEF systemVars, runVars
<1> QED BY <1>1, <1>2, <1>3, <1>4 DEF SystemNext

-----------------------------------------------------------------------------
(* What the last process put on disk. *)

\* Whoever trains was launched for a target beyond the summary.
LEMMA TrainingIsBeyond ==
  ASSUME JInv, NEW p \in Pids, Trains(p), summary > 0
  PROVE  ~NothingBeyond(summary)
<1>1. /\ summary \in Grid \cup {0} /\ summary < proc[p].target /\ proc[p].target \in Grid
      /\ proc[p].fresh => proc[p].target = Minimum
      /\ ~proc[p].fresh => launches[proc[p].target] > 0
  BY DEF JInv, FinalInv, IInv, Trainers, Trains, Working
<1>2. summary \in Nat /\ summary >= Minimum /\ proc[p].target \in Nat /\ Minimum \in Nat
  <2>1. \A t \in Grid : t \in Nat /\ t >= Minimum
    BY GridFacts
  <2>2. summary \in Grid
    BY <1>1
  <2> QED BY <1>1, <2>1, <2>2, TargetAssumption DEF Minimum
<1>3. ~proc[p].fresh
  BY <1>1, <1>2
<1>4. launches[proc[p].target] \in Nat
  BY <1>1 DEF JInv, FinalInv, IInv, TypeOK
<1> QED BY <1>1, <1>2, <1>3, <1>4 DEF NothingBeyond

LEMMA AsidesKeep ==
  ASSUME JInv, UNCHANGED <<last, summary, tip, bestFile, refFile, accepted, launches, asked>>
  PROVE  Asked' /\ SegmentBacked'
BY DEF JInv, Asked, SegmentBacked, NothingBeyond, Backed, Linked

LEMMA InsideBacks ==
  ASSUME JInv, DInv', NEW p \in Pids, Inside(p), UNCHANGED launches
  PROVE  Asked' /\ SegmentBacked'
<1> USE DEF Doing, Target
<1>1. proc[p].stage = "training" /\ (mem[p].pc # "begin" => Ahead(p)) /\ asked' = asked
  BY DEF JInv, DInv, RInv, Inside, BeginFresh, Load, LoadRaises, Update, SavePending, SavesLast, Validate,
         SaveNumbered, SaveReference, SaveBest, AfterValidation, SaveLast, Finish, history
<1>2. Asked'
  BY <1>1 DEF JInv, Asked
<1>3. summary > 0 => ~NothingBeyond(summary)
  BY <1>1, TrainingIsBeyond DEF Trains
<1>4. CASE summary' = summary
  BY <1>2, <1>3, <1>4 DEF SegmentBacked, NothingBeyond
<1>5. CASE summary' # summary
  <2>1. Finish(p)
    BY <1>5 DEF Inside, BeginFresh, Load, LoadRaises, Raise, Update, SavePending, SavesLast, Validate,
                SaveNumbered, SaveReference, SaveBest, AfterValidation, SaveLast, contractVars, files
  <2>2. summary' = proc[p].target /\ last' = last /\ last = proc[p].target
    BY <1>1, <1>5, <2>1 DEF Finish, Ahead
  <2>3. proc'[p].stage = "published"
    BY <2>1, Orders DEF Finish, JInv, DInv
  <2>4. Backed'
    BY <2>3 DEF DInv, Finished, TipInv, TipFiled, Backed
  <2> QED BY <1>2, <2>2, <2>4 DEF SegmentBacked
<1> QED BY <1>4, <1>5

LEMMA JointKeeps ==
  ASSUME JInv, [SystemNext]_systemVars
  PROVE  JInv'
<1>1. [Next]_vars /\ [RunNext]_runVars
  BY StepsOfSupervisor, StepsOfTrainers DEF JInv, DInv
<1>2. FinalInv' /\ DInv'
  BY <1>1, FinalStepKeeps, DiskKeeps DEF JInv
<1>3. ASSUME NEW s \in Supervisors, Extend(s)
      PROVE  Asked' /\ SegmentBacked'
  <2>1. /\ sup[s].target \in Grid /\ summary < sup[s].target
        /\ launches \in [Grid -> Nat]
    BY <1>3 DEF JInv, FinalInv, IInv, TypeOK, Control, Launching, Extend, Spawn, At
  <2>2. asked' = sup[s].target /\ launches'[sup[s].target] > 0 /\ summary' = summary
    BY <1>3, <2>1 DEF Extend, Spawn, Launch, files
  <2> QED BY <2>1, <2>2 DEF Asked, SegmentBacked, NothingBeyond
<1>4. ASSUME NEW s \in Supervisors, Supervise(s)
      PROVE  Asked' /\ SegmentBacked'
  <2>1. UNCHANGED <<last, summary, launches>>
    BY <1>4 DEF Supervise, Start, Attends, RefuseArtifacts, BootOutRaises, KillSupervisor,
         ReadState, ListTrainers, ReadSummary, CheckFailure, PollSummary, Watch, Record, GiveUp,
         Inspect, SaveCompleted, BootOut, Conclude, Continue, SaveStarting, SaveRunning, Silent,
         RecordFailure, RecordState, FailureNoted, FailedNoted, ChildExits, Reap, contractVars, files
  <2> QED BY <1>4, <2>1, AsidesKeep DEF Supervise, inner, history
<1>5. ASSUME NEW p \in Pids, Train(p)
      PROVE  Asked' /\ SegmentBacked'
  <2>1. UNCHANGED launches
    BY <1>5 DEF Train, watched, supVars
  <2>2. CASE Inside(p)
    BY <1>2, <2>1, <2>2, InsideBacks
  <2>3. CASE Outside(p)
    <3>1. UNCHANGED <<last, summary>>
      BY <2>3 DEF Outside, Claim, Refused, ClearFailure, Begin, RecordRaise, ClearOnSuccess, Complete,
                  Exit, files
    <3> QED BY <2>1, <2>3, <3>1, AsidesKeep DEF Outside, inner, history
  <2> QED BY <1>5, <2>2, <2>3 DEF Train
<1>6. ASSUME NEW p \in Pids, Fail(p) \/ Vanish(p) \/ Unrelated(p)
      PROVE  Asked' /\ SegmentBacked'
  <2>1. UNCHANGED <<last, summary, launches, tip, bestFile, refFile, accepted, asked>>
    BY <1>6 DEF Fail, Mishap, TrainerRaises, TrainerKilled, Raise, Killed, Vanish, Reaped, Reap, watched,
                Unrelated, ReusePid, OtherExits, IdReused, OtherEnds, supVars, files, inner, history
  <2> QED BY <2>1, AsidesKeep
<1>7. ASSUME UNCHANGED systemVars
      PROVE  Asked' /\ SegmentBacked'
  BY <1>7, AsidesKeep DEF systemVars, contractVars, files, supVars, inner, history
<1>8. Asked' /\ SegmentBacked'
  BY <1>3, <1>4, <1>5, <1>6, <1>7 DEF SystemNext
<1> QED BY <1>2, <1>8 DEF JInv

LEMMA JointStarts ==
  ASSUME SystemInit
  PROVE  JInv
<1>1. FinalInv /\ DInv
  BY FinalInit, DiskStarts DEF SystemInit
<1>2. Asked /\ summary = 0
  BY DEF SystemInit, RunInit, ContractInit, Asked, Minimum
<1> QED BY <1>1, <1>2 DEF JInv, SegmentBacked

-----------------------------------------------------------------------------
(* The theorems. *)

THEOREM JointInvariance == System => []JInv
BY JointStarts, JointKeeps, PTL DEF System

\* Beside the trainers it really has, the supervisor is the one of its own specification:
\* what was proved of it there is true of it here.
THEOREM SupervisorKeepsItsSpec == System => SupervisionHolds
<1>1. SystemInit => Init
  BY DEF SystemInit
<1>2. JInv /\ [SystemNext]_systemVars => [Next]_vars
  BY StepsOfSupervisor DEF JInv, DInv
<1> QED BY <1>1, <1>2, JointInvariance, PTL DEF System, SupervisionHolds, Spec

\* Beside the supervisor a run is the one of its own specification: it is resumed with a
\* target that is no smaller, and never while another process trains.
THEOREM RunKeepsItsSpec == System => RunHolds
<1>1. SystemInit => RunInit
  BY DEF SystemInit
<1>2. JInv /\ [SystemNext]_systemVars => [RunNext]_runVars
  BY StepsOfTrainers
<1> QED BY <1>1, <1>2, JointInvariance, PTL DEF System, RunHolds, RunSpec

\* Both at once.
THEOREM ComponentsKeepTheirSpecs == System => ComponentsHold
BY SupervisorKeepsItsSpec, RunKeepsItsSpec, PTL DEF ComponentsHold

\* A verdict's checkpoint is on disk: validated, linked to its selectors, its incumbent
\* accepted, whoever died between the training and the verdict.
THEOREM VerdictsAreBacked == System => []VerdictIsBacked
<1>1. JInv => VerdictIsBacked
  <2>1. SUFFICES ASSUME JInv, saved.status \in Verdicts
                 PROVE  last = saved.completed /\ Backed
    BY DEF VerdictIsBacked
  <2>2. /\ saved.completed \in Grid /\ summary = saved.completed /\ last = saved.completed
        /\ NothingBeyond(saved.completed)
    BY <2>1 DEF JInv, FinalInv, VerdictIsEarned, IInv, Recorded
  <2>3. summary > 0
    BY <2>2, GridFacts
  <2> QED BY <2>1, <2>2, <2>3 DEF JInv, SegmentBacked
<1> QED BY <1>1, JointInvariance, PTL

\* The first process asked for a target finds a checkpoint it can resume from.
THEOREM FirstLaunchesLoad == System => FirstLaunchLoads
<1>1. JInv /\ [SystemNext]_systemVars =>
        [\A t \in Grid : launches[t] = 0 /\ launches'[t] > 0 =>
           Loads(t) /\ tip.marker = "validated"]_systemVars
  <2>1. SUFFICES ASSUME JInv, [SystemNext]_systemVars, NEW t \in Grid, launches[t] = 0, launches'[t] > 0
                 PROVE  Loads(t) /\ tip.marker = "validated"
    OBVIOUS
  <2>2. PICK s \in Supervisors : Spawn(s)
    <3>1. [Next]_vars
      BY <2>1, StepsOfSupervisor DEF JInv, DInv
    <3>2. (\A s \in Supervisors : ~Spawn(s)) => UNCHANGED launches
      BY <2>1, <3>1, LaunchesOnlyBySpawn DEF JInv, FinalInv
    <3> QED BY <2>1, <3>2
  <2>3. launches \in [Grid -> Nat] /\ t = sup[s].target
    BY <2>1, <2>2 DEF Spawn, JInv, FinalInv, IInv, TypeOK
  <2>4. /\ NothingBeyond(t) /\ summary < t /\ Minimum <= summary
        /\ \A u \in Grid : u < t /\ launches[u] > 0 => u <= summary
    BY <2>1, <2>2, <2>3 DEF Spawn, At, JInv, FinalInv, IInv, Control, Launching, Handling, Recorded
  <2>5. NothingBeyond(summary)
    <3>1. ASSUME NEW u \in Grid, u > summary
          PROVE  launches[u] = 0
      <4>1. u \in Nat /\ t \in Nat /\ summary \in Nat /\ launches[u] \in Nat
        BY <2>1, <2>3, GridFacts DEF JInv, FinalInv, IInv, TypeOK, ContractTypeOK
      <4> QED BY <2>1, <2>4, <3>1, <4>1 DEF NothingBeyond
    <3> QED BY <3>1 DEF NothingBeyond
  <2>6. summary > 0 /\ summary \in Nat /\ t \in Nat
    BY <2>1, <2>4, GridFacts DEF JInv, FinalInv, IInv, TypeOK, ContractTypeOK
  <2>7. last = summary /\ Backed
    BY <2>1, <2>5, <2>6 DEF JInv, SegmentBacked
  <2> QED BY <2>1, <2>4, <2>6, <2>7 DEF Backed, Loads, JInv, DInv, TipInv, TipDeferral, TipLinked
<1> QED BY <1>1, JointInvariance, PTL DEF System, FirstLaunchLoads
=============================================================================

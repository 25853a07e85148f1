# A formal model of the object-centric world model's control

The repository learns and runs an object-centric world model: camera packets are
turned into measurements, measurements correct a belief with a fixed number of
object slots, dynamics propagates that belief, and a training and qualification
harness decides, under a one-shot protocol, whether a trained checkpoint counts.
Most of its lines are tensor arithmetic. What can go wrong beyond arithmetic is
its *control*: when an identifier is created and forgotten, which evidence
belongs to which object, what a rejected call leaves behind, who may train next
to whom, and what a crash does to a ledger that must never be consumed twice.
That control is what these modules specify, TLC checks and TLAPS proves.

Paths below are relative to the repository's root (`src/` in `PROJECT.json`);
`lifecycle.py:280` means line 280 of the file named so in that component.

## 1. Inventory

### 1.1 The online system (`world_model/`)

| Component | State | Operations | Talks to |
|---|---|---|---|
| Online runtime, `runtime/online_world_model.py` | `RuntimeState`: belief, one temporal history and one modality cache per stream, unconfirmed radii, `ingest_count`, last diagnostics; a registry of consumed prepared propagations | `ingest`, `_ingest_one`, `prepare_propagation`, `initialize` (reset, then ingest), `step` (ingest, then predict), `reset`, `detach_state`, `predict`, `plan` | all of the below |
| Object lifecycle, `belief/lifecycle.py`, `belief/tentative.py` | slots of the belief (active, object_id, logits, missed_steps, motion mode), `next_object_id`, tentative births per sensor | `update_visibility`, `confirm_tentative_births`, `birth_from_measurements_with_assignments` | called by the runtime for each packet |
| Observation scheduler, `fusion/scheduler.py` | per stream: packets since the last global frame, consecutive failures | `choose`, `record`, `reset` | called before and after each packet |
| Depth temporal history, `observations/rgbd/temporal.py` | rows by object id: positions and timestamps, segments | `append` (which aligns), `validate_next_timestamp`, `fit`, `detach` | per-stream history in the runtime's state |
| RGB cache and history, `observations/rgb/` | ROI features by slot, gated by object ids; temporal history | built, carried on or dropped in `_ingest_one`; `update_temporal_history` | per-stream cache |
| Hypothesis rollouts, `dynamics/hypothesis_rollout.py` | pending forecasts bound to a belief and a revision; for each horizon a pool of weights, of each identifier's own and joint ones of the scene; the dynamics they were learned under | `schedule`, `reusable_learned_step`, `assimilate_observation`, `synchronize_runtime_context`, `invalidate_pending`, `reset` | called by the runtime around every group |
| Correction, association, surprise, `filtering/`, `fusion/` | none | assignment, Kalman-style correction, innovation, surprise | lifecycle inputs |
| Event dynamics, `dynamics/` | parameters, mode | propagation, contact and occlusion modes | writes the motion mode the lifecycle reads |
| Identification, planning, abstraction router | parameters; none; none | numerical updates, candidate search, model selection | read the belief |
| Simulator | episodes | generate and render | data only |

### 1.2 The training and qualification system

| Component | State | Operations | Talks to |
|---|---|---|---|
| Trainer and checkpoints, `train.py`, `training/trainer.py` | lock file, `training_state.json`, `training_failure.json`; `last.pt`, numbered validations, `best_rollout.pt`, `reference_rollout.pt`, `train_summary.json` | fresh start, exact resume, update, validate, select, save, roll back, publish | supervisor |
| Convergence supervisor, `scripts/supervise_convergence.py` | `.convergence_supervisor.lock`, one state file, the process table | wait, reattach, judge, decide, extend | trainer processes |
| Training launcher, `scripts/launch_training_once.py` | none | probes, then has launchd start the fresh trainer once | supervisor |
| Development campaign, `training/dynamic_set_qualification.py` | `campaign_state.json`, the development ledger, screen result, scored evidence, error file, development model, report, review receipt | screen, `begin_campaign`, validate, finish, report, review | executor, protected qualification |
| Resident executor, `training/dynamic_set_execution.py` | executor lock, `progress.json`, resume files, boundary checkpoints | train one block | campaign |
| Ordered split ledger, `training/qualification_core.py` | one JSON file in a run directory, its temporary files, an `flock` on the directory | `create_fresh`, `load`, `begin`, `claim_active`, `active_claims`, `complete` | every one-shot harness |
| Protected qualification, `training/dynamic_set_qualification.py` | result files, report file, the ledger | `create_protected_ledger`, `execute_protected_split`, `_publish_qualification_report` | ledger, evaluator, campaign |
| Other qualification harnesses | one-shot artifacts | run once | ledger core |
| Evaluation, datasets, tools, visualisation | reports | I/O | - |

### 1.3 What is hard, and what makes each part correct

- **Lifecycle.** Counters, modes and logits are written by four different
  handlers (dynamics, correction, visibility accounting, birth) in a fixed order within a
  packet and an arbitrary order across packets and sensors. Correct means: no
  identifier is given twice; confirmation needs *consecutive* sightings at
  *different* times; a track is retired for cause, and eventually.
- **Runtime.** A call holds several timestamp groups, a group several packets.
  Side state changes packet by packet, the belief group by group, and anything
  may raise. Callers keep prepared propagations across other calls, and the
  hypothesis controller keeps forecasts. Correct means: elapsed time is evidence
  once; a stale prior or forecast is never assimilated; evidence stays with its
  object and its dynamics; a rejection changes nothing.
- **Trainer.** An update, its validation and up to four files that must agree,
  with a death between any two, and a resume that reads what is left. Correct
  means: what is published was validated; the incumbent only improves; the
  reference never moves; collapsed weights are not trained on.
- **Supervisor.** It dies and returns while a trainer runs, knows processes only
  by number and command line, and shares files with the trainer. Correct means:
  never two trainers; no retry of a recorded failure; a verdict is about the run as it is;
  supervision ends.
- **Campaign.** Commands work for hours on a copy of the record and then write it,
  without a lock or a comparison. Correct means: what training did, what was
  scored and what the record says keep step; what a review bound stays true.
- **Ledger.** Several processes, kills, I/O errors and power failures between any
  two steps. Correct means: what a caller was told is durable; a split is opened
  once, in order, after its predecessors passed; the file always loads.
- **Protected qualification.** The ledger orders *permissions*; results, claims
  and the report are separate files. Correct means: each population is drawn at
  most once, under a durable claim; completion implies a matching result;
  publication is not refused by the harness's own checks; without faults
  everything settles.

`PROJECT.json` lists every hazard at its line, with the property that covers it or the reason none does.

## 2. Plan

| Order | Module | Depends on | Status |
|---|---|---|---|
| 1 | `ObjectRegistry` (abstract), `BeliefLifecycle`, `BeliefHistory` | refines `ObjectRegistry` | checked; types, identity, the refinement and both safety properties of the history proved |
| 2 | `OneShotAccess` (abstract), `OrderedSplitLedger` | refines `OneShotAccess` | checked; exclusion, loading, survival and the refinement proved |
| 3 | `DevelopmentCampaign` | its commands beside the ledger | checked; its invariant proved |
| 4 | `ProtectedQualification` | composes `OrderedSplitLedger` and `DevelopmentCampaign` | checked; seven of its eight properties proved |
| 5 | `HypothesisController`, `OnlineRuntime`, `RuntimeRejection` | the runtime calls the controller; refines `ObjectRegistry` | checked; every property of the runtime's passing runs proved, the refinement among them |
| 6 | `TrainerContract` (abstract), `ConvergenceSupervisor` | the supervisor beside trainers that keep the contract | checked; everything but liveness proved |
| 7 | `TrainingRun` | implements `TrainerContract` | checked; types, the contract and all other properties but the finding proved |
| 8 | `SupervisedTraining` | composes `ConvergenceSupervisor` and `TrainingRun` | checked; both refinements and both properties of the whole proved |

What would come next: the two alternating resume files of the executor, and the
one-shot harnesses that share the ledger.

## 3. The modules and the code

### 3.1 `BeliefLifecycle`

A slot is a record of exactly the fields the lifecycle reads and writes. Logits
are integers in a unit the configuration chooses; a world position is a point on
a line. `phase` orders the handlers of a packet as `_ingest_one` calls them.

| Action | Code |
|---|---|
| `Propagate`, `SameTimestamp` | dynamics on a positive / a zero interval; `EventMode` is the mode scoring of `dynamics/events.py` |
| `UpdateVisibility` | correction's effect on the two logits, then all of `update_visibility`: counters, logits, mode, removal test, removal |
| `Discover` | `confirm_tentative_births` and `birth_from_measurements_with_assignments`: gating by elapsed time, minimum-cost matching, counting, clearing, allocation to free slots in order |
| `FastFrame` | a packet the scheduler served from regions of interest |

Inputs: which slots match and how well, which are occluded, which candidates a
discovery finds, and their scores. `OptimalMatchings` allows every minimum-cost
assignment, since ties are broken by the solver.

`BeliefHistory` adds three history variables (`absence`, `trail`, `bornAt`) that
record what *really* happened, so that the counters can be compared with it.

`ObjectRegistry` is what the rest of the system relies on when it keeps something
under an `object_id` alone: an identifier held keeps its bearer, and one let go is
never given out again within an episode. The slots implement one episode of it
(`IsRegistry`: the bearer of an identifier is the slot that holds it).

### 3.2 `OneShotAccess`, `OrderedSplitLedger`

`OneShotAccess` is the promise: a history that only grows and whose every value is
legal, legality being stated over the whole history ("the n-th opening is of the
n-th split", "only a passed split lets anything follow it", "claims and
completions by the permit's holder, each at most once").

`OrderedSplitLedger` is the code. `journal` is what a reader of the file sees,
`durable` what it would see after a power failure; they differ between
`os.replace` and the directory's `fsync`. A call goes *waiting -> locked ->
writing -> replaced -> none* (`Acquire`, `Admit`, `Replace`, `Return`); `Reject`
is every exception of the checks. `IOError`, `Kill` and `PowerFailure` may strike
at every point. `Admits` is the checks of `begin`, `claim_active` and `complete`;
`InOrder`/`Loads` is the separate replay in `load`. Digests, the chain and the
stored `next_index`/`terminal` are functions of the list of transitions, so the
list stands for the file. Permits may be read back, kept, or made up.

The ledger implements `OneShotAccess` with `history <- durable`.

### 3.3 `DevelopmentCampaign`

Every command is a process that reads the record (`campaign`), works, and
replaces the record by its copy with its own change: `job[p]` is where the
command stands and that copy. Only the executor takes a lock, and not on the
record. Updates count in units of which `Interval` make a validation boundary.

| Action | Code |
|---|---|
| `BeginScreen`, `Screen`, `CompleteScreen`, `CloseScreen` | `_execute_screen_with_evaluator`: ledger, result, ledger, record |
| `BeginCampaign`, `CampaignBegun` | `begin_campaign`: ledger, then record |
| `Execute`, `Lock`, `Update`, `EndBlock` | `execute_repository_training_block`: the record is read *before* the lock; lineage checks; reconciliation of the journal with a boundary just validated; one journal commit per update, with the time limit and its rollback; the boundary's checkpoint |
| `OpenValidation`, `Score`, `RecordCandidate`, `ValidationRaises` | `_execute_validation_candidate_with_evaluator`: permission, evaluation with progress read again, scored evidence, selection, record; the `except` clause |
| `Decide` | `finish_campaign` up to its first write; `Supports` is `decide_dynamic_set_campaign` and its refusals |
| `CloseCampaign`, `CompleteCampaign`, `CopyModel`, `Report` | the end both of `finish_campaign` and of a failed validation: record, ledger, model, report |
| `Review`; `ReviewStands` | `record_independent_development_review`; what `create_protected_ledger` asks for again |
| `Abandoned` | a kill or an exception of the command, which may leave its temporary file |

### 3.4 `ProtectedQualification`

Extends `DevelopmentCampaign`, which extends `OrderedSplitLedger`: each client
action conjoins the ledger step it performs, and `QNext` interleaves development
commands (`Operate`) with protected splits in the same processes and the same
directory, with one budget of faults.

| Action | Code |
|---|---|
| `CreateLedger` | `create_protected_ledger`, while the review still stands |
| `Start`, `Opened`, `NotOpened` | `execute_protected_split` up to `begin`, outside its `try` |
| `Claim`, `Claimed`, `Materialise` | the evaluator: `claim_active`, then the population is drawn |
| `Judge`, `EvaluationRaises` | the gates; every exception of the evaluation becomes the verdict `raised`, whose result refers to no evidence |
| `WriteResult`, `Completed`, `NotCompleted` | the result file, then `complete` |
| `Publish`, `PublishRaises` | `_publish_qualification_report` and its checks |
| `WriteRaises`, `Killed`, `Blackout` | an I/O error, a kill, a power failure |

Any process may be told to run any split at any time, which includes being restarted.

### 3.5 `OnlineRuntime`, `HypothesisController`, `RuntimeRejection`

A belief maps identifiers to the physical *thing* they were given to, so that
evidence kept under an identifier can be traced. Belief objects carry a version:
the code compares them by identity.

| Action | Code |
|---|---|
| `Ingest` | the call: packets sorted into timestamp groups |
| `OpenGroup`, `RejectGroup` | duplicate keys, the initial belief, stale depth evidence and time going back (`Timely`), the controller's synchronisation, the prepared propagation's checks and its consumption, propagation (a reusable forecast or a new prediction: `Priors`) |
| `IngestOne` | one packet: scheduler's choice, correction, history or cache, unconfirmed radii, the controller's assimilation of a colour packet, lifecycle's outcome, `record` |
| `PacketRaises` | `validate_packet` raising for an RGB packet, after its predecessors in the group |
| `Commit` | the end of a group in `ingest`'s loop, the new forecasts, and the next group of the call |
| `PreparePropagation`, `DetachState`, `PerturbBelief`, `Reset`, `ChangeDynamics` | between calls; `PerturbBelief` is the evaluator's recovery probe |

`HypothesisController` has no variables: it is the controller's methods as
operators on its state, `Synchronised`, `Reusable`, `Assimilated`, `Scheduled`,
`Invalidated`, which the runtime's actions apply where the code calls them. A
pool's weights stand for the comparisons they were made from: `Ensured`
(`_ensure_weights`) empties an identifier's own weights when its slot changes
hands and leaves the joint ones; `Updated` (`_update_evidence`) gives the joint
weights every comparison of a forecast, and each object compared its own and, as
a prior, what the joint weights rested on before (`SharesPrior`, which is
`axis_prior_strength # 0` and true by default).

What a packet matches, retires and finds is an input here; `BeliefLifecycle` says
when each happens. The two modules share that interface and no state; what they promise
about identifiers is one abstract specification, `ObjectRegistry`, which the committed
belief implements with things as bearers and a `Reset` as the start of another episode.
`RuntimeRejection` adds one history variable: what was kept when the call began.

### 3.6 `TrainerContract`, `ConvergenceSupervisor`

`TrainerContract` is what a trainer does to its run directory as far as another
process sees: the process table, the lock, the two state files, the step of
`last.pt`, `completed_steps` of the summary; and what others may do to the same
(`Elsewhere`: a supervisor notes a failure, an identifier is reused). It is both the
environment of the supervisor and the abstract specification of `TrainingRun`.

| Action | Code |
|---|---|
| `Start`, `ReadState` | the lock and the state file in `main`; a recorded failure ends the invocation |
| `ListTrainers`, `ReadSummary` | `_matching_trainer_pid` for a pending extension, then the summary: wait, launch again, or judge |
| `CheckFailure`, `PollSummary`, `Watch` | one round of `_wait_for_completed_segment`, its three reads apart |
| `Record`, `RecordFailure`, `RecordState`, `GiveUp` | `_record_external_trainer_failure`, then the supervisor's own state |
| `Inspect`, `RefuseArtifacts`, `SaveCompleted`, `BootOut` | `inspect_completed_campaign`, the state file, `launchctl bootout` |
| `Conclude`, `Continue` | `decide_continuation`: plateau, limit, or one more block |
| `SaveStarting`, `Spawn`, `SaveRunning`, `ChildExits` | `_launch_extension`: intent on file, `Popen`, pid on file, `wait` |
| `KillSupervisor`, `TrainerRaises`, `TrainerKilled`, `ReusePid`, `OtherExits` | the world around it |

### 3.7 `TrainingRun`

`mem[p]` is what `train_from_config` has in its locals, `tip` what `last.pt`
holds besides its step, `bestFile`, `refFile` and `accepted` the other
checkpoints. Weights are named by the update that made them.

| Action | Code |
|---|---|
| `BeginFresh`, `Load`, `LoadRaises` | a fresh run's first validation; the exact resume and its refusals (`Loads`, `Linked`) |
| `Update`, `SavePending` | one update; the pending `last.pt` before the final validation |
| `Validate`, `SaveNumbered`, `SaveReference`, `SaveBest` | `validate_closed_loop_incumbent`: judgement, then its three files one by one |
| `AfterValidation`, `SaveLast`, `Finish` | rollback to the incumbent, `last.pt`, the summary |
| `Outside`, `Mishap`, `Resume` | `train.py` around it, a death or an exception, the next invocation |
| `Reaped`, `World` | the process collected; what a supervisor and unrelated processes do to the shared files and the process table |

Its steps map to steps of `TrainerContract` on the same variables (`Contract`).

### 3.8 `SupervisedTraining`

The two programs as they run: `ConvergenceSupervisor` supervises processes of
`TrainingRun`, with their checkpoints, instead of processes of which it is only known that they
keep the contract. A step is one of the supervisor's that leaves the checkpoints alone
(`Supervise`), the launch of an exact resume towards the target on file (`Extend`, a
`Spawn` and a `Resume` at once), a step of a trainer (`Train`, `Fail`), or one of the
operating system (`Vanish`, `Unrelated`). Both specifications are implemented by it
(`ComponentsHold`), so that what was shown of each part holds of the whole; and two
properties need both parts: `VerdictIsBacked`, about what is on disk once a verdict is recorded,
and `FirstLaunchLoads`, about what the first process of an extension finds.

## 4. The runs

Deadlock is checked in every run but `qualification`, where a campaign that ends
without qualifying leaves nothing to do. Sizes are of a complete search.

| Run | Question | Instance | Size |
|---|---|---|---|
| `lifecycle_identity` | is an identifier ever shared, moved or given out again, and does a birth count only sightings of consecutive discoveries at different times, each within reach of the last? | 2 slots, 1 camera, 3 places in a row with distance 1, 2 confirmations, 2 candidates per frame, 3 identifiers | 171 k states |
| `lifecycle_retention` | is a track retired only for cause, and eventually? | 1 slot, limits 3/5, matches that leave the track doubtful or plain | 43 k |
| `lifecycle_missed` | does `max_missed_steps` bound misses in plain view? **No** | `configs/default.yaml`'s numbers in hundredths of a logit | violated |
| `ledger` | is an acknowledged transition durable, does the file always load, does the ledger implement one-shot access? | 2 processes, 2 splits, 1 purpose, 2 faults, any permit | 702 k |
| `qualification` | from the screen to the report: do training, scores and record keep step, does the review bind a qualified model, is a population drawn once and under a durable claim, does completion imply the result, is publication accepted, is an interruption final, does everything settle? | 2 processes running any command, a campaign of 2 boundaries, 2 splits of 1 population, 1 fault | 247 k, depth 78 |
| `runtime_streams` | do histories, features and radii stay with their thing, is the discovery cadence kept? | a depth and an RGB stream, 1 slot, 2 things (symmetric), cadence 3, failure threshold 2, calls of 2 groups, 5 belief objects, no hypotheses | 314 k |
| `runtime_prepared` | is elapsed time counted once, a prior or forecast used only under its dynamics, a hypothesis judged by its own object beside the shared prior, the episode one line and the belief a registry? | 2 RGB streams, one of which may be malformed, 1 slot, 2 things (symmetric), 1 prepared propagation, 1 change of dynamics, 4 belief objects, forecasts 1 ahead | 748 k |
| `runtime_atomic` | does a call that raises change nothing? **No** | 1 depth stream, calls of 2 groups | violated |
| `supervision` | is there ever a second trainer, a retried failure, a verdict that is not so, a wait without end? | 2 supervisors, 2 process identifiers, targets 2, 4, 6, 2 kills, 1 mishap, the plateau anywhere or nowhere, exceptions at any time | 672 k |
| `training` | is what is published validated, does the incumbent only improve, the reference stay, collapsed weights stay out, is a resume refused only where `best_rollout.pt` is ahead, and does it all look like `TrainerContract`? | 2 processes, targets 4 and 6, a validation every 2 updates, a checkpoint after each, 2 scores, 2 deaths or exceptions, and whatever a supervisor and unrelated processes do to the same files | 1.51 M |
| `system` | is a verdict backed by the checkpoints on disk, can a first launch resume, and does each part keep its own specification beside the other? | 1 supervisor, 2 process identifiers, targets 2 and 4, a validation every 2 updates, a checkpoint after each, 2 scores, 1 kill of the supervisor and 1 death or exception of a trainer | 977 k |
| `training_resume` | can an interrupted final validation be resumed? **No** | the same with 1 process | violated |

### Why the bounds are enough

- *Identity and births.* A slot can be vacated and refilled while the other is held, with
  one identifier to spare. Two confirmations are the least at which a sighting of another
  discovery is needed; three places in a row with reach 1 are the first at which two
  candidates compete for one previous record and a chain can drift. A match that fails ends a
  track at once here (the miss counters have a run of their own). Three confirmations with one
  slot, and identifiers with two sensors, were searched as well without an error and take too
  long in one run; the theorems cover every number of sensors, confirmations and places.
- *Retention.* The miss counter passes both limits; both modes are reached
  through the visibility logit. With a visibility decay of zero, `LogitBound`
  never cuts off a run of misses, which is what the liveness property is about:
  existence falls from at most 8 to below -2 in steps of 1 or 2.
- *Ledger.* Two processes are the least for a lost update; two splits the least
  for an order; two faults cover a fault during the recovery from another. One
  purpose can be claimed twice. A third process would only wait.
- *Qualification.* Two boundaries are the least at which a record can lag behind
  the training, and one command write over another's candidate. With the minimum
  at the cap, a campaign that has an incumbent ends as qualified or at its limit;
  the branch below the cap (`failed_to_improve` after the minimum) is not
  reached. One fault is enough for what one fault leaves behind; the ledger's own
  run has two. Larger instances (two populations, two faults, a minimum of one
  boundary with an extension) were searched for the safety properties without an
  error and take too long to repeat; the theorems cover all of them.
- *Runtime.* One slot makes a retired thing's slot and identifier change hands at
  once; two things are the least that can be confused; cadence 3 and threshold 2
  are the least at which an off-by-one differs from "always". Four belief objects
  allow create, commit, detach or perturb, commit, and a stale prior after each.
  With them a forecast of one object is scored, or left over, after its slot went to
  another. `HypothesesBelong` was also searched with two slots, two horizons and times
  up to 2 without an error (126 k states).
- *Supervision.* Three targets give a first segment, an extension, and one after
  which the budget is spent. Two identifiers are the least at which a dead
  trainer's number can belong to someone else while another is free. Two kills
  let a supervisor die both before and after its successor's launch.
- *Training.* A validation every second update gives updates with and without
  one; two targets an extension of a finished run; two scores a better, an equal
  and a worse candidate; two deaths one during the recovery from another.
- *System.* Two targets give the first segment and one extension. A supervisor's kill
  and a trainer's death together reach the launch that follows a launch; two scores let the
  extension's validation replace the incumbent of the first segment. A second supervisor could only wait
  for the lock, which the run `supervision` has.

### Fairness

- `BeliefHistory`: weak fairness of the whole next-state relation: sensors keep
  delivering packets and a packet's handler, which is sequential code without
  waiting, ends.
- `ConvergenceSupervisor`: weak fairness of a supervisor's next step (a loop of
  reads and sleeps), of starting it again (its launch agent is kept alive by
  launchd), and of a trainer's next step. A trainer's deaths and exceptions, kills of
  supervisors and the reuse of identifiers are never assumed to happen.
- `ProtectedQualification`: strong fairness of what a process does next once it
  has been told to run a split: straight-line code and a loop over a fixed
  manifest, and the kernel serves `flock` waiters in turn.
  Telling it to, and every command of the development, is an operator's choice and never
  assumed. `SplitsSettle` speaks only of runs without a fault whose report still stands.
- Everything else is safety and assumes no fairness.

## 5. What is proved

Eight modules hold proofs, for every value of the constants that satisfies the
named assumptions of the modules they extend. TLC evaluates those assumptions in
the runs above. The invariants of the qualification, of the runtime and of the composed
system were also given to TLC on the instances of their runs before they were proved.
Type invariants are proved and no longer among the runs' properties.

**Lifecycle: `TypeCorrect`, `IdentityHolds`, `NoRecycling`.** `TypeOK` is
inductive by itself. `Identity` is not hard to state but its step needs to know
what a step can do to a slot: the lemma `TypeStep` shows that every slot is left
alone, dropped (identifier cleared), or taken with an identifier between the old
and the new counter, and that two slots taken in one step get different ones,
because ranks of free slots in index order are injective (`RankInjective`, a
counting argument on finite sets). With that, `Identity` is inductive: an
identifier taken is at least `nextId`, every one held is below it. `NoRecycling` is the
same lemma read as an action property of single slots.

**Identifiers: `LifecycleIsRegistry`, `RuntimeIsRegistry`.** The lifecycle and the runtime are two
models of one belief, one with slots and logits and no groups, the other with groups, calls and
resets and no slots. Both implement `ObjectRegistry`, under different maps. In the lifecycle
the bearer of an identifier is the slot `CHOOSE`n for it, which is well defined because of
`Identity` (`BearerIs`); `TypeStep` then makes each step a turnover, and the number of
identifiers held is bounded by a surjection from the active slots. In the runtime the
map is the committed belief; `BeliefContinues` (from `RInv`) makes every step inside an episode
a turnover, `EpisodeStarts` shows that a belief that was not there begins empty, and only
`Reset` takes one away. So what `EvidenceIsOwn` and `HypothesesAreOwn` rely on, that
an identifier denotes one thing for its episode, is what the slots provide.

**Lifecycle: `RetiredForCause`, `EvidenceHolds`.** Both compare a counter of the
code with what `BeliefHistory` says really happened. `missed_steps` restarts in
more cases than it should (finding 1), but never runs ahead of the misses since the
last match (`CountedInv`), so a removal by count is never premature. A tentative
count of `n` is a chain of sightings in the sensor's last `n` discoveries
(`EvidenceInv`): a discovery puts itself before the ones remembered (`Remembered`) and
either lengthens a chain it is within reach of (`Longer`) or starts a new one.

**Ledger: `TypeCorrect`, `LedgerLoads`, `NothingAcknowledgedIsLost`.** None of
these is inductive alone. `LedgerInv` adds (a) a writer's loaded list *is* the
journal and still admits its entry, which is what the lock buys; (b)
`Orderly`: a list that loads, whose open split is the one after those that
passed and lies within the frozen order. (b) is what makes `Admits` imply
`InOrder`: `begin` checks only that the ledger is not terminal, and only
`PassedCount <= SplitCount` turns that into "there is a next split"; (c)
acknowledged within durable within journal. The first half of the module
is about lists (what one more transition does to the open split, the claims and the
count), the second has one lemma per step.

**Ledger: `LedgerIsOneShot` (`DurablyOnce`).** `OneShotAccess` judges a whole
history, the code only its next entry, so the legality of the whole needs what the checks
rely on without saying it. `Chronicle` is that strengthening: openings number what
passed plus the split at hand (`Numbered`), every earlier opening has a passed
completion after it (`Followed`), and entries before the active opening belong to
earlier splits (`Placed`), so that a second claim of one purpose must sit among
the active claims the code compares with. One lemma per kind of entry shows that
an admitted entry keeps it. `HistoryInv` adds that the durable list is a prefix of the one
readers see, which is what makes every durable step a growth: a return syncs an
extension, a power failure falls back to the prefix itself.

**Campaign: `CampaignFollowed`, `ReviewQualifies`.** The record may be an old
copy at any time, so no relation between it and training is inductive. What is:
there is a *front* `n`, the last boundary that was scored (`Front`), which never
goes back. The journal's lineage is at `n` or one behind and the cursor within one
boundary of it (`Journal`); every copy of the record, in the file or in a command's hands, is
at `n` or earlier (`Copies`); an active record is at `n`, or one behind while the
command that scored `n` has yet to write it (`Recorded`, `Scoring`). Only scoring
moves the front, and score files are written once, which is what stops a command
that read the record long ago. `Training` says who holds the executor's lock,
`ScreenInv` orders the screen. `Reviewed` carries `ReviewedModelQualifies`
from the review on: what it bound is in files nothing writes twice.

**Qualification: `DrawnOnce`, `DrawnAfterClaim`, `InterruptionFinal`.** `QInv` is
the ledger's `HistoryInv`, `Gapless` lists (what the list speaks of comes after
passed predecessors), `Standing` (where a process stands in its own code and in
the ledger's call at once), and `DrawInv`: what was drawn was drawn once and is
claimed durably, and what a process is about to draw, under a claim it holds, nobody else
holds or has drawn. The ledger's refinement does the rest: a second claim would not be admitted.

**Qualification: `ResultBeforeCompletion`.** The result is one file and its
completion another, written by a process that may have lost the split in between.
`HoldInv` shows it cannot have: from the opening's return to the completion a
process's permit is the one the list's active opening has (`Tenure`), since
nonces are minted once and each is one process's (`Distinct`); so nobody else could
write the split's result or claim in it, and the results agree with both lists (`Agree`).

**Qualification: `PublicationAccepted`.** Who is about to publish has completed the
last split, and everything the publication compares must still be as it was then.
`OverInv` says so: an announcing process is the only one there is (`Announces`), its
report speaks of the list's last entry (`LastWord`), and the list is over and durable, so
that nobody can still be writing to it (`Over`); the agreement of results and lists is `HoldInv`'s.

**Runtime: `TypeCorrect`, `ElapsedCounted`, `PriorsPredicted`, `NeverForks`.** The code
trusts the identity of belief objects: a prepared propagation or a forecast is used
only for the very object it was made of. `RInv` says why that is enough. Versions
are never given twice, so whoever holds the belief's version holds what was predicted of it
(`Traced`), and a version from before a reset or a commit can match no later belief. The
group in progress goes on from the belief it will replace (`Onward`): no identifier the belief knew and
lost comes back, and start, credited and outstanding time add up to its clock.
`Shape` holds types, the order of identifiers and the budget of bounds.

**Runtime: `CadenceHolds`, `EvidenceCurrent`, `HypothesesAreOwn`, `EvidenceIsOwn`.** Each has an
invariant of its own. `Counted`: the scheduler's counters are the history's, whatever
raises. `Dated`: evidence was collected under the controller's context, which is the dynamics in
force from a group's opening to its commit. `Denoted`: a forecast's identifiers, and those
comparisons are remembered under, the joint weights' included, were given by the present belief and, while
active, to the thing compared; a forecast may know an identifier that is gone, but none that will be given.
`WeightsJudged`: an identifier's weights are empty or hold a comparison of its own, and hold others only
as far as the joint weights do and a prior is shared. So the prior is all through which one object's
evidence reaches another's weights; it does by default (section 6).
`Owned` says the same of histories, caches and radii, and needs one hypothesis,
`Malformed = {}`: no packet raises inside a group. Without it the statement is false (section 7).

**Supervisor: `TypeCorrect`, `OneTrainer`, `NoRetryLoop`, `LaunchesUnfinished`,
`VerdictsAreEarned`, `StoppedStays`.** One invariant `IInv` carries all six:
`Exclusive` (only the holder of the lock is inside `main`), `Trainers` (at most one
may still write, and what it may do to the files), `Recorded` (what the state file
says of the run), `Paid` (whenever nobody is inside, each launch is accounted for
by a recorded intention or a kill) and `Control` (what each program counter
knows: before `Spawn`, that nobody trains and the summary is missing).
The hard case is a supervisor that died between `Popen` and the record
of the pid, with its trainer alive, finished, or dead and its number reused.

**Trainer: `RunTypeCorrect`, `RunImplementsContract`, `IncumbentStands`,
`ReferenceStands`.** `RInv` says that who got past the lock has it (`Held`), that
only the first process may be fresh, and only before there is a checkpoint
(`FreshFirst`), that a dead process has nothing in memory (`Clean`), and
that the one that trains is ahead of `last.pt`: its step at or beyond, its
incumbent the same or better, its reference the same (`Ahead`). The
contract follows step by step.

**Trainer: `PublishedStands`, `NeverSelfPromoted`, `CollapsedIsLeft`, `RefusalIsExplained`.** These are
about files that a death may leave in any combination, and `DInv` says which
combinations there are. What memory names is on disk, except what the validation in
progress has yet to write (`Filed`). Selections are of past validated steps, and a pending
`last.pt` is of a step nothing was selected at (`Past`). Whoever runs was asked for the
largest target and publishes beside a validated `last.pt` (`Finished`). An unsupported
diagnosis leaves a reference file, beside which no candidate founds and wins at once
(`Deferral`). Collapsed weights are at or behind `last.pt` or at a validation's
boundary, and leave memory only by the rollback (`Collapse`). `TipLinked` relates `last.pt` to
the selectors' files: the reference is the one on disk as soon as `last.pt` names one, and
`best_rollout.pt` is the incumbent it names or a later and better one. `RefusalIsExplained` reads it
as the exact extent of finding 3: whoever died, a resume is refused only where
`best_rollout.pt` is ahead, and never because of the reference or an older incumbent.

**System: `ComponentsKeepTheirSpecs`, `VerdictsAreBacked`, `FirstLaunchesLoad`.** `JInv` is the
supervisor's invariant, the trainer's, and two facts neither part can state: the largest target
the trainers were asked for is one the supervisor launched (`Asked`), and what the last process put on
disk stands as long as nothing beyond its summary is launched (`SegmentBacked`). The first
makes a launch a legal resume (`ExtendResumes`: targets never shrink, and nobody else trains by
`Control`); a step of the trainer is a step of the contract (`InsideProgresses`), hence one of
the supervisor's environment. So the composition implements both specifications
(`SupervisorKeepsItsSpec`, `RunKeepsItsSpec`) and every safety theorem above about either is
one about it. The second is kept because a process with its target reached
changes nothing it would not publish again (`InsideBacks`), and everything else leaves last.pt
alone (`AsidesKeep`). `VerdictIsEarned` ties a verdict to the summary, `SegmentBacked` the
summary to the disk. Before a target's first launch nothing beyond the summary was launched, so what
that process loads is backed, and by `TipLinked` its resume is not refused: finding 3
can only meet a process launched again after its predecessor's death.

**Only model-checked.** `EventuallyForgotten`, `SplitsSettle` and `Settles`
(liveness under fairness is out of the prover's reach, as is ENABLED). Every other
property of a passing run is a theorem. No recursive operator is declared;
matchings are sets of functions, so nothing needs induction over data.

## 6. Findings

1. **`lifecycle.py:280`, run `lifecycle_missed`.** The motion mode serves as the
   lifecycle's memory of occlusion, but event dynamics rewrites it between
   packets from the visibility logit. After enough misses it says OCCLUDED
   whatever was seen, each miss in plain view then looks like a change of kind
   and restarts `missed_steps` at 1, and `max_missed_steps` never fires; only the
   existence logit ends the track. With `configs/default.yaml`'s values the run
   reaches a track unseen in plain view for more than twelve packets.
   `PROJECT_SPEC.md:1818-1823` requires deactivation when "maximum miss duration is exceeded".
2. **`online_world_model.py:1708`, run `runtime_atomic`.** Groups of one call are
   validated and committed one after the other, so a duplicate stream key or stale
   evidence in a later group raises after earlier groups changed the belief,
   histories, scheduler and ingest count. `project/STATUS.md:1218-1222` says such
   packets "reject atomically across" all of them.
3. **`trainer.py:4618`, run `training_resume`.** Before the final validation
   `last.pt` is written as pending, "so an interrupted validation can be resumed"
   (`trainer.py:6273-6276`). It names the incumbent of *before* that validation,
   which then replaces `best_rollout.pt` before `last.pt` is
   written again. A process killed in between leaves a pending
   `last.pt` whose incumbent is no longer on disk, and every exact resume raises.
   The numbered checkpoint of that validation still loads when named by hand.
   `RefusedOnlyAhead` says that a `last.pt` is refused in no other way, and `FirstLaunchLoads`
   that an extension's first process never meets it.

Seen while modelling, outside the properties. Lifecycle and runtime:

- A confirmed candidate without a free slot loses its tentative record
  (`lifecycle.py:236-237`, `451-455`); the comment at `tentative.py:17-18` reads
  as if evidence were kept until a birth.
- A malformed RGB packet that follows a depth packet in one group raises in
  `_ingest_one` after the first packet changed history, scheduler and
  diagnostics and the prepared propagation was consumed.
- The first colour packet at a forecast's due time uses the forecast up even if it
  matches nothing; repeated ingests at one timestamp schedule the same forecast again;
  `predict` right after a change of the dynamics rests on evidence from before it,
  which only the next ingest drops.
- Correction reads the auxiliary `visibility_logits`, birth `visibility_logit`.
- `_update_evidence` (`hypothesis_rollout.py:1078-1081`) adds `axis_prior_strength` times the
  pool's joint log weights to those of every object compared. The joint weights are made of
  all objects' comparisons, and `_ensure_weights` (802-817) does not reset them when a slot's
  identifier changes, so by default (0.001, `utils/config.py:357`) what is chosen for an object
  that has evidence of its own rests in part on others, retired ones included: TLC
  reaches a slot scored, vacated, taken again and scored within four belief objects. `PROJECT_SPEC.md:6917-6919`
  says a "model choice must never be transferred beyond the entity, component, regime, or horizon
  for which that comparison supplies evidence", `project/DESIGN_DECISIONS.md:5176-5180` that
  evidence "is keyed by persistent entity". `HypothesesBelong` says exactly how far the code keeps to this:
  with strength 0 altogether, otherwise up to the prior.

Supervisor and trainer:

- A trainer that finishes between the poll of the summary and the check of its
  pid is reported as having exited without one.
- An extension is launched once the summary is there, while the previous trainer
  may still hold `.training.lock` for its last two writes; it is then refused and recorded as `extension_failed`.
- A reattached supervisor reads whatever `training_failure.json` or state `failed`
  the trainer has not yet cleared, and gives up on a trainer that is starting.
- A reattached trainer killed by the system leaves `training_state.json` at "running" for ever.
- A resume that finds its target reached keeps the summary on disk, whichever
  segment wrote it; the supervisor's comparison with `last.pt` is what catches it.
- A resume with a lower target reports "completed" without a validation.

Ledger, campaign and qualification:

- A write that raises or is killed in `replace_bytes` leaves `.<name>.<hex>.tmp`,
  after which `inventory()` raises: campaign, publication and `status()` fail until someone deletes it.
- An exception after `os.replace` in `begin` leaves the split open with nobody
  holding its permit. This is the documented "closes all later access".
- After a crash between the last completion and the report no call publishes it,
  as `begin` refuses a terminal ledger.
- Two commands can end one campaign: a stalled `finish_campaign` and a failing
  validation leave a record that says `qualified_convergence` beside a ledger
  split that says failed. The report binds both and nothing compares them, so the
  review accepts. In other orders a campaign stays "training" with its split
  failed and can neither go on nor end.
- A crash between the ledger's `begin("campaign")` and the record, between the
  screen's result and the record, or between a scored-evidence file and the record
  leaves a campaign that cannot go on; the last ends it as failed when the validation is repeated.
- A second, concurrent validation fails on the first one's evidence file and ends the
  campaign; the first then writes its stale record over the terminal one. The
  ledger's split has failed by then, so everything stays refused.
- A slow development command that replaces the record after the protected ledger
  was created makes the final publication raise.
- The executor's first journal commit killed between its resume file and
  `progress.json` makes every later call raise.

## 7. Abstractions and what is not modelled

- One batch element everywhere; batch-size mismatches are not modelled.
- Lifecycle: physical fields of a slot, and learned correction deltas on logits.
- Runtime: at most one birth per packet (a bound); surprise, uncertainty and
  "nothing projects into the view" are one input; tentative births live in
  `BeliefLifecycle`; failure counts beyond the threshold are not told apart; segment
  resets, which only drop evidence; sliding windows and velocity fits; known
  actions (refused while the controller is on); `predict` and `plan`,
  which change nothing the runtime keeps. `EvidenceBelongs` is checked where every
  packet is well formed: a raise in the middle of a group leaves evidence of an
  uncommitted posterior behind, which is the second finding's subject.
- Hypotheses: what a score or a weight is worth, the softmax, gates and decay; weights
  are the set of comparisons they were made from, however little of one is left. The scene's
  weights by axis (`axis_log_weights`), which the controller does not read, are left out, and so
  are `predict`'s own `_ensure_weights`, which finds what the commit left, and pools a caller
  of the runtime brings itself (`selected_hypothesis_axes`).
- Trainer: causal training only (`rgb_pretrain_steps = 0`), resumes from `last.pt`
  only, no `--initialize-from`, targets that never shrink; a validation's outcome is
  an input, also when it is repeated; saving one file is one step.
- Supervisor: `Popen` and the number it returns are one step; what
  `inspect_completed_campaign` verifies beyond steps is one refusal that may
  come; the first trainer is always monitored (`--initial-trainer-pid`).
- Campaign: what a command reads before it acts is read in one step; replacing a
  file and syncing the directory are one step there (they are two in the ledger);
  the development ledger is taken at the level of `OneShotAccess`;
  `objective_plateau` is handled like `failed_to_improve`; the executor's two
  resume files behind one commit are one. `build-protocol` and `init` only create the directory.
- Ledger: digests, schemas and file contents; a torn file stands for any prefix of
  a file being created. A result or report file is written in one step.
- Not modelled at all, with the reason: see `components` in `PROJECT.json`. The
  simulator, the filters, identification, planning and the trainer's losses are
  continuous numerics; the abstraction router is stateless; evaluation, datasets
  and visualisation are I/O. The other qualification harnesses are the largest files
  of the repository and consist of validation of numerical reports around the ledger
  modelled here. That is why the modelled lines are a small share of all lines.

## 8. Running

    tlc -workers 2 -config ledger.cfg OrderedSplitLedger
    tlapm OrderedSplitLedger_proof.tla

Each `.cfg` belongs to the module `PROJECT.json` names for its run. Operators
commented `mutant:` are plausible bugs of the definition they stand beside;
replacing the definition by one of them makes the property `PROJECT.json` pairs it with fail.

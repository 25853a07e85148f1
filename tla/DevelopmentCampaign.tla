------------------------- MODULE DevelopmentCampaign -------------------------
(***************************************************************************)
(* The development phase of DynamicSetQualification                         *)
(* (training/dynamic_set_qualification.py) and the executor that trains for *)
(* it (training/dynamic_set_execution.py): a disposable screen, a campaign  *)
(* of training blocks each closed by one validation, a decision, a report   *)
(* and an independent review.  Every command is a process of its own: it    *)
(* reads the campaign record, works, and replaces the record by its copy    *)
(* with its change.  Only the executor takes a lock, and not on the record, *)
(* so a command may write what it read long ago.                            *)
(*                                                                         *)
(* Updates are counted in units of which Interval make a validation         *)
(* boundary.  The development ledger is taken at what OneShotAccess         *)
(* promises: its transitions are atomic and durable.  An artifact is        *)
(* replaced and synced in one step; a temporary file left in the directory  *)
(* is the ledger's stray.  objective_plateau is handled like                *)
(* failed_to_improve and is not told apart from it.                         *)
(***************************************************************************)
EXTENDS OrderedSplitLedger

CONSTANTS
  Interval,       \* validation_interval_updates
  Minimum,        \* minimum_updates, in boundaries
  Extension,      \* extension_updates, in boundaries
  Maximum         \* maximum_updates, in boundaries

ASSUME CampaignAssumption ==
  /\ {Interval, Minimum, Extension, Maximum} \subseteq Nat \ {0}
  /\ Minimum <= Maximum /\ (Maximum - Minimum) % Extension = 0

VARIABLES
  campaign,       \* campaign_state.json
  development,    \* the development ledger: what became of its two splits
  progress,       \* progress.json and the boundary checkpoints
  screened,       \* screen_result.json
  scored,         \* boundary -> its scored-evidence file
  errored,        \* does development_error.json exist?
  model,          \* the boundary development_model.pt was copied from, or 0
  released,       \* development_report.json
  review,         \* development_review_receipt.json
  job             \* process -> its command and the record that command holds

Smaller(a, b) == IF a < b THEN a ELSE b

sealed == <<screened, scored, errored, model, released, review>>
dev == <<campaign, development, progress, sealed, job>>

Boundaries == 1 .. Maximum
Statuses == {"qualified_convergence", "failed_to_improve", "limit_hit"}

NoCampaign == [state |-> "none", tried |-> 0, best |-> 0, status |-> "none"]
NoReport == [campaign |-> NoCampaign, development |-> <<>>]
NoReview == [report |-> NoReport, model |-> 0]
Idle == [place |-> "idle", record |-> NoCampaign]

DInit ==
  /\ campaign = [NoCampaign EXCEPT !.state = "awaiting_screen"]
  /\ development = [screen |-> "unopened", campaign |-> "unopened"]
  /\ progress = [cursor |-> 0, validated |-> 0, limited |-> FALSE, boundary |-> 0]
  /\ screened = "none"
  /\ scored = [b \in Boundaries |-> "none"]
  /\ errored = FALSE
  /\ model = 0
  /\ released = NoReport
  /\ review = NoReview
  /\ job = [p \in Processes |-> Idle]

(* What _campaign accepts: its inventory refuses a temporary file, and an   *)
(* unopened campaign may have no screen result beside it.                   *)
CampaignReadable ==
  ~stray /\ (campaign.state = "awaiting_screen" => screened = "none")

At(p, place) == job[p].place = place
Become(p, place, record) == job' = [job EXCEPT ![p] = [place |-> place, record |-> record]]
Quit(p) == job' = [job EXCEPT ![p] = Idle]

Closed(record, status) == [record EXCEPT !.state = "terminal", !.status = status]

Settled(split, status) == development' = [development EXCEPT ![split] = status]
-----------------------------------------------------------------------------
(* The disposable screen. *)

BeginScreen(p) ==
  /\ At(p, "idle")
  /\ CampaignReadable /\ campaign.state = "awaiting_screen"
  /\ development.screen = "unopened"
  /\ Settled("screen", "open")
  /\ Become(p, "screening", campaign)
  /\ UNCHANGED <<campaign, progress, sealed>>

Screen(p, v) ==
  /\ At(p, "screening")
  /\ screened = "none"
  /\ screened' = v
  /\ Become(p, "screened", job[p].record)
  /\ UNCHANGED <<campaign, development, progress, scored, errored, model, released, review>>

CompleteScreen(p) ==
  /\ At(p, "screened")
  /\ Settled("screen", screened)
  /\ Become(p, "closing screen",
            IF screened = "passed" THEN [job[p].record EXCEPT !.state = "screen_passed"]
            ELSE Closed(job[p].record, "failed_to_improve"))
  /\ UNCHANGED <<campaign, progress, sealed>>

CloseScreen(p) ==
  /\ At(p, "closing screen")
  /\ campaign' = job[p].record
  /\ IF campaign'.state = "terminal" THEN Become(p, "publishing", NoCampaign) ELSE Quit(p)
  /\ UNCHANGED <<development, progress, sealed>>

(* begin_campaign. *)
BeginCampaign(p) ==
  /\ At(p, "idle")
  /\ CampaignReadable /\ campaign.state = "screen_passed"
  /\ development.screen = "passed" /\ development.campaign = "unopened"
  /\ Settled("campaign", "open")
  /\ Become(p, "beginning", [campaign EXCEPT !.state = "training"])
  /\ UNCHANGED <<campaign, progress, sealed>>

CampaignBegun(p) ==
  /\ At(p, "beginning")
  /\ campaign' = job[p].record
  /\ Quit(p)
  /\ UNCHANGED <<development, progress, sealed>>
-----------------------------------------------------------------------------
(* execute_repository_training_block: the record is read before the lock is *)
(* taken, and every update is committed to the journal.                     *)

Execute(p) ==
  /\ At(p, "idle")
  /\ CampaignReadable /\ campaign.state = "training"
  /\ Become(p, "executing", campaign)
  /\ UNCHANGED <<campaign, development, progress, sealed>>

Target(record) == Interval * Smaller(record.tried + 1, Maximum)

Unlocked == \A p \in Processes : ~At(p, "training")

Descends(record) == progress.validated = record.tried

(* A boundary that has just been validated: its own phase, no training; the *)
(* validation's own duration may exhaust the time budget.                   *)
Reconciles(record) ==
  /\ record.tried = progress.validated + 1
  /\ progress.cursor = Interval * record.tried

LockAnyLineage(p) ==                             \* mutant: lineage overwritten, not compared
  LET record == job[p].record
  IN  /\ At(p, "executing")
      /\ IF Unlocked THEN Become(p, "training", record) ELSE Quit(p)
      /\ progress' = IF Unlocked THEN [progress EXCEPT !.validated = record.tried]
                     ELSE progress
      /\ UNCHANGED <<campaign, development, sealed>>

Lock(p) ==
  LET record == job[p].record
  IN  /\ At(p, "executing")
      /\ IF Unlocked /\ Descends(record) THEN Become(p, "training", record) ELSE Quit(p)
      /\ IF Unlocked /\ Reconciles(record)
         THEN \E limited \in BOOLEAN :
                progress' = [progress EXCEPT !.validated = record.tried, !.limited = limited]
         ELSE UNCHANGED progress
      /\ UNCHANGED <<campaign, development, sealed>>

(* One update, which may exhaust the time budget, or be rolled back because *)
(* it overran it.                                                           *)
Update(p) ==
  /\ At(p, "training")
  /\ ~progress.limited /\ progress.cursor < Target(job[p].record)
  /\ \E limited \in BOOLEAN, n \in 0 .. 1 :
       /\ limited \/ n = 1
       /\ progress' = [progress EXCEPT !.cursor = @ + n, !.limited = limited]
  /\ UNCHANGED <<campaign, development, sealed, job>>

(* The block is over; a reached boundary gets its checkpoint.              *)
EndBlock(p) ==
  LET reached == progress.cursor = Target(job[p].record) /\ ~progress.limited
  IN  /\ At(p, "training")
      /\ reached \/ progress.limited
      /\ progress' = IF reached
                     THEN [progress EXCEPT !.boundary = progress.cursor \div Interval]
                     ELSE progress
      /\ Quit(p)
      /\ UNCHANGED <<campaign, development, sealed>>
-----------------------------------------------------------------------------
(* execute_validation_candidate.  Progress is read again before the         *)
(* evidence is written; any exception up to that write is caught.           *)

AwaitsValidation(record) ==
  /\ ~progress.limited /\ Descends(record)
  /\ progress.cursor = Interval * (record.tried + 1)
  /\ progress.boundary = record.tried + 1

OpenValidation(p) ==
  /\ At(p, "idle")
  /\ CampaignReadable /\ campaign.state = "training" /\ campaign.tried < Maximum
  /\ development.campaign = "open"
  /\ AwaitsValidation(campaign)
  /\ Become(p, "validating", campaign)
  /\ UNCHANGED <<campaign, development, progress, sealed>>

(* select_dynamic_set_incumbent: a first candidate that passes every gate   *)
(* is supported; a later one must also score better; one that fails some    *)
(* gate may be selected all the same.                                       *)
Selected(record, v) ==
  IF v = "passes" /\ record.best = 0 THEN {record.tried + 1}
  ELSE {record.best, record.tried + 1}

Score(p, v) ==
  LET record == job[p].record  b == record.tried + 1
  IN  /\ At(p, "validating")
      /\ AwaitsValidation(record)
      /\ scored[b] = "none"
      /\ scored' = [scored EXCEPT ![b] = v]
      /\ \E best \in Selected(record, v) :
           Become(p, "scored", [record EXCEPT !.tried = b, !.best = best])
      /\ UNCHANGED <<campaign, development, progress, screened, errored, model, released,
                     review>>

RecordCandidate(p) ==
  /\ At(p, "scored")
  /\ campaign' = job[p].record
  /\ Quit(p)
  /\ UNCHANGED <<development, progress, sealed>>

(* The error file is written once: a second failure raises out of the       *)
(* handler.                                                                 *)
ValidationRaises(p) ==
  /\ At(p, "validating")
  /\ errored' = TRUE
  /\ IF errored THEN Quit(p)
     ELSE Become(p, "failing", Closed(job[p].record, "failed_to_improve"))
  /\ UNCHANGED <<campaign, development, progress, screened, scored, model, released, review>>

(* finish_campaign.  Updates left over in a block refuse it, as does an      *)
(* extension that is not whole.                                             *)
AtCap == progress.cursor = Interval * Maximum

WholeExtension(record) ==
  record.tried >= Minimum => (record.tried - Minimum) % Extension = 0

SupportsEarly(record, status) ==                  \* mutant: minimum not required
  \/ /\ status = "limit_hit"
     /\ progress.limited \/ (record.best = 0 /\ AtCap)
  \/ /\ ~progress.limited /\ record.best # 0
     /\ progress.cursor = Interval * record.tried
     /\ WholeExtension(record)
     /\ LET qualified == scored[record.best] = "passes"
        IN  status = IF qualified THEN "qualified_convergence"
                     ELSE IF AtCap THEN "limit_hit"
                     ELSE "failed_to_improve"
     /\ status = "failed_to_improve" => record.tried >= Minimum

Supports(record, status) ==
  \/ /\ status = "limit_hit"
     /\ progress.limited \/ (record.best = 0 /\ AtCap)
  \/ /\ ~progress.limited /\ record.best # 0
     /\ progress.cursor = Interval * record.tried
     /\ WholeExtension(record)
     /\ LET qualified == record.tried >= Minimum /\ scored[record.best] = "passes"
        IN  status = IF qualified THEN "qualified_convergence"
                     ELSE IF AtCap THEN "limit_hit"
                     ELSE "failed_to_improve"
     /\ status = "failed_to_improve" => record.tried >= Minimum

Decide(p, status) ==
  /\ At(p, "idle")
  /\ CampaignReadable /\ campaign.state = "training"
  /\ development.campaign = "open"
  /\ Descends(campaign) /\ Supports(campaign, status)
  /\ Become(p, "finishing", Closed(campaign, status))
  /\ UNCHANGED <<campaign, development, progress, sealed>>

(* A failed validation and a finished campaign end alike: the record, then  *)
(* the ledger, which refuses a second end, then the report.                 *)
CloseCampaign(p) ==
  /\ job[p].place \in {"failing", "finishing"}
  /\ campaign' = job[p].record
  /\ Become(p, "closing campaign", job[p].record)
  /\ UNCHANGED <<development, progress, sealed>>

CompleteCampaign(p) ==
  /\ At(p, "closing campaign")
  /\ IF development.campaign = "open"
     THEN /\ Settled("campaign", IF job[p].record.status = "qualified_convergence"
                                 THEN "passed" ELSE "failed")
          /\ Become(p, "publishing", NoCampaign)
     ELSE Quit(p) /\ UNCHANGED development
  /\ UNCHANGED <<campaign, progress, sealed>>
-----------------------------------------------------------------------------
(* _publish_development_report reads the record again. *)

CopyModel(p) ==
  LET qualified == campaign.status = "qualified_convergence"
      publishable ==
        /\ CampaignReadable /\ campaign.state = "terminal" /\ released = NoReport
        /\ qualified => model = 0 /\ campaign.best # 0 /\ scored[campaign.best] = "passes"
  IN  /\ At(p, "publishing")
      /\ IF publishable THEN Become(p, "reporting", campaign) ELSE Quit(p)
      /\ model' = IF publishable /\ qualified THEN campaign.best ELSE model
      /\ UNCHANGED <<campaign, development, progress, screened, scored, errored, released,
                     review>>

Report(p) ==
  /\ At(p, "reporting")
  /\ released' = IF released = NoReport
                 THEN [campaign |-> job[p].record, development |-> development]
                 ELSE released
  /\ Quit(p)
  /\ UNCHANGED <<campaign, development, progress, screened, scored, errored, model, review>>

(* _development_report: the report still binds the record and the ledger.   *)
ReportStands ==
  /\ CampaignReadable
  /\ released = [campaign |-> campaign, development |-> development]
  /\ campaign.status = "qualified_convergence" => campaign.best # 0 /\ model = campaign.best

(* _independent_review_recomputation.                                       *)
Reviewable ==
  /\ ReportStands
  /\ campaign.status = "qualified_convergence"
  /\ scored[campaign.best] = "passes"

Review(p) ==
  /\ At(p, "idle")
  /\ review = NoReview /\ Reviewable
  /\ review' = [report |-> released, model |-> model]
  /\ UNCHANGED <<campaign, development, progress, screened, scored, errored, model, released,
                 job>>

(* What create_protected_ledger asks for again. *)
ReviewStands ==
  Reviewable /\ review = [report |-> released, model |-> model]
-----------------------------------------------------------------------------
Develop(p) ==
  \/ BeginScreen(p) \/ CompleteScreen(p) \/ CloseScreen(p)
  \/ \E v \in {"passed", "failed"} : Screen(p, v)
  \/ BeginCampaign(p) \/ CampaignBegun(p)
  \/ Execute(p) \/ Lock(p) \/ Update(p) \/ EndBlock(p)
  \/ OpenValidation(p) \/ RecordCandidate(p) \/ ValidationRaises(p)
  \/ \E v \in {"passes", "fails"} : Score(p, v)
  \/ \E status \in Statuses : Decide(p, status)
  \/ CloseCampaign(p) \/ CompleteCampaign(p)
  \/ CopyModel(p) \/ Report(p) \/ Review(p)

(* The command is killed or raises.  Its locals are gone; killed or raising *)
(* while it replaces the record or the ledger it may leave its temporary    *)
(* file.                                                                    *)
Replacing(p) ==
  job[p].place \in {"screened", "closing screen", "beginning", "scored", "failing", "finishing",
                    "closing campaign"}

Abandoned(p) ==
  /\ ~At(p, "idle")
  /\ Fault
  /\ Quit(p)
  /\ stray' \in {stray, stray \/ Replacing(p)}
  /\ UNCHANGED <<campaign, development, progress, sealed>>
-----------------------------------------------------------------------------
(* Whatever old copies of the record commands write, no active campaign is  *)
(* stranded: the executor's journal descends from its last candidate or is  *)
(* about to (who reads the record now does not meet "resume checkpoint is   *)
(* not descended from the latest validated candidate"; who holds an older   *)
(* copy may), and no block was trained beyond a boundary that has no scored *)
(* evidence.                                                                *)
JournalFollowsCampaign ==
  /\ campaign.state = "training" => Descends(campaign) \/ Reconciles(campaign)
  /\ \A b \in Boundaries : progress.cursor > Interval * b => scored[b] # "none"

(* Protected data is opened for a model whose own evidence passed every     *)
(* gate, in a campaign that went on to its minimum and scored every         *)
(* boundary on the way; no later command changes what the review bound.     *)
ReviewedModelQualifies ==
  file # "absent" \/ review # NoReview =>
    LET record == review.report.campaign
    IN  /\ screened = "passed" /\ development.screen = "passed"
        /\ record.best \in 1 .. record.tried /\ scored[record.best] = "passes"
        /\ model = record.best /\ review.model = model
        /\ record.tried >= Minimum
        /\ \A b \in 1 .. record.tried : scored[b] # "none"
=============================================================================

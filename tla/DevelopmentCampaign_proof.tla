---------------------- MODULE DevelopmentCampaign_proof ----------------------
(***************************************************************************)
(* For every campaign's length, every set of processes and whatever is     *)
(* killed: what the record, the development ledger, the training progress  *)
(* and the score files say of one another.  All of it follows from the     *)
(* front of the campaign, the last boundary that was scored: the record    *)
(* stands at it or one step behind, and what the commands in flight still  *)
(* mean to write agrees with it.  The invariant is stated and kept here,   *)
(* of the development's own steps; ProtectedQualification_proof uses it.   *)
(***************************************************************************)
EXTENDS DevelopmentCampaign, TLAPS

States == {"none", "awaiting_screen", "screen_passed", "training", "terminal"}

Record ==
  [state : States, tried : 0 .. Maximum, best : 0 .. Maximum, status : Statuses \cup {"none"}]

Places ==
  {"idle", "screening", "screened", "closing screen", "beginning", "executing", "training",
   "validating", "scored", "failing", "finishing", "closing campaign", "publishing",
   "reporting"}

Before == campaign.state \in {"awaiting_screen", "screen_passed"}
Screening == {"screening", "screened", "closing screen"}

DevTypes ==
  /\ campaign \in Record
  /\ development \in [screen : {"unopened", "open", "passed", "failed"},
                      campaign : {"unopened", "open", "passed", "failed"}]
  /\ progress \in [cursor : Nat, validated : Nat, limited : BOOLEAN, boundary : Int]
  /\ screened \in {"none", "passed", "failed"}
  /\ scored \in [Boundaries -> {"none", "passes", "fails"}]
  /\ model \in 0 .. Maximum
  /\ job \in [Processes -> [place : Places, record : Record]]

Tenable(r) ==
  r.best <= r.tried /\ (r.status = "qualified_convergence" => r.tried >= Minimum)

(* The screen and the opening of the campaign: what was settled, where a    *)
(* command stands between two of its writes, and that only one does.       *)
Passed ==
  /\ development.screen = "passed" => screened = "passed"
  /\ development.campaign # "unopened" => development.screen = "passed"

Stage(p) ==
  /\ (job[p].place \in {"screening", "screened"}) => development.screen = "open"
  /\ At(p, "screened") => screened # "none"
  /\ (job[p].place \in Screening) =>
       campaign.state = "awaiting_screen" /\ development.screen # "unopened"
  /\ At(p, "beginning") => campaign.state = "screen_passed" /\ development.campaign # "unopened"
  /\ At(p, "closing screen") => job[p].record.state \in {"screen_passed", "terminal"}
  /\ At(p, "validating") => development.campaign # "unopened"
  /\ (job[p].place \in {"failing", "finishing"}) => job[p].record.state = "terminal"
  /\ Before => job[p].place \in Screening \cup {"idle", "beginning"}

Alone ==
  \A p, q \in Processes :
    \/ job[p].place \in Screening /\ job[q].place \in Screening
    \/ At(p, "beginning") /\ At(q, "beginning")
    => p = q

ScreenInv == Passed /\ (\A p \in Processes : Stage(p)) /\ Alone

Journal(n) ==
  /\ n = progress.validated \/ n = progress.validated + 1
  /\ Interval * n <= progress.cursor /\ progress.cursor <= Interval * n + Interval
  /\ n = progress.validated + 1 => progress.cursor = Interval * n

Copies(n) ==
  /\ campaign.tried <= n /\ Tenable(campaign)
  /\ \A p \in Processes : job[p].record.tried <= n /\ Tenable(job[p].record)

Recorded(n) ==
  campaign.state = "training" =>
    \/ campaign.tried = n
    \/ /\ n = campaign.tried + 1 /\ progress.validated = campaign.tried
       /\ \A q \in Processes : job[q].record.tried = n => At(q, "scored")

Scoring(n) ==
  \A p \in Processes :
    /\ At(p, "validating") => job[p].record.tried < Maximum /\ job[p].record.state = "training"
    /\ At(p, "scored") =>
         /\ job[p].record.tried = n /\ n = progress.validated + 1
         /\ job[p].record.state = "training" /\ campaign.tried # n
         /\ \A q \in Processes \ {p} : job[q].record.tried # n

Training ==
  \A p \in Processes : At(p, "training") =>
    /\ job[p].record.tried = progress.validated
    /\ \A q \in Processes : At(q, "training") => q = p

Front(n) ==
  /\ \A b \in Boundaries : scored[b] # "none" <=> b <= n
  /\ n >= 1 => development.campaign # "unopened"
  /\ Before => n = 0
  /\ Journal(n) /\ Copies(n) /\ Recorded(n) /\ Scoring(n)

DevInv ==
  /\ DevTypes /\ ScreenInv /\ Training
  /\ \E n \in 0 .. Maximum : Front(n)
-----------------------------------------------------------------------------
LEMMA Moved ==
  ASSUME DevTypes, NEW p \in Processes, NEW place \in Places, NEW r \in Record, Become(p, place, r)
  PROVE  /\ job' \in [Processes -> [place : Places, record : Record]]
         /\ job'[p].place = place /\ job'[p].record = r
         /\ \A q \in Processes : q # p => job'[q] = job[q]
BY DEF DevTypes, Become

LEMMA Parameters ==
  /\ Interval \in Nat /\ Interval > 0
  /\ Maximum \in Nat /\ Minimum \in Nat /\ Minimum > 0
BY CampaignAssumption

LEMMA Blank ==
  /\ NoCampaign \in Record /\ NoCampaign.tried = 0 /\ NoCampaign.state = "none"
  /\ Tenable(NoCampaign)
BY Parameters DEF NoCampaign, Record, States, Tenable

LEMMA Left ==
  ASSUME DevTypes, NEW p \in Processes, Quit(p)
  PROVE  /\ job' \in [Processes -> [place : Places, record : Record]]
         /\ job'[p].place = "idle" /\ job'[p].record = NoCampaign
         /\ \A q \in Processes : q # p => job'[q] = job[q]
<1>1. job' = [job EXCEPT ![p] = [place |-> "idle", record |-> NoCampaign]]
  BY DEF Quit, Idle
<1> QED
  BY <1>1, Blank DEF DevTypes, Places


(* A step that changes nothing the invariant speaks of but where p stands. *)
LEMMA PlaceStep ==
  ASSUME DevInv, NEW p \in Processes,
         UNCHANGED <<campaign, development, progress, screened, scored>>,
         model' \in 0 .. Maximum,
         NEW place \in {"idle", "executing", "validating", "failing", "finishing", "reporting"},
         NEW r \in Record, Tenable(r),
         job' = [job EXCEPT ![p] = [place |-> place, record |-> r]],
         \/ r.tried = 0
         \/ r.tried = campaign.tried
         \/ r.tried = job[p].record.tried /\ ~At(p, "scored"),
         place = "idle" \/ ~Before,
         place = "validating" => /\ r.tried < Maximum /\ r.state = "training"
                                 /\ development.campaign # "unopened",
         place \in {"failing", "finishing"} => r.state = "terminal"
  PROVE  DevInv'
<1>1. /\ job' \in [Processes -> [place : Places, record : Record]]
      /\ job'[p].place = place /\ job'[p].record = r
      /\ \A q \in Processes : q # p => job'[q] = job[q]
  BY DEF DevInv, DevTypes, Places
<1>2. DevTypes'
  BY <1>1 DEF DevInv, DevTypes
<1>3. ScreenInv'
  <2>1. \A q \in Processes :
          job'[q].place \in Screening \cup {"beginning"} => q # p /\ job'[q] = job[q]
    BY <1>1 DEF Screening
  <2>2. Alone'
    BY <2>1 DEF DevInv, ScreenInv, Alone, At
  <2>3. ASSUME NEW q \in Processes
        PROVE  Stage(q)'
    <3>1. CASE q = p
      BY <1>1, <3>1 DEF DevInv, ScreenInv, Stage, At, Screening, Before
    <3>2. CASE q # p
      BY <1>1, <3>2 DEF DevInv, ScreenInv, Stage, At, Screening, Before
    <3> QED
      BY <3>1, <3>2
  <2> QED
    BY <2>2, <2>3 DEF DevInv, ScreenInv, Passed
<1>4. Training'
  BY <1>1 DEF DevInv, Training, At
<1>5. ASSUME NEW n \in 0 .. Maximum, Front(n)
      PROVE  Front(n)'
  <2>1. /\ r.tried <= n /\ r.tried \in Nat /\ campaign.tried \in Nat /\ n \in Nat
        /\ progress.validated \in Nat
    BY <1>5, Parameters DEF DevInv, DevTypes, Record, Front, Copies
  <2>2. Copies(n)'
    BY <1>1, <1>5, <2>1 DEF Front, Copies, Tenable
  <2>3. Recorded(n)'
    BY <1>1, <1>5, <2>1 DEF Front, Recorded, At
  <2>4. \A q \in Processes : At(q, "scored")' => q # p /\ At(q, "scored")
    BY <1>1 DEF At
  <2>5. \A q \in Processes : At(q, "scored") => job[p].record.tried # n \/ p = q
    BY <1>5 DEF Front, Scoring
  <2>6. Scoring(n)'
    <3>1. ASSUME NEW q \in Processes, At(q, "scored")'
          PROVE  /\ job'[q].record.tried = n /\ n = progress'.validated + 1
                 /\ job'[q].record.state = "training" /\ campaign'.tried # n
                 /\ \A o \in Processes \ {q} : job'[o].record.tried # n
      <4>1. q # p /\ At(q, "scored") /\ job'[q] = job[q]
        BY <1>1, <2>4, <3>1
      <4>2. r.tried # n
        BY <4>1, <2>1, <2>5, <1>5 DEF Front, Scoring
      <4> QED
        BY <1>1, <1>5, <4>1, <4>2 DEF Front, Scoring
    <3>2. ASSUME NEW q \in Processes, At(q, "validating")'
          PROVE  job'[q].record.tried < Maximum /\ job'[q].record.state = "training"
      BY <1>1, <1>5, <3>2 DEF Front, Scoring, At
    <3> QED
      BY <3>1, <3>2 DEF Scoring
  <2> QED
    BY <1>1, <1>5, <2>2, <2>3, <2>6 DEF Front, Journal, Before
<1> QED
  BY <1>2, <1>3, <1>4, <1>5 DEF DevInv

(* Records on disk and in commands are typed and could have been decided.   *)
LEMMA KnownRecords ==
  ASSUME DevInv
  PROVE  /\ campaign \in Record /\ Tenable(campaign)
         /\ \A p \in Processes : job[p].record \in Record /\ Tenable(job[p].record)
         /\ model \in 0 .. Maximum
BY DEF DevInv, DevTypes, Front, Copies

LEMMA ClosedRecord ==
  ASSUME NEW r \in Record, Tenable(r), NEW status \in Statuses,
         status = "qualified_convergence" => r.tried >= Minimum
  PROVE  /\ Closed(r, status) \in Record /\ Tenable(Closed(r, status))
         /\ Closed(r, status).tried = r.tried /\ Closed(r, status).state = "terminal"
         /\ Closed(r, status).best = r.best /\ Closed(r, status).status = status
BY DEF Closed, Record, Tenable, States

LEMMA ExecuteStep ==
  ASSUME DevInv, NEW p \in Processes, Execute(p)
  PROVE  DevInv'
<1>1. job' = [job EXCEPT ![p] = [place |-> "executing", record |-> campaign]]
  BY DEF Execute, Become
<1>2. /\ ~Before
      /\ UNCHANGED <<campaign, development, progress, screened, scored, model>>
  BY DEF Execute, Before, sealed
<1> QED
  BY <1>1, <1>2, KnownRecords, PlaceStep

LEMMA OpenValidationStep ==
  ASSUME DevInv, NEW p \in Processes, OpenValidation(p)
  PROVE  DevInv'
<1>1. job' = [job EXCEPT ![p] = [place |-> "validating", record |-> campaign]]
  BY DEF OpenValidation, Become
<1>2. /\ ~Before /\ campaign.tried < Maximum /\ campaign.state = "training"
      /\ development.campaign # "unopened"
      /\ UNCHANGED <<campaign, development, progress, screened, scored, model>>
  BY DEF OpenValidation, Before, sealed
<1> QED
  BY <1>1, <1>2, KnownRecords, PlaceStep

LEMMA DecideStep ==
  ASSUME DevInv, NEW p \in Processes, NEW status \in Statuses, Decide(p, status)
  PROVE  DevInv'
<1> DEFINE r == Closed(campaign, status)
<1>1. job' = [job EXCEPT ![p] = [place |-> "finishing", record |-> r]]
  BY DEF Decide, Become
<1>2. /\ ~Before
      /\ UNCHANGED <<campaign, development, progress, screened, scored, model>>
  BY DEF Decide, Before, sealed
<1>3. status = "qualified_convergence" => campaign.tried >= Minimum
  BY DEF Decide, Supports
<1>4. r \in Record /\ Tenable(r) /\ r.tried = campaign.tried /\ r.state = "terminal"
  BY <1>3, KnownRecords, ClosedRecord
<1> HIDE DEF r
<1> QED
  BY <1>1, <1>2, <1>4, KnownRecords, PlaceStep

(* A command ends, or its process does: its copy of the record is gone.     *)
LEMMA QuitStep ==
  ASSUME DevInv, NEW p \in Processes, Quit(p),
         UNCHANGED <<campaign, development, progress, screened, scored, model>>
  PROVE  DevInv'
<1>1. job' = [job EXCEPT ![p] = [place |-> "idle", record |-> NoCampaign]]
  BY DEF Quit, Idle
<1> QED
  BY <1>1, Blank, KnownRecords, PlaceStep

LEMMA ValidationRaisesStep ==
  ASSUME DevInv, NEW p \in Processes, ValidationRaises(p)
  PROVE  DevInv'
<1>1. UNCHANGED <<campaign, development, progress, screened, scored, model>>
  BY DEF ValidationRaises
<1>2. CASE errored
  BY <1>1, <1>2, QuitStep DEF ValidationRaises
<1>3. CASE ~errored
  <2> DEFINE r == Closed(job[p].record, "failed_to_improve")
  <2>1. job' = [job EXCEPT ![p] = [place |-> "failing", record |-> r]]
    BY <1>3 DEF ValidationRaises, Become
  <2>2. r \in Record /\ Tenable(r) /\ r.tried = job[p].record.tried /\ r.state = "terminal"
    BY KnownRecords, ClosedRecord DEF Statuses
  <2>3. ~Before /\ ~At(p, "scored")
    BY DEF ValidationRaises, At, DevInv, ScreenInv, Stage, Screening
  <2> HIDE DEF r
  <2> QED
    BY <1>1, <2>1, <2>2, <2>3, KnownRecords, PlaceStep
<1> QED
  BY <1>2, <1>3

LEMMA CopyModelStep ==
  ASSUME DevInv, NEW p \in Processes, CopyModel(p)
  PROVE  DevInv'
<1>1. UNCHANGED <<campaign, development, progress, screened, scored>> /\ model' \in 0 .. Maximum
  BY KnownRecords DEF CopyModel, Record
<1>2. CASE Quit(p)
  <2>1. job' = [job EXCEPT ![p] = [place |-> "idle", record |-> NoCampaign]]
    BY <1>2 DEF Quit, Idle
  <2> QED
    BY <1>1, <2>1, Blank, PlaceStep
<1>3. CASE Become(p, "reporting", campaign) /\ campaign.state = "terminal"
  <2>1. job' = [job EXCEPT ![p] = [place |-> "reporting", record |-> campaign]] /\ ~Before
    BY <1>3 DEF Become, Before
  <2> QED
    BY <1>1, <2>1, KnownRecords, PlaceStep
<1> QED
  BY <1>2, <1>3 DEF CopyModel

LEMMA StillStep ==
  ASSUME DevInv, UNCHANGED <<campaign, development, progress, screened, scored, model, job>>
  PROVE  DevInv'
<1>1. DevTypes'
  BY DEF DevInv, DevTypes
<1>2. ScreenInv'
  BY DEF DevInv, ScreenInv, Passed, Stage, Alone, At, Before
<1>3. Training'
  BY DEF DevInv, Training, At
<1>4. ASSUME NEW n \in 0 .. Maximum, Front(n)
      PROVE  Front(n)'
  BY <1>4 DEF Front, Journal, Copies, Recorded, Scoring, At, Before, Tenable
<1> QED
  BY <1>1, <1>2, <1>3, <1>4 DEF DevInv

(* Before the campaign is recorded no boundary is scored and no copy of the *)
(* record has tried one.                                                    *)
LEMMA EarlyStep ==
  ASSUME DevInv, NEW p \in Processes, Before, UNCHANGED <<progress, scored>>,
         NEW place \in Screening \cup {"idle", "beginning", "publishing"},
         NEW r \in Record, Tenable(r), r.tried = 0,
         campaign' \in Record, Tenable(campaign'), campaign'.tried = 0,
         job' \in [Processes -> [place : Places, record : Record]],
         job'[p].place = place, job'[p].record = r,
         \A q \in Processes : q # p => job'[q] = job[q]
  PROVE  Training' /\ \E n \in 0 .. Maximum : Front(n)'
<1>1. \A q \in Processes : job'[q].place \notin {"training", "validating", "scored"}
  BY DEF DevInv, ScreenInv, Stage, Screening
<1>2. PICK n \in 0 .. Maximum : Front(n)
  BY DEF DevInv
<1>3. n = 0
  BY <1>2 DEF Front
<1>4. Copies(n)'
  BY <1>2, <1>3 DEF Front, Copies, Tenable
<1>5. Training' /\ Recorded(n)' /\ Scoring(n)'
  BY <1>1, <1>3 DEF Training, Recorded, Scoring, At
<1> QED
  BY <1>2, <1>3, <1>4, <1>5 DEF Front, Journal, Before

LEMMA EarlyRecords ==
  ASSUME DevInv, Before
  PROVE  campaign.tried = 0 /\ \A p \in Processes : job[p].record.tried = 0
BY DEF DevInv, DevTypes, Record, Front, Copies

(* The screen.                                                              *)
LEMMA BeginScreenStep ==
  ASSUME DevInv, NEW p \in Processes, BeginScreen(p)
  PROVE  DevInv'
<1>1. /\ campaign \in Record /\ Tenable(campaign) /\ Before
      /\ UNCHANGED <<campaign, progress, screened, scored, model>>
      /\ At(p, "idle") /\ campaign.state = "awaiting_screen"
  BY KnownRecords DEF BeginScreen, Before, sealed
<1>2. /\ job' \in [Processes -> [place : Places, record : Record]]
      /\ job'[p].place = "screening" /\ job'[p].record = campaign
      /\ \A q \in Processes : q # p => job'[q] = job[q]
  BY <1>1, Moved DEF BeginScreen, DevInv, Places
<1>3. /\ development.screen = "unopened" /\ development'.screen = "open"
      /\ development'.campaign = development.campaign
      /\ development' \in [screen : {"unopened", "open", "passed", "failed"},
                          campaign : {"unopened", "open", "passed", "failed"}]
  BY DEF BeginScreen, Settled, DevInv, DevTypes
<1>4. DevTypes'
  BY <1>1, <1>2, <1>3 DEF DevInv, DevTypes
<1>5. \A q \in Processes : job[q].place \notin Screening
  BY <1>3 DEF DevInv, ScreenInv, Stage, Screening
<1>6. ScreenInv'
  <2>1. Alone'
    BY <1>2, <1>5 DEF DevInv, ScreenInv, Alone, At, Screening
  <2>2. ASSUME NEW q \in Processes
        PROVE  Stage(q)'
    <3>1. CASE q = p
      BY <1>1, <1>2, <1>3, <3>1 DEF Stage, At, Screening, Before
    <3>2. CASE q # p
      BY <1>1, <1>2, <1>3, <1>5, <3>2 DEF DevInv, ScreenInv, Stage, At, Screening, Before
    <3> QED
      BY <3>1, <3>2
  <2> QED
    BY <1>1, <1>3, <2>1, <2>2 DEF DevInv, ScreenInv, Passed
<1>7. Training' /\ \E n \in 0 .. Maximum : Front(n)'
  BY <1>1, <1>2, EarlyRecords, EarlyStep DEF Screening
<1> QED
  BY <1>4, <1>6, <1>7 DEF DevInv

(* The one command at work on the screen.                                   *)
LEMMA ScreeningAlone ==
  ASSUME DevInv, NEW p \in Processes, job[p].place \in Screening
  PROVE  /\ Before /\ campaign.state = "awaiting_screen"
         /\ \A q \in Processes : q # p => job[q].place \notin Screening
BY DEF DevInv, ScreenInv, Stage, Alone, Before

LEMMA ScreenStep ==
  ASSUME DevInv, NEW p \in Processes, NEW v \in {"passed", "failed"}, Screen(p, v)
  PROVE  DevInv'
<1>1. /\ UNCHANGED <<campaign, development, progress, scored, model>> /\ screened' = v
      /\ job[p].place = "screening" /\ screened = "none"
  BY DEF Screen, At
<1>2. /\ job' \in [Processes -> [place : Places, record : Record]]
      /\ job'[p].place = "screened" /\ job'[p].record = job[p].record
      /\ \A q \in Processes : q # p => job'[q] = job[q]
  BY KnownRecords, Moved DEF Screen, DevInv, Places
<1>3. /\ Before /\ campaign.state = "awaiting_screen"
      /\ \A q \in Processes : q # p => job[q].place \notin Screening
  BY <1>1, ScreeningAlone DEF Screening
<1>4. DevTypes'
  BY <1>1, <1>2 DEF DevInv, DevTypes
<1>5. development.screen = "open"
  BY <1>1 DEF DevInv, ScreenInv, Stage
<1>6. ScreenInv'
  <2>1. Alone'
    BY <1>1, <1>2 DEF DevInv, ScreenInv, Alone, At, Screening
  <2>2. ASSUME NEW q \in Processes
        PROVE  Stage(q)'
    <3>1. CASE q = p
      BY <1>1, <1>2, <1>3, <1>5, <3>1 DEF Stage, At, Screening, Before
    <3>2. CASE q # p
      BY <1>1, <1>2, <1>3, <3>2 DEF DevInv, ScreenInv, Stage, At, Screening, Before
    <3> QED
      BY <3>1, <3>2
  <2> QED
    BY <1>1, <1>5, <2>1, <2>2 DEF DevInv, ScreenInv, Passed
<1>7. Training' /\ \E n \in 0 .. Maximum : Front(n)'
  BY <1>1, <1>2, <1>3, KnownRecords, EarlyRecords, EarlyStep DEF Screening
<1> QED
  BY <1>4, <1>6, <1>7 DEF DevInv

LEMMA CompleteScreenStep ==
  ASSUME DevInv, NEW p \in Processes, CompleteScreen(p)
  PROVE  DevInv'
<1> DEFINE r == IF screened = "passed" THEN [job[p].record EXCEPT !.state = "screen_passed"]
                ELSE Closed(job[p].record, "failed_to_improve")
<1>1. /\ UNCHANGED <<campaign, progress, screened, scored, model>>
      /\ job[p].place = "screened" /\ screened \in {"passed", "failed"}
  BY DEF CompleteScreen, At, sealed, DevInv, DevTypes, ScreenInv, Stage
<1>2. /\ r \in Record /\ Tenable(r) /\ r.tried = job[p].record.tried
      /\ r.state \in {"screen_passed", "terminal"}
  <2>1. CASE screened = "passed"
    BY <2>1, KnownRecords DEF Record, States, Tenable
  <2>2. CASE screened # "passed"
    BY <2>2, KnownRecords, ClosedRecord DEF Statuses
  <2> QED
    BY <2>1, <2>2
<1>3. job' = [job EXCEPT ![p] = [place |-> "closing screen", record |-> r]]
  BY DEF CompleteScreen, Become
<1> HIDE DEF r
<1>4. /\ job' \in [Processes -> [place : Places, record : Record]]
      /\ job'[p].place = "closing screen" /\ job'[p].record = r
      /\ \A q \in Processes : q # p => job'[q] = job[q]
  BY <1>2, <1>3 DEF DevInv, DevTypes, Places
<1>5. /\ Before /\ campaign.state = "awaiting_screen"
      /\ \A q \in Processes : q # p => job[q].place \notin Screening
  BY <1>1, ScreeningAlone DEF Screening
<1>6. /\ development'.screen = screened /\ development'.campaign = development.campaign
      /\ development' \in [screen : {"unopened", "open", "passed", "failed"},
                          campaign : {"unopened", "open", "passed", "failed"}]
      /\ development.screen = "open"
  BY <1>1 DEF CompleteScreen, Settled, DevInv, DevTypes, ScreenInv, Stage
<1>7. DevTypes'
  BY <1>1, <1>4, <1>6 DEF DevInv, DevTypes
<1>8. ScreenInv'
  <2>1. Alone'
    BY <1>1, <1>4 DEF DevInv, ScreenInv, Alone, At, Screening
  <2>2. ASSUME NEW q \in Processes
        PROVE  Stage(q)'
    <3>1. CASE q = p
      BY <1>1, <1>2, <1>4, <1>5, <1>6, <3>1 DEF Stage, At, Screening, Before
    <3>2. CASE q # p
      BY <1>1, <1>4, <1>5, <1>6, <3>2 DEF DevInv, ScreenInv, Stage, At, Screening, Before
    <3> QED
      BY <3>1, <3>2
  <2> QED
    BY <1>1, <1>6, <2>1, <2>2 DEF DevInv, ScreenInv, Passed
<1>9. Training' /\ \E n \in 0 .. Maximum : Front(n)'
  BY <1>1, <1>2, <1>4, <1>5, KnownRecords, EarlyRecords, EarlyStep DEF Screening
<1> QED
  BY <1>7, <1>8, <1>9 DEF DevInv

LEMMA CloseScreenStep ==
  ASSUME DevInv, NEW p \in Processes, CloseScreen(p)
  PROVE  DevInv'
<1>1. /\ UNCHANGED <<development, progress, screened, scored, model>>
      /\ campaign' = job[p].record /\ job[p].place = "closing screen"
      /\ campaign'.state \in {"screen_passed", "terminal"}
  BY DEF CloseScreen, At, sealed, DevInv, ScreenInv, Stage
<1>2. PICK place \in {"publishing", "idle"} :
        /\ job' = [job EXCEPT ![p] = [place |-> place, record |-> NoCampaign]]
        /\ campaign'.state = "terminal" \/ place = "idle"
  BY DEF CloseScreen, Become, Quit, Idle
<1>3. /\ job' \in [Processes -> [place : Places, record : Record]]
      /\ job'[p].place = place /\ job'[p].record = NoCampaign
      /\ \A q \in Processes : q # p => job'[q] = job[q]
  BY <1>2, Blank DEF DevInv, DevTypes, Places
<1>4. /\ Before /\ campaign.state = "awaiting_screen"
      /\ \A q \in Processes : q # p => job[q].place \notin Screening
  BY <1>1, ScreeningAlone DEF Screening
<1>5. DevTypes'
  BY <1>1, <1>3, KnownRecords DEF DevInv, DevTypes
<1>6. ScreenInv'
  <2>1. Alone'
    BY <1>3 DEF DevInv, ScreenInv, Alone, At, Screening
  <2>2. ASSUME NEW q \in Processes
        PROVE  Stage(q)'
    <3>1. CASE q = p
      BY <1>1, <1>2, <1>3, <3>1 DEF Stage, At, Screening, Before
    <3>2. CASE q # p
      BY <1>1, <1>3, <1>4, <3>2 DEF DevInv, ScreenInv, Stage, At, Screening, Before
    <3> QED
      BY <3>1, <3>2
  <2> QED
    BY <1>1, <2>1, <2>2 DEF DevInv, ScreenInv, Passed
<1>7. Training' /\ \E n \in 0 .. Maximum : Front(n)'
  BY <1>1, <1>2, <1>3, <1>4, Blank, KnownRecords, EarlyRecords, EarlyStep DEF Screening
<1> QED
  BY <1>5, <1>6, <1>7 DEF DevInv

(* The opening of the campaign.                                             *)
LEMMA BeginCampaignStep ==
  ASSUME DevInv, NEW p \in Processes, BeginCampaign(p)
  PROVE  DevInv'
<1> DEFINE r == [campaign EXCEPT !.state = "training"]
<1>1. /\ UNCHANGED <<campaign, progress, screened, scored, model>>
      /\ campaign.state = "screen_passed" /\ Before
      /\ development.campaign = "unopened" /\ development.screen = "passed"
  BY DEF BeginCampaign, Before, sealed
<1>2. r \in Record /\ Tenable(r) /\ r.tried = campaign.tried
  BY KnownRecords DEF Record, States, Tenable
<1>3. job' = [job EXCEPT ![p] = [place |-> "beginning", record |-> r]]
  BY DEF BeginCampaign, Become
<1> HIDE DEF r
<1>4. /\ job' \in [Processes -> [place : Places, record : Record]]
      /\ job'[p].place = "beginning" /\ job'[p].record = r
      /\ \A q \in Processes : q # p => job'[q] = job[q]
  BY <1>2, <1>3 DEF DevInv, DevTypes, Places
<1>5. /\ development'.screen = development.screen /\ development'.campaign = "open"
      /\ development' \in [screen : {"unopened", "open", "passed", "failed"},
                          campaign : {"unopened", "open", "passed", "failed"}]
  BY DEF BeginCampaign, Settled, DevInv, DevTypes
<1>6. DevTypes'
  BY <1>1, <1>4, <1>5 DEF DevInv, DevTypes
<1>7. ScreenInv'
  <2>1. \A q \in Processes : ~At(q, "beginning") /\ job[q].place \notin Screening
    BY <1>1 DEF DevInv, ScreenInv, Stage
  <2>2. Alone'
    BY <1>4, <2>1 DEF Alone, At, Screening
  <2>3. ASSUME NEW q \in Processes
        PROVE  Stage(q)'
    <3>1. CASE q = p
      BY <1>1, <1>4, <1>5, <3>1 DEF Stage, At, Screening, Before
    <3>2. CASE q # p
      BY <1>1, <1>4, <1>5, <2>1, <3>2 DEF DevInv, ScreenInv, Stage, At, Screening, Before
    <3> QED
      BY <3>1, <3>2
  <2> QED
    BY <1>1, <1>5, <2>2, <2>3 DEF DevInv, ScreenInv, Passed
<1>8. Training' /\ \E n \in 0 .. Maximum : Front(n)'
  BY <1>1, <1>2, <1>4, KnownRecords, EarlyRecords, EarlyStep
<1> QED
  BY <1>6, <1>7, <1>8 DEF DevInv

LEMMA CampaignBegunStep ==
  ASSUME DevInv, NEW p \in Processes, CampaignBegun(p)
  PROVE  DevInv'
<1>1. /\ UNCHANGED <<development, progress, screened, scored, model>>
      /\ campaign' = job[p].record /\ At(p, "beginning")
  BY DEF CampaignBegun, sealed
<1>2. /\ job' \in [Processes -> [place : Places, record : Record]]
      /\ job'[p].place = "idle" /\ job'[p].record = NoCampaign
      /\ \A q \in Processes : q # p => job'[q] = job[q]
  BY Left DEF CampaignBegun, DevInv
<1>3. campaign.state = "screen_passed" /\ Before
  BY <1>1 DEF DevInv, ScreenInv, Stage, Before
<1>4. \A q \in Processes : q # p => job[q].place = "idle"
  BY <1>1, <1>3 DEF DevInv, ScreenInv, Stage, Alone, At, Screening
<1>5. DevTypes'
  BY <1>1, <1>2, KnownRecords DEF DevInv, DevTypes
<1>6. ScreenInv'
  <2>1. \A q \in Processes : job'[q].place = "idle"
    BY <1>2, <1>4
  <2> QED
    BY <1>1, <2>1 DEF DevInv, ScreenInv, Passed, Stage, Alone, At, Screening, Before
<1>7. Training' /\ \E n \in 0 .. Maximum : Front(n)'
  BY <1>1, <1>2, <1>3, Blank, KnownRecords, EarlyRecords, EarlyStep DEF Screening
<1> QED
  BY <1>5, <1>6, <1>7 DEF DevInv

(* Once the campaign is recorded, no command is at work on the screen.      *)
LEMMA ScreenKept ==
  ASSUME DevInv, NEW p \in Processes, ~Before, ~Before', UNCHANGED screened,
         development'.screen = development.screen,
         development'.campaign # "unopened" <=> development.campaign # "unopened",
         NEW place \in Places \ (Screening \cup {"beginning"}), NEW r \in Record,
         job'[p].place = place, job'[p].record = r,
         \A q \in Processes : q # p => job'[q] = job[q],
         place = "validating" => development.campaign # "unopened",
         place \in {"failing", "finishing"} => r.state = "terminal"
  PROVE  ScreenInv'
<1>1. \A q \in Processes : job'[q].place \notin Screening \cup {"beginning"}
  BY DEF DevInv, ScreenInv, Stage, Screening, At, Before
<1>2. Alone'
  BY <1>1 DEF Alone, At
<1>3. ASSUME NEW q \in Processes
      PROVE  Stage(q)'
  <2>1. CASE q = p
    BY <1>1, <2>1 DEF Stage, At, Screening, Before
  <2>2. CASE q # p
    BY <1>1, <2>2 DEF DevInv, ScreenInv, Stage, At, Screening, Before
  <2> QED
    BY <2>1, <2>2
<1> QED
  BY <1>2, <1>3 DEF DevInv, ScreenInv, Passed

LEMMA Recording ==
  ASSUME DevInv, NEW p \in Processes,
         job[p].place \notin Screening \cup {"idle", "beginning"}
  PROVE  ~Before
BY DEF DevInv, ScreenInv, Stage

(* The executor.                                                            *)
LEMMA LockStep ==
  ASSUME DevInv, NEW p \in Processes, Lock(p)
  PROVE  DevInv'
<1> DEFINE r == job[p].record
<1>1. /\ UNCHANGED <<campaign, development, screened, scored, model>>
      /\ At(p, "executing") /\ r \in Record /\ ~Before
  BY KnownRecords, Recording DEF Lock, sealed, At, Screening
<1>2. CASE Unlocked /\ Descends(r)
  <2>1. job' = [job EXCEPT ![p] = [place |-> "training", record |-> r]]
    BY <1>2 DEF Lock, Become
  <2>2. /\ job' \in [Processes -> [place : Places, record : Record]]
        /\ job'[p].place = "training" /\ job'[p].record = r
        /\ \A q \in Processes : q # p => job'[q] = job[q]
    BY <1>1, <2>1 DEF DevInv, DevTypes, Places
  <2>3. UNCHANGED progress
    <3>1. progress.validated # progress.validated + 1
      BY DEF DevInv, DevTypes
    <3>2. ~Reconciles(r)
      BY <1>2, <3>1 DEF Descends, Reconciles
    <3> QED
      BY <3>2 DEF Lock
  <2>4. DevTypes'
    BY <1>1, <2>2, <2>3 DEF DevInv, DevTypes
  <2>5. ScreenInv'
    BY <1>1, <2>2, ScreenKept DEF Places, Screening, Before
  <2>6. Training'
    BY <1>2, <2>2, <2>3 DEF Training, Unlocked, Descends, At
  <2>7. ASSUME NEW n \in 0 .. Maximum, Front(n)
        PROVE  Front(n)'
    <3>1. Copies(n)'
      BY <1>1, <2>2, <2>7 DEF Front, Copies, Tenable
    <3>2. Recorded(n)' /\ Scoring(n)'
      BY <1>1, <2>2, <2>3, <2>7 DEF Front, Recorded, Scoring, At
    <3> QED
      BY <1>1, <2>3, <2>7, <3>1, <3>2 DEF Front, Journal, Before
  <2> QED
    BY <2>4, <2>5, <2>6, <2>7 DEF DevInv
<1>3. CASE Unlocked /\ Reconciles(r) /\ ~Descends(r)
  <2>1. PICK limited \in BOOLEAN :
          progress' = [progress EXCEPT !.validated = r.tried, !.limited = limited]
    BY <1>3 DEF Lock
  <2>2. /\ job' \in [Processes -> [place : Places, record : Record]]
        /\ job'[p].place = "idle" /\ job'[p].record = NoCampaign
        /\ \A q \in Processes : q # p => job'[q] = job[q]
    BY <1>3, Left DEF Lock, DevInv
  <2>3. /\ progress'.validated = r.tried /\ progress'.cursor = progress.cursor
        /\ progress' \in [cursor : Nat, validated : Nat, limited : BOOLEAN, boundary : Int]
    <3>1. r.tried \in Nat
      BY <1>1, Parameters DEF Record
    <3> QED
      BY <2>1, <3>1 DEF DevInv, DevTypes
  <2>4. DevTypes'
    BY <1>1, <2>2, <2>3 DEF DevInv, DevTypes
  <2>5. ScreenInv'
    BY <1>1, <2>2, Blank, ScreenKept DEF Places, Screening, Before
  <2>6. Training'
    BY <1>3, <2>2 DEF Training, Unlocked, At
  <2>7. ASSUME NEW n \in 0 .. Maximum, Front(n)
        PROVE  Front(n)'
    <3>1. r.tried = n /\ n = progress.validated + 1 /\ progress.cursor = Interval * n
      BY <1>1, <1>3, <2>7, Parameters
         DEF Front, Copies, Journal, Reconciles, DevInv, DevTypes, Record
    <3>2. Copies(n)'
      BY <1>1, <2>2, <2>7, Blank, Parameters DEF Front, Copies, Tenable
    <3>3. campaign.state = "training" => campaign.tried = n
      BY <1>1, <2>7, <3>1 DEF Front, Recorded, At
    <3>4. \A q \in Processes : ~At(q, "scored")
      BY <1>1, <2>7, <3>1 DEF Front, Scoring, At
    <3>5. Recorded(n)' /\ Scoring(n)'
      BY <1>1, <2>2, <2>7, <3>3, <3>4 DEF Front, Recorded, Scoring, At
    <3>6. Journal(n)'
      BY <2>3, <3>1, Parameters DEF Journal, DevInv, DevTypes
    <3> QED
      BY <1>1, <2>7, <3>2, <3>5, <3>6 DEF Front, Before
  <2> QED
    BY <2>4, <2>5, <2>6, <2>7 DEF DevInv
<1>4. CASE ~Unlocked \/ (~Reconciles(r) /\ ~Descends(r))
  BY <1>1, <1>4, QuitStep DEF Lock
<1> QED
  BY <1>2, <1>3, <1>4

LEMMA UpdateStep ==
  ASSUME DevInv, NEW p \in Processes, Update(p)
  PROVE  DevInv'
<1> DEFINE r == job[p].record
<1>1. /\ UNCHANGED <<campaign, development, screened, scored, model, job>>
      /\ progress.cursor < Target(r) /\ r.tried = progress.validated
  BY DEF Update, sealed, DevInv, Training
<1>2. PICK limited \in BOOLEAN, m \in 0 .. 1 :
        progress' = [progress EXCEPT !.cursor = @ + m, !.limited = limited]
  BY DEF Update
<1>3. /\ progress' \in [cursor : Nat, validated : Nat, limited : BOOLEAN, boundary : Int]
      /\ progress'.validated = progress.validated
      /\ progress'.cursor = progress.cursor + m
  <2>1. progress.cursor + m \in Nat
    BY DEF DevInv, DevTypes
  <2> QED
    BY <1>2, <2>1 DEF DevInv, DevTypes
<1>4. DevTypes'
  BY <1>1, <1>3 DEF DevInv, DevTypes
<1>5. ScreenInv'
  BY <1>1 DEF DevInv, ScreenInv, Passed, Stage, Alone, At, Before
<1>6. Training'
  BY <1>1, <1>3 DEF DevInv, Training, At
<1>7. ASSUME NEW n \in 0 .. Maximum, Front(n)
      PROVE  Front(n)'
  <2>1. /\ r.tried <= n /\ r.tried \in Nat /\ n \in Nat /\ n <= Maximum
        /\ progress.cursor \in Nat
    BY <1>7, KnownRecords, Parameters DEF Front, Copies, Record, DevInv, DevTypes
  <2>2. Interval * (r.tried + 1) = Interval * r.tried + Interval
    BY <2>1, Parameters
  <2>3. n = progress.validated /\ progress.cursor < Interval * n + Interval
    <3>1. CASE r.tried + 1 < Maximum
      BY <1>1, <1>7, <2>1, <2>2, <3>1, Parameters DEF Front, Journal, Target, Smaller
    <3>2. CASE r.tried + 1 = Maximum
      BY <1>1, <1>7, <2>1, <2>2, <3>2, Parameters DEF Front, Journal, Target, Smaller
    <3>3. CASE r.tried = Maximum
      BY <1>1, <1>7, <2>1, <3>3, Parameters DEF Front, Journal, Target, Smaller
    <3>4. r.tried + 1 < Maximum \/ r.tried + 1 = Maximum \/ r.tried = Maximum
      BY <2>1, Parameters
    <3> QED
      BY <3>1, <3>2, <3>3, <3>4
  <2>4. Interval * n \in Nat
    BY <2>1, Parameters
  <2>5. Journal(n)'
    BY <1>3, <1>7, <2>1, <2>3, <2>4, Parameters DEF Front, Journal
  <2>6. Copies(n)' /\ Recorded(n)' /\ Scoring(n)'
    BY <1>1, <1>3, <1>7 DEF Front, Copies, Recorded, Scoring, At, Tenable
  <2> QED
    BY <1>1, <1>7, <2>5, <2>6 DEF Front, Before
<1> QED
  BY <1>4, <1>5, <1>6, <1>7 DEF DevInv

LEMMA EndBlockStep ==
  ASSUME DevInv, NEW p \in Processes, EndBlock(p)
  PROVE  DevInv'
<1>1. /\ UNCHANGED <<campaign, development, screened, scored, model>>
      /\ At(p, "training") /\ ~Before
  BY Recording DEF EndBlock, sealed, At, Screening
<1>2. /\ job' \in [Processes -> [place : Places, record : Record]]
      /\ job'[p].place = "idle" /\ job'[p].record = NoCampaign
      /\ \A q \in Processes : q # p => job'[q] = job[q]
  BY Left DEF EndBlock, DevInv
<1>3. progress.cursor \div Interval \in Int
  BY Parameters DEF DevInv, DevTypes
<1>4. /\ progress'.validated = progress.validated /\ progress'.cursor = progress.cursor
      /\ progress' \in [cursor : Nat, validated : Nat, limited : BOOLEAN, boundary : Int]
  BY <1>3 DEF EndBlock, DevInv, DevTypes
<1>5. DevTypes'
  BY <1>1, <1>2, <1>4 DEF DevInv, DevTypes
<1>6. ScreenInv'
  BY <1>1, <1>2, Blank, ScreenKept DEF Places, Screening, Before
<1>7. Training'
  BY <1>2, <1>4 DEF DevInv, Training, At
<1>8. ASSUME NEW n \in 0 .. Maximum, Front(n)
      PROVE  Front(n)'
  <2>1. Copies(n)'
    BY <1>1, <1>2, <1>8, Blank, Parameters DEF Front, Copies, Tenable
  <2>2. Recorded(n)'
    <3>1. ASSUME n = campaign.tried + 1
          PROVE  job'[p].record.tried # n
      BY <1>1, <1>2, <3>1, Blank, KnownRecords, Parameters DEF Record
    <3> QED
      BY <1>1, <1>2, <1>4, <1>8, <3>1 DEF Front, Recorded, At
  <2>3. Scoring(n)'
    <3>1. ASSUME NEW q \in Processes, At(q, "scored")'
          PROVE  /\ job'[q].record.tried = n /\ n = progress'.validated + 1
                 /\ job'[q].record.state = "training" /\ campaign'.tried # n
                 /\ \A o \in Processes \ {q} : job'[o].record.tried # n
      <4>1. q # p /\ At(q, "scored") /\ job'[q] = job[q]
        BY <1>2, <3>1 DEF At
      <4>2. job'[p].record.tried # n
        BY <1>2, <1>8, <4>1, Blank DEF Front, Scoring, DevInv, DevTypes
      <4> QED
        BY <1>1, <1>2, <1>4, <1>8, <4>1, <4>2 DEF Front, Scoring
    <3> QED
      BY <1>2, <1>8, <3>1 DEF Front, Scoring, At
  <2>4. Journal(n)'
    BY <1>4, <1>8 DEF Front, Journal
  <2> QED
    BY <1>1, <1>8, <2>1, <2>2, <2>3, <2>4 DEF Front, Before
<1> QED
  BY <1>5, <1>6, <1>7, <1>8 DEF DevInv

(* The validation.                                                          *)
LEMMA ScoreStep ==
  ASSUME DevInv, NEW p \in Processes, NEW v \in {"passes", "fails"}, Score(p, v)
  PROVE  DevInv'
<1> DEFINE b == job[p].record.tried + 1
<1>1. PICK n \in 0 .. Maximum : Front(n)
  BY DEF DevInv
<1>2. /\ UNCHANGED <<campaign, development, progress, screened, model>>
      /\ At(p, "validating") /\ ~Before /\ development.campaign # "unopened"
      /\ scored[b] = "none" /\ scored' = [scored EXCEPT ![b] = v]
  BY Recording DEF Score, At, Screening, DevInv, ScreenInv, Stage
<1>3. /\ job[p].record \in Record /\ Tenable(job[p].record)
      /\ job[p].record.state = "training"
      /\ job[p].record.tried \in Nat /\ job[p].record.tried <= n /\ n \in Nat
      /\ progress.validated \in Nat
      /\ campaign.tried \in Nat
      /\ job[p].record.tried < Maximum
  BY <1>1, <1>2, KnownRecords, Parameters
     DEF Front, Copies, Scoring, Record, DevInv, DevTypes
<1>4. b \in Boundaries /\ b = n + 1
  <2>1. b \in Boundaries
    BY <1>3, Parameters DEF Boundaries
  <2> QED
    BY <1>1, <1>2, <1>3, <2>1 DEF Front
<1>5. n = progress.validated /\ progress.cursor = Interval * (n + 1) /\ b \in 0 .. Maximum
  BY <1>3, <1>4 DEF Score, AwaitsValidation, Descends, Boundaries
<1>6. PICK best \in {job[p].record.best, b} :
        job' = [job EXCEPT ![p] =
                  [place |-> "scored",
                   record |-> [job[p].record EXCEPT !.tried = b, !.best = best]]]
  BY DEF Score, Selected, Become
<1> DEFINE r == [job[p].record EXCEPT !.tried = b, !.best = best]
<1>7. /\ r \in Record /\ Tenable(r) /\ r.tried = b /\ r.state = "training"
  <2>1. /\ job[p].record.best \in 0 .. Maximum /\ job[p].record.best <= job[p].record.tried
        /\ job[p].record.best \in Nat
    BY <1>3, Parameters DEF Record, Tenable
  <2>2. best \in 0 .. Maximum /\ best <= b
    BY <1>3, <1>5, <2>1
  <2>3. r \in Record /\ r.tried = b /\ r.best = best /\ r.state = "training"
        /\ r.status = job[p].record.status
    BY <1>3, <1>5, <2>2 DEF Record
  <2> HIDE DEF r
  <2> QED
    BY <1>3, <2>2, <2>3, Parameters DEF Tenable
<1>8. job' = [job EXCEPT ![p] = [place |-> "scored", record |-> r]]
  BY <1>6
<1> HIDE DEF r
<1>9. /\ job' \in [Processes -> [place : Places, record : Record]]
      /\ job'[p].place = "scored" /\ job'[p].record = r
      /\ \A q \in Processes : q # p => job'[q] = job[q]
  BY <1>7, <1>8 DEF DevInv, DevTypes, Places
<1>10. DevTypes'
  BY <1>2, <1>4, <1>9 DEF DevInv, DevTypes
<1>11. ScreenInv'
  BY <1>2, <1>7, <1>9, ScreenKept DEF Places, Screening, Before
<1>12. Training'
  BY <1>2, <1>9 DEF DevInv, Training, At
<1>13. Front(n + 1)'
  <2>1. \A c \in Boundaries : scored'[c] # "none" <=> c <= n + 1
    <3>1. ASSUME NEW c \in Boundaries
          PROVE  scored'[c] # "none" <=> c <= n + 1
      <4>1. CASE c = b
        BY <1>2, <1>3, <1>4, <4>1 DEF DevInv, DevTypes
      <4>2. CASE c # b
        <5>1. scored'[c] = scored[c] /\ c \in Nat
          BY <1>2, <4>2, Parameters DEF DevInv, DevTypes, Boundaries
        <5> QED
          BY <1>1, <1>3, <1>4, <4>2, <5>1 DEF Front
      <4> QED
        BY <4>1, <4>2
    <3> QED
      BY <3>1
  <2>2. Journal(n + 1)'
    <3>1. progress.cursor = Interval * n + Interval /\ progress.cursor \in Nat
      BY <1>3, <1>5, Parameters DEF DevInv, DevTypes
    <3> QED
      BY <1>2, <1>3, <1>5, <3>1, Parameters DEF Journal
  <2>3. \A q \in Processes : q # p => job'[q].record.tried <= n /\ Tenable(job'[q].record)
                                   /\ job'[q].record.tried \in Nat
    BY <1>1, <1>9, Parameters DEF Front, Copies, DevInv, DevTypes, Record
  <2>4. Copies(n + 1)'
    <3>1. campaign'.tried <= n + 1 /\ Tenable(campaign)'
      BY <1>1, <1>2, <1>3 DEF Front, Copies, Tenable
    <3>2. ASSUME NEW q \in Processes
          PROVE  job'[q].record.tried <= n + 1 /\ Tenable(job'[q].record)
      BY <1>3, <1>4, <1>7, <1>9, <2>3
    <3> QED
      BY <3>1, <3>2 DEF Copies, Tenable
  <2>5. Recorded(n + 1)'
    <3>1. campaign.state = "training" => campaign.tried = n
      BY <1>1, <1>3, <1>5 DEF Front, Recorded
    <3>2. \A q \in Processes : job'[q].record.tried = n + 1 => At(q, "scored")'
      BY <1>3, <1>9, <2>3 DEF At
    <3> QED
      BY <1>2, <1>5, <3>1, <3>2 DEF Recorded
  <2>6. Scoring(n + 1)'
    <3>1. \A q \in Processes : ~At(q, "scored")
      BY <1>1, <1>3, <1>5 DEF Front, Scoring
    <3>2. campaign.tried # n + 1
      BY <1>1, <1>3 DEF Front, Copies
    <3>3. ASSUME NEW q \in Processes, At(q, "scored")'
          PROVE  /\ job'[q].record.tried = n + 1 /\ n + 1 = progress'.validated + 1
                 /\ job'[q].record.state = "training" /\ campaign'.tried # n + 1
                 /\ \A o \in Processes \ {q} : job'[o].record.tried # n + 1
      <4>1. q = p
        BY <1>9, <3>1, <3>3 DEF At
      <4>2. \A o \in Processes \ {p} : job'[o].record.tried # n + 1
        BY <1>3, <2>3
      <4> QED
        BY <1>2, <1>4, <1>5, <1>7, <1>9, <3>2, <4>1, <4>2
    <3>4. ASSUME NEW q \in Processes, At(q, "validating")'
          PROVE  job'[q].record.tried < Maximum /\ job'[q].record.state = "training"
      BY <1>1, <1>9, <3>4 DEF Front, Scoring, At
    <3> QED
      BY <3>3, <3>4 DEF Scoring
  <2> QED
    BY <1>2, <2>1, <2>2, <2>4, <2>5, <2>6 DEF Front, Before
<1>14. n + 1 \in 0 .. Maximum
  BY <1>4, <1>5
<1> QED
  BY <1>10, <1>11, <1>12, <1>13, <1>14 DEF DevInv

LEMMA RecordCandidateStep ==
  ASSUME DevInv, NEW p \in Processes, RecordCandidate(p)
  PROVE  DevInv'
<1>1. /\ UNCHANGED <<development, progress, screened, scored, model>>
      /\ campaign' = job[p].record /\ At(p, "scored") /\ ~Before
  BY Recording DEF RecordCandidate, sealed, At, Screening
<1>2. /\ job' \in [Processes -> [place : Places, record : Record]]
      /\ job'[p].place = "idle" /\ job'[p].record = NoCampaign
      /\ \A q \in Processes : q # p => job'[q] = job[q]
  BY Left DEF RecordCandidate, DevInv
<1>3. PICK n \in 0 .. Maximum : Front(n)
  BY DEF DevInv
<1>4. /\ campaign'.tried = n /\ campaign'.state = "training"
      /\ n = progress.validated + 1 /\ progress.validated \in Nat
      /\ \A q \in Processes : q # p => job[q].record.tried # n
  BY <1>1, <1>3 DEF Front, Scoring, DevInv, DevTypes
<1>5. DevTypes'
  BY <1>1, <1>2, KnownRecords DEF DevInv, DevTypes
<1>6. ScreenInv'
  BY <1>1, <1>2, <1>4, Blank, ScreenKept DEF Places, Screening, Before
<1>7. Training'
  BY <1>1, <1>2 DEF DevInv, Training, At
<1>8. Front(n)'
  <2>1. Copies(n)'
    BY <1>1, <1>2, <1>3, Blank, Parameters DEF Front, Copies, Tenable
  <2>2. Recorded(n)'
    BY <1>4 DEF Recorded
  <2>3. \A q \in Processes : ~At(q, "scored")'
    BY <1>2, <1>3, <1>4 DEF Front, Scoring, At
  <2>4. Scoring(n)'
    BY <1>1, <1>2, <1>3, <2>3 DEF Front, Scoring, At
  <2>5. (Before => n = 0)' /\ Journal(n)'
    BY <1>1, <1>3, <1>4 DEF Front, Journal, Before
  <2> QED
    BY <1>1, <1>3, <2>1, <2>2, <2>4, <2>5 DEF Front
<1> QED
  BY <1>5, <1>6, <1>7, <1>8 DEF DevInv

LEMMA CloseCampaignStep ==
  ASSUME DevInv, NEW p \in Processes, CloseCampaign(p)
  PROVE  DevInv'
<1>1. /\ UNCHANGED <<development, progress, screened, scored, model>>
      /\ campaign' = job[p].record /\ job[p].place \in {"failing", "finishing"} /\ ~Before
      /\ campaign'.state = "terminal"
  BY Recording DEF CloseCampaign, sealed, Screening, DevInv, ScreenInv, Stage
<1>2. /\ job' \in [Processes -> [place : Places, record : Record]]
      /\ job'[p].place = "closing campaign" /\ job'[p].record = job[p].record
      /\ \A q \in Processes : q # p => job'[q] = job[q]
  BY KnownRecords, Moved DEF CloseCampaign, DevInv, Places
<1>3. DevTypes'
  BY <1>1, <1>2, KnownRecords DEF DevInv, DevTypes
<1>4. ScreenInv'
  BY <1>1, <1>2, KnownRecords, ScreenKept DEF Places, Screening, Before
<1>5. Training'
  BY <1>1, <1>2 DEF DevInv, Training, At
<1>6. ASSUME NEW n \in 0 .. Maximum, Front(n)
      PROVE  Front(n)'
  <2>1. \A q \in Processes : job'[q].record = job[q].record
    BY <1>2
  <2>2. Copies(n)'
    BY <1>1, <1>6, <2>1 DEF Front, Copies, Tenable
  <2>3. \A q \in Processes : At(q, "scored")' => At(q, "scored") /\ q # p
    BY <1>2 DEF At
  <2>4. Scoring(n)'
    <3>1. ASSUME NEW q \in Processes, At(q, "scored")'
          PROVE  /\ job'[q].record.tried = n /\ n = progress'.validated + 1
                 /\ job'[q].record.state = "training" /\ campaign'.tried # n
                 /\ \A o \in Processes \ {q} : job'[o].record.tried # n
      BY <1>1, <1>6, <2>1, <2>3, <3>1 DEF Front, Scoring
    <3>2. ASSUME NEW q \in Processes, At(q, "validating")'
          PROVE  job'[q].record.tried < Maximum /\ job'[q].record.state = "training"
      BY <1>2, <1>6, <3>2 DEF Front, Scoring, At
    <3> QED
      BY <3>1, <3>2 DEF Scoring
  <2> QED
    BY <1>1, <1>6, <2>2, <2>4 DEF Front, Journal, Recorded, Before
<1> QED
  BY <1>3, <1>4, <1>5, <1>6 DEF DevInv

LEMMA CompleteCampaignStep ==
  ASSUME DevInv, NEW p \in Processes, CompleteCampaign(p)
  PROVE  DevInv'
<1>1. /\ UNCHANGED <<campaign, progress, screened, scored, model>>
      /\ At(p, "closing campaign") /\ ~Before
  BY Recording DEF CompleteCampaign, sealed, At, Screening
<1>2. CASE development.campaign # "open"
  BY <1>1, <1>2, QuitStep DEF CompleteCampaign
<1>3. CASE development.campaign = "open"
  <2>1. PICK end \in {"passed", "failed"} :
          development' = [development EXCEPT !["campaign"] = end]
    BY <1>3 DEF CompleteCampaign, Settled
  <2>2. /\ development'.screen = development.screen
        /\ development'.campaign \in {"passed", "failed"}
        /\ development' \in [screen : {"unopened", "open", "passed", "failed"},
                            campaign : {"unopened", "open", "passed", "failed"}]
    BY <2>1 DEF DevInv, DevTypes
  <2>3. /\ job' \in [Processes -> [place : Places, record : Record]]
        /\ job'[p].place = "publishing" /\ job'[p].record = NoCampaign
        /\ \A q \in Processes : q # p => job'[q] = job[q]
    BY <1>3, Blank, Moved DEF CompleteCampaign, DevInv, Places
  <2>8. job'[p].record.tried = 0 /\ Tenable(job'[p].record)
    BY <2>3, Blank
  <2>4. DevTypes'
    BY <1>1, <2>2, <2>3 DEF DevInv, DevTypes
  <2>5. ScreenInv'
    BY <1>1, <1>3, <2>2, <2>3, Blank, ScreenKept DEF Places, Screening, Before
  <2>6. Training'
    BY <1>1, <2>3 DEF DevInv, Training, At
  <2>7. ASSUME NEW n \in 0 .. Maximum, Front(n)
        PROVE  Front(n)'
    <3>1. Copies(n)'
      <4>1. ASSUME NEW q \in Processes
            PROVE  job'[q].record.tried <= n /\ Tenable(job'[q].record)
        BY <2>3, <2>7, <2>8, Parameters DEF Front, Copies
      <4>2. campaign'.tried <= n /\ Tenable(campaign')
        BY <1>1, <2>7 DEF Front, Copies
      <4> QED
        BY <4>1, <4>2 DEF Copies, Tenable
    <3>2. Recorded(n)'
      <4>1. ASSUME n = campaign.tried + 1
            PROVE  job'[p].record.tried # n
        <5>1. campaign.tried \in Nat
          BY KnownRecords, Parameters DEF Record
        <5> QED
          BY <2>8, <4>1, <5>1
      <4> QED
        BY <1>1, <2>3, <2>7, <4>1 DEF Front, Recorded, At
    <3>3. Scoring(n)'
      <4>1. ASSUME NEW q \in Processes, At(q, "scored")'
            PROVE  /\ job'[q].record.tried = n /\ n = progress'.validated + 1
                   /\ job'[q].record.state = "training" /\ campaign'.tried # n
                   /\ \A o \in Processes \ {q} : job'[o].record.tried # n
        <5>1. q # p /\ At(q, "scored") /\ job'[q] = job[q]
          BY <2>3, <4>1 DEF At
        <5>2. job'[p].record.tried # n
          BY <2>3, <2>7, <5>1, Blank DEF Front, Scoring, DevInv, DevTypes
        <5> QED
          BY <1>1, <2>3, <2>7, <5>1, <5>2 DEF Front, Scoring
      <4> QED
        BY <2>3, <2>7, <4>1 DEF Front, Scoring, At
    <3> QED
      BY <1>1, <2>2, <2>7, <3>1, <3>2, <3>3 DEF Front, Journal, Before
  <2> QED
    BY <2>4, <2>5, <2>6, <2>7 DEF DevInv
<1> QED
  BY <1>2, <1>3
-----------------------------------------------------------------------------
(* What the review bound, no later command changes: evidence and screen are *)
(* written once, and the model is copied once.                              *)
Reviewed ==
  review # NoReview =>
    LET record == review.report.campaign
    IN  /\ record \in Record
        /\ screened = "passed" /\ development.screen = "passed"
        /\ record.best \in 1 .. record.tried /\ scored[record.best] = "passes"
        /\ model = record.best /\ review.model = model
        /\ record.tried >= Minimum
        /\ \A b \in 1 .. record.tried : scored[b] # "none"

LEMMA ReviewKept ==
  ASSUME DevInv, Reviewed, UNCHANGED review,
         screened # "none" => screened' = screened,
         development.screen = "passed" => development'.screen = "passed",
         \A b \in Boundaries : scored[b] # "none" => scored'[b] = scored[b],
         model # 0 => model' = model
  PROVE  Reviewed'
<1> DEFINE record == review.report.campaign
<1> SUFFICES ASSUME review # NoReview
             PROVE  /\ screened' = "passed" /\ development'.screen = "passed"
                    /\ record.best \in 1 .. record.tried /\ scored'[record.best] = "passes"
                    /\ model' = record.best /\ review.model = model'
                    /\ \A b \in 1 .. record.tried : scored'[b] # "none"
  BY DEF Reviewed
<1>1. /\ record.best \in 1 .. record.tried /\ record.tried \in 0 .. Maximum
      /\ 1 .. record.tried \subseteq Boundaries
  BY Parameters DEF Reviewed, Record, Boundaries
<1> QED
  BY <1>1 DEF Reviewed

(* A reviewed campaign was decided on its own evidence: qualified, so at    *)
(* its minimum; recorded, so scored at every boundary.                      *)
LEMMA ReviewStep ==
  ASSUME DevInv, NEW p \in Processes, Review(p)
  PROVE  Reviewed'
<1>1. PICK n \in 0 .. Maximum : Front(n)
  BY DEF DevInv
<1>2. /\ review'.report.campaign = campaign /\ review'.model = model
      /\ campaign.status = "qualified_convergence" /\ campaign.best # 0
      /\ model = campaign.best /\ scored[campaign.best] = "passes"
      /\ UNCHANGED <<development, screened, scored, model>>
  BY DEF Review, Reviewable, ReportStands
<1>3. /\ campaign \in Record /\ campaign.tried \in Nat /\ campaign.best \in Nat
      /\ campaign.tried <= Maximum /\ n \in Nat
      /\ campaign.best <= campaign.tried /\ campaign.tried >= Minimum /\ campaign.tried <= n
  BY <1>1, <1>2, KnownRecords, Parameters DEF Record, Tenable, Front, Copies
<1>4. development.screen = "passed" /\ screened = "passed"
  BY <1>1, <1>3, Parameters DEF Front, DevInv, ScreenInv, Passed
<1>5. \A b \in 1 .. campaign.tried : scored[b] # "none"
  BY <1>1, <1>3, Parameters DEF Front, Boundaries
<1> QED
  BY <1>2, <1>3, <1>4, <1>5 DEF Reviewed

LEMMA DevelopStep ==
  ASSUME DevInv, Reviewed, NEW p \in Processes, Develop(p)
  PROVE  DevInv' /\ Reviewed'
<1>1. CASE BeginScreen(p)
  BY <1>1, BeginScreenStep, ReviewKept DEF BeginScreen, sealed, DevInv, DevTypes
<1>2. ASSUME NEW v \in {"passed", "failed"}, Screen(p, v)
      PROVE  DevInv' /\ Reviewed'
  BY <1>2, ScreenStep, ReviewKept DEF Screen
<1>3. CASE CompleteScreen(p)
  <2>1. development.screen # "passed"
    BY <1>3 DEF CompleteScreen, At, DevInv, ScreenInv, Stage
  <2> QED
    BY <1>3, <2>1, CompleteScreenStep, ReviewKept DEF CompleteScreen, sealed
<1>4. CASE CloseScreen(p)
  BY <1>4, CloseScreenStep, ReviewKept DEF CloseScreen, sealed
<1>5. CASE BeginCampaign(p)
  <2>1. development'.screen = development.screen
    BY <1>5 DEF BeginCampaign, Settled, DevInv, DevTypes
  <2> QED
    BY <1>5, <2>1, BeginCampaignStep, ReviewKept DEF BeginCampaign, sealed
<1>6. CASE CampaignBegun(p)
  BY <1>6, CampaignBegunStep, ReviewKept DEF CampaignBegun, sealed
<1>7. CASE Execute(p) \/ Lock(p) \/ Update(p) \/ EndBlock(p) \/ OpenValidation(p)
  BY <1>7, ExecuteStep, LockStep, UpdateStep, EndBlockStep, OpenValidationStep, ReviewKept
     DEF Execute, Lock, Update, EndBlock, OpenValidation, sealed
<1>8. CASE RecordCandidate(p) \/ ValidationRaises(p)
  BY <1>8, RecordCandidateStep, ValidationRaisesStep, ReviewKept
     DEF RecordCandidate, ValidationRaises, sealed
<1>9. ASSUME NEW v \in {"passes", "fails"}, Score(p, v)
      PROVE  DevInv' /\ Reviewed'
  <2>1. \A b \in Boundaries : scored[b] # "none" => scored'[b] = scored[b]
    BY <1>9 DEF Score, DevInv, DevTypes
  <2> QED
    BY <1>9, <2>1, ScoreStep, ReviewKept DEF Score
<1>10. ASSUME NEW status \in Statuses, Decide(p, status)
       PROVE  DevInv' /\ Reviewed'
  BY <1>10, DecideStep, ReviewKept DEF Decide, sealed
<1>11. CASE CloseCampaign(p)
  BY <1>11, CloseCampaignStep, ReviewKept DEF CloseCampaign, sealed
<1>12. CASE CompleteCampaign(p)
  <2>1. development'.screen = development.screen
    BY <1>12 DEF CompleteCampaign, Settled, DevInv, DevTypes
  <2> QED
    BY <1>12, <2>1, CompleteCampaignStep, ReviewKept DEF CompleteCampaign, sealed
<1>13. CASE CopyModel(p)
  BY <1>13, CopyModelStep, ReviewKept DEF CopyModel
<1>14. CASE Report(p)
  BY <1>14, QuitStep, ReviewKept DEF Report
<1>15. CASE Review(p)
  BY <1>15, StillStep, ReviewStep DEF Review
<1> QED
  BY <1>1, <1>2, <1>3, <1>4, <1>5, <1>6, <1>7, <1>8, <1>9, <1>10, <1>11, <1>12, <1>13, <1>14,
     <1>15 DEF Develop

(* A killed command takes nothing with it; a power failure takes them all.  *)
LEMMA AbandonedStep ==
  ASSUME DevInv, Reviewed, NEW p \in Processes, Abandoned(p)
  PROVE  DevInv' /\ Reviewed'
BY QuitStep, ReviewKept DEF Abandoned, sealed

LEMMA AllGoneStep ==
  ASSUME DevInv, Reviewed, job' = [p \in Processes |-> Idle],
         UNCHANGED <<campaign, development, progress, sealed>>
  PROVE  DevInv' /\ Reviewed'
<1>1. UNCHANGED <<campaign, development, progress, screened, scored, model, review>>
  BY DEF sealed
<1>2. /\ job' \in [Processes -> [place : Places, record : Record]]
      /\ \A p \in Processes : job'[p].place = "idle" /\ job'[p].record = NoCampaign
  BY Blank DEF Idle, Places
<1>3. DevTypes'
  BY <1>1, <1>2 DEF DevInv, DevTypes
<1>4. ScreenInv' /\ Training'
  BY <1>1, <1>2 DEF DevInv, ScreenInv, Passed, Stage, Alone, At, Screening, Before, Training
<1>5. ASSUME NEW n \in 0 .. Maximum, Front(n)
      PROVE  Front(n)'
  <2>1. Copies(n)'
    <3>1. \A p \in Processes : job'[p].record.tried <= n /\ Tenable(job'[p].record)
      <4>1. \A p \in Processes : job'[p].record.tried = 0 /\ Tenable(job'[p].record)
        BY <1>2, Blank
      <4> QED
        BY <4>1, Parameters
    <3> QED
      BY <1>1, <1>5, <3>1 DEF Front, Copies, Tenable
  <2>2. Recorded(n)'
    <3>1. ASSUME n = campaign.tried + 1
          PROVE  \A p \in Processes : job'[p].record.tried # n
      <4>1. \A p \in Processes : job'[p].record.tried = 0
        BY <1>2, Blank
      <4>2. campaign.tried \in Nat
        BY KnownRecords, Parameters DEF Record
      <4> QED
        BY <3>1, <4>1, <4>2
    <3> QED
      BY <1>1, <1>5, <3>1 DEF Front, Recorded
  <2>3. Scoring(n)'
    BY <1>2 DEF Scoring, At
  <2> QED
    BY <1>1, <1>5, <2>1, <2>2, <2>3 DEF Front, Journal, Before
<1>6. Reviewed'
  BY <1>1, ReviewKept
<1> QED
  BY <1>3, <1>4, <1>5, <1>6 DEF DevInv

LEMMA UntouchedStep ==
  ASSUME DevInv, Reviewed, UNCHANGED dev
  PROVE  DevInv' /\ Reviewed'
BY StillStep, ReviewKept DEF dev, sealed

LEMMA DevInitially ==
  ASSUME DInit
  PROVE  DevInv /\ Reviewed
<1>1. /\ campaign \in Record /\ campaign.tried = 0 /\ campaign.state = "awaiting_screen"
      /\ Tenable(campaign)
  BY Parameters DEF DInit, NoCampaign, Record, States, Tenable
<1>2. /\ job \in [Processes -> [place : Places, record : Record]]
      /\ \A p \in Processes : job[p].place = "idle" /\ job[p].record = NoCampaign
  BY Blank DEF DInit, Idle, Places
<1>3. DevTypes
  BY <1>1, <1>2, Parameters DEF DInit, DevTypes
<1>4. ScreenInv /\ Training
  BY <1>2 DEF DInit, ScreenInv, Passed, Stage, Alone, At, Screening, Training
<1>5. Front(0)
  <2>1. Copies(0)
    <3>1. \A p \in Processes : job[p].record.tried = 0 /\ Tenable(job[p].record)
      BY <1>2, Blank
    <3> QED
      BY <1>1, <3>1 DEF Copies
  <2>2. Recorded(0) /\ Scoring(0)
    BY <1>1, <1>2 DEF Recorded, Scoring, At
  <2>3. Journal(0)
    <3>1. Interval * 0 = 0
      BY Parameters
    <3> QED
      BY <3>1, Parameters DEF DInit, Journal
  <2>4. \A b \in Boundaries : scored[b] # "none" <=> b <= 0
    BY Parameters DEF DInit, Boundaries
  <2> QED
    BY <2>1, <2>2, <2>3, <2>4 DEF Front
<1>6. 0 \in 0 .. Maximum
  BY Parameters
<1>7. Reviewed
  BY DEF DInit, Reviewed
<1> QED
  BY <1>3, <1>4, <1>5, <1>6, <1>7 DEF DevInv

(* No active campaign is stranded, nor trained past unscored evidence.      *)
LEMMA FrontFollows ==
  ASSUME DevInv
  PROVE  JournalFollowsCampaign
<1>1. PICK n \in 0 .. Maximum : Front(n)
  BY DEF DevInv
<1>2. campaign.state = "training" => Descends(campaign) \/ Reconciles(campaign)
  BY <1>1 DEF Front, Recorded, Journal, Descends, Reconciles
<1>3. ASSUME NEW b \in Boundaries, progress.cursor > Interval * b
      PROVE  scored[b] # "none"
  <2>1. b \in Nat /\ n \in Nat /\ progress.cursor \in Nat
    BY Parameters DEF Boundaries, DevInv, DevTypes
  <2>2. ASSUME b > n
        PROVE  FALSE
    <3>1. PICK d \in Nat : b = n + 1 + d
      <4>1. b - n - 1 \in Nat /\ b = n + 1 + (b - n - 1)
        BY <2>1, <2>2
      <4> QED
        BY <4>1
    <3>2. Interval * b = Interval * n + Interval + Interval * d
      BY <2>1, <3>1, Parameters
    <3>3. Interval * d \in Nat /\ Interval * n \in Nat
      BY <2>1, <3>1, Parameters
    <3>4. progress.cursor <= Interval * n + Interval
      BY <1>1 DEF Front, Journal
    <3> QED
      BY <1>3, <2>1, <3>2, <3>3, <3>4, Parameters
  <2> QED
    BY <1>1, <2>1, <2>2 DEF Front
<1> QED
  BY <1>2, <1>3 DEF JournalFollowsCampaign
=============================================================================

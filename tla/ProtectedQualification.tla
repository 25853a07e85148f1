----------------------- MODULE ProtectedQualification -----------------------
(***************************************************************************)
(* DynamicSetQualification.execute_protected_split                          *)
(* (training/dynamic_set_qualification.py) on the ledger: a process opens   *)
(* the next protected split, claims and materialises its populations one    *)
(* after the other, writes the split's result, completes the split and,     *)
(* when the order is over, publishes the report.  Any number of processes   *)
(* may be told to run any split at any time, beside the commands of the     *)
(* development phase, whose reviewed report opens the ledger.               *)
(*                                                                         *)
(* A result or report file is written and synced in one step: a kill in     *)
(* the middle leaves a file nothing can read, in a run that is over.        *)
(***************************************************************************)
EXTENDS DevelopmentCampaign

CONSTANTS
  PopulationOrder     \* the purposes, in the order the evaluator claims them

ASSUME PopulationAssumption ==
  /\ PopulationOrder \in Seq(Purposes)
  /\ Purposes = {PopulationOrder[i] : i \in DOMAIN PopulationOrder}

VARIABLES
  at,         \* process -> where its execute_protected_split is
  permit,     \* process -> the permit its begin returned
  drawn,      \* process -> populations it has materialised
  verdict,    \* process -> what its evaluation came to
  results,    \* split -> its <split>_result.json
  report,     \* qualification_report.json
  draws       \* history: how often each population was materialised

client == <<at, permit, drawn, verdict, results, report, draws>>
qvars == <<ledger, client, dev>>

NoPermit == [split |-> 0, nonce |-> 0]
NoResult == [verdict |-> "none", claims |-> {}]
Populations == Splits \X Purposes

QInit ==
  /\ Init /\ DInit
  /\ at = [p \in Processes |-> "idle"]
  /\ permit = [p \in Processes |-> NoPermit]
  /\ drawn = [p \in Processes |-> 0]
  /\ verdict = [p \in Processes |-> "none"]
  /\ results = [s \in Splits |-> NoResult]
  /\ report = "none"
  /\ draws = [x \in Populations |-> 0]

Go(p, place) == at' = [at EXCEPT ![p] = place]

(* The call is over, by return, exception or kill; its locals are gone.    *)
Leave(p) ==
  /\ Go(p, "idle")
  /\ permit' = [permit EXCEPT ![p] = NoPermit]
  /\ drawn' = [drawn EXCEPT ![p] = 0]
  /\ verdict' = [verdict EXCEPT ![p] = "none"]
  /\ UNCHANGED <<results, report, draws>>

Refused(p) == Reject(p) \/ IOError(p)
-----------------------------------------------------------------------------
CreateLedger(p) ==
  /\ at[p] = "idle" /\ At(p, "idle")
  /\ \/ ReviewStands /\ Create(p)
     \/ Created(p)
     \/ call[p] = "creating" /\ IOError(p)
  /\ UNCHANGED <<client, dev>>

Start(p, s) ==
  /\ at[p] = "idle" /\ At(p, "idle")
  /\ ReportStands /\ model # 0
  /\ Call(p, BeginEntry(s))
  /\ Go(p, "opening")
  /\ UNCHANGED <<permit, drawn, verdict, results, report, draws>>

Waits(p) ==
  /\ Acquire(p) \/ Admit(p) \/ Replace(p)
  /\ UNCHANGED client

Opened(p) ==
  /\ at[p] = "opening" /\ Return(p)
  /\ permit' = [permit EXCEPT ![p] = Permit(entry[p])]
  /\ Go(p, "evaluating")
  /\ UNCHANGED <<drawn, verdict, results, report, draws>>

(* begin raises outside the try: nothing is recorded.                      *)
NotOpened(p) ==
  /\ at[p] = "opening" /\ Refused(p)
  /\ Leave(p)
-----------------------------------------------------------------------------
(* The evaluator: one claim, one materialisation, population by population. *)

Claim(p) ==
  /\ at[p] = "evaluating" /\ drawn[p] < Len(PopulationOrder)
  /\ Call(p, ClaimEntry(permit[p], PopulationOrder[drawn[p] + 1]))
  /\ Go(p, "claiming")
  /\ UNCHANGED <<permit, drawn, verdict, results, report, draws>>

Claimed(p) ==
  /\ at[p] = "claiming" /\ Return(p)
  /\ Go(p, "claimed")
  /\ UNCHANGED <<permit, drawn, verdict, results, report, draws>>

Materialise(p) ==
  /\ at[p] = "claimed"
  /\ drawn' = [drawn EXCEPT ![p] = @ + 1]
  /\ draws' = [draws EXCEPT ![<<permit[p].split, PopulationOrder[drawn[p] + 1]>>] = @ + 1]
  /\ Go(p, "evaluating")
  /\ UNCHANGED <<ledger, permit, verdict, results, report>>

Settle(p, v) ==
  /\ verdict' = [verdict EXCEPT ![p] = v]
  /\ Go(p, "settling")
  /\ UNCHANGED <<permit, drawn, results, report, draws>>

(* active_claims: a read without the lock. *)
SeenClaims(p) ==
  IF Readable /\ Holds(permit[p], journal) THEN ActiveClaims(journal) ELSE {}

Judge(p) ==
  /\ at[p] = "evaluating" /\ drawn[p] = Len(PopulationOrder)
  /\ \E v \in (IF SeenClaims(p) = Purposes THEN {"passed", "failed"} ELSE {"failed"}) :
       Settle(p, v)
  /\ UNCHANGED ledger

(* Anything the callback raises, a refused claim included. *)
EvaluationEscapes(p) ==                          \* mutant: no except clause
  \/ at[p] \in {"evaluating", "claimed"} /\ Leave(p) /\ UNCHANGED ledger
  \/ at[p] = "claiming" /\ Refused(p) /\ Leave(p)

EvaluationRaises(p) ==
  \/ /\ at[p] \in {"evaluating", "claimed"}
     /\ Settle(p, "raised")
     /\ UNCHANGED ledger
  \/ at[p] = "claiming" /\ Refused(p) /\ Settle(p, "raised")
-----------------------------------------------------------------------------
Outcome(v) == IF v = "passed" THEN "passed" ELSE "failed"

CompleteFirst(p) ==                              \* mutant: completes before it writes
  /\ at[p] = "settling"
  /\ Call(p, CompleteEntry(permit[p], Outcome(verdict[p])))
  /\ Go(p, "completing")
  /\ UNCHANGED <<permit, drawn, verdict, results, report, draws>>

WriteResult(p) ==
  LET s == permit[p].split
  IN  /\ at[p] = "settling"
      /\ results[s] = NoResult
      /\ results' = [results EXCEPT ![s] =
                      [verdict |-> verdict[p], claims |-> SeenClaims(p)]]
      /\ Call(p, CompleteEntry(permit[p], Outcome(verdict[p])))
      /\ Go(p, "completing")
      /\ UNCHANGED <<permit, drawn, verdict, report, draws>>

CompletedEarly(p) ==                             \* mutant: publishes after every split
  /\ at[p] = "completing" /\ Return(p)
  /\ Go(p, "publishing")
  /\ UNCHANGED <<permit, drawn, verdict, results, report, draws>>

Completed(p) ==
  /\ at[p] = "completing" /\ Return(p)
  /\ IF verdict[p] # "passed" \/ permit[p].split = SplitCount
     THEN /\ Go(p, "publishing")
          /\ UNCHANGED <<permit, drawn, verdict, results, report, draws>>
     ELSE Leave(p)

NotCompleted(p) ==
  /\ at[p] = "completing" /\ Refused(p)
  /\ Leave(p)

(* _publish_qualification_report: the checks it makes before it writes.    *)
ClaimsOf(s) == {journal[i].purpose : i \in {i \in DOMAIN journal :
                  journal[i].event = "claim" /\ journal[i].split = s}}

Finished == {i \in DOMAIN journal : journal[i].event = "complete"}

Publishable(status) ==
  /\ Readable
  /\ \A i \in Finished :
       LET r == results[journal[i].split]
       IN  /\ r # NoResult /\ r.claims = ClaimsOf(journal[i].split)
           /\ r.verdict # "raised" => ReportStands
  /\ Terminal(journal)
  /\ IF status = "qualified_convergence"
     THEN /\ PassedCount(journal) = SplitCount
          /\ \A s \in Splits : results[s].verdict = "passed"
     ELSE Finished # {} /\ results[journal[Max(Finished)].split].verdict # "passed"

Status(p) ==
  IF verdict[p] = "passed" THEN "qualified_convergence" ELSE "failed_to_improve"

Publish(p) ==
  /\ at[p] = "publishing"
  /\ ~stray /\ report = "none" /\ Publishable(Status(p))
  /\ report' = Status(p)
  /\ Go(p, "idle")
  /\ permit' = [permit EXCEPT ![p] = NoPermit]
  /\ drawn' = [drawn EXCEPT ![p] = 0]
  /\ verdict' = [verdict EXCEPT ![p] = "none"]
  /\ UNCHANGED <<ledger, results, draws>>

PublishRaises(p) ==
  /\ at[p] = "publishing"
  /\ stray \/ report # "none" \/ ~Publishable(Status(p))
  /\ Leave(p)
  /\ UNCHANGED ledger
-----------------------------------------------------------------------------
WriteRaises(p) ==
  /\ at[p] \in {"settling", "publishing"}
  /\ Fault
  /\ Leave(p)
  /\ UNCHANGED <<file, journal, durable, stray, lock, call, entry, read, minted, acked>>

Killed(p) ==
  /\ at[p] # "idle" \/ call[p] # "none"
  /\ Kill(p) /\ Leave(p)

Blackout ==
  /\ PowerFailure
  /\ at' = [p \in Processes |-> "idle"]
  /\ permit' = [p \in Processes |-> NoPermit]
  /\ drawn' = [p \in Processes |-> 0]
  /\ verdict' = [p \in Processes |-> "none"]
  /\ job' = [p \in Processes |-> Idle]
  /\ UNCHANGED <<results, report, draws, campaign, development, progress, sealed>>

(* What a process does once it has been told to run a split.               *)
Proceed(p) ==
  \/ Waits(p) \/ Opened(p) \/ NotOpened(p)
  \/ Claim(p) \/ Claimed(p) \/ Materialise(p)
  \/ Judge(p) \/ EvaluationRaises(p)
  \/ WriteResult(p) \/ Completed(p) \/ NotCompleted(p)
  \/ Publish(p) \/ PublishRaises(p)

Operate(p) ==
  /\ at[p] = "idle" /\ call[p] = "none"
  /\ \/ Develop(p) /\ UNCHANGED <<stray, faults>>
     \/ Abandoned(p)
  /\ UNCHANGED <<file, journal, durable, lock, call, entry, read, minted, acked, client>>

QNext ==
  \/ \E p \in Processes :
       \/ CreateLedger(p)
       \/ /\ \/ \E s \in Splits : Start(p, s)
             \/ Proceed(p)
             \/ WriteRaises(p) \/ Killed(p)
          /\ UNCHANGED dev
       \/ Operate(p)
  \/ Blackout

QSpec == QInit /\ [][QNext]_qvars

(* A running process goes on, an evaluation ends (it is a loop over fixed   *)
(* manifests), and a process waiting for the flock gets it in its turn.     *)
Fairness == \A p \in Processes : SF_qvars(Proceed(p) /\ UNCHANGED dev)

QFairSpec == QSpec /\ Fairness
-----------------------------------------------------------------------------
(* No protected population is materialised twice, whatever runs, dies and   *)
(* is started again ("each exactly once", PROJECT_SPEC.md:8869).            *)
PopulationsDrawnOnce == \A x \in Populations : draws[x] <= 1

(* A population is materialised only under a claim that a power failure     *)
(* cannot undo, in a split whose predecessors have all durably passed.      *)
DrawnUnderDurableClaim ==
  \A x \in Populations : draws[x] > 0 =>
    /\ \E i \in DOMAIN durable :
         durable[i].event = "claim" /\ durable[i].split = x[1] /\ durable[i].purpose = x[2]
    /\ \A s \in 1 .. x[1] - 1 : \E i \in DOMAIN durable :
         durable[i].event = "complete" /\ durable[i].split = s /\ durable[i].status = "passed"

(* The ledger never completes a split whose result file does not exist or   *)
(* says otherwise (execute_protected_split writes the result first).        *)
CompletionHasResult ==
  \A i \in Finished :
    /\ Outcome(results[journal[i].split].verdict) = journal[i].status
    /\ results[journal[i].split].claims = ClaimsOf(journal[i].split)

(* The refusals in _publish_qualification_report never fire: a process that *)
(* gets to publishing finds a ledger and results that agree, unless a       *)
(* temporary file was left in the directory.                                *)
PublicationNeverRefused ==
  \A p \in Processes : at[p] = "publishing" /\ ReportStands =>
    report = "none" /\ Publishable(Status(p))

(* "A failed or interrupted predecessor closes all later access"            *)
(* (PROJECT_SPEC.md:8869-8870): once a split is open and no process holds   *)
(* its permit, the ledger never gains another transition.                   *)
Interrupted ==
  /\ IsActive(journal)
  /\ \A p \in Processes : permit[p] = NoPermit /\ call[p] # "replaced"

InterruptionIsFinal ==
  [][Interrupted => Len(journal') <= Len(journal)]_qvars

(* Every opened split is completed and, once the order is over, the report  *)
(* is published, unless something fails or a command of the development     *)
(* phase that has been outrun replaces the record the report is bound to.   *)
Unsettled == IsActive(journal) \/ (Terminal(journal) /\ report = "none")

Disturbed == faults > 0 \/ ~ReportStands

SplitsSettle == Unsettled ~> (~Unsettled \/ Disturbed)
=============================================================================

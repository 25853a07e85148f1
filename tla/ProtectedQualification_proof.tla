-------------------- MODULE ProtectedQualification_proof --------------------
(***************************************************************************)
(* For every order of populations, every campaign, any number of processes *)
(* and faults: a population is drawn once and under a durable claim, a     *)
(* completed split has the result it names, the ledger follows the         *)
(* campaign and its review, and a split that was interrupted stays shut.   *)
(* The ledger's own invariant and the development's come from the modules  *)
(* extended here; what is added is where each process stands between the   *)
(* ledger's calls, and whose permit, nonce and result the list speaks of.  *)
(***************************************************************************)
EXTENDS ProtectedQualification, OrderedSplitLedger_proof, DevelopmentCampaign_proof

(* A population's claim, and the one a process asks for or has in hand.     *)
ClaimedIn(j, x) ==
  \E e \in Elements(j) : e.event = "claim" /\ e.split = x[1] /\ e.purpose = x[2]

Wanted(p) == <<permit[p].split, PopulationOrder[drawn[p] + 1]>>

Busy == {"waiting", "locked", "writing", "replaced"}
Calling == {"opening", "claiming", "completing"}
Working == {"evaluating", "claimed", "settling", "publishing"}

ClientTypes ==
  /\ at \in [Processes -> {"idle"} \cup Calling \cup Working]
  /\ permit \in [Processes -> [split : Nat, nonce : Nat]]
  /\ drawn \in [Processes -> Nat]
  /\ verdict \in [Processes -> {"none", "passed", "failed", "raised"}]
  /\ draws \in [Populations -> Nat]

(* Where a process stands in execute_protected_split, and in the ledger     *)
(* call it makes there.                                                     *)
Standing(p) ==
  /\ at[p] = "idle" => call[p] \in {"none", "creating"}
  /\ (at[p] \in Working) => call[p] = "none"
  /\ (at[p] \in Calling) => call[p] \in Busy
  /\ at[p] = "opening" => entry[p].event = "begin"
  /\ at[p] = "claiming" =>
       /\ drawn[p] < Len(PopulationOrder)
       /\ entry[p] = ClaimEntry(permit[p], PopulationOrder[drawn[p] + 1])
  /\ at[p] = "claimed" => drawn[p] < Len(PopulationOrder) /\ ClaimedIn(durable, Wanted(p))
  /\ at[p] = "completing" => entry[p] = CompleteEntry(permit[p], Outcome(verdict[p]))
  /\ (at[p] \notin {"idle", "opening"}) => permit[p].split \in Splits

(* The process whose claim is in the file, until it has materialised.       *)
Holder(p, x) ==
  /\ at[p] = "claimed" \/ (at[p] = "claiming" /\ call[p] = "replaced")
  /\ x = Wanted(p)

DrawInv ==
  /\ \A x \in Populations : draws[x] > 0 => draws[x] = 1 /\ ClaimedIn(durable, x)
  /\ \A p, q \in Processes, x \in Populations :
       Holder(p, x) => draws[x] = 0 /\ (Holder(q, x) => q = p)

(* Every split before one the list speaks of has passed in it, and none is  *)
(* open after a failure.                                                    *)
PassedIn(j, s) ==
  \E e \in Elements(j) : e.event = "complete" /\ e.split = s /\ e.status = "passed"

Gapless(j) ==
  /\ \A s \in 1 .. PassedCount(j) : PassedIn(j, s)
  /\ \A e \in Elements(j) : \A s \in 1 .. e.split - 1 : PassedIn(j, s)
  /\ IsActive(j) => ~HasFailed(j)

ListInv == HistoryInv /\ Gapless(journal) /\ Gapless(durable)

(* The ledger exists only for a campaign that was reviewed.                 *)
Guarded ==
  file # "absent" \/ (\E p \in Processes : call[p] = "creating") => review # NoReview

QInv ==
  /\ ListInv /\ ClientTypes /\ (\A p \in Processes : Standing(p)) /\ DrawInv
  /\ DevInv /\ Reviewed /\ Guarded
-----------------------------------------------------------------------------
(* What the client does to the ledger: a step of the ledger, a call with a  *)
(* well-formed transition, or an error outside of it.                       *)
OnlyFaults ==
  /\ UNCHANGED <<file, journal, durable, lock, call, entry, read, minted, acked>>
  /\ stray' \in BOOLEAN /\ faults' \in 0 .. MaxFaults

LedgerStep ==
  \/ [Next]_ledger
  \/ \E p \in Processes, e \in Entry : Call(p, e)
  \/ OnlyFaults

LEMMA GaplessAppend ==
  ASSUME NEW j, Orderly(j), Gapless(j), NEW e \in Entry, Admits(e, j)
  PROVE  Gapless(Append(j, e))
<1> DEFINE k == Append(j, e)
<1>1. j \in Seq(Entry) /\ PassedCount(j) \in Nat
  BY PassingFinite DEF Orderly
<1>2. Elements(k) = Elements(j) \cup {e}
  BY <1>1, Appended DEF Elements
<1>3. e.split = PassedCount(j) + 1
  BY DEF Admits, Holds, Orderly
<1>4. PassedCount(k) = IF e.status = "passed" THEN PassedCount(j) + 1 ELSE PassedCount(j)
  BY <1>1, PassedAppend
<1>5. e.status = "passed" => e.event = "complete"
  BY DEF Entry
<1> HIDE DEF k
<1>6. \A s : PassedIn(j, s) => PassedIn(k, s)
  BY <1>2 DEF PassedIn
<1>7. ASSUME NEW s \in 1 .. PassedCount(k)
      PROVE  PassedIn(k, s)
  <2>1. CASE s \in 1 .. PassedCount(j)
    BY <1>6, <2>1 DEF Gapless
  <2>2. CASE s \notin 1 .. PassedCount(j)
    <3>1. s = e.split /\ e.status = "passed"
      BY <1>1, <1>3, <1>4, <1>7, <2>2
    <3> QED
      BY <1>2, <1>5, <3>1 DEF PassedIn
  <2> QED
    BY <2>1, <2>2
<1>8. ASSUME NEW f \in Elements(k), NEW s \in 1 .. f.split - 1
      PROVE  PassedIn(k, s)
  <2>1. CASE f = e
    BY <1>1, <1>3, <1>6, <2>1 DEF Gapless
  <2>2. CASE f \in Elements(j)
    BY <1>6, <2>2 DEF Gapless
  <2> QED
    BY <1>2, <2>1, <2>2
<1>9. IsActive(k) => ~HasFailed(k)
  <2>1. e.status = "failed" => e.event = "complete"
    BY DEF Entry
  <2>2. ~HasFailed(j)
    BY DEF Admits, Terminal
  <2>3. e.event = "complete" => ~IsActive(k)
    BY <1>1, BoundaryBecomesOpening DEF k
  <2> QED
    BY <1>1, <2>1, <2>2, <2>3, FailedAppend DEF k
<1> QED
  BY <1>7, <1>8, <1>9 DEF Gapless, k

LEMMA FaultsKeepLedger ==
  ASSUME LedgerInv, OnlyFaults
  PROVE  LedgerInv'
<1>1. Types' /\ WritesOnWhatItRead'
  BY DEF LedgerInv, Types, TypeOK, WritesOnWhatItRead, OnlyFaults
<1> QED
  BY <1>1, ListsKept DEF OnlyFaults

LEMMA LedgerKept ==
  ASSUME ListInv, LedgerStep
  PROVE  /\ ListInv'
         /\ Elements(durable) \subseteq Elements(durable')
<1>1. CASE [Next]_ledger
  <2>1. HistoryInv'
    BY <1>1, HistoryStep DEF ListInv
  <2>2. Gapless(journal') /\ Gapless(durable') /\ Elements(durable) \subseteq Elements(durable')
    BY <1>1, ListSteps, GaplessAppend DEF ListInv, HistoryInv, LedgerInv, Survival
  <2> QED
    BY <2>1, <2>2 DEF ListInv
<1>2. CASE UNCHANGED <<journal, durable>> /\ LedgerInv'
  BY <1>2 DEF ListInv, HistoryInv
<1>3. ASSUME NEW p \in Processes, NEW e \in Entry, Call(p, e)
      PROVE  UNCHANGED <<journal, durable>> /\ LedgerInv'
  BY <1>3, CallStep DEF Call, ListInv, HistoryInv
<1>4. CASE OnlyFaults
  BY <1>4, FaultsKeepLedger DEF OnlyFaults, ListInv, HistoryInv
<1> QED
  BY <1>1, <1>2, <1>3, <1>4 DEF LedgerStep, OnlyFaults
-----------------------------------------------------------------------------
(* A step of one process leaves the others where they stand.                *)
OthersStand(p) ==
  \A q \in Processes : q # p =>
    /\ call'[q] = call[q] /\ entry'[q] = entry[q]
    /\ at'[q] = at[q] /\ permit'[q] = permit[q] /\ drawn'[q] = drawn[q]
    /\ verdict'[q] = verdict[q]

LEMMA StandingKept ==
  ASSUME NEW p \in Processes, \A q \in Processes : Standing(q), OthersStand(p),
         Elements(durable) \subseteq Elements(durable'), Standing(p)'
  PROVE  \A q \in Processes : Standing(q)'
<1> SUFFICES ASSUME NEW q \in Processes, q # p
             PROVE  Standing(q)'
  OBVIOUS
<1>1. \A x : ClaimedIn(durable, x) => ClaimedIn(durable', x)
  BY DEF ClaimedIn
<1>2. Wanted(q)' = Wanted(q)
  BY DEF OthersStand, Wanted
<1> QED
  BY <1>1, <1>2 DEF Standing, OthersStand

LEMMA HoldersKept ==
  ASSUME DrawInv, UNCHANGED draws, Elements(durable) \subseteq Elements(durable'),
         \A q \in Processes, x \in Populations : Holder(q, x)' => Holder(q, x)
  PROVE  DrawInv'
<1>1. \A x : ClaimedIn(durable, x) => ClaimedIn(durable', x)
  BY DEF ClaimedIn
<1> QED
  BY <1>1 DEF DrawInv

(* A step that neither puts a claim into the file nor materialises.         *)
LEMMA PlainStep ==
  ASSUME QInv, NEW p \in Processes, LedgerStep, OthersStand(p), ClientTypes', Standing(p)',
         UNCHANGED <<dev, draws, file>>, call'[p] # "creating",
         \A x \in Populations : Holder(p, x)' => Holder(p, x)
  PROVE  QInv'
<1>1. ListInv' /\ Elements(durable) \subseteq Elements(durable')
  BY LedgerKept DEF QInv
<1>2. \A q \in Processes : Standing(q)'
  BY <1>1, StandingKept DEF QInv
<1>3. DrawInv'
  <2>1. ASSUME NEW q \in Processes, q # p, NEW x \in Populations, Holder(q, x)'
        PROVE  Holder(q, x)
    BY <2>1 DEF OthersStand, Holder, Wanted
  <2> QED
    BY <1>1, <2>1, HoldersKept DEF QInv
<1>4. Guarded'
  BY DEF QInv, Guarded, OthersStand, dev, sealed
<1>5. DevInv' /\ Reviewed'
  BY UntouchedStep DEF QInv
<1> QED
  BY <1>1, <1>2, <1>3, <1>4, <1>5 DEF QInv

(* What the steps of a ledger call change.                                  *)
LEMMA CallMoves ==
  ASSUME QInv, NEW p \in Processes, NEW e \in Entry, Call(p, e)
  PROVE  /\ LedgerStep /\ UNCHANGED file
         /\ call[p] = "none" /\ call'[p] = "waiting" /\ entry'[p] = e
         /\ \A q \in Processes : q # p => call'[q] = call[q] /\ entry'[q] = entry[q]
BY DEF Call, Ready, LedgerStep, QInv, ListInv, HistoryInv, LedgerInv, Types, TypeOK

LEMMA EndMoves ==
  ASSUME QInv, NEW p \in Processes, Return(p) \/ Reject(p) \/ IOError(p) \/ Kill(p)
  PROVE  /\ LedgerStep /\ UNCHANGED file
         /\ call'[p] = "none"
         /\ \A q \in Processes : q # p => call'[q] = call[q] /\ entry'[q] = entry[q]
<1>1. LedgerStep
  BY DEF LedgerStep, Next, Transact
<1>2. End(p) /\ UNCHANGED file
  BY DEF Return, Reject, IOError, Kill
<1> QED
  BY <1>1, <1>2 DEF End, QInv, ListInv, HistoryInv, LedgerInv, Types, TypeOK

LEMMA WaitMoves ==
  ASSUME QInv, NEW p \in Processes, Acquire(p) \/ Admit(p) \/ Replace(p)
  PROVE  /\ LedgerStep /\ UNCHANGED file
         /\ call[p] \in Busy /\ call'[p] \in Busy
         /\ call'[p] = "replaced" => Replace(p)
         /\ entry'[p].event = entry[p].event
         /\ entry[p].event # "begin" => entry'[p] = entry[p]
         /\ \A q \in Processes : q # p => call'[q] = call[q] /\ entry'[q] = entry[q]
<1>1. LedgerStep
  BY DEF LedgerStep, Next, Transact
<1>2. /\ call \in [Processes -> {"none", "waiting", "locked", "writing", "replaced", "creating"}]
      /\ entry \in [Processes -> Entry \cup {NoEntry}]
      /\ call[p] \in Busy => entry[p] \in Entry
  BY DEF QInv, ListInv, HistoryInv, LedgerInv, Types, TypeOK, Inside, Busy
<1>3. CASE Acquire(p)
  BY <1>1, <1>2, <1>3 DEF Acquire, Busy
<1>4. CASE Admit(p)
  <2>1. /\ call[p] = "locked" /\ call' = [call EXCEPT ![p] = "writing"] /\ UNCHANGED file
        /\ entry' = entry \/ entry' = [entry EXCEPT ![p] = [entry[p] EXCEPT !.nonce = minted + 1]]
        /\ entry[p].event # "begin" => entry' = entry
    BY <1>4 DEF Admit
  <2>2. entry[p] \in Entry
    BY <1>2, <2>1 DEF Busy
  <2>3. [entry[p] EXCEPT !.nonce = minted + 1].event = entry[p].event
    BY <2>2 DEF Entry
  <2> QED
    BY <1>1, <1>2, <2>1, <2>3 DEF Busy
<1>5. CASE Replace(p)
  BY <1>1, <1>2, <1>5 DEF Replace, Busy
<1> QED
  BY <1>3, <1>4, <1>5

(* What a call put into the file is one of its transitions, and durable     *)
(* when the call returns.                                                   *)
LEMMA ReturnedEntry ==
  ASSUME QInv, NEW p \in Processes, call[p] = "replaced"
  PROVE  /\ entry[p] \in Elements(journal) /\ entry[p] \in Entry
         /\ entry[p].event = "begin" => entry[p].split \in Splits
<1>1. entry[p] \in Elements(journal) /\ entry[p] \in Entry /\ Loads(journal)
  BY DEF QInv, ListInv, HistoryInv, LedgerInv, Types, WritesOnWhatItRead, Inside, Orderly
<1>2. \A f \in Elements(journal) : \E k : InOrder(f, k)
  BY <1>1 DEF Elements, Loads
<1>3. ASSUME entry[p].event = "begin"
      PROVE  entry[p].split \in Splits
  <2>1. PICK k : InOrder(entry[p], k)
    BY <1>1, <1>2
  <2> QED
    BY <1>3, <2>1 DEF InOrder
<1> QED
  BY <1>1, <1>3
-----------------------------------------------------------------------------
(* One lemma per step of execute_protected_split.                           *)

LEMMA Places1 ==
  ASSUME QInv, NEW p \in Processes
  PROVE  /\ at \in [Processes -> {"idle"} \cup Calling \cup Working]
         /\ permit[p] \in [split : Nat, nonce : Nat] /\ drawn[p] \in Nat
         /\ Standing(p)
BY DEF QInv, ClientTypes

LEMMA GoMoves ==
  ASSUME QInv, NEW p \in Processes, NEW place \in {"idle"} \cup Calling \cup Working, Go(p, place)
  PROVE  /\ at' \in [Processes -> {"idle"} \cup Calling \cup Working] /\ at'[p] = place
         /\ \A q \in Processes : q # p => at'[q] = at[q]
BY Places1 DEF Go

(* A call that is over, however it ended.                                   *)
LEMMA LeaveStep ==
  ASSUME QInv, NEW p \in Processes, LedgerStep, Leave(p), UNCHANGED <<dev, file>>,
         call'[p] = "none",
         \A q \in Processes : q # p => call'[q] = call[q] /\ entry'[q] = entry[q]
  PROVE  QInv'
<1>1. /\ at' \in [Processes -> {"idle"} \cup Calling \cup Working] /\ at'[p] = "idle"
      /\ \A q \in Processes : q # p => at'[q] = at[q]
  BY GoMoves DEF Leave
<1>2. ClientTypes'
  BY <1>1 DEF QInv, ClientTypes, Leave, NoPermit
<1>3. OthersStand(p)
  BY <1>1 DEF OthersStand, Leave, QInv, ClientTypes
<1>4. Standing(p)'
  BY <1>1 DEF Standing, Calling, Working
<1>5. \A x \in Populations : ~Holder(p, x)'
  BY <1>1 DEF Holder
<1> QED
  BY <1>2, <1>3, <1>4, <1>5, PlainStep DEF Leave

LEMMA StartStep ==
  ASSUME QInv, NEW p \in Processes, NEW s \in Splits, Start(p, s), UNCHANGED dev
  PROVE  QInv'
<1>1. BeginEntry(s) \in Entry /\ BeginEntry(s).event = "begin"
  BY LedgerAssumption DEF BeginEntry, Transition, Entry, Events, Splits
<1>2. /\ LedgerStep /\ UNCHANGED file
      /\ call'[p] = "waiting" /\ entry'[p] = BeginEntry(s)
      /\ \A q \in Processes : q # p => call'[q] = call[q] /\ entry'[q] = entry[q]
  BY <1>1, CallMoves DEF Start
<1>3. /\ at' \in [Processes -> {"idle"} \cup Calling \cup Working] /\ at'[p] = "opening"
      /\ \A q \in Processes : q # p => at'[q] = at[q]
  BY GoMoves DEF Start, Calling
<1>4. ClientTypes' /\ OthersStand(p)
  BY <1>2, <1>3 DEF QInv, ClientTypes, Start, OthersStand
<1>5. Standing(p)'
  BY <1>1, <1>2, <1>3 DEF Standing, Calling, Working, Busy
<1>6. \A x \in Populations : ~Holder(p, x)'
  BY <1>3 DEF Holder
<1> QED
  BY <1>2, <1>4, <1>5, <1>6, PlainStep DEF Start

LEMMA OpenedStep ==
  ASSUME QInv, NEW p \in Processes, Opened(p), UNCHANGED dev
  PROVE  QInv'
<1>1. /\ LedgerStep /\ UNCHANGED file /\ call'[p] = "none"
      /\ \A q \in Processes : q # p => call'[q] = call[q] /\ entry'[q] = entry[q]
      /\ call[p] = "replaced"
  BY EndMoves DEF Opened, Return
<1>2. /\ at' \in [Processes -> {"idle"} \cup Calling \cup Working] /\ at'[p] = "evaluating"
      /\ \A q \in Processes : q # p => at'[q] = at[q]
  BY GoMoves DEF Opened, Working
<1>3. /\ Permit(entry[p]) \in [split : Nat, nonce : Nat] /\ Permit(entry[p]).split \in Splits
  <2>1. entry[p] \in Entry /\ entry[p].event = "begin" /\ entry[p].split \in Splits
    BY <1>1, ReturnedEntry, Places1 DEF Opened, Standing
  <2> QED
    BY <2>1 DEF Permit, Entry
<1>4. permit'[p] = Permit(entry[p]) /\ ClientTypes' /\ OthersStand(p)
  BY <1>1, <1>2, <1>3 DEF QInv, ClientTypes, Opened, OthersStand
<1>5. Standing(p)'
  BY <1>1, <1>2, <1>3, <1>4 DEF Standing, Calling, Working
<1>6. \A x \in Populations : ~Holder(p, x)'
  BY <1>2 DEF Holder
<1> QED
  BY <1>1, <1>4, <1>5, <1>6, PlainStep DEF Opened

LEMMA NextPurpose ==
  ASSUME QInv, NEW p \in Processes, drawn[p] < Len(PopulationOrder)
  PROVE  PopulationOrder[drawn[p] + 1] \in Purposes
<1>1. drawn[p] + 1 \in 1 .. Len(PopulationOrder)
  BY Places1, PopulationAssumption, LenProperties
<1> QED
  BY <1>1, PopulationAssumption, ElementOfSeq

LEMMA ClaimStep ==
  ASSUME QInv, NEW p \in Processes, Claim(p), UNCHANGED dev
  PROVE  QInv'
<1> DEFINE e == ClaimEntry(permit[p], PopulationOrder[drawn[p] + 1])
<1>1. e \in Entry
  BY Places1, NextPurpose, LedgerAssumption DEF Claim, ClaimEntry, Transition, Entry, Events
<1>2. Call(p, e)
  BY DEF Claim
<1> HIDE DEF e
<1>3. /\ LedgerStep /\ UNCHANGED file
      /\ call'[p] = "waiting" /\ entry'[p] = e
      /\ \A q \in Processes : q # p => call'[q] = call[q] /\ entry'[q] = entry[q]
  BY <1>1, <1>2, CallMoves
<1>4. /\ at' \in [Processes -> {"idle"} \cup Calling \cup Working] /\ at'[p] = "claiming"
      /\ \A q \in Processes : q # p => at'[q] = at[q]
  BY GoMoves DEF Claim, Calling
<1>5. ClientTypes' /\ OthersStand(p)
  BY <1>3, <1>4 DEF QInv, ClientTypes, Claim, OthersStand
<1>6. Standing(p)'
  BY <1>3, <1>4, Places1 DEF Standing, Claim, Calling, Working, Busy, e
<1>7. \A x \in Populations : ~Holder(p, x)'
  BY <1>3, <1>4 DEF Holder
<1> QED
  BY <1>3, <1>5, <1>6, <1>7, PlainStep DEF Claim

LEMMA ClaimedStep ==
  ASSUME QInv, NEW p \in Processes, Claimed(p), UNCHANGED dev
  PROVE  QInv'
<1>1. /\ LedgerStep /\ UNCHANGED file /\ call'[p] = "none"
      /\ \A q \in Processes : q # p => call'[q] = call[q] /\ entry'[q] = entry[q]
      /\ call[p] = "replaced" /\ durable' = journal
  BY EndMoves DEF Claimed, Return
<1>2. /\ at' \in [Processes -> {"idle"} \cup Calling \cup Working] /\ at'[p] = "claimed"
      /\ \A q \in Processes : q # p => at'[q] = at[q]
  BY GoMoves DEF Claimed, Working
<1>3. ClientTypes' /\ OthersStand(p) /\ Wanted(p)' = Wanted(p)
  BY <1>1, <1>2 DEF QInv, ClientTypes, Claimed, OthersStand, Wanted
<1>4. ClaimedIn(durable', Wanted(p))
  <2>1. entry[p] = ClaimEntry(permit[p], PopulationOrder[drawn[p] + 1])
    BY Places1 DEF Claimed, Standing
  <2> QED
    BY <1>1, <2>1, ReturnedEntry DEF ClaimedIn, Wanted, ClaimEntry, Transition
<1>5. Standing(p)'
  BY <1>1, <1>2, <1>3, <1>4, Places1 DEF Standing, Claimed, Calling, Working
<1>6. \A x \in Populations : Holder(p, x)' => Holder(p, x)
  BY <1>1, <1>3 DEF Holder, Claimed
<1> QED
  BY <1>1, <1>3, <1>5, <1>6, PlainStep DEF Claimed

LEMMA MaterialiseStep ==
  ASSUME QInv, NEW p \in Processes, Materialise(p), UNCHANGED dev
  PROVE  QInv'
<1> DEFINE x == Wanted(p)
<1>1. /\ LedgerStep /\ UNCHANGED <<file, durable, call, entry, permit, verdict>>
      /\ at[p] = "claimed"
  BY DEF Materialise, LedgerStep, ledger
<1>2. /\ at' \in [Processes -> {"idle"} \cup Calling \cup Working] /\ at'[p] = "evaluating"
      /\ \A q \in Processes : q # p => at'[q] = at[q]
  BY GoMoves DEF Materialise, Working
<1>3. /\ drawn[p] < Len(PopulationOrder) /\ ClaimedIn(durable, x)
      /\ permit[p].split \in Splits /\ call[p] = "none"
  BY <1>1, Places1 DEF Standing, Working
<1>4. x \in Populations
  BY <1>3, NextPurpose DEF Populations, Wanted
<1>5. draws[x] = 0 /\ draws \in [Populations -> Nat]
      /\ \A q \in Processes : Holder(q, x) => q = p
  BY <1>1, <1>4 DEF QInv, DrawInv, Holder, ClientTypes
<1>6. /\ draws' \in [Populations -> Nat] /\ draws'[x] = 1
      /\ \A y \in Populations : y # x => draws'[y] = draws[y]
  BY <1>4, <1>5 DEF Materialise, Wanted
<1>7. ClientTypes' /\ OthersStand(p)
  <2>1. /\ drawn' \in [Processes -> Nat]
        /\ \A q \in Processes : q # p => drawn'[q] = drawn[q]
    BY DEF QInv, ClientTypes, Materialise
  <2>2. OthersStand(p)
    BY <1>1, <1>2, <2>1 DEF OthersStand
  <2>3. UNCHANGED <<permit, verdict>> /\ ClientTypes
    BY DEF Materialise, QInv
  <2>4. ClientTypes'
    BY <1>2, <1>6, <2>1, <2>3 DEF ClientTypes
  <2> QED
    BY <2>2, <2>4
<1>8. Standing(p)'
  BY <1>1, <1>2, <1>3 DEF Standing, Calling, Working
<1>9. ListInv' /\ Elements(durable) \subseteq Elements(durable')
  BY <1>1, LedgerKept DEF QInv
<1>10. \A q \in Processes : Standing(q)'
  BY <1>7, <1>8, <1>9, StandingKept DEF QInv
<1>11. DrawInv'
  <2>1. ASSUME NEW q \in Processes, NEW y \in Populations, Holder(q, y)'
        PROVE  q # p /\ Holder(q, y) /\ y # x
    <3>1. q # p
      BY <1>2, <2>1 DEF Holder
    <3>2. Holder(q, y)
      BY <1>7, <2>1, <3>1 DEF Holder, Wanted, OthersStand
    <3> QED
      BY <1>5, <3>1, <3>2
  <2>2. ASSUME NEW y \in Populations, draws'[y] > 0
        PROVE  draws'[y] = 1 /\ ClaimedIn(durable, y)
    BY <1>3, <1>6, <2>2 DEF QInv, DrawInv
  <2>3. ASSUME NEW q \in Processes, NEW o \in Processes, NEW y \in Populations, Holder(q, y)'
        PROVE  draws'[y] = 0 /\ (Holder(o, y)' => o = q)
    BY <1>6, <2>1, <2>3 DEF QInv, DrawInv
  <2>4. \A y : ClaimedIn(durable, y)' <=> ClaimedIn(durable, y)
    BY <1>1 DEF ClaimedIn, Elements
  <2> QED
    BY <2>2, <2>3, <2>4 DEF DrawInv
<1>12. Guarded' /\ DevInv' /\ Reviewed'
  BY <1>1, UntouchedStep DEF QInv, Guarded, dev, sealed
<1> QED
  BY <1>7, <1>9, <1>10, <1>11, <1>12 DEF QInv

(* A process that goes on without a call on the ledger.                     *)
LEMMA SettleStep ==
  ASSUME QInv, NEW p \in Processes, NEW v \in {"passed", "failed", "raised"}, Settle(p, v),
         at[p] \notin {"idle", "opening"},
         LedgerStep, UNCHANGED <<dev, file>>, call'[p] = "none",
         \A q \in Processes : q # p => call'[q] = call[q] /\ entry'[q] = entry[q]
  PROVE  QInv'
<1>1. /\ at' \in [Processes -> {"idle"} \cup Calling \cup Working] /\ at'[p] = "settling"
      /\ \A q \in Processes : q # p => at'[q] = at[q]
  BY GoMoves DEF Settle, Working
<1>2. ClientTypes' /\ OthersStand(p)
  BY <1>1 DEF QInv, ClientTypes, Settle, OthersStand
<1>3. Standing(p)'
  BY <1>1, Places1 DEF Standing, Calling, Working, Settle
<1>4. \A x \in Populations : ~Holder(p, x)'
  BY <1>1 DEF Holder
<1> QED
  BY <1>2, <1>3, <1>4, PlainStep DEF Settle

LEMMA EvaluationStep ==
  ASSUME QInv, NEW p \in Processes, Judge(p) \/ EvaluationRaises(p), UNCHANGED dev
  PROVE  QInv'
<1>1. CASE Judge(p)
  <2>1. PICK v \in {"passed", "failed"} : Settle(p, v)
    BY <1>1 DEF Judge
  <2>2. LedgerStep /\ UNCHANGED <<file, call, entry>> /\ call[p] = "none"
    BY <1>1, Places1 DEF Judge, LedgerStep, ledger, Standing, Working
  <2> QED
    BY <1>1, <2>1, <2>2, SettleStep DEF Judge
<1>2. CASE at[p] \in {"evaluating", "claimed"} /\ Settle(p, "raised") /\ UNCHANGED ledger
  <2>1. LedgerStep /\ UNCHANGED <<file, call, entry>> /\ call[p] = "none"
    BY <1>2, Places1 DEF LedgerStep, ledger, Standing, Working
  <2> QED
    BY <1>2, <2>1, SettleStep
<1>3. CASE at[p] = "claiming" /\ Refused(p) /\ Settle(p, "raised")
  BY <1>3, EndMoves, SettleStep DEF Refused
<1> QED
  BY <1>1, <1>2, <1>3 DEF EvaluationRaises

LEMMA WriteResultStep ==
  ASSUME QInv, NEW p \in Processes, WriteResult(p), UNCHANGED dev
  PROVE  QInv'
<1> DEFINE e == CompleteEntry(permit[p], Outcome(verdict[p]))
<1>1. e \in Entry
  BY Places1, LedgerAssumption DEF CompleteEntry, Outcome, Transition, Entry, Events
<1>2. Call(p, e)
  BY DEF WriteResult
<1> HIDE DEF e
<1>3. /\ LedgerStep /\ UNCHANGED file
      /\ call'[p] = "waiting" /\ entry'[p] = e
      /\ \A q \in Processes : q # p => call'[q] = call[q] /\ entry'[q] = entry[q]
  BY <1>1, <1>2, CallMoves
<1>4. /\ at' \in [Processes -> {"idle"} \cup Calling \cup Working] /\ at'[p] = "completing"
      /\ \A q \in Processes : q # p => at'[q] = at[q]
  BY GoMoves DEF WriteResult, Calling
<1>5. ClientTypes' /\ OthersStand(p)
  BY <1>3, <1>4 DEF QInv, ClientTypes, WriteResult, OthersStand
<1>6. Standing(p)'
  BY <1>3, <1>4, Places1 DEF Standing, WriteResult, Calling, Working, Busy, e
<1>7. \A x \in Populations : ~Holder(p, x)'
  BY <1>4 DEF Holder
<1> QED
  BY <1>3, <1>5, <1>6, <1>7, PlainStep DEF WriteResult

LEMMA CompletedStep ==
  ASSUME QInv, NEW p \in Processes, Completed(p), UNCHANGED dev
  PROVE  QInv'
<1>1. /\ LedgerStep /\ UNCHANGED file /\ call'[p] = "none"
      /\ \A q \in Processes : q # p => call'[q] = call[q] /\ entry'[q] = entry[q]
  BY EndMoves DEF Completed
<1>2. CASE Leave(p)
  BY <1>1, <1>2, LeaveStep
<1>3. CASE Go(p, "publishing") /\ UNCHANGED <<permit, drawn, verdict, results, report, draws>>
  <2>1. /\ at' \in [Processes -> {"idle"} \cup Calling \cup Working] /\ at'[p] = "publishing"
        /\ \A q \in Processes : q # p => at'[q] = at[q]
    BY <1>3, GoMoves DEF Working
  <2>2. ClientTypes' /\ OthersStand(p)
    BY <1>1, <1>3, <2>1 DEF QInv, ClientTypes, OthersStand
  <2>3. Standing(p)'
    BY <1>1, <1>3, <2>1, Places1 DEF Standing, Completed, Calling, Working
  <2>4. \A x \in Populations : ~Holder(p, x)'
    BY <2>1 DEF Holder
  <2> QED
    BY <1>1, <1>3, <2>2, <2>3, <2>4, PlainStep
<1> QED
  BY <1>2, <1>3 DEF Completed

LEMMA EndedStep ==
  ASSUME QInv, NEW p \in Processes, UNCHANGED dev,
         NotOpened(p) \/ NotCompleted(p) \/ PublishRaises(p) \/ WriteRaises(p) \/ Killed(p)
  PROVE  QInv'
<1>1. CASE NotOpened(p) \/ NotCompleted(p) \/ Killed(p)
  BY <1>1, EndMoves, LeaveStep DEF NotOpened, NotCompleted, Killed, Refused
<1>2. CASE PublishRaises(p)
  <2>1. LedgerStep /\ UNCHANGED <<file, call, entry>> /\ call[p] = "none"
    BY <1>2, Places1 DEF PublishRaises, LedgerStep, ledger, Standing, Working
  <2> QED
    BY <1>2, <2>1, LeaveStep DEF PublishRaises
<1>3. CASE WriteRaises(p)
  <2>1. UNCHANGED <<file, call, entry>> /\ call[p] = "none"
    BY <1>3, Places1 DEF WriteRaises, Standing, Working
  <2>2. OnlyFaults
    BY <1>3, LedgerAssumption
       DEF WriteRaises, Fault, OnlyFaults, QInv, ListInv, HistoryInv, LedgerInv, Types, TypeOK
  <2> QED
    BY <1>3, <2>1, <2>2, LeaveStep DEF WriteRaises, LedgerStep
<1> QED
  BY <1>1, <1>2, <1>3

LEMMA PublishStep ==
  ASSUME QInv, NEW p \in Processes, Publish(p), UNCHANGED dev
  PROVE  QInv'
<1>1. LedgerStep /\ UNCHANGED <<file, call, entry, draws>> /\ call[p] = "none"
  BY Places1 DEF Publish, LedgerStep, ledger, Standing, Working
<1>2. /\ at' \in [Processes -> {"idle"} \cup Calling \cup Working] /\ at'[p] = "idle"
      /\ \A q \in Processes : q # p => at'[q] = at[q]
  BY GoMoves DEF Publish
<1>3. ClientTypes' /\ OthersStand(p)
  BY <1>1, <1>2 DEF QInv, ClientTypes, Publish, NoPermit, OthersStand
<1>4. Standing(p)'
  BY <1>1, <1>2 DEF Standing, Calling, Working
<1>5. \A x \in Populations : ~Holder(p, x)'
  BY <1>2 DEF Holder
<1> QED
  BY <1>1, <1>3, <1>4, <1>5, PlainStep

(* A claim is admitted only if the list has none like it: what precedes the *)
(* open split's opening is of other splits, what follows is its claims.     *)
LEMMA AdmittedIsNew ==
  ASSUME NEW j, Orderly(j), Chronicle(j), NEW e \in Entry, e.event = "claim", Admits(e, j),
         NEW x, e.split = x[1], e.purpose = x[2]
  PROVE  ~ClaimedIn(j, x)
<1> SUFFICES ASSUME NEW i \in DOMAIN j, j[i].event = "claim", j[i].split = x[1],
                    j[i].purpose = x[2]
             PROVE  FALSE
  BY DEF ClaimedIn, Elements
<1>1. /\ IsActive(j) /\ ~HasFailed(j) /\ e.split = Opening(j).split
      /\ e.purpose \notin ActiveClaims(j)
      /\ Opening(j).split = PassedCount(j) + 1
      /\ j \in Seq(Entry) /\ PassedCount(j) \in Nat
  BY PassingFinite DEF Admits, Terminal, Holds, Orderly
<1>2. /\ Last(j) \in Begins(j) /\ Last(j) \in Nat
      /\ \A k \in DOMAIN j : k > Last(j) => j[k].purpose \in ActiveClaims(j)
  BY <1>1, ActiveOpening
<1>3. i \in Nat /\ DOMAIN j = 1 .. Len(j)
  BY <1>1, LenProperties
<1>4. i # Last(j)
  BY <1>2 DEF Begins
<1>5. i >= Last(j)
  BY <1>1 DEF Chronicle, Placed
<1> QED
  BY <1>1, <1>2, <1>3, <1>4, <1>5

(* The claim enters the file: nothing durable has it, so it was not drawn,  *)
(* and nobody has it in hand.                                               *)
LEMMA ReplaceClaimStep ==
  ASSUME QInv, NEW p \in Processes, Replace(p), at[p] = "claiming", UNCHANGED <<client, dev>>
  PROVE  DrawInv'
<1> DEFINE w == Wanted(p)
<1>1. /\ call[p] = "writing" /\ call' = [call EXCEPT ![p] = "replaced"]
      /\ Admits(entry[p], journal) /\ entry[p] \in Entry /\ UNCHANGED durable
      /\ entry[p] = ClaimEntry(permit[p], PopulationOrder[drawn[p] + 1])
      /\ call \in [Processes -> {"none", "waiting", "locked", "writing", "replaced", "creating"}]
      /\ \A q \in Processes : (call[q] \in Inside) => q = p
  BY Places1 DEF Replace, QInv, ListInv, HistoryInv, LedgerInv, Types, TypeOK, WritesOnWhatItRead,
                 Inside, Standing
<1>2. entry[p].event = "claim" /\ entry[p].split = w[1] /\ entry[p].purpose = w[2]
  BY <1>1 DEF ClaimEntry, Transition, Wanted
<1>3. ~ClaimedIn(journal, w)
  BY <1>1, <1>2, AdmittedIsNew DEF QInv, ListInv, HistoryInv, LedgerInv
<1>4. ~ClaimedIn(durable, w)
  BY <1>3 DEF ClaimedIn, QInv, ListInv, HistoryInv, LedgerInv, Survival
<1>5. \A q \in Processes : at[q] = "claimed" => Wanted(q) # w
  BY <1>4, Places1 DEF Standing
<1>6. \A q \in Processes : call[q] # "replaced"
  BY <1>1 DEF Inside
<1>7. \A q \in Processes : UNCHANGED <<at[q], permit[q], drawn[q]>> /\ Wanted(q)' = Wanted(q)
  BY DEF client, Wanted
<1>8. \A q \in Processes : \A x : Holder(q, x)' => Holder(q, x) \/ (q = p /\ x = w)
  BY <1>1, <1>6, <1>7 DEF Holder
<1>9. \A q \in Processes : ~Holder(q, w)
  BY <1>5, <1>6 DEF Holder
<1>10. w \in Populations => draws[w] = 0
  BY <1>4 DEF QInv, DrawInv, ClientTypes
<1> HIDE DEF w
<1>11. UNCHANGED <<draws, durable>>
  BY <1>1 DEF client
<1>12. ASSUME NEW q \in Processes, NEW o \in Processes, NEW x \in Populations, Holder(q, x)'
       PROVE  draws'[x] = 0 /\ (Holder(o, x)' => o = q)
  BY <1>8, <1>9, <1>10, <1>11, <1>12 DEF QInv, DrawInv
<1>13. \A x : ClaimedIn(durable, x)' <=> ClaimedIn(durable, x)
  BY <1>11 DEF ClaimedIn, Elements
<1> QED
  BY <1>11, <1>12, <1>13 DEF QInv, DrawInv

LEMMA WaitsStep ==
  ASSUME QInv, NEW p \in Processes, Waits(p), UNCHANGED dev
  PROVE  QInv'
<1>1. /\ LedgerStep /\ UNCHANGED file
      /\ call[p] \in Busy /\ call'[p] \in Busy
      /\ call'[p] = "replaced" => Replace(p)
      /\ entry'[p].event = entry[p].event
      /\ entry[p].event # "begin" => entry'[p] = entry[p]
      /\ \A q \in Processes : q # p => call'[q] = call[q] /\ entry'[q] = entry[q]
  BY WaitMoves DEF Waits
<1>2. UNCHANGED <<at, permit, drawn, verdict, draws, client>>
  BY DEF Waits, client
<1>3. ClientTypes' /\ OthersStand(p)
  BY <1>1, <1>2 DEF QInv, ClientTypes, OthersStand
<1>4. at[p] \in Calling
  BY <1>1, Places1 DEF Standing, Calling, Working, Busy
<1>5. /\ at[p] = "claiming" => entry[p].event = "claim"
      /\ at[p] = "completing" => entry[p].event = "complete"
  <2>1. \A t, u : ClaimEntry(t, u).event = "claim" /\ CompleteEntry(t, u).event = "complete"
    BY DEF ClaimEntry, CompleteEntry, Transition
  <2> QED
    BY <2>1, Places1 DEF Standing
<1>6. Standing(p)'
  BY <1>1, <1>2, <1>4, <1>5, Places1 DEF Standing, Calling, Working, Busy
<1>7. CASE at[p] = "claiming" /\ Replace(p)
  <2>1. ListInv' /\ Elements(durable) \subseteq Elements(durable')
    BY <1>1, LedgerKept DEF QInv
  <2>2. \A q \in Processes : Standing(q)'
    BY <1>3, <1>6, <2>1, StandingKept DEF QInv
  <2>3. DrawInv'
    BY <1>2, <1>7, ReplaceClaimStep
  <2>4. Guarded' /\ DevInv' /\ Reviewed'
    BY <1>1, UntouchedStep DEF QInv, Guarded, dev, sealed, Busy
  <2> QED
    BY <1>3, <2>1, <2>2, <2>3, <2>4 DEF QInv
<1>8. CASE ~(at[p] = "claiming" /\ Replace(p))
  <2>1. at[p] # "claimed"
    BY <1>4 DEF Calling
  <2>2. \A x \in Populations : ~Holder(p, x)'
    BY <1>1, <1>2, <1>8, <2>1 DEF Holder
  <2>3. call'[p] # "creating"
    BY <1>1 DEF Busy
  <2> QED
    BY <1>1, <1>2, <1>3, <1>6, <2>2, <2>3, PlainStep
<1> QED
  BY <1>7, <1>8

(* The ledger is created for the report that was reviewed.                  *)
LEMMA CreateLedgerStep ==
  ASSUME QInv, NEW p \in Processes, CreateLedger(p)
  PROVE  QInv'
<1>1. LedgerStep
  BY DEF CreateLedger, LedgerStep, Next
<1>2. /\ UNCHANGED <<dev, client>> /\ at[p] = "idle"
      /\ call \in [Processes -> {"none", "waiting", "locked", "writing", "replaced", "creating"}]
  BY DEF CreateLedger, QInv, ListInv, HistoryInv, LedgerInv, Types, TypeOK
<1>3. /\ call'[p] \in {"none", "creating"}
      /\ \A q \in Processes : q # p => call'[q] = call[q] /\ entry'[q] = entry[q]
  BY <1>2, EndMoves DEF CreateLedger, Create, Created
<1>4. OthersStand(p) /\ ClientTypes'
  BY <1>2, <1>3 DEF OthersStand, client, QInv, ClientTypes
<1>5. Standing(p)'
  BY <1>2, <1>3 DEF client, Standing, Calling, Working
<1>6. ListInv' /\ Elements(durable) \subseteq Elements(durable')
  BY <1>1, LedgerKept DEF QInv
<1>7. \A q \in Processes : Standing(q)'
  BY <1>4, <1>5, <1>6, StandingKept DEF QInv
<1>8. DrawInv'
  <2>1. ASSUME NEW q \in Processes, NEW x \in Populations, Holder(q, x)'
        PROVE  Holder(q, x)
    BY <1>2, <1>3, <2>1 DEF Holder, Wanted, client
  <2> QED
    BY <1>2, <1>6, <2>1, HoldersKept DEF QInv, client
<1>9. Guarded'
  <2>1. UNCHANGED review
    BY <1>2 DEF dev, sealed
  <2>2. CASE ReviewStands /\ Create(p)
    <3>1. model # 0 /\ review.model = model
      BY <2>2 DEF ReviewStands, Reviewable, ReportStands
    <3> QED
      BY <2>1, <3>1 DEF Guarded, NoReview
  <2>3. CASE Created(p)
    BY <2>1, <2>3 DEF Created, QInv, Guarded
  <2>4. CASE call[p] = "creating" /\ IOError(p)
    BY <2>1, <2>4 DEF QInv, Guarded
  <2> QED
    BY <2>2, <2>3, <2>4 DEF CreateLedger
<1>10. DevInv' /\ Reviewed'
  BY <1>2, UntouchedStep DEF QInv
<1> QED
  BY <1>4, <1>6, <1>7, <1>8, <1>9, <1>10 DEF QInv

(* A command of the development phase leaves the protected phase alone, and *)
(* what was reviewed stays reviewed.                                        *)
LEMMA ReviewIsKept ==
  ASSUME NEW p \in Processes, Develop(p) \/ Abandoned(p), review # NoReview
  PROVE  review' = review
<1>1. CASE Abandoned(p)
  BY <1>1 DEF Abandoned, sealed
<1>2. CASE Develop(p)
  BY <1>2 DEF Develop, BeginScreen, CompleteScreen, CloseScreen, Screen, BeginCampaign,
     CampaignBegun, Execute, Lock, Update, EndBlock, OpenValidation, RecordCandidate,
     ValidationRaises, Score, Decide, CloseCampaign, CompleteCampaign, CopyModel, Report, Review,
     sealed
<1> QED
  BY <1>1, <1>2

LEMMA OperateStep ==
  ASSUME QInv, NEW p \in Processes, Operate(p)
  PROVE  QInv'
<1>1. OnlyFaults /\ UNCHANGED client
  <2>1. stray' \in BOOLEAN /\ faults' \in 0 .. MaxFaults
    <3>1. CASE UNCHANGED <<stray, faults>>
      BY <3>1 DEF QInv, ListInv, HistoryInv, LedgerInv, Types, TypeOK
    <3>2. CASE Abandoned(p)
      <4>1. (stray \/ Replacing(p)) \in BOOLEAN
        BY DEF Replacing
      <4>2. stray \in BOOLEAN /\ faults \in 0 .. MaxFaults
        BY DEF QInv, ListInv, HistoryInv, LedgerInv, Types, TypeOK
      <4>3. stray' \in BOOLEAN
        BY <3>2, <4>1, <4>2 DEF Abandoned
      <4> QED
        BY <3>2, <4>2, <4>3, LedgerAssumption DEF Abandoned, Fault
    <3> QED
      BY <3>1, <3>2 DEF Operate
  <2> QED
    BY <2>1 DEF Operate, OnlyFaults
<1>2. ListInv' /\ UNCHANGED <<file, durable, call, entry>>
  BY <1>1, LedgerKept DEF QInv, LedgerStep, OnlyFaults
<1>3. ClientTypes' /\ (\A q \in Processes : Standing(q)') /\ DrawInv'
  <2>1. ClientTypes'
    BY <1>1 DEF QInv, ClientTypes, client
  <2>2. \A x : ClaimedIn(durable, x)' <=> ClaimedIn(durable, x)
    BY <1>2 DEF ClaimedIn, Elements
  <2>3. \A q \in Processes : Wanted(q)' = Wanted(q)
    BY <1>1 DEF Wanted, client
  <2>4. \A q \in Processes : Standing(q)'
    BY <1>1, <1>2, <2>2, <2>3 DEF QInv, Standing, client
  <2>5. \A q \in Processes : \A x : Holder(q, x)' <=> Holder(q, x)
    BY <1>1, <1>2, <2>3 DEF Holder, client
  <2>6. DrawInv'
    BY <1>1, <2>2, <2>5 DEF QInv, DrawInv, client
  <2> QED
    BY <2>1, <2>4, <2>6
<1>4. DevInv' /\ Reviewed'
  BY DevelopStep, AbandonedStep DEF QInv, Operate
<1>5. Guarded'
  BY <1>2, ReviewIsKept DEF QInv, Guarded, Operate
<1> QED
  BY <1>2, <1>3, <1>4, <1>5 DEF QInv

LEMMA BlackoutStep ==
  ASSUME QInv, Blackout
  PROVE  QInv'
<1>1. LedgerStep
  BY DEF Blackout, LedgerStep, Next
<1>2. /\ call' = [q \in Processes |-> "none"]
      /\ file' # "absent" => file # "absent"
      /\ at' = [q \in Processes |-> "idle"] /\ permit' = [q \in Processes |-> NoPermit]
      /\ drawn' = [q \in Processes |-> 0] /\ verdict' = [q \in Processes |-> "none"]
      /\ UNCHANGED draws
  BY DEF Blackout, PowerFailure
<1>3. ListInv' /\ Elements(durable) \subseteq Elements(durable')
  BY <1>1, LedgerKept DEF QInv
<1>4. ClientTypes'
  BY <1>2 DEF QInv, ClientTypes, NoPermit
<1>9. \A q \in Processes : at'[q] = "idle" /\ call'[q] = "none"
  BY <1>2
<1>5. ASSUME NEW q \in Processes
      PROVE  Standing(q)'
  BY <1>9 DEF Standing, Calling, Working
<1>6. DrawInv'
  <2>1. \A q \in Processes, x \in Populations : ~Holder(q, x)'
    BY <1>9 DEF Holder
  <2> QED
    BY <1>2, <1>3, <2>1, HoldersKept DEF QInv
<1>7. DevInv' /\ Reviewed'
  BY AllGoneStep DEF QInv, Blackout
<1>8. Guarded'
  BY <1>2, <1>9 DEF QInv, Guarded, Blackout, sealed
<1> QED
  BY <1>3, <1>4, <1>5, <1>6, <1>7, <1>8 DEF QInv
-----------------------------------------------------------------------------
LEMMA QInitially ==
  ASSUME QInit
  PROVE  QInv
<1>1. Init /\ DInit
  BY DEF QInit
<1>2. HistoryInv
  BY <1>1, HistoryInitially
<1>3. Gapless(<<>>)
  <2>1. PassedCount(<<>>) = 0
    <3>1. Passing(<<>>) = {}
      BY DEF Passing
    <3> QED
      BY <3>1, FS_EmptySet DEF Passing, PassedCount
  <2>2. Elements(<<>>) = {}
    BY DEF Elements
  <2>3. ~IsActive(<<>>)
    BY DEF IsActive, Bounds
  <2> QED
    BY <2>1, <2>2, <2>3 DEF Gapless
<1>4. ListInv
  BY <1>1, <1>2, <1>3 DEF Init, ListInv
<1>5. ClientTypes /\ \A p \in Processes : Standing(p)
  BY <1>1 DEF QInit, Init, ClientTypes, NoPermit, Standing, Calling, Working
<1>6. DrawInv
  BY DEF QInit, DrawInv, Holder
<1>7. DevInv /\ Reviewed
  BY <1>1, DevInitially
<1>8. Guarded
  BY <1>1 DEF Init, Guarded
<1> QED
  BY <1>4, <1>5, <1>6, <1>7, <1>8 DEF QInv

LEMMA QStep ==
  ASSUME QInv, [QNext]_qvars
  PROVE  QInv'
<1>1. ASSUME NEW p \in Processes, Proceed(p), UNCHANGED dev
      PROVE  QInv'
  BY <1>1, WaitsStep, OpenedStep, EndedStep, ClaimStep, ClaimedStep, MaterialiseStep,
     EvaluationStep, WriteResultStep, CompletedStep, PublishStep DEF Proceed
<1>2. ASSUME NEW p \in Processes, NEW s \in Splits, Start(p, s), UNCHANGED dev
      PROVE  QInv'
  BY <1>2, StartStep
<1>3. ASSUME NEW p \in Processes, WriteRaises(p) \/ Killed(p), UNCHANGED dev
      PROVE  QInv'
  BY <1>3, EndedStep
<1>4. CASE UNCHANGED qvars
  <2>1. UNCHANGED <<ledger, client, dev, file, call, entry, durable, draws>>
    BY <1>4 DEF qvars, ledger, client
  <2>2. ListInv'
    BY <2>1, LedgerKept DEF QInv, LedgerStep
  <2>3. ClientTypes' /\ (\A q \in Processes : Standing(q)') /\ DrawInv'
    <3>1. \A x : ClaimedIn(durable, x)' <=> ClaimedIn(durable, x)
      BY <2>1 DEF ClaimedIn, Elements
    <3>2. \A q \in Processes : Wanted(q)' = Wanted(q)
      BY <2>1 DEF Wanted, client
    <3>3. \A q \in Processes : \A x : Holder(q, x)' <=> Holder(q, x)
      BY <2>1, <3>2 DEF Holder, client
    <3>4. \A q \in Processes : Standing(q)'
      BY <2>1, <3>1, <3>2 DEF QInv, Standing, client
    <3>5. DrawInv'
      BY <2>1, <3>1, <3>3 DEF QInv, DrawInv
    <3>6. ClientTypes'
      BY <2>1 DEF QInv, ClientTypes, client
    <3> QED
      BY <3>4, <3>5, <3>6
  <2>4. DevInv' /\ Reviewed'
    BY <2>1, UntouchedStep DEF QInv
  <2>5. Guarded'
    BY <2>1 DEF QInv, Guarded, dev, sealed
  <2> QED
    BY <2>2, <2>3, <2>4, <2>5 DEF QInv
<1> QED
  BY <1>1, <1>2, <1>3, <1>4, CreateLedgerStep, OperateStep, BlackoutStep DEF QNext

LEMMA QInvHolds == QSpec => []QInv
<1> QED
  BY QInitially, QStep, PTL DEF QSpec

-----------------------------------------------------------------------------
(* The permit of an open split, and the result written under it.            *)

ClaimsIn(j, s) == {e.purpose : e \in {f \in Elements(j) : f.event = "claim" /\ f.split = s}}

Minting(p) == at[p] = "opening" /\ call[p] \in {"writing", "replaced"}

Keeps(p) ==
  \/ at[p] \in {"evaluating", "claiming", "claimed", "settling"}
  \/ at[p] = "completing" /\ call[p] # "replaced"

Tenure(p) ==
  /\ entry[p].nonce <= minted /\ permit[p].nonce <= minted
  /\ (call[p] \in {"writing", "replaced"}) => file = "whole"
  /\ Minting(p) => entry[p].nonce >= 1
  /\ at[p] = "opening" /\ call[p] = "replaced" =>
       IsActive(journal) /\ Opening(journal) = entry[p]
  /\ (at[p] \notin {"idle", "opening"}) => permit[p].nonce >= 1
  /\ Keeps(p) => Holds(permit[p], journal)
  /\ (at[p] \in {"settling", "completing"}) => verdict[p] # "none"
  /\ at[p] = "completing" =>
       results[permit[p].split] =
         [verdict |-> verdict[p], claims |-> ClaimsIn(journal, permit[p].split)]

(* A nonce is one process's.                                                *)
Distinct ==
  \A p, q \in Processes : p # q =>
    /\ permit[p].nonce >= 1 => permit[q].nonce # permit[p].nonce
    /\ Minting(p) => permit[q].nonce # entry[p].nonce

(* The results a list's completions were written with.                      *)
Agree(r, j) ==
  \A e \in Elements(j) : e.event = "complete" =>
    /\ r[e.split].verdict # "none" /\ Outcome(r[e.split].verdict) = e.status
    /\ r[e.split].claims = ClaimsIn(j, e.split)

HoldInv ==
  /\ results \in [Splits -> [verdict : {"none", "passed", "failed", "raised"},
                            claims : SUBSET Purposes]]
  /\ \A e \in Elements(journal) : e.nonce <= minted
  /\ journal # <<>> => file = "whole"
  /\ \A p \in Processes : Tenure(p)
  /\ Distinct
  /\ Agree(results, journal) /\ Agree(results, durable)

LEMMA ClaimsAppend ==
  ASSUME NEW j \in Seq(Entry), NEW e \in Entry, NEW s
  PROVE  /\ Elements(Append(j, e)) = Elements(j) \cup {e}
         /\ e.event # "claim" \/ e.split # s => ClaimsIn(Append(j, e), s) = ClaimsIn(j, s)
         /\ ClaimsIn(j, s) \subseteq Purposes
<1>1. Elements(Append(j, e)) = Elements(j) \cup {e}
  BY Appended DEF Elements
<1>2. Elements(j) \subseteq Entry
  BY Appended DEF Elements
<1> QED
  BY <1>1, <1>2 DEF ClaimsIn, Entry

(* The open split's claims are those after its opening; what is completed   *)
(* is of an earlier split.                                                  *)
LEMMA OpenSplit ==
  ASSUME NEW j, Orderly(j), Chronicle(j), IsActive(j), ~HasFailed(j)
  PROVE  /\ ClaimsIn(j, Opening(j).split) = ActiveClaims(j)
         /\ \A e \in Elements(j) : e.event = "complete" => e.split # Opening(j).split
<1>1. /\ Last(j) \in Begins(j) /\ Last(j) \in Nat /\ Opening(j) = j[Last(j)]
      /\ \A i \in DOMAIN j : i > Last(j) => j[i].event = "claim"
  BY ActiveOpening
<1>2. /\ DOMAIN j = 1 .. Len(j) /\ Len(j) \in Nat /\ PassedCount(j) \in Nat
      /\ Opening(j).split = PassedCount(j) + 1
  BY LenProperties, PassingFinite DEF Orderly
<1>3. \A i \in DOMAIN j :
        /\ i >= Last(j) => j[i].split = Opening(j).split
        /\ i < Last(j) => j[i].split # Opening(j).split
  <2> SUFFICES ASSUME NEW i \in DOMAIN j
               PROVE  /\ i >= Last(j) => j[i].split = Opening(j).split
                      /\ i < Last(j) => j[i].split # Opening(j).split
    OBVIOUS
  <2>1. i >= Last(j) => j[i].split = Opening(j).split
    BY DEF Chronicle, Placed
  <2>2. i < Last(j) => j[i].split <= PassedCount(j)
    BY <1>1, <1>2 DEF Chronicle, Placed
  <2> QED
    BY <1>2, <2>1, <2>2
<1>4. j[Last(j)].event = "begin"
  BY <1>1 DEF Begins
<1>5. \A i \in DOMAIN j : j[i].event = "claim" /\ j[i].split = Opening(j).split <=> i > Last(j)
  BY <1>1, <1>2, <1>3, <1>4
<1>6. {i \in DOMAIN j : i > Last(j)} = Last(j) + 1 .. Len(j)
  BY <1>1, <1>2
<1>7. ClaimsIn(j, Opening(j).split) = {j[i].purpose : i \in Last(j) + 1 .. Len(j)}
  <2>1. ASSUME NEW u \in ClaimsIn(j, Opening(j).split)
        PROVE  \E i \in Last(j) + 1 .. Len(j) : u = j[i].purpose
    <3>1. PICK i \in DOMAIN j : j[i].event = "claim" /\ j[i].split = Opening(j).split
                               /\ u = j[i].purpose
      BY DEF ClaimsIn, Elements
    <3> QED
      BY <1>5, <1>6, <3>1
  <2>2. ASSUME NEW i \in Last(j) + 1 .. Len(j)
        PROVE  j[i].purpose \in ClaimsIn(j, Opening(j).split)
    <3>1. i \in DOMAIN j /\ j[i].event = "claim" /\ j[i].split = Opening(j).split
      BY <1>5, <1>6
    <3> QED
      BY <3>1 DEF ClaimsIn, Elements
  <2> QED
    BY <2>1, <2>2
<1>8. \A e \in Elements(j) : e.event = "complete" => e.split # Opening(j).split
  BY <1>1, <1>2, <1>3, <1>4 DEF Elements
<1> QED
  BY <1>7, <1>8 DEF ActiveClaims, Last

LEMMA HoldTypes ==
  ASSUME QInv
  PROVE  /\ journal \in Seq(Entry) /\ Orderly(journal) /\ Chronicle(journal)
         /\ IsActive(journal) => ~HasFailed(journal)
         /\ Readable <=> file = "whole"
         /\ Elements(durable) \subseteq Elements(journal) /\ Elements(journal) \subseteq Entry
         /\ minted \in Nat
         /\ entry \in [Processes -> Entry \cup {NoEntry}]
         /\ call \in [Processes -> {"none", "waiting", "locked", "writing", "replaced", "creating"}]
         /\ \A p, q \in Processes : (call[p] \in Inside) /\ (call[q] \in Inside) => q = p
         /\ \A p \in Processes : entry[p].nonce \in Nat /\ permit[p].nonce \in Nat
<1>1. /\ journal \in Seq(Entry) /\ Orderly(journal) /\ Chronicle(journal)
      /\ IsActive(journal) => ~HasFailed(journal)
      /\ Elements(durable) \subseteq Elements(journal)
      /\ minted \in Nat
      /\ entry \in [Processes -> Entry \cup {NoEntry}]
      /\ call \in [Processes -> {"none", "waiting", "locked", "writing", "replaced", "creating"}]
  BY DEF QInv, ListInv, Gapless, HistoryInv, LedgerInv, Orderly, Types, TypeOK, Survival
<1>2. \A p, q \in Processes : (call[p] \in Inside) /\ (call[q] \in Inside) => q = p
  BY DEF QInv, ListInv, HistoryInv, LedgerInv, Types, TypeOK, Inside
<1>3. Readable <=> file = "whole"
  BY <1>1 DEF Readable, Orderly
<1>4. Elements(journal) \subseteq Entry
  BY <1>1, Appended DEF Elements
<1>5. NoEntry.nonce \in Nat /\ \A e \in Entry : e.nonce \in Nat
  BY DEF NoEntry, Transition, Entry
<1>6. \A p \in Processes : entry[p].nonce \in Nat /\ permit[p].nonce \in Nat
  BY <1>1, <1>5 DEF QInv, ClientTypes
<1> QED
  BY <1>1, <1>2, <1>3, <1>4, <1>6

(* A step that writes neither the ledger nor a result.                      *)
LEMMA HoldKept ==
  ASSUME QInv, HoldInv, NEW p \in Processes, OthersStand(p), Tenure(p)',
         UNCHANGED <<journal, results, minted>>, durable' \in {durable, journal},
         file = "whole" => file' = "whole",
         permit'[p] = permit[p] \/ permit'[p].nonce = 0,
         Minting(p)' => Minting(p) /\ entry'[p] = entry[p]
  PROVE  HoldInv'
<1>1. \A q \in Processes : q # p => (Minting(q)' <=> Minting(q)) /\ (Keeps(q)' <=> Keeps(q))
  BY DEF OthersStand, Minting, Keeps
<1>2. \A s : ClaimsIn(journal, s)' = ClaimsIn(journal, s)
  BY DEF ClaimsIn, Elements
<1>3. ASSUME NEW q \in Processes, q # p
      PROVE  Tenure(q)'
  BY <1>1, <1>2, <1>3 DEF HoldInv, Tenure, OthersStand
<1>4. Distinct'
  <2> SUFFICES ASSUME NEW o \in Processes, NEW q \in Processes, o # q
               PROVE  /\ permit'[o].nonce >= 1 => permit'[q].nonce # permit'[o].nonce
                      /\ Minting(o)' => permit'[q].nonce # entry'[o].nonce
    BY DEF Distinct
  <2>1. /\ permit'[o] = permit[o] \/ permit'[o].nonce = 0
        /\ permit'[q] = permit[q] \/ permit'[q].nonce = 0
        /\ Minting(o)' => Minting(o) /\ entry'[o] = entry[o]
    BY <1>1 DEF OthersStand
  <2>2. Minting(o) => entry[o].nonce >= 1
    BY DEF HoldInv, Tenure
  <2> QED
    BY <2>1, <2>2, HoldTypes DEF HoldInv, Distinct
<1>5. Agree(results', journal') /\ Agree(results', durable')
  <2>1. Agree(results, journal) /\ Agree(results, durable)
    BY DEF HoldInv
  <2> QED
    BY <2>1
<1>6. (\A e \in Elements(journal) : e.nonce <= minted)'
  BY DEF HoldInv, Elements
<1> QED
  BY <1>3, <1>4, <1>5, <1>6 DEF HoldInv

(* Out of the evaluation nothing is held.                                   *)
LEMMA HoldNothing ==
  ASSUME QInv, HoldInv, NEW p \in Processes, Leave(p),
         UNCHANGED <<journal, minted>>, durable' \in {durable, journal},
         file = "whole" => file' = "whole",
         (call'[p] \in {"none", "creating"}),
         entry'[p] = entry[p] \/ entry'[p] = NoEntry,
         \A q \in Processes : q # p => call'[q] = call[q] /\ entry'[q] = entry[q]
  PROVE  HoldInv'
<1>1. /\ at'[p] = "idle" /\ permit'[p] = NoPermit /\ UNCHANGED results
      /\ \A q \in Processes : q # p =>
           /\ at'[q] = at[q] /\ permit'[q] = permit[q] /\ drawn'[q] = drawn[q]
           /\ verdict'[q] = verdict[q]
  BY DEF Leave, Go, QInv, ClientTypes
<1>2. OthersStand(p) /\ permit'[p].nonce = 0 /\ ~Minting(p)' /\ ~Keeps(p)'
  BY <1>1 DEF OthersStand, NoPermit, Minting, Keeps
<1>3. entry'[p].nonce <= minted /\ minted \in Nat
  <2>1. NoEntry.nonce = 0 /\ minted \in Nat
    BY HoldTypes DEF NoEntry, Transition
  <2>2. entry[p].nonce <= minted
    BY DEF HoldInv, Tenure
  <2> QED
    BY <2>1, <2>2
<1>4. Tenure(p)'
  BY <1>1, <1>2, <1>3 DEF Tenure
<1> QED
  BY <1>1, <1>2, <1>4, HoldKept

(* Steps that keep the ledger and the results.                              *)
LEMMA CallHold ==
  ASSUME QInv, HoldInv, NEW p \in Processes,
         (\E s \in Splits : Start(p, s)) \/ Claim(p)
  PROVE  HoldInv'
<1>1. PICK e \in Entry : /\ Call(p, e)
                         /\ at[p] = "idle" => e.nonce = 0
                         /\ at[p] # "idle" => e.nonce = permit[p].nonce
  <2>1. CASE Claim(p)
    <3>1. ClaimEntry(permit[p], PopulationOrder[drawn[p] + 1]) \in Entry
      BY <2>1, Places1, NextPurpose, LedgerAssumption DEF Claim, ClaimEntry, Transition, Entry, Events
    <3> QED
      BY <2>1, <3>1 DEF Claim, ClaimEntry, Transition
  <2>2. ASSUME NEW s \in Splits, Start(p, s)
        PROVE  BeginEntry(s) \in Entry /\ Call(p, BeginEntry(s)) /\ BeginEntry(s).nonce = 0
    BY <2>2, LedgerAssumption DEF Start, BeginEntry, Transition, Entry, Events, Splits
  <2> QED
    BY <2>1, <2>2 DEF Start
<1>2. /\ call'[p] = "waiting" /\ entry'[p] = e
      /\ \A q \in Processes : q # p => call'[q] = call[q] /\ entry'[q] = entry[q]
      /\ UNCHANGED <<file, journal, durable, minted>>
  BY <1>1, CallMoves DEF Call
<1>3. /\ UNCHANGED <<permit, drawn, verdict, results>>
      /\ at[p] \in {"idle", "evaluating"}
      /\ at'[p] = IF at[p] = "idle" THEN "opening" ELSE "claiming"
      /\ \A q \in Processes : q # p => at'[q] = at[q]
  BY GoMoves DEF Start, Claim, Calling
<1>4. OthersStand(p)
  BY <1>2, <1>3 DEF OthersStand
<1>5. e.nonce <= minted
  <2>1. minted \in Nat
    BY HoldTypes
  <2>2. permit[p].nonce <= minted
    BY DEF HoldInv, Tenure
  <2> QED
    BY <1>1, <2>1, <2>2
<1>6. Tenure(p)'
  BY <1>2, <1>3, <1>5 DEF HoldInv, Tenure, Minting, Keeps
<1>7. ~Minting(p)'
  BY <1>2 DEF Minting
<1> QED
  BY <1>2, <1>3, <1>4, <1>6, <1>7, HoldKept

LEMMA WorkHold ==
  ASSUME QInv, HoldInv, NEW p \in Processes,
         Claimed(p) \/ Materialise(p) \/ Judge(p) \/ EvaluationRaises(p)
           \/ (Completed(p) /\ Go(p, "publishing") /\ UNCHANGED <<permit, verdict, results>>)
  PROVE  HoldInv'
<1>1. /\ at[p] \notin {"idle", "opening"}
      /\ at'[p] \in {"claimed", "evaluating", "settling", "publishing"}
      /\ at'[p] = "publishing" \/ Keeps(p)
      /\ \A q \in Processes : q # p => at'[q] = at[q]
  BY GoMoves DEF Claimed, Materialise, Judge, EvaluationRaises, Completed, Settle, Calling, Working, Keeps
<1>2. /\ UNCHANGED <<file, journal, minted, results, permit>>
      /\ durable' \in {durable, journal}
      /\ \A q \in Processes : q # p => drawn'[q] = drawn[q] /\ verdict'[q] = verdict[q]
      /\ at'[p] = "settling" => verdict'[p] # "none"
  <2>1. UNCHANGED <<file, journal, minted>> /\ durable' \in {durable, journal}
    BY DEF Claimed, Materialise, Judge, EvaluationRaises, Completed, ledger,
           Return, Refused, Reject, IOError
  <2>2. CASE Claimed(p) \/ Materialise(p) \/ (Completed(p) /\ Go(p, "publishing")
                                             /\ UNCHANGED <<permit, verdict, results>>)
    BY <2>1, <2>2, GoMoves DEF Claimed, Materialise, Completed, Go, Leave, QInv, ClientTypes
  <2>3. ASSUME NEW v \in {"passed", "failed", "raised"}, Settle(p, v)
        PROVE  /\ UNCHANGED <<results, permit, drawn>> /\ verdict'[p] # "none"
               /\ \A q \in Processes : q # p => verdict'[q] = verdict[q]
    BY <2>3 DEF Settle, QInv, ClientTypes
  <2>4. CASE Judge(p) \/ EvaluationRaises(p)
    <3>1. PICK v \in {"passed", "failed", "raised"} : Settle(p, v)
      BY <2>4 DEF Judge, EvaluationRaises
    <3> QED
      BY <2>1, <2>3, <3>1
  <2> QED
    BY <2>2, <2>4
<1>3. /\ call'[p] = "none"
      /\ entry'[p] = entry[p] \/ entry'[p] = NoEntry
      /\ \A q \in Processes : q # p => call'[q] = call[q] /\ entry'[q] = entry[q]
  <2>1. CASE Return(p) \/ Refused(p)
    <3>1. entry'[p] = NoEntry
      BY <2>1, HoldTypes DEF Return, Refused, Reject, IOError, End
    <3> QED
      BY <2>1, <3>1, EndMoves DEF Refused
  <2>2. CASE UNCHANGED ledger /\ at[p] \in {"claimed", "evaluating"}
    BY <2>2, Places1 DEF ledger, Standing, Working
  <2> QED
    BY <2>1, <2>2 DEF Claimed, Materialise, Judge, EvaluationRaises, Completed
<1>4. OthersStand(p)
  BY <1>1, <1>2, <1>3 DEF OthersStand
<1>5. entry'[p].nonce <= minted
  <2>1. NoEntry.nonce = 0 /\ minted \in Nat
    BY HoldTypes DEF NoEntry, Transition
  <2>2. entry[p].nonce <= minted
    BY DEF HoldInv, Tenure
  <2> QED
    BY <1>3, <2>1, <2>2
<1>6. Tenure(p)'
  <2>1. Keeps(p) => Holds(permit[p], journal)
    BY DEF HoldInv, Tenure
  <2>2. Keeps(p)' => Holds(permit[p], journal)'
    BY <1>1, <1>2, <2>1 DEF Keeps, Holds
  <2>3. permit[p].nonce <= minted /\ permit[p].nonce >= 1
    BY <1>1 DEF HoldInv, Tenure
  <2> QED
    BY <1>1, <1>2, <1>3, <1>5, <2>2, <2>3 DEF Tenure, Minting
<1>7. ~Minting(p)'
  BY <1>3 DEF Minting
<1> QED
  BY <1>2, <1>4, <1>6, <1>7, HoldKept

LEMMA EndHold ==
  ASSUME QInv, HoldInv, NEW p \in Processes,
         \/ NotOpened(p) \/ NotCompleted(p) \/ PublishRaises(p) \/ WriteRaises(p) \/ Killed(p)
         \/ Publish(p) \/ (Completed(p) /\ Leave(p))
  PROVE  HoldInv'
<1>1. CASE (Return(p) \/ Reject(p) \/ IOError(p) \/ Kill(p)) /\ Leave(p)
  <2>1. /\ UNCHANGED <<file, journal, minted>> /\ durable' \in {durable, journal}
        /\ entry'[p] = NoEntry
    BY <1>1, HoldTypes DEF Return, Reject, IOError, Kill, End
  <2> QED
    BY <1>1, <2>1, EndMoves, HoldNothing
<1>2. CASE (PublishRaises(p) \/ WriteRaises(p)) /\ Leave(p)
  <2>1. UNCHANGED <<file, journal, durable, minted, call, entry>> /\ call[p] = "none"
    BY <1>2, Places1 DEF PublishRaises, WriteRaises, ledger, Standing, Working
  <2> QED
    BY <1>2, <2>1, HoldNothing
<1>3. CASE Publish(p)
  <2>1. /\ UNCHANGED <<file, journal, durable, minted, call, entry, results>> /\ call[p] = "none"
        /\ permit' = [permit EXCEPT ![p] = NoPermit]
    BY <1>3, Places1 DEF Publish, ledger, Standing, Working
  <2>2. at'[p] = "idle" /\ \A q \in Processes : q # p => at'[q] = at[q]
    BY <1>3, GoMoves DEF Publish
  <2>3. permit'[p].nonce = 0 /\ \A q \in Processes : q # p => permit'[q] = permit[q]
    BY <2>1 DEF QInv, ClientTypes, NoPermit
  <2>4. OthersStand(p)
    BY <1>3, <2>1, <2>2, <2>3 DEF OthersStand, Publish, QInv, ClientTypes
  <2>5. Tenure(p)'
    <3>1. 0 <= minted
      BY HoldTypes
    <3> QED
      BY <2>1, <2>2, <2>3, <3>1 DEF HoldInv, Tenure, Minting, Keeps
  <2>6. ~Minting(p)'
    BY <2>1 DEF Minting
  <2> QED
    BY <2>1, <2>3, <2>4, <2>5, <2>6, HoldKept
<1> QED
  BY <1>1, <1>2, <1>3 DEF NotOpened, NotCompleted, PublishRaises, WriteRaises, Killed, Completed, Refused

(* The nonce a begin is given is nobody's.                                  *)
LEMMA AdmitHold ==
  ASSUME QInv, HoldInv, NEW p \in Processes, Acquire(p) \/ Admit(p), UNCHANGED client
  PROVE  HoldInv'
<1>1. /\ UNCHANGED <<file, journal, durable, at, permit, drawn, verdict, results>>
      /\ \A q \in Processes : q # p => call'[q] = call[q] /\ entry'[q] = entry[q]
  BY WaitMoves DEF Acquire, Admit, client
<1>2. CASE Acquire(p)
  <2>1. call[p] = "waiting" /\ call'[p] = "locked" /\ UNCHANGED <<entry, minted>>
    BY <1>2, HoldTypes DEF Acquire
  <2>2. OthersStand(p)
    BY <1>1 DEF OthersStand
  <2>3. Tenure(p)'
    BY <1>1, <2>1 DEF HoldInv, Tenure, Minting, Keeps
  <2> QED
    BY <1>1, <2>1, <2>2, <2>3, HoldKept DEF Minting
<1>3. CASE Admit(p)
  <2>1. /\ call[p] = "locked" /\ call'[p] = "writing" /\ file = "whole"
        /\ minted \in Nat /\ minted' \in Nat /\ minted <= minted'
        /\ at[p] = "opening" => entry'[p].nonce = minted + 1 /\ minted' = minted + 1
        /\ at[p] # "opening" => entry'[p].nonce = entry[p].nonce
    <3>1. call[p] = "locked" /\ call'[p] = "writing" /\ file = "whole" /\ minted \in Nat
      BY <1>3, HoldTypes DEF Admit
    <3>2. at[p] \in Calling /\ (at[p] = "opening" <=> entry[p].event = "begin")
      <4>1. \A t, u : ClaimEntry(t, u).event = "claim" /\ CompleteEntry(t, u).event = "complete"
        BY DEF ClaimEntry, CompleteEntry, Transition
      <4> QED
        BY <3>1, <4>1, Places1 DEF Standing, Calling, Working
    <3>3. CASE entry[p].event = "begin"
      <4>1. entry[p] \in Entry /\ entry' = [entry EXCEPT ![p] = [entry[p] EXCEPT !.nonce = minted + 1]]
            /\ minted' = minted + 1 /\ entry \in [Processes -> Entry \cup {NoEntry}]
        BY <1>3, <3>1, <3>3, HoldTypes DEF Admit, NoEntry, Transition
      <4>2. [entry[p] EXCEPT !.nonce = minted + 1].nonce = minted + 1
        BY <4>1 DEF Entry
      <4> QED
        BY <3>1, <3>2, <3>3, <4>1, <4>2
    <3>4. CASE entry[p].event # "begin"
      BY <1>3, <3>1, <3>2, <3>4 DEF Admit
    <3> QED
      BY <3>3, <3>4
  <2>2. \A q \in Processes : q # p => ~Minting(q)
    BY <2>1, HoldTypes DEF Minting, Inside
  <2>3. ASSUME NEW q \in Processes
        PROVE  Tenure(q)'
    <3>1. entry[q].nonce <= minted' /\ permit[q].nonce <= minted'
      <4>1. entry[q].nonce <= minted /\ permit[q].nonce <= minted
        BY DEF HoldInv, Tenure
      <4>2. entry[q].nonce \in Nat /\ permit[q].nonce \in Nat
        BY HoldTypes
      <4> QED
        BY <2>1, <4>1, <4>2
    <3>2. CASE q = p
      <4>1. entry'[p].nonce <= minted' /\ (Minting(p)' => entry'[p].nonce >= 1)
        BY <1>1, <2>1, <3>1, <3>2 DEF Minting
      <4>2. Keeps(p)' => Keeps(p)
        BY <1>1, <2>1 DEF Keeps
      <4> QED
        BY <1>1, <2>1, <3>1, <3>2, <4>1, <4>2 DEF HoldInv, Tenure
    <3>3. CASE q # p
      BY <1>1, <2>1, <3>1, <3>3 DEF HoldInv, Tenure, Minting, Keeps
    <3> QED
      BY <3>2, <3>3
  <2>4. Distinct'
    <3> SUFFICES ASSUME NEW o \in Processes, NEW q \in Processes, o # q
                 PROVE  /\ permit'[o].nonce >= 1 => permit'[q].nonce # permit'[o].nonce
                        /\ Minting(o)' => permit'[q].nonce # entry'[o].nonce
      BY DEF Distinct
    <3>1. permit[o].nonce >= 1 => permit[q].nonce # permit[o].nonce
      BY DEF HoldInv, Distinct
    <3>2. Minting(o)' => o = p /\ at[p] = "opening"
      BY <1>1, <2>2 DEF Minting
    <3>3. permit[q].nonce <= minted /\ permit[q].nonce \in Nat
      BY HoldTypes DEF HoldInv, Tenure
    <3> QED
      BY <1>1, <2>1, <3>1, <3>2, <3>3
  <2>5. \A e \in Elements(journal) : e.nonce <= minted'
    BY <2>1, HoldTypes DEF HoldInv, Entry
  <2>6. Agree(results', journal') /\ Agree(results', durable')
    BY <1>1 DEF HoldInv
  <2>7. /\ results' = results /\ journal' = journal /\ file' = file
    BY <1>1
  <2> QED
    BY <2>3, <2>4, <2>5, <2>6, <2>7 DEF HoldInv
<1> QED
  BY <1>2, <1>3

(* The transition that enters the list is the open split's, or opens it.    *)
LEMMA ReplaceHold ==
  ASSUME QInv, HoldInv, NEW p \in Processes, Replace(p), UNCHANGED client
  PROVE  HoldInv'
<1> DEFINE e == entry[p]
<1>1. /\ call[p] = "writing" /\ call'[p] = "replaced" /\ file = "whole"
      /\ e \in Entry /\ Admits(e, journal) /\ journal' = Append(journal, e)
      /\ UNCHANGED <<file, durable, entry, minted, at, permit, verdict, results>>
      /\ \A q \in Processes : q # p => call'[q] = call[q] /\ (call[q] \notin Inside)
  <2>1. /\ call[p] = "writing" /\ journal' = Append(read[p], e)
        /\ UNCHANGED <<file, durable, entry, minted, at, permit, verdict, results>>
    BY DEF Replace, client
  <2>2. e \in Entry /\ Admits(e, journal) /\ read[p] = journal
    BY <2>1 DEF QInv, ListInv, HistoryInv, LedgerInv, Types, WritesOnWhatItRead, Inside
  <2>3. file = "whole"
    BY <2>1 DEF HoldInv, Tenure
  <2>4. call'[p] = "replaced" /\ \A q \in Processes : q # p => call'[q] = call[q] /\ (call[q] \notin Inside)
    BY <2>1, HoldTypes DEF Replace, Inside
  <2> QED
    BY <2>1, <2>2, <2>3, <2>4
<1>2. at[p] \in Calling
  BY <1>1, Places1 DEF Standing, Calling, Working
<1>3. /\ at[p] = "opening" => e.event = "begin"
      /\ at[p] = "claiming" => e.event = "claim" /\ e.nonce = permit[p].nonce
      /\ at[p] = "completing" => /\ e.event = "complete" /\ e.nonce = permit[p].nonce
                                 /\ e.split = permit[p].split /\ e.status = Outcome(verdict[p])
  <2>1. \A t, u : /\ ClaimEntry(t, u).event = "claim" /\ ClaimEntry(t, u).nonce = t.nonce
                  /\ CompleteEntry(t, u).event = "complete" /\ CompleteEntry(t, u).nonce = t.nonce
                  /\ CompleteEntry(t, u).split = t.split /\ CompleteEntry(t, u).status = u
    BY DEF ClaimEntry, CompleteEntry, Transition
  <2> QED
    BY <2>1, Places1 DEF Standing
<1>4. /\ journal \in Seq(Entry) /\ Orderly(journal) /\ Chronicle(journal)
      /\ e.nonce <= minted
  BY HoldTypes DEF HoldInv, Tenure
<1>5. \A q \in Processes : q # p => ~Keeps(q)
  <2> SUFFICES ASSUME NEW q \in Processes, q # p, Keeps(q)
               PROVE  FALSE
    OBVIOUS
  <2>1. Holds(permit[q], journal) /\ permit[q].nonce >= 1
    BY DEF HoldInv, Tenure, Keeps
  <2>2. ~(e.event = "begin")
    BY <1>1, <1>4, <2>1, ClosedByCompletion DEF Admits, Holds
  <2>3. e.nonce = permit[p].nonce /\ Holds(e, journal)
    BY <1>1, <1>2, <1>3, <2>2 DEF Admits, Calling
  <2> QED
    BY <2>1, <2>3 DEF Holds, HoldInv, Distinct
<1>6. \A q \in Processes : q # p => at[q] # "completing"
  BY <1>1, <1>5 DEF Keeps, Inside
<1>7. \A s : e.event # "claim" => ClaimsIn(journal', s) = ClaimsIn(journal, s)
  BY <1>1, <1>4, ClaimsAppend
<1>8. Agree(results, journal')
  <2> SUFFICES ASSUME NEW f \in Elements(journal'), f.event = "complete"
               PROVE  /\ results[f.split].verdict # "none"
                      /\ Outcome(results[f.split].verdict) = f.status
                      /\ results[f.split].claims = ClaimsIn(journal', f.split)
    BY DEF Agree
  <2>1. f = e \/ f \in Elements(journal)
    BY <1>1, <1>4, ClaimsAppend
  <2>2. CASE f = e
    <3>1. at[p] = "completing"
      BY <1>2, <1>3, <2>2 DEF Calling
    <3>2. /\ results[e.split] = [verdict |-> verdict[p], claims |-> ClaimsIn(journal, e.split)]
          /\ verdict[p] # "none"
      BY <1>3, <3>1 DEF HoldInv, Tenure
    <3>3. ClaimsIn(journal', e.split) = ClaimsIn(journal, e.split)
      BY <1>7, <2>2
    <3> QED
      BY <1>3, <2>2, <3>1, <3>2, <3>3
  <2>3. CASE f \in Elements(journal)
    <3>1. /\ results[f.split].verdict # "none"
          /\ Outcome(results[f.split].verdict) = f.status
          /\ results[f.split].claims = ClaimsIn(journal, f.split)
      BY <2>3 DEF HoldInv, Agree
    <3>2. CASE e.event = "claim"
      <4>1. Holds(e, journal) /\ IsActive(journal) /\ ~HasFailed(journal)
        BY <1>1, <3>2 DEF Admits, Holds, Terminal
      <4>2. f.split # e.split
        BY <1>4, <2>3, <4>1, OpenSplit DEF Holds
      <4> QED
        BY <1>1, <1>4, <3>1, <4>2, ClaimsAppend
    <3> QED
      BY <1>7, <3>1, <3>2
  <2> QED
    BY <2>1, <2>2, <2>3
<1>9. ASSUME NEW q \in Processes
      PROVE  Tenure(q)'
  <2>1. CASE q # p
    BY <1>1, <1>5, <1>6, <2>1 DEF HoldInv, Tenure, Minting, Keeps, Inside
  <2>2. CASE q = p /\ at[p] = "opening"
    <3>1. IsActive(journal') /\ Opening(journal') = e
      <4>1. Opening(journal') = e /\ e.event = "begin"
        BY <1>1, <1>3, <1>4, <2>2, BoundaryBecomesOpening
      <4>2. Len(journal) + 1 \in Bounds(journal')
        BY <1>1, <1>4, <4>1, Appended DEF Bounds
      <4> QED
        BY <4>1, <4>2 DEF IsActive
    <3>2. entry[p].nonce >= 1
      BY <1>1, <2>2 DEF HoldInv, Tenure, Minting
    <3> QED
      BY <1>1, <2>2, <3>1, <3>2 DEF HoldInv, Tenure, Minting, Keeps
  <2>3. CASE q = p /\ at[p] = "claiming"
    <3>1. Holds(permit[p], journal)
      BY <2>3 DEF HoldInv, Tenure, Keeps
    <3>2. Holds(permit[p], journal')
      BY <1>1, <1>3, <1>4, <2>3, <3>1, ClaimKeepsOpening DEF Holds, Orderly
    <3> QED
      BY <1>1, <2>3, <3>2 DEF HoldInv, Tenure, Minting, Keeps
  <2>4. CASE q = p /\ at[p] = "completing"
    <3>1. ClaimsIn(journal', permit[p].split) = ClaimsIn(journal, permit[p].split)
      BY <1>3, <1>7, <2>4
    <3> QED
      BY <1>1, <2>4, <3>1 DEF HoldInv, Tenure, Minting, Keeps
  <2> QED
    BY <1>2, <2>1, <2>2, <2>3, <2>4 DEF Calling
<1>10. Distinct'
  <2>1. \A q \in Processes : Minting(q)' <=> Minting(q)
    BY <1>1 DEF Minting
  <2> QED
    BY <1>1, <2>1 DEF HoldInv, Distinct
<1>11. \A f \in Elements(journal') : f.nonce <= minted
  <2>1. Elements(journal') = Elements(journal) \cup {e}
    BY <1>1, <1>4, ClaimsAppend
  <2>2. \A f \in Elements(journal) : f.nonce <= minted
    BY DEF HoldInv
  <2> QED
    BY <1>4, <2>1, <2>2
<1>12. Agree(results', journal') /\ Agree(results', durable')
  BY <1>1, <1>8 DEF HoldInv
<1>13. results' = results /\ minted' = minted /\ file' = "whole"
  BY <1>1
<1> QED
  BY <1>9, <1>10, <1>11, <1>12, <1>13 DEF HoldInv

LEMMA OpenedHold ==
  ASSUME QInv, HoldInv, NEW p \in Processes, Opened(p)
  PROVE  HoldInv'
<1>1. /\ call[p] = "replaced" /\ at[p] = "opening" /\ at'[p] = "evaluating"
      /\ call'[p] = "none" /\ entry'[p] = NoEntry
      /\ UNCHANGED <<file, journal, minted, results, verdict, drawn>> /\ durable' = journal
      /\ \A q \in Processes : q # p =>
           call'[q] = call[q] /\ entry'[q] = entry[q] /\ at'[q] = at[q] /\ (call[q] \notin Inside)
  <2>1. call[p] = "replaced" /\ entry'[p] = NoEntry
    BY HoldTypes DEF Opened, Return, End
  <2>2. \A q \in Processes : q # p => (call[q] \notin Inside)
    BY <2>1, HoldTypes DEF Inside
  <2> QED
    BY <2>1, <2>2, EndMoves, GoMoves DEF Opened, Return, Working
<1>2. /\ permit'[p] = Permit(entry[p]) /\ permit'[p].nonce = entry[p].nonce
      /\ permit'[p].split = entry[p].split
      /\ \A q \in Processes : q # p => permit'[q] = permit[q]
  BY DEF Opened, Permit, QInv, ClientTypes
<1>3. /\ entry[p].nonce >= 1 /\ entry[p].nonce <= minted
      /\ Holds(permit'[p], journal)
      /\ \A q \in Processes : q # p => permit[q].nonce # entry[p].nonce
  BY <1>1, <1>2 DEF HoldInv, Tenure, Minting, Distinct, Holds
<1>4. ASSUME NEW q \in Processes
      PROVE  Tenure(q)'
  <2>1. CASE q # p
    BY <1>1, <1>2, <2>1 DEF HoldInv, Tenure, Minting, Keeps
  <2>2. CASE q = p
    <3>1. NoEntry.nonce <= minted
      BY HoldTypes DEF NoEntry, Transition
    <3> QED
      BY <1>1, <1>2, <1>3, <2>2, <3>1 DEF Tenure, Minting, Keeps
  <2> QED
    BY <2>1, <2>2
<1>5. Distinct'
  <2> SUFFICES ASSUME NEW o \in Processes, NEW q \in Processes, o # q
               PROVE  /\ permit'[o].nonce >= 1 => permit'[q].nonce # permit'[o].nonce
                      /\ Minting(o)' => permit'[q].nonce # entry'[o].nonce
    BY DEF Distinct
  <2>1. ~Minting(o)'
    BY <1>1 DEF Minting, Inside
  <2>2. permit[o].nonce >= 1 => permit[q].nonce # permit[o].nonce
    BY DEF HoldInv, Distinct
  <2> QED
    BY <1>2, <1>3, <2>1, <2>2
<1>6. Agree(results', journal') /\ Agree(results', durable')
  BY <1>1 DEF HoldInv
<1>7. results' = results /\ journal' = journal /\ minted' = minted /\ file' = file
  BY <1>1
<1> QED
  BY <1>4, <1>5, <1>6, <1>7 DEF HoldInv

(* The result is written while the split's permit is held, so its claims    *)
(* are all in, and no completed split had the same file.                    *)
LEMMA WriteResultHold ==
  ASSUME QInv, HoldInv, NEW p \in Processes, WriteResult(p)
  PROVE  HoldInv'
<1> DEFINE s == permit[p].split
           r == [verdict |-> verdict[p], claims |-> ClaimsIn(journal, s)]
<1>1. /\ at[p] = "settling" /\ at'[p] = "completing" /\ verdict[p] # "none"
      /\ s \in Splits /\ Holds(permit[p], journal)
      /\ results[s].verdict = "none"
      /\ permit[p].nonce >= 1 /\ permit[p].nonce <= minted
      /\ \A q \in Processes : q # p => at'[q] = at[q]
  <2>1. at[p] = "settling" /\ results[s].verdict = "none"
    BY DEF WriteResult, NoResult
  <2> QED
    BY <2>1, Places1, GoMoves DEF WriteResult, Calling, HoldInv, Tenure, Keeps, Standing
<1>2. /\ UNCHANGED <<file, journal, durable, minted, permit, drawn, verdict>>
      /\ call'[p] = "waiting" /\ entry'[p].nonce = permit[p].nonce
      /\ \A q \in Processes : q # p => call'[q] = call[q] /\ entry'[q] = entry[q]
  <2>1. CompleteEntry(permit[p], Outcome(verdict[p])) \in Entry
    BY Places1, LedgerAssumption DEF CompleteEntry, Outcome, Transition, Entry, Events
  <2>2. Call(p, CompleteEntry(permit[p], Outcome(verdict[p])))
    BY DEF WriteResult
  <2>3. CompleteEntry(permit[p], Outcome(verdict[p])).nonce = permit[p].nonce
    BY DEF CompleteEntry, Transition
  <2>4. UNCHANGED <<file, journal, durable, minted, permit, drawn, verdict>>
    BY <2>2 DEF Call, WriteResult
  <2> QED
    BY <2>1, <2>2, <2>3, <2>4, CallMoves
<1>3. /\ SeenClaims(p) = ClaimsIn(journal, s)
      /\ \A e \in Elements(journal) : e.event = "complete" => e.split # s
      /\ ClaimsIn(journal, s) \subseteq Purposes
  <2>1. /\ IsActive(journal) /\ ~HasFailed(journal) /\ Opening(journal).split = s
        /\ Orderly(journal) /\ Chronicle(journal) /\ journal \in Seq(Entry)
    BY <1>1, HoldTypes DEF Holds
  <2>2. journal # <<>>
    BY <2>1 DEF IsActive, Bounds
  <2>3. Readable
    BY <2>2, HoldTypes DEF HoldInv
  <2>4. ClaimsIn(journal, s) \subseteq Purposes
    <3>1. Elements(journal) \subseteq Entry
      BY HoldTypes
    <3> QED
      BY <3>1 DEF ClaimsIn, Entry
  <2> QED
    BY <1>1, <2>1, <2>3, <2>4, OpenSplit DEF SeenClaims
<1>4. /\ results' \in [Splits -> [verdict : {"none", "passed", "failed", "raised"},
                                  claims : SUBSET Purposes]]
      /\ results'[s] = r
      /\ \A t \in Splits : t # s => results'[t] = results[t]
  <2>1. results' = [results EXCEPT ![s] = r]
    BY <1>3 DEF WriteResult
  <2>2. r \in [verdict : {"none", "passed", "failed", "raised"}, claims : SUBSET Purposes]
    BY <1>3 DEF QInv, ClientTypes
  <2> QED
    BY <1>1, <2>1, <2>2 DEF HoldInv
<1> HIDE DEF r
<1>5. \A e \in Elements(journal) \cup Elements(durable) :
        e.event = "complete" => results'[e.split] = results[e.split]
  <2> SUFFICES ASSUME NEW e \in Elements(journal), e.event = "complete"
               PROVE  results'[e.split] = results[e.split]
    BY HoldTypes
  <2>1. e.split # s
    BY <1>3
  <2>2. CASE e.split \in Splits
    BY <1>4, <2>1, <2>2
  <2>3. CASE e.split \notin Splits
    <3>1. \E q \in DOMAIN journal : journal[q] = e
      BY DEF Elements
    <3>2. PICK q \in DOMAIN journal : journal[q] = e
      BY <3>1
    <3>3. InOrder(e, SubSeq(journal, 1, q - 1))
      BY <3>2, HoldTypes DEF Orderly, Loads
    <3> QED
      BY <1>4, <2>1, <3>3 DEF WriteResult
  <2> QED
    BY <2>2, <2>3
<1>6. Agree(results', journal) /\ Agree(results', durable)
  BY <1>5 DEF HoldInv, Agree
<1>7. ASSUME NEW q \in Processes
      PROVE  Tenure(q)'
  <2>1. CASE q = p
    BY <1>1, <1>2, <1>4, <2>1 DEF Tenure, Minting, Keeps, Holds, r
  <2>2. CASE q # p
    <3>1. ASSUME at[q] = "completing"
          PROVE  permit[q].split \in Splits /\ permit[q].split # s
      <4>1. verdict[q] # "none" /\ results[permit[q].split].verdict = verdict[q]
        <5>1. Tenure(q)
          BY DEF HoldInv
        <5>2. /\ verdict[q] # "none"
              /\ results[permit[q].split] =
                   [verdict |-> verdict[q], claims |-> ClaimsIn(journal, permit[q].split)]
          BY <3>1, <5>1 DEF Tenure
        <5> QED
          BY <5>2
      <4>2. permit[q].split \in Splits
        BY <3>1, Places1 DEF Standing
      <4> QED
        BY <1>1, <4>1, <4>2
    <3> QED
      BY <1>1, <1>2, <1>4, <2>2, <3>1 DEF HoldInv, Tenure, Minting, Keeps, Holds
  <2> QED
    BY <2>1, <2>2
<1>8. Distinct'
  <2>1. \A q \in Processes : Minting(q)' => Minting(q) /\ entry'[q] = entry[q]
    BY <1>1, <1>2 DEF Minting
  <2> QED
    BY <1>2, <2>1 DEF HoldInv, Distinct
<1>9. Agree(results', journal') /\ Agree(results', durable')
  BY <1>2, <1>6
<1>10. journal' = journal /\ minted' = minted /\ file' = file
  BY <1>2
<1> QED
  BY <1>4, <1>7, <1>8, <1>9, <1>10 DEF HoldInv

LEMMA OutsideHold ==
  ASSUME QInv, HoldInv, NEW p \in Processes, CreateLedger(p) \/ Operate(p)
  PROVE  HoldInv'
<1>1. /\ UNCHANGED <<journal, durable, minted, at, permit, drawn, verdict, results>>
      /\ file = "whole" => file' = "whole"
  BY DEF CreateLedger, Create, Created, IOError, Operate, client
<1>2. /\ entry'[p] = entry[p] \/ entry'[p] = NoEntry
      /\ call'[p] \in {"none", "creating"} \/ call'[p] = call[p]
      /\ \A q \in Processes : q # p => call'[q] = call[q] /\ entry'[q] = entry[q]
  BY HoldTypes DEF CreateLedger, Create, Created, IOError, End, Operate
<1>3. OthersStand(p)
  BY <1>1, <1>2 DEF OthersStand
<1>4. at[p] = "idle"
  BY DEF CreateLedger, Operate
<1>5. Tenure(p)'
  <2>1. entry'[p].nonce <= minted
    <3>1. NoEntry.nonce <= minted
      BY HoldTypes DEF NoEntry, Transition
    <3> QED
      BY <1>2, <3>1 DEF HoldInv, Tenure
  <2>2. call[p] \in {"none", "creating"}
    BY <1>4, Places1 DEF Standing
  <2> QED
    BY <1>1, <1>2, <1>4, <2>1, <2>2 DEF HoldInv, Tenure, Minting, Keeps
<1> QED
  BY <1>1, <1>3, <1>4, <1>5, HoldKept DEF Minting

LEMMA BlackoutHold ==
  ASSUME QInv, HoldInv, Blackout
  PROVE  HoldInv'
<1>1. /\ journal' \in {journal, durable} /\ durable' = journal'
      /\ results' = results /\ minted' = minted
      /\ file = "whole" => file' = "whole"
  BY DEF Blackout, PowerFailure
<1>2. \A q \in Processes : /\ at'[q] = "idle" /\ call'[q] = "none"
                           /\ entry'[q] = NoEntry /\ permit'[q] = NoPermit
  BY DEF Blackout, PowerFailure
<1>3. NoEntry.nonce = 0 /\ NoPermit.nonce = 0 /\ minted \in Nat
  BY HoldTypes DEF NoEntry, Transition, NoPermit
<1>4. \A q \in Processes : Tenure(q)'
  BY <1>1, <1>2, <1>3 DEF Tenure, Minting, Keeps
<1>5. Distinct'
  BY <1>2, <1>3 DEF Distinct, Minting
<1>6. Agree(results', journal') /\ Agree(results', durable')
  BY <1>1 DEF HoldInv
<1>7. \A e \in Elements(journal') : e.nonce <= minted'
  <2>1. \A e \in Elements(journal) \cup Elements(durable) : e.nonce <= minted
    BY HoldTypes DEF HoldInv
  <2> QED
    BY <1>1, <2>1
<1>8. journal' # <<>> => file' = "whole"
  <2>1. durable # <<>> => journal # <<>>
    <3> SUFFICES ASSUME durable # <<>>, journal = <<>>
                 PROVE  FALSE
      OBVIOUS
    <3>1. durable \in Seq(Entry) /\ Len(durable) <= Len(journal)
      BY DEF QInv, ListInv, HistoryInv, LedgerInv, Orderly, Within
    <3> QED
      BY <3>1, LenProperties, EmptySeq
  <2> QED
    BY <1>1, <2>1 DEF HoldInv
<1> QED
  BY <1>1, <1>4, <1>5, <1>6, <1>7, <1>8 DEF HoldInv

LEMMA HoldStep ==
  ASSUME QInv, HoldInv, [QNext]_qvars
  PROVE  HoldInv'
<1>1. ASSUME NEW p \in Processes, Proceed(p)
      PROVE  HoldInv'
  <2>1. CASE Completed(p)
    BY <2>1, WorkHold, EndHold DEF Completed
  <2> QED
    BY <1>1, <2>1, AdmitHold, ReplaceHold, OpenedHold, CallHold, WorkHold, EndHold,
       WriteResultHold DEF Proceed, Waits
<1>2. CASE UNCHANGED qvars
  <2>1. UNCHANGED <<file, journal, durable, call, entry, minted, at, permit, verdict, results>>
    BY <1>2 DEF qvars, ledger, client
  <2>2. \A q \in Processes : Tenure(q)'
    BY <2>1 DEF HoldInv, Tenure, Minting, Keeps, Holds
  <2>3. Distinct'
    BY <2>1 DEF HoldInv, Distinct, Minting
  <2>4. Agree(results', journal') /\ Agree(results', durable')
    BY <2>1 DEF HoldInv
  <2> QED
    BY <2>1, <2>2, <2>3, <2>4 DEF HoldInv
<1> QED
  BY <1>1, <1>2, CallHold, EndHold, OutsideHold, BlackoutHold DEF QNext

LEMMA HoldInitially ==
  ASSUME QInit
  PROVE  HoldInv
<1>1. /\ journal = <<>> /\ durable = <<>> /\ minted = 0
      /\ \A q \in Processes : /\ at[q] = "idle" /\ call[q] = "none"
                              /\ entry[q].nonce = 0 /\ permit[q].nonce = 0
  BY DEF QInit, Init, NoEntry, Transition, NoPermit
<1>2. Elements(<<>>) = {}
  BY DEF Elements
<1>3. \A q \in Processes : Tenure(q)
  BY <1>1 DEF Tenure, Minting, Keeps
<1>4. Distinct
  BY <1>1 DEF Distinct, Minting
<1>5. Agree(results, journal) /\ Agree(results, durable)
  BY <1>1, <1>2 DEF Agree
<1>6. results \in [Splits -> [verdict : {"none", "passed", "failed", "raised"},
                             claims : SUBSET Purposes]]
  BY DEF QInit, NoResult
<1> QED
  BY <1>1, <1>2, <1>3, <1>4, <1>5, <1>6 DEF HoldInv

LEMMA HoldInvHolds == QSpec => [](QInv /\ HoldInv)
<1>1. QInit => QInv /\ HoldInv
  BY QInitially, HoldInitially
<1>2. QInv /\ HoldInv /\ [QNext]_qvars => (QInv /\ HoldInv)'
  BY QStep, HoldStep
<1> QED
  BY <1>1, <1>2, PTL DEF QSpec

-----------------------------------------------------------------------------
(* The end of the order.  A failed completion is the last transition; a     *)
(* replaced list ends with its writer's; and once somebody publishes, or    *)
(* has, the list is over and durable, and nobody can write to it.           *)
LastWord(j) ==
  \A i \in DOMAIN j : j[i].status = "failed" => \A k \in DOMAIN j : k <= i

Announces(p) ==
  /\ report = "none"
  /\ IF verdict[p] = "passed" THEN PassedCount(journal) = SplitCount ELSE HasFailed(journal)

Over == report # "none" \/ \E p \in Processes : at[p] = "publishing"

OverInv ==
  /\ LastWord(journal) /\ LastWord(durable)
  /\ \A p \in Processes : call[p] = "replaced" => journal[Len(journal)] = entry[p]
  /\ \A p \in Processes : at[p] = "publishing" =>
       Announces(p) /\ \A q \in Processes : at[q] = "publishing" => q = p
  /\ Over => /\ Terminal(journal) /\ durable = journal
             /\ \A p \in Processes : call[p] \notin {"writing", "replaced"}

(* A step that does not write the list, nor the report.                     *)
LEMMA OverKept ==
  ASSUME OverInv, NEW p \in Processes, OthersStand(p), UNCHANGED <<journal, report>>,
         durable' \in {durable, journal},
         at'[p] # "publishing", call'[p] \notin {"writing", "replaced"}
  PROVE  OverInv'
<1>1. LastWord(journal)' /\ LastWord(durable)'
  BY DEF OverInv, LastWord
<1>2. ASSUME NEW q \in Processes, q # p
      PROVE  /\ call'[q] = call[q] /\ entry'[q] = entry[q]
             /\ at'[q] = at[q] /\ (Announces(q)' <=> Announces(q))
  <2>1. HasFailed(journal)' = HasFailed(journal) /\ PassedCount(journal)' = PassedCount(journal)
    BY DEF HasFailed, PassedCount
  <2> QED
    BY <1>2, <2>1 DEF OthersStand, Announces
<1>3. \A q \in Processes : call'[q] = "replaced" => journal'[Len(journal')] = entry'[q]
  BY <1>2 DEF OverInv
<1>4. \A q \in Processes : at'[q] = "publishing" =>
        Announces(q)' /\ \A o \in Processes : at'[o] = "publishing" => o = q
  BY <1>2 DEF OverInv
<1>5. Over' => /\ Terminal(journal') /\ durable' = journal'
               /\ \A q \in Processes : call'[q] \notin {"writing", "replaced"}
  <2>1. Over' => Over
    BY <1>2 DEF Over
  <2> QED
    BY <1>2, <2>1 DEF OverInv
<1> QED
  BY <1>1, <1>3, <1>4, <1>5 DEF OverInv

LEMMA LeaveOver ==
  ASSUME QInv, OverInv, NEW p \in Processes, Leave(p), UNCHANGED journal,
         durable' \in {durable, journal}, call'[p] \in {"none", "creating"},
         \A q \in Processes : q # p => call'[q] = call[q] /\ entry'[q] = entry[q]
  PROVE  OverInv'
<1>1. /\ at'[p] = "idle" /\ UNCHANGED report
      /\ \A q \in Processes : q # p =>
           /\ at'[q] = at[q] /\ permit'[q] = permit[q] /\ drawn'[q] = drawn[q]
           /\ verdict'[q] = verdict[q]
  BY DEF Leave, Go, QInv, ClientTypes
<1>2. OthersStand(p)
  BY <1>1 DEF OthersStand
<1> QED
  BY <1>1, <1>2, OverKept

LEMMA WorkOver ==
  ASSUME QInv, OverInv, NEW p \in Processes,
         \/ \E s \in Splits : Start(p, s)
         \/ Opened(p) \/ Claim(p) \/ Claimed(p) \/ Materialise(p) \/ Judge(p)
         \/ EvaluationRaises(p) \/ WriteResult(p)
  PROVE  OverInv'
<1>1. /\ UNCHANGED <<journal, report>> /\ durable' \in {durable, journal}
      /\ at'[p] # "publishing"
      /\ \A q \in Processes : q # p =>
           /\ at'[q] = at[q] /\ permit'[q] = permit[q] /\ drawn'[q] = drawn[q]
           /\ verdict'[q] = verdict[q]
  BY DEF Start, Opened, Claim, Claimed, Materialise, Judge, EvaluationRaises, WriteResult, Settle,
         Refused, Go, Call, Return, Reject, IOError, ledger, QInv, ClientTypes
<1>2. /\ call'[p] \notin {"writing", "replaced"}
      /\ \A q \in Processes : q # p => call'[q] = call[q] /\ entry'[q] = entry[q]
  <2>1. CASE UNCHANGED ledger /\ at[p] \in {"evaluating", "claimed"}
    BY <2>1, Places1 DEF ledger, Standing, Working
  <2>2. CASE Return(p) \/ Reject(p) \/ IOError(p)
    BY <2>2, EndMoves
  <2>3. ASSUME NEW e, Call(p, e)
        PROVE  /\ call'[p] = "waiting"
               /\ \A q \in Processes : q # p => call'[q] = call[q] /\ entry'[q] = entry[q]
    BY <2>3, HoldTypes DEF Call
  <2> QED
    BY <2>1, <2>2, <2>3 DEF Start, Opened, Claim, Claimed, Materialise, Judge, EvaluationRaises,
       WriteResult, Refused
<1> QED
  BY <1>1, <1>2, OverKept DEF OthersStand

LEMMA WaitsOver ==
  ASSUME QInv, HoldInv, OverInv, NEW p \in Processes, Waits(p)
  PROVE  OverInv'
<1>1. /\ UNCHANGED <<at, permit, drawn, verdict, report>>
      /\ \A q \in Processes : q # p => call'[q] = call[q] /\ entry'[q] = entry[q]
  BY WaitMoves DEF Waits, client
<1>2. at[p] # "publishing"
  BY WaitMoves, Places1 DEF Waits, Standing, Working, Busy
<1>3. CASE Acquire(p)
  <2>1. OthersStand(p) /\ UNCHANGED <<journal, durable>> /\ call'[p] = "locked"
    BY <1>1, <1>3, HoldTypes DEF OthersStand, Acquire
  <2> QED
    BY <1>1, <1>2, <2>1, OverKept
<1>4. CASE Admit(p)
  <2>1. ~Terminal(journal) /\ UNCHANGED <<journal, durable>> /\ call'[p] = "writing"
    BY <1>4, HoldTypes DEF Admit, Admits
  <2>2. ~Over /\ ~Over'
    BY <1>1, <2>1 DEF OverInv, Over
  <2>3. LastWord(journal)' /\ LastWord(durable)'
    BY <2>1 DEF OverInv, LastWord
  <2>4. \A q \in Processes : call'[q] = "replaced" => journal'[Len(journal')] = entry'[q]
    BY <1>1, <2>1 DEF OverInv
  <2> QED
    BY <2>2, <2>3, <2>4 DEF OverInv, Over
<1>5. CASE Replace(p)
  <2>1. /\ call[p] = "writing" /\ entry[p] \in Entry /\ Admits(entry[p], journal)
        /\ journal' = Append(journal, entry[p]) /\ UNCHANGED <<durable, entry>>
    BY <1>5 DEF Replace, QInv, ListInv, HistoryInv, LedgerInv, Types, WritesOnWhatItRead, Inside
  <2>2. ~Terminal(journal) /\ ~HasFailed(journal)
    BY <2>1 DEF Admits, Terminal
  <2>3. ~Over /\ ~Over'
    BY <1>1, <2>2 DEF OverInv, Over
  <2>4. /\ Len(journal) \in Nat /\ DOMAIN journal' = DOMAIN journal \cup {Len(journal) + 1}
        /\ DOMAIN journal = 1 .. Len(journal) /\ Len(journal') = Len(journal) + 1
        /\ \A i \in DOMAIN journal : journal'[i] = journal[i]
        /\ journal'[Len(journal) + 1] = entry[p]
    BY <2>1, HoldTypes, Appended
  <2>5. LastWord(journal')
    BY <2>2, <2>4 DEF LastWord, HasFailed
  <2>6. LastWord(durable')
    BY <2>1 DEF OverInv
  <2>7. \A q \in Processes : q # p => call[q] # "replaced"
    BY <2>1, HoldTypes DEF Inside
  <2>8. \A q \in Processes : call'[q] = "replaced" => journal'[Len(journal')] = entry'[q]
    BY <1>1, <2>1, <2>4, <2>7
  <2> QED
    BY <2>3, <2>5, <2>6, <2>8 DEF OverInv, Over
<1> QED
  BY <1>3, <1>4, <1>5 DEF Waits

(* Who completes the last split, or fails one, finds the order over and the *)
(* report unwritten: its own completion is the last word of the list.       *)
LEMMA AnnouncesCompleted ==
  ASSUME QInv, HoldInv, OverInv, NEW p \in Processes,
         at[p] = "completing", call[p] = "replaced",
         verdict[p] # "passed" \/ permit[p].split = SplitCount
  PROVE  Terminal(journal) /\ Announces(p)
<1> DEFINE n == Len(journal)
<1>1. /\ journal \in Seq(Entry) /\ Orderly(journal) /\ Chronicle(journal)
      /\ n \in Nat /\ DOMAIN journal = 1 .. n
  BY HoldTypes, LenProperties
<1>2. n \in DOMAIN journal /\ journal[n] = entry[p]
  <2>1. DOMAIN journal # {}
    BY ReturnedEntry DEF Elements
  <2> QED
    BY <1>1, <2>1 DEF OverInv
<1>3. /\ journal[n].event = "complete" /\ journal[n].split = permit[p].split
      /\ journal[n].status = Outcome(verdict[p])
  <2>1. entry[p] = CompleteEntry(permit[p], Outcome(verdict[p]))
    BY Places1 DEF Standing
  <2> QED
    BY <1>2, <2>1 DEF CompleteEntry, Transition
<1>4. ~Over
  BY DEF OverInv
<1> HIDE DEF n
<1>5. CASE verdict[p] = "passed"
  <2>1. journal[n].status = "passed" /\ journal[n].split = SplitCount
    BY <1>3, <1>5 DEF Outcome
  <2>2. ~HasFailed(journal)
    <3> SUFFICES ASSUME NEW i \in DOMAIN journal, journal[i].status = "failed"
                 PROVE  FALSE
      BY DEF HasFailed
    <3>1. n <= i
      BY <1>2 DEF OverInv, LastWord
    <3>2. i = n
      BY <1>1, <3>1
    <3> QED
      BY <2>1, <3>2
  <2>3. ~(IsActive(journal) /\ n >= Last(journal))
    <3> SUFFICES ASSUME IsActive(journal), n >= Last(journal)
                 PROVE  FALSE
      OBVIOUS
    <3>1. /\ Last(journal) \in Begins(journal) /\ Last(journal) \in Nat
          /\ \A i \in DOMAIN journal : i > Last(journal) => journal[i].event = "claim"
      BY <1>1, ActiveOpening
    <3>2. n = Last(journal) \/ n > Last(journal)
      BY <1>1, <3>1
    <3> QED
      BY <1>2, <1>3, <3>1, <3>2 DEF Begins
  <2>4. SplitCount <= PassedCount(journal)
    BY <1>1, <1>2, <2>1, <2>2, <2>3 DEF Chronicle, Placed
  <2>5. PassedCount(journal) = SplitCount
    BY <1>1, <2>4, PassingFinite, LedgerAssumption DEF Orderly
  <2> QED
    BY <1>4, <1>5, <2>5 DEF Announces, Over, Terminal
<1>6. CASE verdict[p] # "passed"
  <2>1. HasFailed(journal)
    BY <1>2, <1>3, <1>6 DEF HasFailed, Outcome
  <2> QED
    BY <1>4, <1>6, <2>1 DEF Announces, Over, Terminal
<1> QED
  BY <1>5, <1>6

LEMMA CompletedOver ==
  ASSUME QInv, HoldInv, OverInv, NEW p \in Processes, Completed(p)
  PROVE  OverInv'
<1>1. /\ at[p] = "completing" /\ call[p] = "replaced" /\ UNCHANGED journal /\ durable' = journal
      /\ call'[p] = "none"
      /\ \A q \in Processes : q # p => call'[q] = call[q] /\ entry'[q] = entry[q]
  BY EndMoves DEF Completed, Return
<1>2. CASE Leave(p)
  BY <1>1, <1>2, LeaveOver
<1>3. CASE ~Leave(p)
  <2>1. /\ verdict[p] # "passed" \/ permit[p].split = SplitCount
        /\ Go(p, "publishing") /\ UNCHANGED <<permit, verdict, report>>
    BY <1>3 DEF Completed
  <2>2. at'[p] = "publishing" /\ \A q \in Processes : q # p => at'[q] = at[q]
    BY <2>1, GoMoves DEF Working
  <2>3. Terminal(journal) /\ Announces(p) /\ ~Over
    BY <1>1, <2>1, AnnouncesCompleted DEF OverInv
  <2>4. \A q \in Processes : call'[q] \notin {"writing", "replaced"}
    BY <1>1, HoldTypes DEF Inside
  <2>5. Terminal(journal') /\ durable' = journal'
    BY <1>1, <2>3
  <2>6. \A q \in Processes : at'[q] = "publishing" => q = p
    BY <2>2, <2>3 DEF Over
  <2>7. Announces(p)'
    BY <1>1, <2>1, <2>3 DEF Announces, HasFailed, PassedCount
  <2>8. LastWord(journal') /\ LastWord(durable')
    BY <1>1 DEF OverInv
  <2> QED
    BY <2>4, <2>5, <2>6, <2>7, <2>8 DEF OverInv
<1> QED
  BY <1>2, <1>3

LEMMA PublishOver ==
  ASSUME QInv, HoldInv, OverInv, NEW p \in Processes, Publish(p)
  PROVE  OverInv'
<1>1. at[p] = "publishing" /\ UNCHANGED <<journal, durable, call, entry>>
  BY DEF Publish, ledger
<1>2. /\ Terminal(journal) /\ durable = journal
      /\ \A q \in Processes : call[q] \notin {"writing", "replaced"}
      /\ \A q \in Processes : at[q] = "publishing" => q = p
  BY <1>1 DEF OverInv, Over
<1>3. at'[p] = "idle" /\ \A q \in Processes : q # p => at'[q] = at[q]
  BY GoMoves DEF Publish
<1>4. \A q \in Processes : at'[q] # "publishing"
  BY <1>2, <1>3
<1>5. LastWord(journal') /\ LastWord(durable') /\ Terminal(journal') /\ durable' = journal'
  BY <1>1, <1>2 DEF OverInv
<1> QED
  BY <1>1, <1>2, <1>4, <1>5 DEF OverInv

LEMMA EndOver ==
  ASSUME QInv, HoldInv, OverInv, NEW p \in Processes,
         NotOpened(p) \/ NotCompleted(p) \/ PublishRaises(p) \/ WriteRaises(p) \/ Killed(p)
  PROVE  OverInv'
<1>1. CASE (Reject(p) \/ IOError(p) \/ Kill(p)) /\ Leave(p)
  <2>1. UNCHANGED <<journal, durable>>
    BY <1>1 DEF Reject, IOError, Kill
  <2> QED
    BY <1>1, <2>1, EndMoves, LeaveOver
<1>2. CASE (PublishRaises(p) \/ WriteRaises(p)) /\ Leave(p)
  <2>1. UNCHANGED <<journal, durable, call, entry>> /\ call[p] = "none"
    BY <1>2, Places1 DEF PublishRaises, WriteRaises, ledger, Standing, Working
  <2> QED
    BY <1>2, <2>1, LeaveOver
<1> QED
  BY <1>1, <1>2 DEF NotOpened, NotCompleted, PublishRaises, WriteRaises, Killed, Refused

LEMMA OutsideOver ==
  ASSUME QInv, HoldInv, OverInv, NEW p \in Processes, CreateLedger(p) \/ Operate(p)
  PROVE  OverInv'
<1>1. UNCHANGED <<journal, durable, at, permit, drawn, verdict, report>> /\ at[p] = "idle"
  BY DEF CreateLedger, Create, Created, IOError, Operate, client
<1>2. /\ call'[p] \in {"none", "creating"} \/ call'[p] = call[p]
      /\ \A q \in Processes : q # p => call'[q] = call[q] /\ entry'[q] = entry[q]
  BY HoldTypes DEF CreateLedger, Create, Created, IOError, End, Operate
<1>3. call[p] \in {"none", "creating"}
  BY <1>1, Places1 DEF Standing
<1> QED
  BY <1>1, <1>2, <1>3, OverKept DEF OthersStand

LEMMA BlackoutOver ==
  ASSUME OverInv, Blackout
  PROVE  OverInv'
<1>1. /\ journal' \in {journal, durable} /\ durable' = journal' /\ UNCHANGED report
      /\ \A q \in Processes : at'[q] = "idle" /\ call'[q] = "none"
  BY DEF Blackout, PowerFailure
<1>2. LastWord(journal') /\ LastWord(durable')
  BY <1>1 DEF OverInv
<1>3. Over' => Terminal(journal')
  <2>1. Over' => Over
    BY <1>1 DEF Over
  <2> QED
    BY <1>1, <2>1 DEF OverInv
<1> QED
  BY <1>1, <1>2, <1>3 DEF OverInv

LEMMA OverStep ==
  ASSUME QInv, HoldInv, OverInv, [QNext]_qvars
  PROVE  OverInv'
<1>1. ASSUME NEW p \in Processes, Proceed(p)
      PROVE  OverInv'
  BY <1>1, WaitsOver, WorkOver, EndOver, CompletedOver, PublishOver DEF Proceed
<1>2. CASE UNCHANGED qvars
  <2>1. UNCHANGED <<journal, durable, call, entry, at, verdict, report>>
    BY <1>2 DEF qvars, ledger, client
  <2>2. \A q \in Processes : Announces(q)' <=> Announces(q)
    BY <2>1 DEF Announces, HasFailed, PassedCount
  <2>3. LastWord(journal') /\ LastWord(durable') /\ (Terminal(journal') <=> Terminal(journal))
    BY <2>1 DEF OverInv
  <2> QED
    BY <2>1, <2>2, <2>3 DEF OverInv, Over
<1> QED
  BY <1>1, <1>2, WorkOver, EndOver, OutsideOver, BlackoutOver DEF QNext

LEMMA OverInvHolds == QSpec => [](QInv /\ HoldInv /\ OverInv)
<1>1. QInit => QInv /\ HoldInv /\ OverInv
  <2> SUFFICES ASSUME QInit PROVE OverInv
    BY QInitially, HoldInitially
  <2> QED
    BY DEF QInit, Init, OverInv, Over, LastWord
<1>2. QInv /\ HoldInv /\ OverInv /\ [QNext]_qvars => (QInv /\ HoldInv /\ OverInv)'
  BY QStep, HoldStep, OverStep
<1> QED
  BY <1>1, <1>2, PTL DEF QSpec

(* A completion is only ever written for a result that is in its file, with *)
(* the verdict and the claims the ledger has, whoever writes beside it.     *)
THEOREM ResultBeforeCompletion == QSpec => []CompletionHasResult
<1>1. QInv /\ HoldInv => CompletionHasResult
  <2> SUFFICES ASSUME QInv, HoldInv, NEW i \in DOMAIN journal, journal[i].event = "complete"
               PROVE  /\ Outcome(results[journal[i].split].verdict) = journal[i].status
                      /\ results[journal[i].split].claims = ClaimsOf(journal[i].split)
    BY DEF CompletionHasResult, Finished
  <2>1. journal[i] \in Elements(journal)
    BY DEF Elements
  <2>2. \A s : ClaimsIn(journal, s) = ClaimsOf(s)
    BY DEF ClaimsIn, ClaimsOf, Elements
  <2> QED
    BY <2>1, <2>2 DEF HoldInv, Agree
<1> QED
  BY <1>1, HoldInvHolds, PTL

(* The report of an order that is over is never refused: its publisher is   *)
(* the only one, the ledger reads, every completion has its result, and the *)
(* last word of the list is what the report would say.                      *)
THEOREM PublicationAccepted == QSpec => []PublicationNeverRefused
<1>1. ASSUME QInv, HoldInv, OverInv, NEW p \in Processes, at[p] = "publishing", ReportStands
      PROVE  report = "none" /\ Publishable(Status(p))
  <2>1. Announces(p) /\ Terminal(journal)
    BY <1>1 DEF OverInv, Over
  <2>2. /\ journal \in Seq(Entry) /\ Elements(journal) \subseteq Entry
        /\ DOMAIN journal = 1 .. Len(journal) /\ Len(journal) \in Nat
    BY <1>1, HoldTypes, LenProperties
  <2>3. Agree(results, journal)
    BY <1>1 DEF HoldInv
  <2>4. \A i \in DOMAIN journal : journal[i] \in Elements(journal)
    BY DEF Elements
  <2>5. Readable
    <3>1. journal # <<>>
      <4>1. PassedCount(<<>>) = 0 /\ ~HasFailed(<<>>)
        <5>1. Passing(<<>>) = {} /\ ~HasFailed(<<>>)
          BY DEF Passing, HasFailed
        <5> QED
          BY <5>1, FS_EmptySet DEF Passing, PassedCount
      <4> QED
        BY <2>1, <4>1, LedgerAssumption DEF Terminal
    <3> QED
      BY <1>1, <3>1, HoldTypes DEF HoldInv
  <2>6. ASSUME NEW i \in Finished
        PROVE  /\ results[journal[i].split] # NoResult
               /\ results[journal[i].split].claims = ClaimsOf(journal[i].split)
    <3>1. ClaimsIn(journal, journal[i].split) = ClaimsOf(journal[i].split)
      BY DEF ClaimsIn, ClaimsOf, Elements
    <3>2. /\ results[journal[i].split].verdict # "none"
          /\ results[journal[i].split].claims = ClaimsIn(journal, journal[i].split)
      BY <2>3, <2>4 DEF Finished, Agree
    <3> QED
      BY <3>1, <3>2 DEF NoResult
  <2>7. CASE verdict[p] = "passed"
    <3>1. PassedCount(journal) = SplitCount /\ report = "none"
      BY <2>1, <2>7 DEF Announces
    <3>2. ASSUME NEW s \in Splits
          PROVE  results[s].verdict = "passed"
      <4>1. PICK e \in Elements(journal) : e.event = "complete" /\ e.split = s /\ e.status = "passed"
        BY <1>1, <3>1 DEF QInv, ListInv, Gapless, PassedIn, Splits
      <4>2. Outcome(results[s].verdict) = "passed"
        BY <2>3, <4>1 DEF Agree
      <4> QED
        BY <4>2 DEF Outcome
    <3> QED
      BY <1>1, <2>1, <2>5, <2>6, <2>7, <3>1, <3>2 DEF Publishable, Status
  <2>8. CASE verdict[p] # "passed"
    <3>1. report = "none" /\ HasFailed(journal)
      BY <2>1, <2>8 DEF Announces
    <3>2. PICK i \in DOMAIN journal : journal[i].status = "failed"
      BY <3>1 DEF HasFailed
    <3>3. journal[i].event = "complete" /\ i \in Finished
      BY <2>2, <2>4, <3>2 DEF Entry, Finished
    <3>4. Max(Finished) = i
      <4>1. Finished \in SUBSET Nat /\ \A k \in Finished : i >= k
        BY <1>1, <2>2, <3>2 DEF Finished, OverInv, LastWord
      <4> QED
        BY <3>3, <4>1, GreatestIsMax
    <3>5. results[journal[i].split].verdict # "passed"
      <4>1. Outcome(results[journal[i].split].verdict) = "failed"
        BY <2>3, <2>4, <3>2, <3>3 DEF Agree
      <4> QED
        BY <4>1 DEF Outcome
    <3>6. Status(p) # "qualified_convergence"
      BY <2>8 DEF Status
    <3> QED
      BY <1>1, <2>1, <2>5, <2>6, <3>1, <3>3, <3>4, <3>5, <3>6 DEF Publishable
  <2> QED
    BY <2>7, <2>8
<1>2. QInv /\ HoldInv /\ OverInv => PublicationNeverRefused
  BY <1>1 DEF PublicationNeverRefused
<1> QED
  BY <1>2, OverInvHolds, PTL

(* No active campaign is stranded by what an older command writes over it,  *)
(* for any lengths of a campaign and any number of processes.               *)
THEOREM CampaignFollowed == QSpec => []JournalFollowsCampaign
<1>1. QInv => JournalFollowsCampaign
  BY FrontFollows DEF QInv
<1> QED
  BY <1>1, QInvHolds, PTL

(* A ledger is opened for a model whose reviewed campaign qualified on its  *)
(* own evidence, and whatever runs later leaves that evidence as it was.    *)
THEOREM ReviewQualifies == QSpec => []ReviewedModelQualifies
<1>1. QInv => ReviewedModelQualifies
  BY DEF QInv, Guarded, Reviewed, ReviewedModelQualifies
<1> QED
  BY <1>1, QInvHolds, PTL

(* No population is materialised twice.                                     *)
THEOREM DrawnOnce == QSpec => []PopulationsDrawnOnce
<1>1. QInv => PopulationsDrawnOnce
  <2> SUFFICES ASSUME QInv, NEW x \in Populations
               PROVE  draws[x] <= 1
    BY DEF PopulationsDrawnOnce
  <2>1. draws[x] \in Nat /\ (draws[x] > 0 => draws[x] = 1)
    BY DEF QInv, ClientTypes, DrawInv
  <2> QED
    BY <2>1
<1> QED
  BY <1>1, QInvHolds, PTL

(* A materialised population has a claim no power failure undoes, and every *)
(* split before its own has durably passed.                                 *)
THEOREM DrawnAfterClaim == QSpec => []DrawnUnderDurableClaim
<1>1. QInv => DrawnUnderDurableClaim
  <2> SUFFICES ASSUME QInv, NEW x \in Populations, draws[x] > 0
               PROVE  /\ \E i \in DOMAIN durable :
                           /\ durable[i].event = "claim" /\ durable[i].split = x[1]
                           /\ durable[i].purpose = x[2]
                      /\ \A s \in 1 .. x[1] - 1 : \E i \in DOMAIN durable :
                           /\ durable[i].event = "complete" /\ durable[i].split = s
                           /\ durable[i].status = "passed"
    BY DEF DrawnUnderDurableClaim
  <2>1. PICK e \in Elements(durable) : e.event = "claim" /\ e.split = x[1] /\ e.purpose = x[2]
    BY DEF QInv, DrawInv, ClaimedIn
  <2>2. \A s \in 1 .. x[1] - 1 : PassedIn(durable, s)
    BY <2>1 DEF QInv, ListInv, Gapless
  <2> QED
    BY <2>1, <2>2 DEF PassedIn, Elements
<1> QED
  BY <1>1, QInvHolds, PTL

(* A split whose process is gone stays open for ever: nobody else can write *)
(* what its permit would have to sign.                                      *)
THEOREM InterruptionFinal == QSpec => InterruptionIsFinal
<1>1. ASSUME QInv, [QNext]_qvars, Interrupted
      PROVE  Len(journal') <= Len(journal)
  <2>1. /\ journal \in Seq(Entry) /\ durable \in Seq(Entry)
        /\ Len(durable) <= Len(journal) /\ Len(journal) \in Nat
    BY <1>1, LenProperties DEF QInv, ListInv, HistoryInv, LedgerInv, Orderly, Within
  <2>2. ASSUME NEW p \in Processes, Replace(p)
        PROVE  FALSE
    <3>1. call[p] = "writing" /\ Admits(entry[p], journal) /\ permit[p].split = 0
      BY <1>1, <2>2 DEF Replace, QInv, ListInv, HistoryInv, LedgerInv, WritesOnWhatItRead,
                        Interrupted, NoPermit
    <3>2. at[p] = "opening"
      <4>1. permit[p].split \notin Splits
        BY <3>1, LedgerAssumption DEF Splits
      <4> QED
        BY <1>1, <3>1, <4>1 DEF QInv, Standing
    <3>3. entry[p].event = "begin"
      BY <1>1, <3>2 DEF QInv, Standing
    <3>4. ~IsActive(journal)
      BY <1>1, <2>1, <3>1, <3>3, ClosedByCompletion DEF Admits
    <3> QED
      BY <1>1, <3>4 DEF Interrupted
  <2>3. journal' \in {journal, durable}
    BY <1>1, <2>2
       DEF QNext, CreateLedger, Create, Created, IOError, Start, Call, Proceed, Waits, Acquire,
           Admit, Opened, Return, NotOpened, Refused, Reject, Claim, Claimed, Materialise, Judge,
           EvaluationRaises, WriteResult, Completed, NotCompleted, Publish, PublishRaises,
           WriteRaises, Killed, Kill, Operate, Blackout, PowerFailure, qvars, ledger
  <2> QED
    BY <2>1, <2>3
<1>2. QInv /\ [QNext]_qvars => [Interrupted => Len(journal') <= Len(journal)]_qvars
  BY <1>1
<1> QED
  BY <1>2, QInvHolds, PTL DEF QSpec, InterruptionIsFinal
=============================================================================

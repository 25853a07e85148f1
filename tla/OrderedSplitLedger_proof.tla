---------------------- MODULE OrderedSplitLedger_proof ----------------------
(***************************************************************************)
(* What OrderedSplitLedger guarantees for any number of processes, splits,  *)
(* purposes and faults: the lock excludes, no acknowledged transition is    *)
(* lost, and the ledger always loads.  The first part is about lists of     *)
(* transitions alone, the second about the steps of the processes, the      *)
(* third shows that the durable file implements OneShotAccess.              *)
(***************************************************************************)
EXTENDS OrderedSplitLedger, FiniteSetTheorems, SequenceTheorems, TLAPS

(* A transition as begin, claim_active and complete build it. *)
Entry ==
  {e \in [event : Events, split : Nat, nonce : Nat, purpose : Purposes \cup {None},
          status : {None, "passed", "failed"}] :
     /\ e.event = "claim" <=> e.purpose \in Purposes
     /\ e.event = "complete" <=> e.status \in {"passed", "failed"}}

HasLast(S) == S = {} \/ \E m \in S : \A x \in S : m >= x

(* The inductive strengthening of Loads: the open split is the one after    *)
(* those that passed, and it is one of the frozen order.                    *)
Orderly(j) ==
  /\ j \in Seq(Entry)
  /\ Loads(j)
  /\ HasLast(Bounds(j))
  /\ PassedCount(j) <= SplitCount
  /\ IsActive(j) => /\ Opening(j).split = PassedCount(j) + 1
                    /\ Opening(j).split <= SplitCount

Passing(j) == {i \in DOMAIN j : j[i].status = "passed"}
-----------------------------------------------------------------------------
LEMMA Appended ==
  ASSUME NEW j \in Seq(Entry), NEW e \in Entry
  PROVE  /\ Append(j, e) \in Seq(Entry)
         /\ Len(j) \in Nat
         /\ DOMAIN j = 1 .. Len(j)
         /\ DOMAIN Append(j, e) = DOMAIN j \cup {Len(j) + 1}
         /\ Len(j) + 1 \notin DOMAIN j
         /\ Len(Append(j, e)) = Len(j) + 1
         /\ \A i \in DOMAIN j : Append(j, e)[i] = j[i] /\ j[i] \in Entry /\ i \in Nat
         /\ Append(j, e)[Len(j) + 1] = e
BY AppendProperties, LenProperties, ElementOfSeq

LEMMA GreatestIsMax ==
  ASSUME NEW S \in SUBSET Nat, NEW m \in S, \A x \in S : m >= x
  PROVE  Max(S) = m
<1>1. \A y \in S : (\A x \in S : y >= x) => y = m
  OBVIOUS
<1> QED
  BY <1>1 DEF Max

LEMMA MaximumIn ==
  ASSUME NEW S \in SUBSET Nat, S # {}, HasLast(S)
  PROVE  Max(S) \in S
BY GreatestIsMax DEF HasLast

(* A prefix of an extended list is a prefix of the list. *)
LEMMA PrefixKept ==
  ASSUME NEW j \in Seq(Entry), NEW e \in Entry, NEW n \in 0 .. Len(j)
  PROVE  SubSeq(Append(j, e), 1, n) = SubSeq(j, 1, n)
<1>1. \A i \in 1 .. n : /\ j[i] \in Entry
                        /\ Append(j, e)[i] = j[i]
  BY Appended
<1>2. /\ SubSeq(j, 1, n) \in Seq(Entry)
      /\ Len(SubSeq(j, 1, n)) = n
      /\ \A i \in 1 .. n : SubSeq(j, 1, n)[i] = j[i]
  BY <1>1, SubSeqProperties, Appended
<1>3. /\ SubSeq(Append(j, e), 1, n) \in Seq(Entry)
      /\ Len(SubSeq(Append(j, e), 1, n)) = n
      /\ \A i \in 1 .. n : SubSeq(Append(j, e), 1, n)[i] = j[i]
  BY <1>1, SubSeqProperties, Appended
<1> QED
  BY <1>2, <1>3, SeqEqual

LEMMA LoadsAppend ==
  ASSUME NEW j \in Seq(Entry), NEW e \in Entry, Loads(j), InOrder(e, j)
  PROVE  Loads(Append(j, e))
<1> SUFFICES ASSUME NEW i \in DOMAIN Append(j, e)
             PROVE  InOrder(Append(j, e)[i], SubSeq(Append(j, e), 1, i - 1))
  BY DEF Loads
<1>1. CASE i \in DOMAIN j
  <2>1. i - 1 \in 0 .. Len(j) /\ Append(j, e)[i] = j[i]
    BY <1>1, Appended
  <2>2. InOrder(j[i], SubSeq(j, 1, i - 1))
    BY <1>1 DEF Loads
  <2> QED
    BY <2>1, <2>2, PrefixKept
<1>2. CASE i = Len(j) + 1
  <2>1. /\ i - 1 = Len(j) /\ Len(j) \in 0 .. Len(j)
        /\ Append(j, e)[i] = e
    BY <1>2, Appended
  <2>2. SubSeq(Append(j, e), 1, i - 1) = j
    BY <2>1, PrefixKept, SubSeqFull
  <2> QED
    BY <2>1, <2>2
<1> QED
  BY <1>1, <1>2, Appended
-----------------------------------------------------------------------------
(* How one more transition changes what load reconstructs. *)

LEMMA PassingFinite ==
  ASSUME NEW j \in Seq(Entry)
  PROVE  IsFiniteSet(Passing(j)) /\ PassedCount(j) \in Nat
<1>1. DOMAIN j = 1 .. Len(j) /\ Len(j) \in Nat
  BY LenProperties
<1>2. IsFiniteSet(DOMAIN j)
  BY <1>1, FS_Interval
<1>3. IsFiniteSet(Passing(j))
  BY <1>2, FS_Subset DEF Passing
<1> QED
  BY <1>3, FS_CardinalityType DEF Passing, PassedCount

LEMMA PassedAppend ==
  ASSUME NEW j \in Seq(Entry), NEW e \in Entry
  PROVE  PassedCount(Append(j, e)) =
           IF e.status = "passed" THEN PassedCount(j) + 1 ELSE PassedCount(j)
<1>1. CASE e.status = "passed"
  <2>1. Passing(Append(j, e)) = Passing(j) \cup {Len(j) + 1} /\ Len(j) + 1 \notin Passing(j)
    BY <1>1, Appended DEF Passing
  <2>2. Cardinality(Passing(Append(j, e))) = Cardinality(Passing(j)) + 1
    BY <2>1, PassingFinite, FS_AddElement
  <2> QED
    BY <1>1, <2>2 DEF Passing, PassedCount
<1>2. CASE e.status # "passed"
  <2>1. Passing(Append(j, e)) = Passing(j)
    BY <1>2, Appended DEF Passing
  <2> QED
    BY <1>2, <2>1 DEF Passing, PassedCount
<1> QED
  BY <1>1, <1>2

LEMMA ClaimKeepsOpening ==
  ASSUME NEW j \in Seq(Entry), NEW e \in Entry, e.event = "claim", HasLast(Bounds(j))
  PROVE  /\ Bounds(Append(j, e)) = Bounds(j)
         /\ IsActive(Append(j, e)) = IsActive(j)
         /\ IsActive(j) => Opening(Append(j, e)) = Opening(j)
<1>1. Bounds(Append(j, e)) = Bounds(j)
  BY Appended DEF Bounds
<1>2. Bounds(j) \in SUBSET Nat
  BY Appended DEF Bounds
<1>3. Bounds(j) # {} => Opening(Append(j, e)) = Opening(j)
  <2> SUFFICES ASSUME Bounds(j) # {} PROVE Opening(Append(j, e)) = Opening(j)
    OBVIOUS
  <2>1. Max(Bounds(j)) \in DOMAIN j
    BY <1>2, MaximumIn DEF Bounds
  <2> QED
    BY <1>1, <2>1, Appended DEF Opening
<1> QED
  BY <1>1, <1>3 DEF IsActive

LEMMA BoundaryBecomesOpening ==
  ASSUME NEW j \in Seq(Entry), NEW e \in Entry, e.event # "claim"
  PROVE  /\ HasLast(Bounds(Append(j, e)))
         /\ Opening(Append(j, e)) = e
         /\ IsActive(Append(j, e)) <=> e.event = "begin"
<1>1. e.event \in {"begin", "complete"}
  BY DEF Entry, Events
<1>2. Len(j) + 1 \in Bounds(Append(j, e))
  BY <1>1, Appended DEF Bounds
<1>3. \A x \in Bounds(Append(j, e)) : x \in Nat /\ Len(j) + 1 >= x
  BY Appended DEF Bounds
<1>4. Max(Bounds(Append(j, e))) = Len(j) + 1
  BY <1>2, <1>3, GreatestIsMax
<1>5. Opening(Append(j, e)) = e
  BY <1>4, Appended DEF Opening
<1> QED
  BY <1>1, <1>2, <1>3, <1>5 DEF HasLast, IsActive

(* A list that ends with a completion has no active split. *)
LEMMA ClosedByCompletion ==
  ASSUME NEW j \in Seq(Entry), j # <<>> => j[Len(j)].event \notin {"begin", "claim"}
  PROVE  ~IsActive(j)
<1>1. CASE j = <<>>
  BY <1>1 DEF IsActive, Bounds
<1>2. CASE j # <<>>
  <2>1. Len(j) \in DOMAIN j /\ j[Len(j)] \in Entry
    BY <1>2, EmptySeq, LenProperties, ElementOfSeq
  <2>2. j[Len(j)].event = "complete"
    BY <1>2, <2>1 DEF Entry, Events
  <2>3. Len(j) \in Bounds(j) /\ \A x \in Bounds(j) : x \in Nat /\ Len(j) >= x
    BY <2>1, <2>2, LenProperties DEF Bounds
  <2>4. Max(Bounds(j)) = Len(j)
    BY <2>3, GreatestIsMax
  <2> QED
    BY <2>2, <2>4 DEF IsActive, Opening
<1> QED
  BY <1>1, <1>2
-----------------------------------------------------------------------------
(* What begin, claim_active and complete let through, load accepts. *)
LEMMA AdmittedIsInOrder ==
  ASSUME NEW j, Orderly(j), NEW e \in Entry, Admits(e, j)
  PROVE  InOrder(e, j)
<1>1. CASE e.event = "begin"
  <2>1. e.purpose = None /\ e.status = None
    BY <1>1, LedgerAssumption DEF Entry
  <2>2. /\ ~IsActive(j) /\ ~HasFailed(j)
        /\ e.split = PassedCount(j) + 1 /\ PassedCount(j) # SplitCount
    BY <1>1, ClosedByCompletion DEF Admits, Terminal, Orderly
  <2>3. e.split \in Splits
    BY <2>2, PassingFinite, LedgerAssumption DEF Orderly, Splits
  <2> QED
    BY <1>1, <2>1, <2>2, <2>3 DEF InOrder
<1>2. CASE e.event = "claim"
  <2>1. e.purpose \in Purposes /\ e.status = None
    BY <1>2 DEF Entry
  <2> QED
    BY <1>2, <2>1 DEF InOrder, Admits
<1>3. CASE e.event = "complete"
  <2>1. e.purpose = None /\ e.status \in {"passed", "failed"}
    BY <1>3 DEF Entry
  <2> QED
    BY <1>3, <2>1 DEF InOrder, Admits
<1> QED
  BY <1>1, <1>2, <1>3 DEF Entry, Events

LEMMA AdmittedKeepsOrder ==
  ASSUME NEW j, Orderly(j), NEW e \in Entry, Admits(e, j)
  PROVE  Orderly(Append(j, e))
<1> DEFINE k == Append(j, e)
<1>1. j \in Seq(Entry) /\ k \in Seq(Entry) /\ PassedCount(j) \in Nat
  BY Appended, PassingFinite DEF Orderly
<1>2. Loads(k)
  BY <1>1, AdmittedIsInOrder, LoadsAppend DEF Orderly
<1>3. CASE e.event = "claim"
  <2>1. e.status # "passed"
    BY <1>3, LedgerAssumption DEF Entry
  <2>2. PassedCount(k) = PassedCount(j)
    BY <1>1, <2>1, PassedAppend
  <2> QED
    BY <1>1, <1>2, <1>3, <2>2, ClaimKeepsOpening DEF Orderly
<1>4. CASE e.event = "begin"
  <2>1. e.status # "passed"
    BY <1>4, LedgerAssumption DEF Entry
  <2>2. PassedCount(k) = PassedCount(j)
    BY <1>1, <2>1, PassedAppend
  <2>3. e.split = PassedCount(j) + 1 /\ e.split <= SplitCount
    BY <1>4, AdmittedIsInOrder DEF InOrder, Splits
  <2> QED
    BY <1>1, <1>2, <1>4, <2>2, <2>3, BoundaryBecomesOpening DEF Orderly
<1>5. CASE e.event = "complete"
  <2>1. IsActive(j)
    BY <1>5 DEF Admits, Holds
  <2>2. PassedCount(k) <= SplitCount
    BY <1>1, <2>1, PassedAppend, LedgerAssumption DEF Orderly
  <2> QED
    BY <1>1, <1>2, <1>5, <2>2, BoundaryBecomesOpening DEF Orderly
<1> QED
  BY <1>3, <1>4, <1>5 DEF Entry, Events

LEMMA EmptyIsOrderly == Orderly(<<>>)
<1>1. Passing(<<>>) = {} /\ Bounds(<<>>) = {}
  BY DEF Passing, Bounds
<1>2. PassedCount(<<>>) = 0
  BY <1>1, FS_EmptySet DEF Passing, PassedCount
<1> QED
  BY <1>1, <1>2, LedgerAssumption DEF Orderly, Loads, HasLast, IsActive
-----------------------------------------------------------------------------
(* The processes.  Whoever is inside the transaction sees the journal it    *)
(* will replace, so that nothing another process wrote is overwritten.      *)

Inside == {"locked", "writing", "replaced"}
Elements(j) == {j[i] : i \in DOMAIN j}

Types ==
  /\ TypeOK
  /\ entry \in [Processes -> Entry \cup {NoEntry}]
  /\ read \in [Processes -> Seq(Entry)]
  /\ acked \subseteq Entry
  /\ \A p \in Processes : call[p] \in Inside \cup {"waiting"} => entry[p] \in Entry

WritesOnWhatItRead ==
  \A p \in Processes :
    /\ call[p] = "writing" => read[p] = journal /\ Admits(entry[p], journal)
    /\ call[p] = "replaced" => entry[p] \in Elements(journal)

(* acked is kept by what is durable, which is kept by what readers see. *)
Survival ==
  /\ acked \subseteq Elements(durable)
  /\ Elements(durable) \subseteq Elements(journal)

LedgerInv ==
  /\ Types
  /\ Orderly(journal) /\ Orderly(durable)
  /\ WritesOnWhatItRead
  /\ Survival

(* Permits, whatever their source, carry a split number and a nonce, so    *)
(* that every call builds a well-formed transition.                        *)
LEMMA EntriesWellFormed ==
  ASSUME LedgerInv
  PROVE  Entries \subseteq Entry
<1>1. Permits \subseteq [split : Nat, nonce : Nat]
  <2>1. \A i \in DOMAIN journal : journal[i] \in Entry
    BY LenProperties, ElementOfSeq DEF LedgerInv, Orderly
  <2>2. \A e \in Entry : Permit(e) \in [split : Nat, nonce : Nat]
    BY DEF Entry, Permit
  <2>3. [split : Splits, nonce : {0}] \subseteq [split : Nat, nonce : Nat]
    BY DEF Splits
  <2> QED
    BY <2>1, <2>2, <2>3 DEF Permits, LedgerInv, Types
<1>2. \A s \in Splits : BeginEntry(s) \in Entry
  BY LedgerAssumption DEF BeginEntry, Transition, Entry, Events, Splits
<1>3. \A t \in [split : Nat, nonce : Nat], u \in Purposes : ClaimEntry(t, u) \in Entry
  BY LedgerAssumption DEF ClaimEntry, Transition, Entry, Events
<1>4. \A t \in [split : Nat, nonce : Nat], status \in {"passed", "failed"} :
        CompleteEntry(t, status) \in Entry
  BY LedgerAssumption DEF CompleteEntry, Transition, Entry, Events
<1> QED
  BY <1>1, <1>2, <1>3, <1>4 DEF Entries

(* A step that leaves the lists alone only has the processes to answer for. *)
LEMMA ListsKept ==
  ASSUME LedgerInv, UNCHANGED <<journal, durable, acked>>, Types', WritesOnWhatItRead'
  PROVE  LedgerInv'
BY DEF LedgerInv, Survival

LEMMA EndTypes ==
  ASSUME Types, NEW p \in Processes, End(p),
         file' \in {"absent", "torn", "whole"}, stray' \in BOOLEAN,
         minted' \in Nat, faults' \in 0 .. MaxFaults, acked' \subseteq Entry
  PROVE  Types'
<1>1. call' = [call EXCEPT ![p] = "none"] /\ lock' = IF lock = p THEN NoOne ELSE lock
  BY DEF End
<1>2. \A q \in Processes : lock' = q <=> call'[q] \in Inside
  BY <1>1, LedgerAssumption DEF Types, TypeOK, Inside
<1>3. TypeOK'
  BY <1>1, <1>2 DEF Types, TypeOK, Inside
<1>4. \A q \in Processes : call'[q] \in Inside \cup {"waiting"} => entry'[q] \in Entry
  BY DEF Types, TypeOK, End, Inside
<1>5. entry' \in [Processes -> Entry \cup {NoEntry}] /\ read' \in [Processes -> Seq(Entry)]
  BY EmptySeq DEF Types, End
<1> QED
  BY <1>3, <1>4, <1>5 DEF Types

(* A call that ends writes nothing any more; the others are where they were. *)
LEMMA EndWrites ==
  ASSUME Types, WritesOnWhatItRead, NEW p \in Processes, End(p),
         journal' = journal
  PROVE  WritesOnWhatItRead'
<1> SUFFICES ASSUME NEW q \in Processes
             PROVE  /\ call'[q] = "writing" => read'[q] = journal' /\ Admits(entry'[q], journal')
                    /\ call'[q] = "replaced" => entry'[q] \in Elements(journal')
  BY DEF WritesOnWhatItRead
<1>1. CASE q = p
  BY <1>1 DEF End, Types, TypeOK
<1>2. CASE q # p
  <2>1. call'[q] = call[q] /\ entry'[q] = entry[q] /\ read'[q] = read[q]
    BY <1>2 DEF End, Types, TypeOK
  <2> QED
    BY <2>1 DEF WritesOnWhatItRead
<1> QED
  BY <1>1, <1>2
-----------------------------------------------------------------------------
(* One lemma per step: the bookkeeping before the write, the write, and the *)
(* ways a call ends.                                                       *)

LEMMA CallStep ==
  ASSUME LedgerInv, NEW p \in Processes, NEW e \in Entry, Call(p, e)
  PROVE  LedgerInv'
<1>1. TypeOK'
  BY DEF LedgerInv, Types, TypeOK, Call, Ready
<1>2. Types'
  BY <1>1 DEF LedgerInv, Types, TypeOK, Call, Ready, Inside
<1>3. WritesOnWhatItRead'
  BY DEF LedgerInv, Types, TypeOK, Call, WritesOnWhatItRead
<1> QED
  BY <1>2, <1>3, ListsKept DEF Call

LEMMA AcquireStep ==
  ASSUME LedgerInv, NEW p \in Processes, Acquire(p)
  PROVE  LedgerInv'
<1>1. TypeOK'
  BY LedgerAssumption DEF LedgerInv, Types, TypeOK, Acquire
<1>2. Types'
  BY <1>1 DEF LedgerInv, Types, TypeOK, Acquire, Inside
<1>3. WritesOnWhatItRead'
  BY DEF LedgerInv, Types, TypeOK, Acquire, WritesOnWhatItRead
<1> QED
  BY <1>2, <1>3, ListsKept DEF Acquire

(* begin draws its nonce after its checks, none of which reads it. *)
LEMMA MintedIsAdmitted ==
  ASSUME NEW e \in Entry, NEW n \in Nat, e.event = "begin", NEW j, Admits(e, j)
  PROVE  /\ [e EXCEPT !.nonce = n] \in Entry
         /\ Admits([e EXCEPT !.nonce = n], j)
<1>1. [e EXCEPT !.nonce = n] \in Entry
  BY DEF Entry
<1>2. /\ [e EXCEPT !.nonce = n].event = "begin"
      /\ [e EXCEPT !.nonce = n].split = e.split
  BY DEF Entry
<1> QED
  BY <1>1, <1>2 DEF Admits

LEMMA AdmitStep ==
  ASSUME LedgerInv, NEW p \in Processes, Admit(p)
  PROVE  LedgerInv'
<1>1. /\ entry'[p] \in Entry /\ Admits(entry'[p], journal)
      /\ \A q \in Processes \ {p} : entry'[q] = entry[q]
      /\ entry' \in [Processes -> Entry \cup {NoEntry}]
      /\ minted' \in Nat
  <2>1. entry[p] \in Entry /\ Admits(entry[p], journal) /\ minted + 1 \in Nat
    BY DEF LedgerInv, Types, TypeOK, Admit, Inside
  <2>2. CASE entry[p].event = "begin"
    <3>1. entry' = [entry EXCEPT ![p] = [entry[p] EXCEPT !.nonce = minted + 1]]
      BY <2>2 DEF Admit
    <3> QED
      BY <2>1, <2>2, <3>1, MintedIsAdmitted DEF LedgerInv, Types, Admit
  <2>3. CASE entry[p].event # "begin"
    BY <2>1, <2>3 DEF LedgerInv, Types, TypeOK, Admit
  <2> QED
    BY <2>2, <2>3
<1>2. /\ call' = [call EXCEPT ![p] = "writing"] /\ call[p] = "locked"
      /\ read' = [read EXCEPT ![p] = journal]
      /\ journal \in Seq(Entry)
  BY DEF Admit, LedgerInv, Orderly
<1>3. TypeOK'
  BY <1>1, <1>2 DEF LedgerInv, Types, TypeOK, Admit
<1>4. Types'
  BY <1>1, <1>2, <1>3 DEF LedgerInv, Types, TypeOK, Admit, Inside
<1>5. WritesOnWhatItRead'
  <2> SUFFICES ASSUME NEW q \in Processes
               PROVE  /\ call'[q] = "writing" => read'[q] = journal' /\ Admits(entry'[q], journal')
                      /\ call'[q] = "replaced" => entry'[q] \in Elements(journal')
    BY DEF WritesOnWhatItRead
  <2>1. journal' = journal
    BY DEF Admit
  <2>2. CASE q = p
    BY <1>1, <1>2, <2>1, <2>2 DEF LedgerInv, Types, TypeOK
  <2>3. CASE q # p
    BY <1>1, <1>2, <2>1, <2>3 DEF LedgerInv, Types, TypeOK, WritesOnWhatItRead
  <2> QED
    BY <2>2, <2>3
<1> QED
  BY <1>4, <1>5, ListsKept DEF Admit

(* The write.  The lock makes the list read the list replaced, so the new  *)
(* one extends what every reader saw.                                       *)
LEMMA ReplaceStep ==
  ASSUME LedgerInv, NEW p \in Processes, Replace(p)
  PROVE  LedgerInv'
<1>1. /\ call[p] = "writing" /\ read[p] = journal /\ Admits(entry[p], journal)
      /\ entry[p] \in Entry
      /\ journal' = Append(journal, entry[p])
      /\ call' = [call EXCEPT ![p] = "replaced"]
      /\ UNCHANGED <<file, durable, stray, lock, entry, read, minted, faults, acked>>
  BY DEF LedgerInv, Types, WritesOnWhatItRead, Replace, Inside
<1>2. Orderly(journal') /\ Orderly(durable')
  BY <1>1, AdmittedKeepsOrder DEF LedgerInv
<1>3. Elements(journal') = Elements(journal) \cup {entry[p]}
  BY <1>1, Appended DEF LedgerInv, Orderly, Elements
<1>4. TypeOK'
  BY <1>1 DEF LedgerInv, Types, TypeOK
<1>5. Types'
  BY <1>1, <1>4 DEF LedgerInv, Types, TypeOK, Inside
<1>6. WritesOnWhatItRead'
  <2> SUFFICES ASSUME NEW q \in Processes
               PROVE  /\ call'[q] # "writing"
                      /\ call'[q] = "replaced" => entry'[q] \in Elements(journal')
    BY DEF WritesOnWhatItRead
  <2>1. CASE q = p
    BY <1>1, <1>3, <2>1 DEF LedgerInv, Types, TypeOK
  <2>2. CASE q # p
    <3>1. lock = p /\ call[q] \notin Inside /\ call'[q] = call[q]
      BY <1>1, <2>2 DEF LedgerInv, Types, TypeOK, Inside
    <3> QED
      BY <3>1 DEF Inside
  <2> QED
    BY <2>1, <2>2
<1>7. Survival'
  BY <1>1, <1>3 DEF LedgerInv, Survival
<1> QED
  BY <1>2, <1>5, <1>6, <1>7 DEF LedgerInv

(* The return: the directory is synced before anyone is told. *)
LEMMA ReturnStep ==
  ASSUME LedgerInv, NEW p \in Processes, Return(p)
  PROVE  LedgerInv'
<1>1. /\ call[p] = "replaced" /\ entry[p] \in Entry /\ entry[p] \in Elements(journal)
      /\ durable' = journal /\ journal' = journal
      /\ acked' = acked \cup {entry[p]}
      /\ End(p) /\ UNCHANGED <<file, stray, minted, faults>>
  BY DEF LedgerInv, Types, WritesOnWhatItRead, Return, Inside
<1>2. Types'
  BY <1>1, EndTypes DEF LedgerInv, Types, TypeOK
<1>3. WritesOnWhatItRead'
  BY <1>1, EndWrites DEF LedgerInv
<1>4. Survival'
  BY <1>1 DEF LedgerInv, Survival
<1> QED
  BY <1>1, <1>2, <1>3, <1>4 DEF LedgerInv

(* A call that ends without returning, refused, raising or killed, changes *)
(* none of the lists; what it wrote, if it wrote, stays.                   *)
LEMMA AbortStep ==
  ASSUME LedgerInv, NEW p \in Processes, Reject(p) \/ IOError(p) \/ Kill(p)
  PROVE  LedgerInv'
<1>1. /\ End(p) /\ UNCHANGED <<file, journal, durable, minted, acked>>
      /\ stray' \in BOOLEAN
      /\ faults' \in 0 .. MaxFaults
  <2>1. CASE Reject(p)
    BY <2>1 DEF Reject, LedgerInv, Types, TypeOK
  <2>2. CASE IOError(p)
    <3>1. (stray \/ call[p] = "writing") \in BOOLEAN
      OBVIOUS
    <3>2. stray' \in BOOLEAN
      BY <2>2, <3>1 DEF IOError, LedgerInv, Types, TypeOK
    <3> QED
      BY <2>2, <3>2, LedgerAssumption DEF IOError, Fault, LedgerInv, Types, TypeOK
  <2>3. CASE Kill(p)
    BY <2>3, LedgerAssumption DEF Kill, Fault, LedgerInv, Types, TypeOK
  <2> QED
    BY <2>1, <2>2, <2>3
<1>2. Types'
  BY <1>1, EndTypes DEF LedgerInv, Types, TypeOK
<1>3. WritesOnWhatItRead'
  BY <1>1, EndWrites DEF LedgerInv
<1> QED
  BY <1>1, <1>2, <1>3, ListsKept

LEMMA CreateStep ==
  ASSUME LedgerInv, NEW p \in Processes, Create(p) \/ Created(p)
  PROVE  LedgerInv'
<1>1. TypeOK'
  BY DEF LedgerInv, Types, TypeOK, Create, Created, Ready
<1>2. Types'
  BY <1>1 DEF LedgerInv, Types, TypeOK, Create, Created, Inside
<1>3. WritesOnWhatItRead'
  BY DEF LedgerInv, Types, TypeOK, Create, Created, WritesOnWhatItRead
<1> QED
  BY <1>2, <1>3, ListsKept DEF Create, Created

(* After a power failure readers see the list they saw or the durable one, *)
(* and either holds everything that was acknowledged.                       *)
LEMMA PowerFailureStep ==
  ASSUME LedgerInv, PowerFailure
  PROVE  LedgerInv'
<1>1. /\ journal' \in {journal, durable} /\ durable' = journal'
      /\ acked' = acked
      /\ call' = [q \in Processes |-> "none"]
  BY DEF PowerFailure
<1>2. TypeOK'
  <2>1. (stray \/ \E p \in Processes : call[p] = "writing") \in BOOLEAN
    OBVIOUS
  <2>2. stray' \in BOOLEAN
    BY <2>1 DEF LedgerInv, Types, TypeOK, PowerFailure
  <2>3. file' \in {"absent", "torn", "whole"}
    BY DEF LedgerInv, Types, TypeOK, PowerFailure
  <2>4. minted' \in Nat /\ faults' \in 0 .. MaxFaults
    BY LedgerAssumption DEF LedgerInv, Types, TypeOK, PowerFailure, Fault
  <2>5. lock' = NoOne /\ NoOne \notin Processes
    BY LedgerAssumption DEF PowerFailure
  <2> QED
    BY <1>1, <2>2, <2>3, <2>4, <2>5 DEF TypeOK
<1>3. Types'
  BY <1>1, <1>2, EmptySeq DEF LedgerInv, Types, PowerFailure, Inside
<1>4. WritesOnWhatItRead'
  BY <1>1 DEF WritesOnWhatItRead
<1>5. Survival'
  BY <1>1 DEF LedgerInv, Survival
<1> QED
  BY <1>1, <1>3, <1>4, <1>5 DEF LedgerInv
-----------------------------------------------------------------------------
LEMMA LedgerInvInitially ==
  ASSUME Init
  PROVE  LedgerInv
<1>1. TypeOK
  <2>1. stray \in BOOLEAN
    BY DEF Init
  <2>2. minted \in Nat /\ faults \in 0 .. MaxFaults
    BY LedgerAssumption DEF Init
  <2>3. \A p \in Processes : lock # p /\ call[p] = "none"
    BY LedgerAssumption DEF Init
  <2> QED
    BY <2>1, <2>2, <2>3 DEF Init, TypeOK
<1>2. Types
  <2>1. <<>> \in Seq(Entry)
    BY EmptySeq
  <2>2. \A p \in Processes : call[p] \notin Inside \cup {"waiting"}
    BY DEF Init, Inside
  <2> QED
    BY <1>1, <2>1, <2>2 DEF Init, Types
<1>3. WritesOnWhatItRead /\ Survival
  BY DEF Init, WritesOnWhatItRead, Survival, Elements
<1> QED
  BY <1>2, <1>3, EmptyIsOrderly DEF Init, LedgerInv

LEMMA LedgerInvStep ==
  ASSUME LedgerInv, [Next]_ledger
  PROVE  LedgerInv'
<1>1. CASE Next
  <2>1. ASSUME NEW p \in Processes, NEW e \in Entries, Call(p, e)
        PROVE  LedgerInv'
    BY <2>1, EntriesWellFormed, CallStep
  <2>2. ASSUME NEW p \in Processes, Transact(p)
        PROVE  LedgerInv'
    BY <2>2, AcquireStep, AdmitStep, ReplaceStep, ReturnStep, AbortStep DEF Transact
  <2> QED
    BY <1>1, <2>1, <2>2, CreateStep, AbortStep, PowerFailureStep DEF Next
<1>2. CASE UNCHANGED ledger
  <2>1. Types' /\ WritesOnWhatItRead'
    BY <1>2 DEF LedgerInv, Types, TypeOK, WritesOnWhatItRead, ledger
  <2> QED
    BY <1>2, <2>1, ListsKept DEF ledger
<1> QED
  BY <1>1, <1>2

LEMMA LedgerInvHolds == Spec => []LedgerInv
<1> QED
  BY LedgerInvInitially, LedgerInvStep, PTL DEF Spec

(* The state is well typed, and the transaction is exclusive, however many  *)
(* processes call, die and raise.                                           *)
THEOREM TypeCorrect == Spec => []TypeOK
<1>1. LedgerInv => TypeOK
  BY DEF LedgerInv, Types
<1> QED
  BY <1>1, LedgerInvHolds, PTL

(* begin, claim_active and complete let nothing through that load refuses,  *)
(* for any split order, whatever interrupted the calls before.              *)
THEOREM LedgerLoads == Spec => []AlwaysLoads
<1>1. LedgerInv => AlwaysLoads
  BY DEF LedgerInv, Orderly, AlwaysLoads
<1> QED
  BY <1>1, LedgerInvHolds, PTL

(* What a caller was told survives every later replacement, kill, error    *)
(* and power failure.                                                       *)
THEOREM NothingAcknowledgedIsLost == Spec => []AcknowledgedSurvives
<1>1. LedgerInv => AcknowledgedSurvives
  BY DEF LedgerInv, Survival, Elements, AcknowledgedSurvives
<1> QED
  BY <1>1, LedgerInvHolds, PTL
-----------------------------------------------------------------------------
(* The durable ledger implements OneShotAccess.  The lists come first: what *)
(* the ledger's checks let through keeps the whole history legal.           *)

Begins(j) == {i \in DOMAIN j : j[i].event = "begin"}
Uses(j) == {i \in DOMAIN j : j[i].event = "claim"} \cup {i \in DOMAIN j : j[i].event = "complete"}
Last(j) == Max(Bounds(j))

(* OneShotAccess's Legal, of a list. *)
Counted(j) ==
  \A i \in Begins(j) : j[i].split = Cardinality({k \in Begins(j) : k <= i})

Stopped(j) ==
  \A i, l \in Begins(j) : i < l =>
    \E k \in DOMAIN j : /\ j[k].event = "complete"
                        /\ i < k /\ k < l
                        /\ j[k].split = j[i].split
                        /\ j[k].status = "passed"

Held(j) ==
  \A i \in Uses(j) : \E b \in Begins(j) :
    b < i /\ j[b].split = j[i].split /\ j[b].nonce = j[i].nonce

UsedOnce(j) ==
  \A i, k \in Uses(j) : i < k /\ j[i].split = j[k].split =>
    j[i].event = "claim" /\ j[i].purpose # j[k].purpose

(* The strengthening.  Openings count what passed and the split at hand;    *)
(* every opening but the active one has passed, unless the order is over;   *)
(* what precedes the active opening belongs to an earlier split.            *)
Numbered(j) ==
  Cardinality(Begins(j)) =
    IF IsActive(j) \/ HasFailed(j) THEN PassedCount(j) + 1 ELSE PassedCount(j)

Followed(j) ==
  \A i \in Begins(j) :
    \/ IsActive(j) /\ i = Last(j)
    \/ HasFailed(j)
    \/ \E k \in DOMAIN j : /\ j[k].event = "complete" /\ i < k
                           /\ j[k].split = j[i].split
                           /\ j[k].status = "passed"

Placed(j) ==
  \A i \in DOMAIN j :
    IF IsActive(j) /\ i >= Last(j) THEN j[i].split = Opening(j).split
                                   ELSE HasFailed(j) \/ j[i].split <= PassedCount(j)

Chronicle(j) ==
  /\ Counted(j) /\ Stopped(j) /\ Held(j) /\ UsedOnce(j)
  /\ Numbered(j) /\ Followed(j) /\ Placed(j)
-----------------------------------------------------------------------------
(* Openings before the new entry are counted as they were. *)
LEMMA BeginsAppend ==
  ASSUME NEW j \in Seq(Entry), NEW e \in Entry
  PROVE  /\ IsFiniteSet(Begins(j)) /\ Cardinality(Begins(j)) \in Nat
         /\ Begins(Append(j, e)) = IF e.event = "begin" THEN Begins(j) \cup {Len(j) + 1}
                                                        ELSE Begins(j)
         /\ Cardinality(Begins(Append(j, e))) =
              IF e.event = "begin" THEN Cardinality(Begins(j)) + 1 ELSE Cardinality(Begins(j))
         /\ \A i \in Begins(j) : {k \in Begins(Append(j, e)) : k <= i} = {k \in Begins(j) : k <= i}
<1>1. IsFiniteSet(Begins(j)) /\ Cardinality(Begins(j)) \in Nat
  <2>1. IsFiniteSet(DOMAIN j)
    BY Appended, FS_Interval
  <2> QED
    BY <2>1, FS_Subset, FS_CardinalityType DEF Begins
<1>2. /\ Begins(Append(j, e)) = IF e.event = "begin" THEN Begins(j) \cup {Len(j) + 1}
                                                     ELSE Begins(j)
      /\ Len(j) + 1 \notin Begins(j)
  BY Appended DEF Begins
<1>3. Cardinality(Begins(Append(j, e))) =
        IF e.event = "begin" THEN Cardinality(Begins(j)) + 1 ELSE Cardinality(Begins(j))
  BY <1>1, <1>2, FS_AddElement
<1>4. \A i \in Begins(j) : i \in 1 .. Len(j) /\ Len(j) \in Nat
  BY Appended DEF Begins
<1>5. \A i \in Begins(j) : {k \in Begins(Append(j, e)) : k <= i} = {k \in Begins(j) : k <= i}
  BY <1>2, <1>4
<1> QED
  BY <1>1, <1>2, <1>3, <1>5

LEMMA FailedAppend ==
  ASSUME NEW j \in Seq(Entry), NEW e \in Entry
  PROVE  HasFailed(Append(j, e)) <=> HasFailed(j) \/ e.status = "failed"
BY Appended DEF HasFailed

(* The active opening is a begin of the list, and everything after it is a *)
(* claim.                                                                   *)
LEMMA ActiveOpening ==
  ASSUME NEW j, Orderly(j), IsActive(j)
  PROVE  /\ Last(j) \in Begins(j) /\ Opening(j) = j[Last(j)]
         /\ Last(j) \in Nat
         /\ \A i \in DOMAIN j : i > Last(j) => j[i].event = "claim" /\ j[i].purpose \in ActiveClaims(j)
<1>1. j \in Seq(Entry) /\ DOMAIN j = 1 .. Len(j) /\ Len(j) \in Nat
  BY LenProperties DEF Orderly
<1>2. Bounds(j) \in SUBSET Nat /\ Bounds(j) # {} /\ HasLast(Bounds(j))
  BY <1>1 DEF Bounds, Orderly, IsActive
<1>3. Last(j) \in Bounds(j) /\ \A x \in Bounds(j) : Last(j) >= x
  BY <1>2, GreatestIsMax DEF Last, HasLast
<1>4. ASSUME NEW i \in DOMAIN j, i > Last(j)
      PROVE  j[i].event = "claim" /\ j[i].purpose \in ActiveClaims(j)
  <2>1. i \notin Bounds(j)
    BY <1>1, <1>2, <1>3, <1>4
  <2>2. j[i] \in Entry
    BY <1>1, ElementOfSeq
  <2>3. i \in Last(j) + 1 .. Len(j)
    BY <1>1, <1>2, <1>3, <1>4
  <2> QED
    BY <2>1, <2>2, <2>3 DEF Bounds, Entry, Events, ActiveClaims, Last
<1> QED
  BY <1>1, <1>3, <1>4 DEF IsActive, Opening, Last, Begins, Bounds
-----------------------------------------------------------------------------
(* A new opening: everything before it is closed and belongs to an earlier  *)
(* split.                                                                   *)
LEMMA BeginKeepsChronicle ==
  ASSUME NEW j, Orderly(j), Chronicle(j), NEW e \in Entry, Admits(e, j), e.event = "begin"
  PROVE  Chronicle(Append(j, e))
<1> DEFINE k == Append(j, e)
           n == Len(j) + 1
<1>1. j \in Seq(Entry) /\ PassedCount(j) \in Nat
  BY PassingFinite DEF Orderly
<1>2. /\ ~IsActive(j) /\ ~HasFailed(j)
      /\ e.split = PassedCount(j) + 1
      /\ e.status # "passed" /\ e.status # "failed" /\ e.event = "begin"
  BY <1>1, ClosedByCompletion DEF Admits, Terminal, Entry
<1>3. /\ PassedCount(k) = PassedCount(j)
      /\ ~HasFailed(k)
      /\ Opening(k) = e /\ IsActive(k)
  BY <1>1, <1>2, PassedAppend, FailedAppend, BoundaryBecomesOpening
<1>4. Last(k) = n
  <2>1. n \in Bounds(k) /\ \A x \in Bounds(k) : x \in Nat /\ n >= x
    BY <1>1, <1>2, Appended DEF Bounds
  <2> QED
    BY <2>1, GreatestIsMax DEF Last
<1>5. /\ DOMAIN k = DOMAIN j \cup {n} /\ n \notin DOMAIN j /\ n \in Nat
      /\ k[n] = e
      /\ \A i \in DOMAIN j : k[i] = j[i] /\ i \in Nat /\ i < n
  BY <1>1, Appended
<1>6. /\ Begins(k) = Begins(j) \cup {n} /\ Begins(j) \subseteq DOMAIN j
      /\ Uses(k) = Uses(j) /\ Uses(j) \subseteq DOMAIN j
  BY <1>2, <1>5 DEF Begins, Uses
<1> HIDE DEF k, n
<1>7. Cardinality(Begins(k)) = PassedCount(j) + 1
  BY <1>1, <1>2, BeginsAppend DEF k, Chronicle, Numbered
<1>8. Counted(k)
  <2> SUFFICES ASSUME NEW i \in Begins(k)
               PROVE  k[i].split = Cardinality({x \in Begins(k) : x <= i})
    BY DEF Counted
  <2>1. CASE i = n
    <3>1. {x \in Begins(k) : x <= n} = Begins(k)
      <4>1. n \in Nat
        BY <1>1, Appended DEF n
      <4> QED
        BY <1>5, <1>6, <4>1
    <3> QED
      BY <1>2, <1>5, <1>7, <2>1, <3>1
  <2>2. CASE i \in Begins(j)
    <3>1. {x \in Begins(k) : x <= i} = {x \in Begins(j) : x <= i}
      BY <1>1, <2>2, BeginsAppend DEF k
    <3> QED
      BY <1>5, <1>6, <2>2, <3>1 DEF Chronicle, Counted
  <2> QED
    BY <1>6, <2>1, <2>2
<1>9. Stopped(k)
  <2> SUFFICES ASSUME NEW i \in Begins(k), NEW l \in Begins(k), i < l
               PROVE  \E c \in DOMAIN k : /\ k[c].event = "complete" /\ i < c /\ c < l
                                          /\ k[c].split = k[i].split /\ k[c].status = "passed"
    BY DEF Stopped
  <2>1. i \in Begins(j)
    BY <1>5, <1>6
  <2>2. CASE l = n
    <3>1. PICK c \in DOMAIN j : /\ j[c].event = "complete" /\ i < c
                                /\ j[c].split = j[i].split /\ j[c].status = "passed"
      BY <1>2, <2>1 DEF Chronicle, Followed
    <3> QED
      BY <1>5, <1>6, <2>1, <2>2, <3>1
  <2>3. CASE l \in Begins(j)
    <3>1. PICK c \in DOMAIN j : /\ j[c].event = "complete" /\ i < c /\ c < l
                                /\ j[c].split = j[i].split /\ j[c].status = "passed"
      BY <2>1, <2>3 DEF Chronicle, Stopped
    <3> QED
      BY <1>5, <1>6, <2>1, <3>1
  <2> QED
    BY <1>6, <2>2, <2>3
<1>10. Held(k) /\ UsedOnce(k)
  BY <1>5, <1>6 DEF Chronicle, Held, UsedOnce
<1>11. Numbered(k)
  BY <1>3, <1>7 DEF Numbered
<1>12. Followed(k)
  <2> SUFFICES ASSUME NEW i \in Begins(j)
               PROVE  \E c \in DOMAIN k : /\ k[c].event = "complete" /\ i < c
                                          /\ k[c].split = k[i].split /\ k[c].status = "passed"
    BY <1>3, <1>4, <1>6 DEF Followed
  <2>1. PICK c \in DOMAIN j : /\ j[c].event = "complete" /\ i < c
                              /\ j[c].split = j[i].split /\ j[c].status = "passed"
    BY <1>2 DEF Chronicle, Followed
  <2> QED
    BY <1>5, <1>6, <2>1
<1>13. Placed(k)
  BY <1>2, <1>3, <1>4, <1>5 DEF Chronicle, Placed
<1> QED
  BY <1>8, <1>9, <1>10, <1>11, <1>12, <1>13 DEF Chronicle, k

(* A claim or completion by the holder of the active permit: the opening is *)
(* its witness, and nothing before the opening is of its split.             *)
LEMMA UseKeepsHistory ==
  ASSUME NEW j, Orderly(j), Chronicle(j), NEW e \in Entry, Admits(e, j), e.event # "begin"
  PROVE  LET k == Append(j, e)
         IN  Counted(k) /\ Stopped(k) /\ Held(k) /\ UsedOnce(k)
<1> DEFINE k == Append(j, e)
           n == Len(j) + 1
<1>1. j \in Seq(Entry)
  BY DEF Orderly
<1>2. /\ IsActive(j) /\ ~HasFailed(j)
      /\ e.split = Opening(j).split /\ e.nonce = Opening(j).nonce
      /\ e.event \in {"claim", "complete"}
      /\ e.event = "claim" => e.purpose \notin ActiveClaims(j)
      /\ e.event = "complete" => e.purpose \notin Purposes
  BY DEF Admits, Terminal, Holds, Entry, Events
<1>3. /\ DOMAIN k = DOMAIN j \cup {n} /\ n \notin DOMAIN j /\ n \in Nat
      /\ k[n] = e
      /\ \A i \in DOMAIN j : k[i] = j[i] /\ j[i] \in Entry /\ i \in Nat /\ i < n
  BY <1>1, Appended
<1>4. /\ Begins(k) = Begins(j) /\ Begins(j) \subseteq DOMAIN j
      /\ Uses(k) = Uses(j) \cup {n} /\ Uses(j) \subseteq DOMAIN j
  BY <1>2, <1>3 DEF Begins, Uses
<1>5. /\ Last(j) \in Begins(j) /\ Last(j) \in Nat /\ Opening(j) = j[Last(j)]
      /\ \A i \in DOMAIN j : i > Last(j) => j[i].event = "claim" /\ j[i].purpose \in ActiveClaims(j)
  BY <1>2, ActiveOpening
<1> HIDE DEF k, n
<1>6. Counted(k)
  <2>1. \A i \in Begins(j) : {x \in Begins(k) : x <= i} = {x \in Begins(j) : x <= i}
    BY <1>1, BeginsAppend DEF k
  <2> QED
    BY <1>3, <1>4, <2>1 DEF Chronicle, Counted
<1>7. Stopped(k)
  <2> SUFFICES ASSUME NEW i \in Begins(j), NEW l \in Begins(j), i < l
               PROVE  \E c \in DOMAIN k : /\ k[c].event = "complete" /\ i < c /\ c < l
                                          /\ k[c].split = k[i].split /\ k[c].status = "passed"
    BY <1>4 DEF Stopped
  <2>1. PICK c \in DOMAIN j : /\ j[c].event = "complete" /\ i < c /\ c < l
                              /\ j[c].split = j[i].split /\ j[c].status = "passed"
    BY DEF Chronicle, Stopped
  <2> QED
    BY <1>3, <1>4, <2>1
<1>8. Held(k)
  <2> SUFFICES ASSUME NEW i \in Uses(k)
               PROVE  \E b \in Begins(j) : /\ b < i /\ k[b].split = k[i].split
                                           /\ k[b].nonce = k[i].nonce
    BY <1>4 DEF Held
  <2>1. CASE i = n
    BY <1>2, <1>3, <1>4, <1>5, <2>1
  <2>2. CASE i \in Uses(j)
    BY <1>3, <1>4, <2>2 DEF Chronicle, Held
  <2> QED
    BY <1>4, <2>1, <2>2
<1>9. UsedOnce(k)
  <2> SUFFICES ASSUME NEW i \in Uses(k), NEW l \in Uses(k), i < l, k[i].split = k[l].split
               PROVE  k[i].event = "claim" /\ k[i].purpose # k[l].purpose
    BY DEF UsedOnce
  <2>1. i \in Uses(j)
    BY <1>3, <1>4
  <2>2. CASE l \in Uses(j)
    BY <1>3, <1>4, <2>1, <2>2 DEF Chronicle, UsedOnce
  <2>3. CASE l = n
    <3>1. j[i].split = Opening(j).split
      BY <1>2, <1>3, <1>4, <2>1, <2>3
    <3>2. i > Last(j)
      <4>1. i >= Last(j)
        <5>1. Opening(j).split = PassedCount(j) + 1 /\ PassedCount(j) \in Nat
          BY <1>1, <1>2, PassingFinite DEF Orderly
        <5>2. i \in DOMAIN j
          BY <1>4, <2>1
        <5>3. ~(i >= Last(j)) => j[i].split <= PassedCount(j)
          BY <1>2, <5>2 DEF Chronicle, Placed
        <5> QED
          BY <3>1, <5>1, <5>3
      <4>2. i # Last(j)
        BY <1>5, <2>1 DEF Begins, Uses
      <4>3. i \in Nat
        BY <1>3, <1>4, <2>1
      <4> QED
        BY <1>5, <4>1, <4>2, <4>3
    <3>3. j[i].event = "claim" /\ j[i].purpose \in ActiveClaims(j) /\ j[i] \in Entry
      BY <1>3, <1>4, <1>5, <2>1, <3>2
    <3>4. j[i].purpose \in Purposes
      BY <3>3 DEF Entry
    <3> QED
      BY <1>2, <1>3, <1>4, <2>1, <2>3, <3>3, <3>4
  <2> QED
    BY <1>4, <2>2, <2>3
<1> QED
  BY <1>6, <1>7, <1>8, <1>9 DEF k

(* A claim leaves the opening and the counts alone. *)
LEMMA ClaimKeepsChronicle ==
  ASSUME NEW j, Orderly(j), Chronicle(j), NEW e \in Entry, Admits(e, j), e.event = "claim"
  PROVE  Chronicle(Append(j, e))
<1> DEFINE k == Append(j, e)
           n == Len(j) + 1
<1>1. j \in Seq(Entry) /\ HasLast(Bounds(j))
  BY DEF Orderly
<1>2. /\ IsActive(j) /\ ~HasFailed(j) /\ e.split = Opening(j).split
      /\ e.status # "passed" /\ e.status # "failed"
  BY DEF Admits, Terminal, Holds, Entry
<1>3. /\ PassedCount(k) = PassedCount(j) /\ ~HasFailed(k)
      /\ IsActive(k) /\ Opening(k) = Opening(j) /\ Last(k) = Last(j)
  BY <1>1, <1>2, PassedAppend, FailedAppend, ClaimKeepsOpening DEF Last
<1>4. /\ DOMAIN k = DOMAIN j \cup {n} /\ n \notin DOMAIN j
      /\ k[n] = e
      /\ \A i \in DOMAIN j : k[i] = j[i] /\ i \in Nat /\ i < n
  BY <1>1, Appended
<1>5. /\ Begins(k) = Begins(j) /\ Begins(j) \subseteq DOMAIN j
      /\ Cardinality(Begins(k)) = Cardinality(Begins(j))
      /\ Last(j) \in Begins(j)
  BY <1>1, <1>2, BeginsAppend, ActiveOpening DEF Begins
<1>6. Counted(k) /\ Stopped(k) /\ Held(k) /\ UsedOnce(k)
  BY UseKeepsHistory
<1> HIDE DEF k, n
<1>7. Numbered(k)
  BY <1>2, <1>3, <1>5 DEF Chronicle, Numbered
<1>8. Followed(k)
  <2> SUFFICES ASSUME NEW i \in Begins(j), i # Last(j)
               PROVE  \E c \in DOMAIN k : /\ k[c].event = "complete" /\ i < c
                                          /\ k[c].split = k[i].split /\ k[c].status = "passed"
    BY <1>3, <1>5 DEF Followed
  <2>1. PICK c \in DOMAIN j : /\ j[c].event = "complete" /\ i < c
                              /\ j[c].split = j[i].split /\ j[c].status = "passed"
    BY <1>2 DEF Chronicle, Followed
  <2> QED
    BY <1>4, <1>5, <2>1
<1>9. Placed(k)
  <2>1. CASE n \in Nat
    <3>1. n >= Last(j)
      BY <1>4, <1>5, <2>1
    <3>2. ASSUME NEW i \in DOMAIN j
          PROVE  IF i >= Last(k) THEN k[i].split = Opening(k).split
                                 ELSE k[i].split <= PassedCount(k)
      BY <1>2, <1>3, <1>4 DEF Chronicle, Placed
    <3> QED
      BY <1>2, <1>3, <1>4, <3>1, <3>2 DEF Placed
  <2> QED
    BY <1>1, <2>1, Appended DEF n
<1> QED
  BY <1>6, <1>7, <1>8, <1>9 DEF Chronicle, k

(* A completion closes the active split: its opening has passed, or the    *)
(* order is over.                                                           *)
LEMMA CompletionKeepsChronicle ==
  ASSUME NEW j, Orderly(j), Chronicle(j), NEW e \in Entry, Admits(e, j), e.event = "complete"
  PROVE  Chronicle(Append(j, e))
<1> DEFINE k == Append(j, e)
           n == Len(j) + 1
<1>1. j \in Seq(Entry) /\ PassedCount(j) \in Nat
  BY PassingFinite DEF Orderly
<1>2. /\ IsActive(j) /\ ~HasFailed(j)
      /\ e.split = Opening(j).split /\ Opening(j).split = PassedCount(j) + 1
      /\ e.status \in {"passed", "failed"}
  BY DEF Admits, Terminal, Holds, Orderly, Entry
<1>3. /\ PassedCount(k) = IF e.status = "passed" THEN PassedCount(j) + 1 ELSE PassedCount(j)
      /\ HasFailed(k) <=> e.status = "failed"
      /\ ~IsActive(k)
  BY <1>1, <1>2, PassedAppend, FailedAppend, BoundaryBecomesOpening
<1>4. /\ DOMAIN k = DOMAIN j \cup {n} /\ n \notin DOMAIN j
      /\ k[n] = e
      /\ \A i \in DOMAIN j : k[i] = j[i] /\ j[i] \in Entry /\ i \in Nat /\ i < n
  BY <1>1, Appended
<1>5. /\ Begins(k) = Begins(j) /\ Begins(j) \subseteq DOMAIN j
      /\ Cardinality(Begins(k)) = Cardinality(Begins(j))
      /\ Opening(j) = j[Last(j)]
  BY <1>1, <1>2, BeginsAppend, ActiveOpening DEF Begins
<1>6. Counted(k) /\ Stopped(k) /\ Held(k) /\ UsedOnce(k)
  BY UseKeepsHistory
<1> HIDE DEF k, n
<1>7. Numbered(k)
  BY <1>1, <1>2, <1>3, <1>5 DEF Chronicle, Numbered
<1>8. Followed(k)
  <2> SUFFICES ASSUME NEW i \in Begins(j), ~HasFailed(k)
               PROVE  \E c \in DOMAIN k : /\ k[c].event = "complete" /\ i < c
                                          /\ k[c].split = k[i].split /\ k[c].status = "passed"
    BY <1>5 DEF Followed
  <2>1. CASE i = Last(j)
    BY <1>2, <1>3, <1>4, <1>5, <2>1
  <2>2. CASE i # Last(j)
    <3>1. PICK c \in DOMAIN j : /\ j[c].event = "complete" /\ i < c
                                /\ j[c].split = j[i].split /\ j[c].status = "passed"
      BY <1>2, <2>2 DEF Chronicle, Followed
    <3> QED
      BY <1>4, <1>5, <3>1
  <2> QED
    BY <2>1, <2>2
<1>9. Placed(k)
  <2> SUFFICES ASSUME NEW i \in DOMAIN k, ~HasFailed(k)
               PROVE  k[i].split <= PassedCount(k)
    BY <1>3 DEF Placed
  <2>1. PassedCount(k) = PassedCount(j) + 1
    BY <1>2, <1>3
  <2>2. CASE i = n
    BY <1>1, <1>2, <1>4, <2>1, <2>2
  <2>3. CASE i \in DOMAIN j
    <3>1. j[i].split \in Nat
      BY <1>4, <2>3 DEF Entry
    <3>2. j[i].split = Opening(j).split \/ j[i].split <= PassedCount(j)
      BY <1>2, <2>3 DEF Chronicle, Placed
    <3> QED
      BY <1>1, <1>2, <1>4, <2>1, <2>3, <3>1, <3>2
  <2> QED
    BY <1>4, <2>2, <2>3
<1> QED
  BY <1>6, <1>7, <1>8, <1>9 DEF Chronicle, k

LEMMA AdmittedKeepsChronicle ==
  ASSUME NEW j, Orderly(j), Chronicle(j), NEW e \in Entry, Admits(e, j)
  PROVE  Chronicle(Append(j, e))
BY BeginKeepsChronicle, ClaimKeepsChronicle, CompletionKeepsChronicle DEF Entry, Events

LEMMA EmptyIsChronicle == Chronicle(<<>>)
<1>1. Begins(<<>>) = {} /\ Uses(<<>>) = {} /\ Bounds(<<>>) = {} /\ Passing(<<>>) = {}
  BY DEF Begins, Uses, Bounds, Passing
<1>2. ~IsActive(<<>>) /\ ~HasFailed(<<>>)
  BY <1>1 DEF IsActive, HasFailed
<1>3. PassedCount(<<>>) = 0 /\ Cardinality(Begins(<<>>)) = 0
  BY <1>1, FS_EmptySet DEF Passing, PassedCount
<1> QED
  BY <1>1, <1>2, <1>3 DEF Chronicle, Counted, Stopped, Held, UsedOnce, Numbered, Followed, Placed
-----------------------------------------------------------------------------
(* The state: the durable list is a prefix of what readers see, and both    *)
(* are legal histories.                                                     *)

Within(d, j) == Len(d) <= Len(j) /\ SubSeq(j, 1, Len(d)) = d

HistoryInv ==
  /\ LedgerInv
  /\ Chronicle(journal) /\ Chronicle(durable)
  /\ Within(durable, journal)

(* How a step can change the lists: not, by an admitted transition, by      *)
(* making them durable, or by losing what was not.                          *)
LEMMA ListSteps ==
  ASSUME LedgerInv, [Next]_ledger
  PROVE  \/ UNCHANGED <<journal, durable>>
         \/ /\ \E e \in Entry : Admits(e, journal) /\ journal' = Append(journal, e)
            /\ durable' = durable
         \/ journal' \in {journal, durable} /\ durable' = journal'
<1>1. ASSUME NEW p \in Processes, Replace(p)
      PROVE  /\ \E e \in Entry : Admits(e, journal) /\ journal' = Append(journal, e)
             /\ durable' = durable
  BY <1>1 DEF LedgerInv, Types, WritesOnWhatItRead, Inside, Replace
<1>2. ASSUME NEW p \in Processes, Return(p)
      PROVE  journal' = journal /\ durable' = journal'
  BY <1>2 DEF Return
<1>3. ASSUME NEW p \in Processes,
             \/ \E e \in Entries : Call(p, e)
             \/ Acquire(p) \/ Admit(p) \/ Reject(p)
             \/ Create(p) \/ Created(p) \/ IOError(p) \/ Kill(p)
      PROVE  UNCHANGED <<journal, durable>>
  BY <1>3 DEF Call, Acquire, Admit, Reject, Create, Created, IOError, Kill
<1>4. PowerFailure => journal' \in {journal, durable} /\ durable' = journal'
  BY DEF PowerFailure
<1>5. UNCHANGED ledger => UNCHANGED <<journal, durable>>
  BY DEF ledger
<1> QED
  BY <1>1, <1>2, <1>3, <1>4, <1>5 DEF Next, Transact

LEMMA WithinItself ==
  ASSUME NEW j \in Seq(Entry)
  PROVE  Within(j, j)
BY SubSeqFull, LenProperties DEF Within

LEMMA HistoryStep ==
  ASSUME HistoryInv, [Next]_ledger
  PROVE  HistoryInv'
<1>1. LedgerInv' /\ journal \in Seq(Entry) /\ durable \in Seq(Entry)
  BY LedgerInvStep DEF HistoryInv, LedgerInv, Orderly
<1>2. CASE UNCHANGED <<journal, durable>>
  BY <1>1, <1>2 DEF HistoryInv
<1>3. ASSUME NEW e \in Entry, Admits(e, journal), journal' = Append(journal, e),
             durable' = durable
      PROVE  HistoryInv'
  <2>1. Chronicle(journal') /\ Chronicle(durable')
    BY <1>3, AdmittedKeepsChronicle DEF HistoryInv, LedgerInv
  <2>2. Within(durable', journal')
    <3>1. Len(durable) \in 0 .. Len(journal)
      BY <1>1, LenProperties DEF HistoryInv, Within
    <3> QED
      BY <1>1, <1>3, <3>1, PrefixKept, Appended DEF HistoryInv, Within
  <2> QED
    BY <1>1, <2>1, <2>2 DEF HistoryInv
<1>4. CASE journal' \in {journal, durable} /\ durable' = journal'
  <2>1. Chronicle(journal') /\ Chronicle(durable')
    BY <1>4 DEF HistoryInv
  <2>2. Within(durable', journal')
    BY <1>1, <1>4, WithinItself
  <2> QED
    BY <1>1, <2>1, <2>2 DEF HistoryInv
<1> QED
  BY <1>2, <1>3, <1>4, ListSteps DEF HistoryInv

LEMMA HistoryInitially ==
  ASSUME Init
  PROVE  HistoryInv
<1>1. <<>> \in Seq(Entry)
  BY EmptySeq
<1> QED
  BY <1>1, LedgerInvInitially, EmptyIsChronicle, WithinItself DEF Init, HistoryInv

LEMMA HistoryInvHolds == Spec => []HistoryInv
<1> QED
  BY HistoryInitially, HistoryStep, PTL DEF Spec

(* Chronicle says, of a list, what Legal says of the abstract history. *)
LEMMA ChronicleIsLegal ==
  ASSUME Chronicle(durable)
  PROVE  Abstract!Legal
<1>1. Abstract!Positions("begin") = Begins(durable)
  BY DEF Abstract!Positions, Begins
<1>2. Abstract!Positions("claim") \cup Abstract!Positions("complete") = Uses(durable)
  BY DEF Abstract!Positions, Uses
<1>3. Abstract!InOrder
  <2>1. \A S : Abstract!Cardinality(S) = Cardinality(S)
    BY DEF Abstract!Cardinality, Cardinality
  <2> QED
    BY <1>1, <2>1 DEF Chronicle, Counted, Abstract!InOrder
<1>4. Abstract!StopsAtFailure
  <2>1. Abstract!Positions("complete") = {k \in DOMAIN durable : durable[k].event = "complete"}
    BY DEF Abstract!Positions
  <2>2. Stopped(durable)
    BY DEF Chronicle
  <2> QED
    BY <1>1, <2>1, <2>2 DEF Stopped, Abstract!StopsAtFailure
<1>5. Abstract!HeldByOpener
  BY <1>1, <1>2 DEF Chronicle, Held, Abstract!HeldByOpener
<1>6. Abstract!OnceEach
  BY <1>2 DEF Chronicle, UsedOnce, Abstract!OnceEach
<1> QED
  BY <1>3, <1>4, <1>5, <1>6 DEF Abstract!Legal

(* A step leaves the durable list alone or extends it.  That the extension *)
(* is legal is the invariant, read after the step.                          *)
LEMMA StepsRefine ==
  ASSUME HistoryInv, [Next]_ledger, Abstract!Legal'
  PROVE  [Abstract!Next]_durable
<1>1. /\ journal \in Seq(Entry) /\ durable \in Seq(Entry)
      /\ Within(durable, journal)
  BY DEF HistoryInv, LedgerInv, Orderly
<1>2. CASE durable' = durable
  BY <1>2
<1>3. CASE durable' = journal /\ journal # durable
  <2>1. Len(journal) > Len(durable)
    <3>1. Len(journal) = Len(durable) => journal = durable
      BY <1>1, SubSeqFull DEF Within
    <3> QED
      BY <1>1, <1>3, <3>1, LenProperties DEF Within
  <2>2. Abstract!Grows
    BY <1>1, <1>3, <2>1 DEF Within, Abstract!Grows
  <2> QED
    BY <2>2 DEF Abstract!Next
<1> QED
  BY <1>2, <1>3, ListSteps DEF HistoryInv

(* The ledger consumes the exact split order once, stopping on any failure  *)
(* (OrderedSplitLedger's promise), and what is durable only ever grows.     *)
THEOREM LedgerIsOneShot == Spec => DurablyOnce
<1>1. Init => Abstract!Init
  BY DEF Init, Abstract!Init
<1>2. HistoryInv => Abstract!Legal
  BY ChronicleIsLegal DEF HistoryInv
<1>3. HistoryInv /\ [Next]_ledger /\ Abstract!Legal' => [Abstract!Next]_durable
  BY StepsRefine
<1> QED
  BY <1>1, <1>2, <1>3, HistoryInvHolds, PTL DEF Spec, DurablyOnce, Abstract!Spec
=============================================================================

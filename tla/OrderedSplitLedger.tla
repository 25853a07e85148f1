------------------------- MODULE OrderedSplitLedger -------------------------
(***************************************************************************)
(* OrderedSplitLedger (training/qualification_core.py): one JSON file that  *)
(* several processes extend under an flock, each replacing it atomically,   *)
(* while any of them may be killed, an I/O call may fail and the machine    *)
(* may lose power before a rename has reached the disk.                     *)
(*                                                                         *)
(* The file is its list of transitions: digests, the chain and the stored   *)
(* next_index and terminal flag are functions of that list, and load        *)
(* rejects a file where they differ.  Splits are numbered from 1 in their   *)
(* frozen order.  Purposes and nonces are values; a nonce is never minted   *)
(* twice.                                                                   *)
(***************************************************************************)
EXTENDS Naturals, Sequences, FiniteSets, FiniteSetsExt

CONSTANTS
  Processes, NoOne,
  SplitCount,         \* length of split_order
  Purposes, None,
  MaxFaults           \* bound: kills, I/O errors and power failures

ASSUME LedgerAssumption ==
  /\ SplitCount \in Nat \ {0}
  /\ MaxFaults \in Nat
  /\ NoOne \notin Processes
  /\ None \notin Purposes \cup {"passed", "failed"}

VARIABLES
  file,       \* "absent", "torn" (being created) or "whole"
  journal,    \* the transitions a reader of the file sees
  durable,    \* the transitions it would see after a power failure
  stray,      \* is a temporary file left in the directory?
  lock,       \* the process inside _exclusive_transaction
  call,       \* process -> where its ledger call is
  entry,      \* process -> the transition that call wants to append
  read,       \* process -> the transitions that call loaded
  minted,     \* nonces drawn so far
  faults,
  acked       \* history: transitions whose call has returned normally

ledger == <<file, journal, durable, stray, lock, call, entry, read, minted,
            faults, acked>>

Splits == 1 .. SplitCount
Events == {"begin", "claim", "complete"}

Transition(event, split, nonce, purpose, status) ==
  [event |-> event, split |-> split, nonce |-> nonce, purpose |-> purpose,
   status |-> status]

NoEntry == Transition("none", 0, 0, None, None)
BeginEntry(s) == Transition("begin", s, 0, None, None)
ClaimEntry(permit, u) == Transition("claim", permit.split, permit.nonce, u, None)
CompleteEntry(permit, status) ==
  Transition("complete", permit.split, permit.nonce, None, status)

Init ==
  /\ file = "absent" /\ journal = <<>> /\ durable = <<>>
  /\ stray = FALSE
  /\ lock = NoOne
  /\ call = [p \in Processes |-> "none"]
  /\ entry = [p \in Processes |-> NoEntry]
  /\ read = [p \in Processes |-> <<>>]
  /\ minted = 0 /\ faults = 0
  /\ acked = {}
-----------------------------------------------------------------------------
(* What load reconstructs from the transitions.                            *)

PassedCount(j) == Cardinality({i \in DOMAIN j : j[i].status = "passed"})
HasFailed(j) == \E i \in DOMAIN j : j[i].status = "failed"
Terminal(j) == HasFailed(j) \/ PassedCount(j) = SplitCount

(* The last transition that is not a claim; a split is active if it is a   *)
(* begin, and the claims after it are the active ones.                     *)
Bounds(j) == {i \in DOMAIN j : j[i].event \in {"begin", "complete"}}
Opening(j) == j[Max(Bounds(j))]
IsActive(j) == Bounds(j) # {} /\ Opening(j).event = "begin"
ActiveClaims(j) == {j[i].purpose : i \in Max(Bounds(j)) + 1 .. Len(j)}

HoldsSplit(e, j) ==                              \* mutant: nonce not compared
  IsActive(j) /\ e.split = Opening(j).split

Holds(e, j) ==
  IsActive(j) /\ e.split = Opening(j).split /\ e.nonce = Opening(j).nonce

(* load: every transition is in order after the ones before it. *)
InOrder(e, j) ==
  \/ /\ e.event = "begin"
     /\ ~IsActive(j) /\ ~HasFailed(j)
     /\ e.split = PassedCount(j) + 1 /\ e.split \in Splits
     /\ e.purpose = None /\ e.status = None
  \/ /\ e.event = "claim"
     /\ Holds(e, j)
     /\ e.purpose \in Purposes \ ActiveClaims(j) /\ e.status = None
  \/ /\ e.event = "complete"
     /\ Holds(e, j)
     /\ e.status \in {"passed", "failed"} /\ e.purpose = None

Loads(j) == \A i \in DOMAIN j : InOrder(j[i], SubSeq(j, 1, i - 1))

Readable == file = "whole" /\ Loads(journal)

(* The checks of begin, claim_active and complete on the loaded record.    *)
AdmitsSecondClaim(e, j) ==                       \* mutant: purpose may repeat
  /\ ~Terminal(j)
  /\ \/ /\ e.event = "begin"
        /\ j # <<>> => j[Len(j)].event \notin {"begin", "claim"}
        /\ e.split = PassedCount(j) + 1
     \/ e.event \in {"claim", "complete"} /\ Holds(e, j)

AdmitsReopening(e, j) ==                         \* mutant: an open split may be begun
  /\ ~Terminal(j)
  /\ \/ e.event = "begin" /\ e.split = PassedCount(j) + 1
     \/ e.event = "claim" /\ Holds(e, j) /\ e.purpose \notin ActiveClaims(j)
     \/ e.event = "complete" /\ Holds(e, j)

Admits(e, j) ==
  /\ ~Terminal(j)
  /\ \/ /\ e.event = "begin"
        /\ j # <<>> => j[Len(j)].event \notin {"begin", "claim"}
        /\ e.split = PassedCount(j) + 1
     \/ e.event = "claim" /\ Holds(e, j) /\ e.purpose \notin ActiveClaims(j)
     \/ e.event = "complete" /\ Holds(e, j)
-----------------------------------------------------------------------------
(* A state-changing call: begin, claim_active or complete.                 *)

Ready(p) == call[p] = "none"

Call(p, e) ==
  /\ Ready(p)
  /\ call' = [call EXCEPT ![p] = "waiting"]
  /\ entry' = [entry EXCEPT ![p] = e]
  /\ UNCHANGED <<file, journal, durable, stray, lock, read, minted, faults, acked>>

AcquireUnlocked(p) ==                            \* mutant: no flock
  /\ call[p] = "waiting"
  /\ lock' = p
  /\ call' = [call EXCEPT ![p] = "locked"]
  /\ UNCHANGED <<file, journal, durable, stray, entry, read, minted, faults, acked>>

Acquire(p) ==
  /\ call[p] = "waiting" /\ lock = NoOne
  /\ lock' = p
  /\ call' = [call EXCEPT ![p] = "locked"]
  /\ UNCHANGED <<file, journal, durable, stray, entry, read, minted, faults, acked>>

Admit(p) ==
  /\ call[p] = "locked"
  /\ Readable /\ Admits(entry[p], journal)
  /\ read' = [read EXCEPT ![p] = journal]
  /\ IF entry[p].event = "begin"
     THEN /\ minted' = minted + 1
          /\ entry' = [entry EXCEPT ![p].nonce = minted + 1]
     ELSE UNCHANGED <<minted, entry>>
  /\ call' = [call EXCEPT ![p] = "writing"]
  /\ UNCHANGED <<file, journal, durable, stray, lock, faults, acked>>

(* os.replace of the synced temporary file: every reader sees the new list. *)
Replace(p) ==
  /\ call[p] = "writing"
  /\ journal' = Append(read[p], entry[p])
  /\ call' = [call EXCEPT ![p] = "replaced"]
  /\ UNCHANGED <<file, durable, stray, lock, entry, read, minted, faults, acked>>

(* The call ends: its variables are gone and its descriptor is closed.     *)
End(p) ==
  /\ lock' = IF lock = p THEN NoOne ELSE lock
  /\ call' = [call EXCEPT ![p] = "none"]
  /\ entry' = [entry EXCEPT ![p] = NoEntry]
  /\ read' = [read EXCEPT ![p] = <<>>]

(* fsync of the directory, the re-read and the return. *)
ReturnUnsynced(p) ==                             \* mutant: no directory fsync
  /\ call[p] = "replaced"
  /\ acked' = acked \cup {entry[p]}
  /\ End(p)
  /\ UNCHANGED <<file, journal, durable, stray, minted, faults>>

Return(p) ==
  /\ call[p] = "replaced"
  /\ durable' = journal
  /\ acked' = acked \cup {entry[p]}
  /\ End(p)
  /\ UNCHANGED <<file, journal, stray, minted, faults>>

Reject(p) ==
  /\ call[p] = "locked"
  /\ ~(Readable /\ Admits(entry[p], journal))
  /\ End(p)
  /\ UNCHANGED <<file, journal, durable, stray, minted, faults, acked>>
-----------------------------------------------------------------------------
(* create_fresh takes no lock: O_EXCL makes it the only writer, but a       *)
(* reader can find the file before its contents.                           *)

Create(p) ==
  /\ Ready(p)
  /\ file = "absent"
  /\ file' = "torn"
  /\ call' = [call EXCEPT ![p] = "creating"]
  /\ UNCHANGED <<journal, durable, stray, lock, entry, read, minted, faults, acked>>

Created(p) ==
  /\ call[p] = "creating"
  /\ file' = "whole"
  /\ call' = [call EXCEPT ![p] = "none"]
  /\ UNCHANGED <<journal, durable, stray, lock, entry, read, minted, faults, acked>>
-----------------------------------------------------------------------------
(* Faults.  A write that raises leaves its temporary file behind; a rename  *)
(* that raises removes it; a raise after the rename leaves the transition   *)
(* in the file.  A killed process drops the lock with its descriptor.       *)

Fault == faults < MaxFaults /\ faults' = faults + 1

IOError(p) ==
  /\ Fault
  /\ call[p] \in {"locked", "writing", "replaced", "creating"}
  /\ stray' \in {stray, stray \/ call[p] = "writing"}
  /\ End(p)
  /\ UNCHANGED <<file, journal, durable, minted, acked>>

Kill(p) ==
  /\ Fault
  /\ stray' = (stray \/ call[p] = "writing")
  /\ End(p)
  /\ UNCHANGED <<file, journal, durable, minted, acked>>

PowerFailure ==
  /\ Fault
  /\ journal' \in {journal, durable}
  /\ durable' = journal'
  /\ file' \in (IF file = "torn" THEN {"torn", "absent"} ELSE {file})
  /\ stray' \in {stray, stray \/ \E p \in Processes : call[p] = "writing"}
  /\ lock' = NoOne
  /\ call' = [p \in Processes |-> "none"]
  /\ entry' = [p \in Processes |-> NoEntry]
  /\ read' = [p \in Processes |-> <<>>]
  /\ UNCHANGED <<minted, acked>>
-----------------------------------------------------------------------------
(* Inputs of a call.  Permits are read back from the file (_active_permit,  *)
(* _campaign_permit), kept from a begin, or made up: nonce 0 is never       *)
(* minted.                                                                  *)

Permit(e) == [split |-> e.split, nonce |-> e.nonce]

Permits == {Permit(e) : e \in acked \cup {journal[i] : i \in DOMAIN journal}}
             \cup [split : Splits, nonce : {0}]

Entries ==
  {BeginEntry(s) : s \in Splits}
    \cup {ClaimEntry(t, u) : t \in Permits, u \in Purposes}
    \cup {CompleteEntry(t, status) : t \in Permits, status \in {"passed", "failed"}}

Transact(p) == Acquire(p) \/ Admit(p) \/ Replace(p) \/ Return(p) \/ Reject(p)

Next ==
  \/ \E p \in Processes :
       \/ \E e \in Entries : Call(p, e)
       \/ Transact(p)
       \/ Create(p) \/ Created(p)
       \/ IOError(p) \/ Kill(p)
  \/ PowerFailure

Spec == Init /\ [][Next]_ledger
-----------------------------------------------------------------------------
(* The state is well typed, and the lock is held by exactly the process     *)
(* whose call is inside the transaction.                                    *)
TypeOK ==
  /\ file \in {"absent", "torn", "whole"}
  /\ stray \in BOOLEAN
  /\ lock \in Processes \cup {NoOne}
  /\ call \in [Processes -> {"none", "waiting", "locked", "writing", "replaced",
                             "creating"}]
  /\ \A p \in Processes : lock = p <=> call[p] \in {"locked", "writing", "replaced"}
  /\ minted \in Nat /\ faults \in 0 .. MaxFaults

(* A transition whose call returned is never lost: not to another process's *)
(* replacement, a kill, an error or a power failure (_exclusive_transaction *)
(* and replace_bytes).                                                      *)
AcknowledgedSurvives ==
  acked \subseteq {durable[i] : i \in DOMAIN durable}

(* load never refuses a ledger the ledger's own writers left behind: what   *)
(* begin, claim_active and complete let through is what load accepts, and a *)
(* fault never leaves anything else in the file.                            *)
AlwaysLoads == Loads(journal) /\ Loads(durable)

(* The durable ledger implements OneShotAccess. *)
Abstract == INSTANCE OneShotAccess WITH history <- durable
DurablyOnce == Abstract!Spec
=============================================================================

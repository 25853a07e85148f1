------------------------- MODULE OnlineRuntime_proof -------------------------
(***************************************************************************)
(* What the runtime keeps, for any streams, any number of things, slots,    *)
(* groups and prepared propagations, and any dynamics.                      *)
(*                                                                         *)
(* RInv is inductive: beliefs are well formed and still fit the bounds      *)
(* (Shape), whoever holds a belief object's version holds what was made of  *)
(* that object (Traced), and the group in progress goes on from the belief  *)
(* (Onward).  The controller's evidence and what is kept under identifiers  *)
(* have invariants of their own on top of it (Dated, Denoted, Owned), and   *)
(* so have the scheduler's counters (Counted).                              *)
(***************************************************************************)
EXTENDS OnlineRuntime, FiniteSetTheorems, SequenceTheorems, TLAPS

Holding == UNION {[S -> Things] : S \in SUBSET Nat}

Belief == [version : Nat \ {0}, time : Nat, start : Nat, credited : Nat, holds : Holding,
           nextId : Nat, dynamics : Nat]

(* A belief whose identifiers were all given by its own counter.            *)
Sound(b) ==
  /\ b \in Belief
  /\ b.version <= MaxVersions /\ b.dynamics <= MaxDynamics /\ b.start <= MaxTime
  /\ DOMAIN b.holds \subseteq 0 .. b.nextId - 1
  /\ Cardinality(DOMAIN b.holds) <= MaxObjects

Token == [source : Nat, revision : Nat, dynamics : Nat, target : Times, dt : Nat,
          prior : Belief, consumed : BOOLEAN]

Forecast == [horizon : Horizons, source : Nat, revision : Nat, dynamics : Nat, due : Nat,
             step : Belief]

IsPool(q) == q = [weights |-> q.weights, joint |-> q.joint]

Controller(c) ==
  /\ c = [pending |-> c.pending, pools |-> c.pools, context |-> c.context]
  /\ c.pending \subseteq Forecast
  /\ \A h \in Horizons : IsPool(c.pools[h])

Calls == [groups : Seq(Groups), queue : SUBSET Streams, bad : SUBSET Malformed, token : Nat,
          dt : Nat]
-----------------------------------------------------------------------------
(* Beliefs. *)

LEMMA HoldingIs ==
  ASSUME NEW f
  PROVE  f \in Holding <=> f \in [DOMAIN f -> Things] /\ DOMAIN f \subseteq Nat
BY DEF Holding

LEMMA NoBeliefIsNone == NoBelief \notin Belief
BY DEF NoBelief, Belief

LEMMA PredictedIs ==
  ASSUME NEW b \in Belief, NEW t \in Nat, NEW d \in Nat
  PROVE  /\ Predicted(b, t, d) \in Belief
         /\ Predicted(b, t, d).time = t /\ Predicted(b, t, d).dynamics = d
         /\ Predicted(b, t, d).version = b.version /\ Predicted(b, t, d).start = b.start
         /\ Predicted(b, t, d).credited = b.credited /\ Predicted(b, t, d).holds = b.holds
         /\ Predicted(b, t, d).nextId = b.nextId
BY DEF Predicted, Belief

LEMMA PredictedSound ==
  ASSUME NEW b, Sound(b), NEW t \in Nat, NEW d \in 0 .. MaxDynamics
  PROVE  Sound(Predicted(b, t, d))
<1>1. b \in Belief /\ d \in Nat /\ d <= MaxDynamics
  BY RuntimeAssumption DEF Sound
<1> DEFINE p == Predicted(b, t, d)
<1>2. /\ p \in Belief /\ p.dynamics = d /\ p.version = b.version /\ p.start = b.start
      /\ p.holds = b.holds /\ p.nextId = b.nextId
  BY <1>1, PredictedIs
<1> HIDE DEF p
<1>3. Sound(p)
  BY <1>1, <1>2 DEF Sound
<1> QED
  BY <1>3 DEF p

LEMMA SoundIsBelief ==
  ASSUME NEW b, Sound(b), b.time \in Times
  PROVE  IsBelief(b)
<1>1. b.version \in 1 .. MaxVersions /\ b.dynamics \in 0 .. MaxDynamics /\ b.start \in Times
  BY RuntimeAssumption DEF Sound, Belief, Times
<1>2. Range(b.holds) \subseteq Things
  BY HoldingIs DEF Sound, Belief, Range
<1> QED
  BY <1>1, <1>2 DEF Sound, IsBelief

LEMMA RenewedIs ==
  ASSUME NEW b \in Belief, NEW v \in Nat
  PROVE  LET r == [b EXCEPT !.version = v + 1]
         IN  /\ r \in Belief /\ r.version = v + 1
             /\ r.time = b.time /\ r.start = b.start /\ r.credited = b.credited
             /\ r.holds = b.holds /\ r.nextId = b.nextId /\ r.dynamics = b.dynamics
BY DEF Belief

(* What a packet makes of a belief.                                         *)
Corrected(b, dt) == [b EXCEPT !.credited = @ + dt]

Makes(b, dt, retired, thing, corrected, retained, final) ==
  /\ corrected.holds = b.holds /\ corrected.time = b.time
  /\ Active(retained) = Active(b) \ retired
  /\ final \in Belief
  /\ final.version = b.version /\ final.time = b.time /\ final.start = b.start
  /\ final.dynamics = b.dynamics /\ final.credited = b.credited + dt
  /\ final.nextId = IF thing = Nothing THEN b.nextId ELSE b.nextId + 1
  /\ Active(final) = IF thing = Nothing THEN Active(b) \ retired
                     ELSE (Active(b) \ retired) \cup {b.nextId}
  /\ b.nextId \notin Active(b)
  /\ \A i \in Active(b) \ retired : final.holds[i] = b.holds[i]

LEMMA PacketMakes ==
  ASSUME NEW b, Sound(b), NEW dt \in Nat, NEW retired \in SUBSET Active(b),
         NEW thing \in Things \cup {Nothing}
  PROVE  LET corrected == Corrected(b, dt)
             retained == Retained(corrected, retired)
             final == WithBirth(retained, thing)
         IN  Makes(b, dt, retired, thing, corrected, retained, final)
<1> DEFINE corrected == Corrected(b, dt)
           retained == Retained(corrected, retired)
           final == WithBirth(retained, thing)
           left == [i \in Active(b) \ retired |-> b.holds[i]]
           born == [i \in (Active(b) \ retired) \cup {b.nextId} |->
                      IF i = b.nextId THEN thing ELSE left[i]]
<1>1. /\ b \in Belief /\ b.holds \in Holding /\ b.nextId \in Nat /\ b.nextId \notin Active(b)
      /\ Active(b) \subseteq Nat
  BY DEF Sound, Belief, Active
<1>2. b.holds \in [Active(b) -> Things]
  BY <1>1, HoldingIs DEF Active
<1>3. left \in Holding
  <2>1. left \in [Active(b) \ retired -> Things] /\ DOMAIN left = Active(b) \ retired
    BY <1>2
  <2> QED
    BY <1>1, <2>1, HoldingIs
<1>4. thing # Nothing => born \in Holding
  <2> SUFFICES ASSUME thing # Nothing PROVE born \in Holding
    OBVIOUS
  <2>1. thing \in Things
    OBVIOUS
  <2>2. born \in [(Active(b) \ retired) \cup {b.nextId} -> Things]
    BY <1>2, <2>1
  <2>3. DOMAIN born = (Active(b) \ retired) \cup {b.nextId}
    OBVIOUS
  <2>4. DOMAIN born \subseteq Nat
    BY <1>1, <2>3
  <2> HIDE DEF born
  <2> QED
    BY <2>2, <2>3, <2>4, HoldingIs
<1> HIDE DEF left
<1>5. /\ corrected \in Belief /\ corrected.holds = b.holds
      /\ corrected.version = b.version /\ corrected.time = b.time /\ corrected.start = b.start
      /\ corrected.dynamics = b.dynamics /\ corrected.credited = b.credited + dt
      /\ corrected.nextId = b.nextId
  BY <1>1 DEF Belief, Corrected
<1> HIDE DEF corrected
<1>6. retained = [corrected EXCEPT !.holds = left]
  BY <1>5 DEF Retained, Active, left
<1>7. /\ retained \in Belief /\ retained.holds = left
      /\ retained.version = b.version /\ retained.time = b.time /\ retained.start = b.start
      /\ retained.dynamics = b.dynamics /\ retained.credited = b.credited + dt
      /\ retained.nextId = b.nextId
  BY <1>3, <1>5, <1>6 DEF Belief
<1>8. Active(retained) = Active(b) \ retired
  BY <1>7 DEF Active, left
<1> HIDE DEF retained
<1>9. CASE thing = Nothing
  <2>1. final = retained
    BY <1>9 DEF WithBirth
  <2> QED
    BY <1>1, <1>5, <1>7, <1>8, <1>9, <2>1 DEF left, corrected, retained, Makes
<1>10. CASE thing # Nothing
  <2>1. final = [retained EXCEPT !.holds = born, !.nextId = @ + 1]
    BY <1>7, <1>8, <1>10 DEF WithBirth
  <2>2. born \in Holding
    BY <1>4, <1>10
  <2>3. DOMAIN born = (Active(b) \ retired) \cup {b.nextId}
    OBVIOUS
  <2>4. \A i \in Active(b) \ retired : born[i] = b.holds[i]
    BY <1>1 DEF left
  <2> HIDE DEF born
  <2>5. final = [version |-> b.version, time |-> b.time, start |-> b.start,
                 credited |-> b.credited + dt, holds |-> born, nextId |-> b.nextId + 1,
                 dynamics |-> b.dynamics]
    BY <1>7, <2>1 DEF Belief
  <2>6. /\ final \in Belief /\ final.holds = born
        /\ final.version = b.version /\ final.time = b.time /\ final.start = b.start
        /\ final.dynamics = b.dynamics /\ final.credited = b.credited + dt
        /\ final.nextId = b.nextId + 1
    BY <1>1, <1>7, <2>2, <2>5 DEF Belief
  <2> QED
    BY <1>1, <1>5, <1>8, <1>10, <2>3, <2>4, <2>6 DEF Active, corrected, retained, Makes
<1> QED
  BY <1>9, <1>10 DEF corrected, retained
-----------------------------------------------------------------------------
(* The hypothesis controller: which comparisons it remembers, and what the  *)
(* weights of an identifier rest on, after each of its methods.             *)
Holds(q, e) == e \in q.joint \/ \E i \in DOMAIN q.weights : e \in q.weights[i]

Known(c, e) == \E h \in Horizons : Holds(c.pools[h], e)

(* Weights that are not empty rest on a comparison of their own, and beside *)
(* those only on what the joint weights rest on, if a prior is shared.      *)
Judged(q) ==
  \A i \in DOMAIN q.weights :
    /\ q.weights[i] # {} => \E e \in q.weights[i] : e.under = i
    /\ \A e \in q.weights[i] : e.under = i \/ (SharesPrior /\ e \in q.joint)

AllJudged(c) == \A h \in Horizons : Judged(c.pools[h])

LEMMA EvidenceIsKnown ==
  ASSUME NEW c, NEW e \in Evidence(c)
  PROVE  Known(c, e)
BY DEF Evidence, Weights, Known, Holds

LEMMA TargetIs ==
  ASSUME NEW f, NEW b, NEW seen, NEW e \in Targets(f, b, seen)
  PROVE  /\ e.under \in seen /\ e.under \in DOMAIN f.step.holds
         /\ e.of = f.step.holds[e.under] /\ e.at = b.holds[e.under] /\ e.dynamics = f.dynamics
BY DEF Targets, Compared

LEMMA EnsuredIs ==
  ASSUME NEW q, IsPool(q), NEW b
  PROVE  LET p == Ensured(q, b)
         IN  /\ IsPool(p) /\ p.joint = q.joint
             /\ p.weights = [i \in DOMAIN b.holds |->
                               IF i \in DOMAIN q.weights THEN q.weights[i] ELSE {}]
             /\ \A e : Holds(p, e) => Holds(q, e)
             /\ Judged(q) => Judged(p)
<1> DEFINE p == Ensured(q, b)
           rest == [i \in DOMAIN b.holds |-> IF i \in DOMAIN q.weights THEN q.weights[i] ELSE {}]
<1>1. p = [weights |-> rest, joint |-> q.joint]
  BY DEF Ensured, IsPool
<1>2. \A i \in DOMAIN rest : rest[i] # {} => i \in DOMAIN q.weights /\ rest[i] = q.weights[i]
  OBVIOUS
<1> HIDE DEF rest, p
<1>3. IsPool(p) /\ p.joint = q.joint /\ p.weights = rest
  BY <1>1 DEF IsPool
<1>4. \A e : Holds(p, e) => Holds(q, e)
  BY <1>2, <1>3 DEF Holds
<1>5. Judged(q) => Judged(p)
  BY <1>2, <1>3 DEF Judged
<1> QED
  BY <1>3, <1>4, <1>5 DEF p, rest

LEMMA UpdatedIs ==
  ASSUME NEW q, IsPool(q), NEW b, NEW due, NEW seen
  PROVE  LET u == Updated(q, b, due, seen)
         IN  /\ IsPool(u)
             /\ \A e : Holds(u, e) => Holds(q, e) \/ \E f \in due : e \in Targets(f, b, seen)
             /\ Judged(q) => Judged(u)
<1> DEFINE u == Updated(q, b, due, seen)
           p == Ensured(q, b)
           own(f, i) == {e \in Targets(f, b, seen) : e.under = i}
           all(fs) == UNION {Targets(f, b, seen) : f \in fs}
           prior(f) == q.joint \cup all({g \in due : g.source < f.source})
           shared(f) == IF SharesPrior THEN prior(f) ELSE {}
           learnt(i) == UNION {own(f, i) \cup shared(f) : f \in {f \in due : own(f, i) # {}}}
           weights == [i \in DOMAIN b.holds |-> p.weights[i] \cup learnt(i)]
<1>1. u = [weights |-> weights, joint |-> q.joint \cup all(due)]
  BY DEF Updated
<1>2. /\ DOMAIN p.weights = DOMAIN b.holds /\ p.joint = q.joint
      /\ \A e : Holds(p, e) => Holds(q, e)
      /\ Judged(q) => Judged(p)
  <2> HIDE DEF own, all, prior, shared, learnt, weights, u
  <2>1. /\ p.weights = [i \in DOMAIN b.holds |-> IF i \in DOMAIN q.weights THEN q.weights[i] ELSE {}]
        /\ p.joint = q.joint
        /\ \A e : Holds(p, e) => Holds(q, e)
        /\ Judged(q) => Judged(p)
    BY EnsuredIs
  <2> QED
    BY <2>1
<1>3. \A i : \A e \in learnt(i) :
        \/ \E f \in due : e \in own(f, i)
        \/ (SharesPrior /\ (e \in q.joint \/ \E f \in due : e \in Targets(f, b, seen)))
  OBVIOUS
<1>4. \A i : learnt(i) # {} => \E e \in learnt(i) : e.under = i
  OBVIOUS
<1>5. \A i \in DOMAIN weights : weights[i] = p.weights[i] \cup learnt(i) /\ i \in DOMAIN p.weights
  BY <1>2
<1>6. \A i : \A f \in due : \A e \in own(f, i) : e \in Targets(f, b, seen) /\ e.under = i
  OBVIOUS
<1>7. \A e : e \in all(due) <=> \E f \in due : e \in Targets(f, b, seen)
  OBVIOUS
<1> HIDE DEF u, p, own, all, learnt, weights
<1>8. IsPool(u) /\ u.weights = weights /\ u.joint = q.joint \cup all(due)
  BY <1>1 DEF IsPool
<1>9. ASSUME NEW e, Holds(u, e)
      PROVE  Holds(q, e) \/ \E f \in due : e \in Targets(f, b, seen)
  <2>1. CASE e \in u.joint
    BY <1>7, <1>8, <2>1 DEF Holds
  <2>2. CASE \E i \in DOMAIN u.weights : e \in u.weights[i]
    <3>1. PICK i \in DOMAIN weights : e \in p.weights[i] \/ e \in learnt(i)
      BY <1>5, <1>8, <2>2
    <3>2. CASE e \in p.weights[i]
      BY <1>2, <1>5, <3>1, <3>2 DEF Holds
    <3>3. CASE e \in learnt(i)
      BY <1>3, <1>6, <3>3 DEF Holds
    <3> QED
      BY <3>1, <3>2, <3>3
  <2> QED
    BY <1>9, <2>1, <2>2 DEF Holds
<1>10. ASSUME Judged(q)
       PROVE  Judged(u)
  <2> SUFFICES ASSUME NEW i \in DOMAIN weights
               PROVE  /\ weights[i] # {} => \E e \in weights[i] : e.under = i
                      /\ \A e \in weights[i] : e.under = i \/ (SharesPrior /\ e \in u.joint)
    BY <1>8 DEF Judged
  <2>1. /\ p.weights[i] # {} => \E e \in p.weights[i] : e.under = i
        /\ \A e \in p.weights[i] : e.under = i \/ (SharesPrior /\ e \in u.joint)
    BY <1>2, <1>5, <1>8, <1>10 DEF Judged
  <2>2. \A e \in learnt(i) : e.under = i \/ (SharesPrior /\ e \in u.joint)
    BY <1>3, <1>6, <1>7, <1>8
  <2> QED
    BY <1>4, <1>5, <2>1, <2>2
<1> QED
  BY <1>8, <1>9, <1>10 DEF u

LEMMA FreshIs ==
  /\ Controller(Fresh) /\ Fresh.pending = {} /\ Fresh.context = {}
  /\ \A e : ~Known(Fresh, e)
  /\ AllJudged(Fresh)
<1>1. \A h \in Horizons : Fresh.pools[h] = NoEvidence
  BY DEF Fresh
<1>2. IsPool(NoEvidence) /\ (\A e : ~Holds(NoEvidence, e)) /\ Judged(NoEvidence)
  BY DEF NoEvidence, IsPool, Holds, Judged
<1>3. Controller(Fresh) /\ Fresh.pending = {} /\ Fresh.context = {}
  BY <1>1, <1>2 DEF Fresh, Controller
<1> QED
  BY <1>1, <1>2, <1>3 DEF Known, AllJudged

LEMMA InvalidatedIs ==
  ASSUME NEW c, Controller(c)
  PROVE  /\ Controller(Invalidated(c)) /\ Invalidated(c).pending = {}
         /\ Invalidated(c).context = c.context
         /\ \A e : ~Known(Invalidated(c), e)
         /\ AllJudged(Invalidated(c))
<1>1. Invalidated(c) = [pending |-> {}, pools |-> Fresh.pools, context |-> c.context]
  BY DEF Invalidated, Fresh
<1> QED
  BY <1>1, FreshIs DEF Known, Controller, AllJudged

LEMMA SynchronisedIs ==
  ASSUME NEW c, Controller(c), NEW d
  PROVE  LET s == Synchronised(c, d)
         IN  /\ Controller(s) /\ s.context = {d}
             /\ s.pending \subseteq {f \in c.pending : f.dynamics = d}
             /\ \A e : Known(s, e) => Known(c, e) /\ c.context \subseteq {d}
             /\ AllJudged(c) => AllJudged(s)
<1>1. CASE c.context \subseteq {d}
  <2>1. Synchronised(c, d) = [pending |-> {f \in c.pending : f.dynamics = d}, pools |-> c.pools,
                              context |-> {d}]
    BY <1>1 DEF Synchronised, Controller
  <2> QED
    BY <1>1, <2>1 DEF Known, Controller, AllJudged
<1>2. CASE ~(c.context \subseteq {d})
  <2>1. Synchronised(c, d) = [Invalidated(c) EXCEPT !.context = {d}]
    BY <1>2 DEF Synchronised
  <2>2. Synchronised(c, d) = [pending |-> {}, pools |-> Invalidated(c).pools, context |-> {d}]
    BY <2>1, InvalidatedIs DEF Controller
  <2> QED
    BY <2>2, InvalidatedIs DEF Known, Controller, AllJudged
<1> QED
  BY <1>1, <1>2

(* Assimilated and Scheduled change two of a controller's fields.           *)
LEMMA TwoFields ==
  ASSUME NEW c, Controller(c), NEW P, NEW Q
  PROVE  [c EXCEPT !.pending = P, !.pools = Q] = [pending |-> P, pools |-> Q, context |-> c.context]
<1>1. PICK x, y, z : c = [pending |-> x, pools |-> y, context |-> z]
  BY DEF Controller
<1> DEFINE c1 == [c EXCEPT !.pending = P]
<1>2. c1 = [pending |-> P, pools |-> y, context |-> z]
  BY <1>1
<1>3. [c EXCEPT !.pending = P, !.pools = Q] = [c1 EXCEPT !.pools = Q]
  OBVIOUS
<1> HIDE DEF c1
<1>4. [c1 EXCEPT !.pools = Q] = [pending |-> P, pools |-> Q, context |-> z]
  BY <1>2
<1>5. c.context = z
  BY <1>1
<1> QED
  BY <1>3, <1>4, <1>5

LEMMA AssimilatedIs ==
  ASSUME NEW c, Controller(c), NEW b, NEW seen
  PROVE  LET a == Assimilated(c, b, seen)
         IN  /\ Controller(a) /\ a.context = c.context /\ a.pending \subseteq c.pending
             /\ \A e : Known(a, e) => Known(c, e) \/ \E f \in c.pending : e \in Targets(f, b, seen)
             /\ AllJudged(c) => AllJudged(a)
<1> DEFINE due(h) == {f \in c.pending :
             f.horizon = h /\ f.due = b.time /\ Targets(f, b, seen) # {}}
           pools == [h \in Horizons |->
                      IF due(h) = {} THEN c.pools[h] ELSE Updated(c.pools[h], b, due(h), seen)]
           a == Assimilated(c, b, seen)
           pending == {f \in c.pending : b.time < f.due}
<1>1. a = [pending |-> pending, pools |-> pools, context |-> c.context]
  <2>1. a = [c EXCEPT !.pending = pending, !.pools = pools]
    BY DEF Assimilated
  <2> HIDE DEF a, pending, pools
  <2> QED
    BY <2>1, TwoFields
<1>2. ASSUME NEW h \in Horizons
      PROVE  /\ IsPool(pools[h])
             /\ \A e : Holds(pools[h], e) =>
                  Holds(c.pools[h], e) \/ \E f \in c.pending : e \in Targets(f, b, seen)
             /\ Judged(c.pools[h]) => Judged(pools[h])
  <2>1. IsPool(c.pools[h])
    BY DEF Controller
  <2>2. CASE due(h) = {}
    <3>1. pools[h] = c.pools[h]
      BY <2>2
    <3> QED
      BY <2>1, <3>1
  <2>3. CASE due(h) # {}
    <3>1. pools[h] = Updated(c.pools[h], b, due(h), seen) /\ due(h) \subseteq c.pending
      BY <2>3
    <3> HIDE DEF pools, due
    <3>2. /\ IsPool(pools[h])
          /\ \A e : Holds(pools[h], e) =>
               Holds(c.pools[h], e) \/ \E f \in due(h) : e \in Targets(f, b, seen)
          /\ Judged(c.pools[h]) => Judged(pools[h])
      BY <2>1, <3>1, UpdatedIs
    <3> QED
      BY <3>1, <3>2
  <2> QED
    BY <2>2, <2>3
<1> HIDE DEF pools
<1>3. /\ a.pools = pools /\ a.context = c.context /\ a.pending \subseteq c.pending
      /\ a = [pending |-> a.pending, pools |-> a.pools, context |-> a.context]
  BY <1>1
<1> HIDE DEF a
<1>4. Controller(a)
  BY <1>2, <1>3 DEF Controller
<1>5. \A e : Known(a, e) => Known(c, e) \/ \E f \in c.pending : e \in Targets(f, b, seen)
  BY <1>2, <1>3 DEF Known
<1>6. AllJudged(c) => AllJudged(a)
  BY <1>2, <1>3 DEF AllJudged
<1> QED
  BY <1>3, <1>4, <1>5, <1>6 DEF a

LEMMA ScheduledIs ==
  ASSUME NEW c, Controller(c), NEW b \in Belief, NEW r \in Nat, NEW d \in Nat
  PROVE  LET s == Scheduled(c, b, r, d)
         IN  /\ Controller(s)
             /\ \A f \in s.pending :
                  \/ f \in c.pending
                  \/ /\ f.source = b.version /\ f.dynamics = d /\ f.due \in Nat
                     /\ f.step = Predicted(b, f.due, d)
             /\ s.context = c.context
             /\ \A e : Known(s, e) => Known(c, e)
             /\ AllJudged(c) => AllJudged(s)
<1> DEFINE s == Scheduled(c, b, r, d)
           new(h) == [horizon |-> h, source |-> b.version, revision |-> r, dynamics |-> d,
                      due |-> b.time + h, step |-> Predicted(b, b.time + h, d)]
           pools == [h \in Horizons |-> Ensured(c.pools[h], b)]
           pending == {f \in c.pending : b.time <= f.due} \cup {new(h) : h \in Horizons}
<1>1. s = [pending |-> pending, pools |-> pools, context |-> c.context]
  <2>1. s = [c EXCEPT !.pending = pending, !.pools = pools]
    BY DEF Scheduled
  <2> HIDE DEF s, pending, pools
  <2> QED
    BY <2>1, TwoFields
<1>2. \A h \in Horizons : new(h) \in Forecast
  <2> SUFFICES ASSUME NEW h \in Horizons PROVE new(h) \in Forecast
    OBVIOUS
  <2>1. h \in Nat /\ b.time + h \in Nat /\ b.version \in Nat
    BY HorizonAssumption DEF Belief
  <2>2. Predicted(b, b.time + h, d) \in Belief
    BY <2>1, PredictedIs
  <2> QED
    BY <2>1, <2>2 DEF Forecast
<1>3. \A f \in pending :
        \/ f \in c.pending
        \/ /\ f.source = b.version /\ f.dynamics = d /\ f.due \in Nat
           /\ f.step = Predicted(b, f.due, d)
  BY HorizonAssumption DEF Belief
<1>4. \A h \in Horizons :
        /\ IsPool(pools[h])
        /\ \A e : Holds(pools[h], e) => Holds(c.pools[h], e)
        /\ Judged(c.pools[h]) => Judged(pools[h])
  BY EnsuredIs DEF Controller
<1>5. pending \subseteq Forecast
  BY <1>2 DEF Controller
<1> HIDE DEF pending, pools
<1>6. /\ s.pending = pending /\ s.pools = pools /\ s.context = c.context
      /\ s = [pending |-> s.pending, pools |-> s.pools, context |-> s.context]
  BY <1>1
<1> HIDE DEF s
<1>7. Controller(s)
  BY <1>4, <1>5, <1>6 DEF Controller
<1>8. \A e : Known(s, e) => Known(c, e)
  BY <1>4, <1>6 DEF Known
<1>9. AllJudged(c) => AllJudged(s)
  BY <1>4, <1>6 DEF AllJudged
<1> QED
  BY <1>3, <1>6, <1>7, <1>8, <1>9 DEF s
-----------------------------------------------------------------------------
(* The state. *)

Row == [last : Times, shows : SUBSET Things]

(* What is still to be created fits: one belief object for each group of    *)
(* the call, and the first belief if there is none.                         *)
Budget ==
  version + Len(call.groups) + (IF belief = NoBelief /\ call.groups # <<>> THEN 1 ELSE 0)
    <= MaxVersions

Shape ==
  /\ belief \in Belief \cup {NoBelief} /\ work \in Belief \cup {NoBelief}
  /\ belief # NoBelief => Sound(belief) /\ belief.time \in Times
  /\ work # NoBelief =>
       Sound(work) /\ work.time \in Times /\ belief # NoBelief /\ call.groups # <<>>
  /\ version \in Nat /\ dynamics \in 0 .. MaxDynamics /\ revision \in Nat
  /\ call \in Calls /\ call.token \in 0 .. Len(tokens)
  /\ Budget
  /\ tokens \in Seq(Token)
  /\ \A i \in DOMAIN tokens : Sound(tokens[i].prior) /\ tokens[i].prior.time \in Times
  /\ Controller(hypo)
  /\ DOMAIN histories = Streams
  /\ \A k \in Streams : \A i \in DOMAIN histories[k] : histories[k][i] \in Row

(* Who holds a belief object's version holds what was made of that object:  *)
(* versions are never given twice.                                          *)
Traced ==
  /\ belief # NoBelief => belief.version <= version
  /\ \A i \in DOMAIN tokens :
       /\ tokens[i].source <= version
       /\ belief # NoBelief /\ tokens[i].source = belief.version =>
            /\ tokens[i].prior = Predicted(belief, tokens[i].target, tokens[i].dynamics)
            /\ tokens[i].dt = tokens[i].target - belief.time
  /\ \A f \in hypo.pending :
       /\ f.source <= version
       /\ belief # NoBelief /\ f.source = belief.version =>
            f.step = Predicted(belief, f.due, f.dynamics)

(* The group in progress goes on from the belief: no identifier it knew     *)
(* comes back, and each interval is credited once.                          *)
Grown(b, w) ==
  /\ w.time >= b.time /\ w.nextId >= b.nextId
  /\ \A i \in Active(w) : i < b.nextId => i \in Active(b) /\ w.holds[i] = b.holds[i]

Onward ==
  /\ belief # NoBelief => belief.start + belief.credited = belief.time
  /\ work # NoBelief =>
       /\ Grown(belief, work)
       /\ work.start + work.credited + call.dt = work.time
       /\ call.queue = {} => call.dt = 0

RInv == Shape /\ Traced /\ Onward
-----------------------------------------------------------------------------
LEMMA InitialIs ==
  ASSUME NEW t \in Times, version \in Nat, version + 1 <= MaxVersions, dynamics \in 0 .. MaxDynamics
  PROVE  /\ Sound(InitialBelief(t))
         /\ InitialBelief(t).version = version + 1 /\ InitialBelief(t).time = t
         /\ InitialBelief(t).start = t /\ InitialBelief(t).credited = 0
         /\ InitialBelief(t).nextId = 0 /\ Active(InitialBelief(t)) = {}
<1>1. Empty \in Holding /\ DOMAIN Empty = {}
  BY HoldingIs DEF Empty
<1>2. Cardinality({}) = 0
  BY FS_EmptySet
<1>3. InitialBelief(t) \in Belief
  BY <1>1, RuntimeAssumption DEF InitialBelief, Belief, Times
<1> QED
  BY <1>1, <1>2, <1>3, RuntimeAssumption DEF InitialBelief, Sound, Active, Times

(* The group that is opened or rejected. *)
LEMMA FirstGroup ==
  ASSUME Shape, call.groups # <<>>
  PROVE  LET g == Head(call.groups)
         IN  /\ g \in Groups /\ g.time \in Times /\ g.time \in Nat
             /\ g.streams \in SUBSET Streams /\ g.streams # {} /\ g.bad \in SUBSET Malformed
             /\ Len(call.groups) \in Nat /\ Len(call.groups) >= 1
             /\ Tail(call.groups) \in Seq(Groups) /\ Len(Tail(call.groups)) = Len(call.groups) - 1
<1>1. call.groups \in Seq(Groups)
  BY DEF Shape, Calls
<1>2. /\ Head(call.groups) \in Groups /\ Len(call.groups) \in Nat /\ Len(call.groups) >= 1
      /\ Tail(call.groups) \in Seq(Groups) /\ Len(Tail(call.groups)) = Len(call.groups) - 1
  BY <1>1, HeadTailProperties, EmptySeq, LenProperties
<1> QED
  BY <1>2, RuntimeAssumption DEF Groups, Times

LEMMA CurrentIs ==
  ASSUME Shape, call.groups # <<>>
  PROVE  LET c == Current(Head(call.groups).time)
         IN  /\ Sound(c) /\ c.time \in Times /\ c # NoBelief
             /\ belief = NoBelief => c = InitialBelief(Head(call.groups).time)
             /\ belief # NoBelief => c = belief
<1> DEFINE t == Head(call.groups).time
<1>1. CASE belief = NoBelief
  <2>1. version + 1 <= MaxVersions /\ t \in Times /\ version \in Nat /\ dynamics \in 0 .. MaxDynamics
    BY <1>1, FirstGroup, RuntimeAssumption DEF Shape, Budget
  <2> QED
    BY <1>1, <2>1, InitialIs, NoBeliefIsNone DEF Current, Sound
<1>2. CASE belief # NoBelief
  BY <1>2 DEF Current, Shape
<1> QED
  BY <1>1, <1>2

(* Initialise, whether or not the group is then rejected.                   *)
LEMMA InitialiseMoves ==
  ASSUME RInv, call.groups # <<>>, Initialise(Head(call.groups))
  PROVE  LET g == Head(call.groups)
             c == IF belief = NoBelief THEN Fresh ELSE hypo
         IN  /\ belief' = Current(g.time) /\ Sound(belief') /\ belief'.time \in Times
             /\ belief' # NoBelief
             /\ version' \in Nat /\ version <= version'
             /\ belief = NoBelief => version' = version + 1 /\ belief'.version = version'
             /\ belief # NoBelief => version' = version /\ belief' = belief
             /\ Controller(hypo')
             /\ hypo'.pending \subseteq c.pending
             /\ Timely(g) => hypo' = Synchronised(c, dynamics)
             /\ ~Timely(g) => hypo' = c
<1>1. Controller(hypo) /\ Controller(Fresh) /\ version \in Nat
  BY FreshIs DEF RInv, Shape
<1>2. belief' = Current(Head(call.groups).time)
  BY DEF Initialise
<1>3. Head(call.groups).time \in Times /\ version + 1 \in Nat
  BY <1>1, FirstGroup DEF RInv
<1>4. belief = NoBelief => version' = version + 1 /\ belief'.version = version'
  BY <1>2, CurrentIs DEF RInv, Initialise, InitialBelief
<1>5. belief # NoBelief => version' = version /\ belief' = belief
  BY <1>2, CurrentIs DEF RInv, Initialise
<1>6. /\ Timely(Head(call.groups)) =>
           hypo' = Synchronised(IF belief = NoBelief THEN Fresh ELSE hypo, dynamics)
      /\ ~Timely(Head(call.groups)) => hypo' = IF belief = NoBelief THEN Fresh ELSE hypo
  BY DEF Initialise
<1>7. /\ Controller(hypo')
      /\ hypo'.pending \subseteq (IF belief = NoBelief THEN Fresh ELSE hypo).pending
  BY <1>1, <1>6, SynchronisedIs
<1> QED
  BY <1>1, <1>2, <1>4, <1>5, <1>6, <1>7, CurrentIs DEF RInv

(* A reusable forecast is the prediction it replaces. *)
LEMMA PriorsArePredicted ==
  ASSUME NEW c, NEW b, NEW t, NEW p \in Priors(c, b, t),
         \A f \in c.pending : f.source = b.version => f.step = Predicted(b, f.due, f.dynamics)
  PROVE  p = Predicted(b, t, dynamics)
BY DEF Priors, Propagated, Reusable

LEMMA OpeningMoves ==
  ASSUME RInv, OpenGroup
  PROVE  LET g == Head(call.groups)
         IN  /\ Initialise(g) /\ Timely(g) /\ call.groups # <<>> /\ work = NoBelief
             /\ belief'.time <= g.time
             /\ work' = Predicted(belief', g.time, dynamics)
             /\ call' \in Calls /\ call'.groups = call.groups /\ call'.token = call.token
             /\ call'.queue = g.streams /\ call'.dt = g.time - belief'.time
             /\ tokens' \in Seq(Token) /\ Len(tokens') = Len(tokens)
             /\ \A i \in DOMAIN tokens' :
                  /\ i \in DOMAIN tokens
                  /\ tokens'[i].source = tokens[i].source /\ tokens'[i].prior = tokens[i].prior
                  /\ tokens'[i].target = tokens[i].target /\ tokens'[i].dt = tokens[i].dt
                  /\ tokens'[i].dynamics = tokens[i].dynamics
             /\ UNCHANGED <<histories, caches, radii, sched, revision, dynamics, run>>
<1> DEFINE g == Head(call.groups)
           n == call.token
<1>1. /\ Initialise(g) /\ Timely(g) /\ WellFormed(g) /\ Acceptable(g)
      /\ call.groups # <<>> /\ work = NoBelief
      /\ UNCHANGED <<histories, caches, radii, sched, revision, dynamics, run>>
  BY DEF OpenGroup, Opening, Acceptable
<1>2. /\ belief' = Current(g.time) /\ Sound(belief') /\ belief'.time \in Times /\ belief' # NoBelief
      /\ g.time \in Nat /\ belief'.time \in Nat
      /\ g \in Groups /\ g.streams \in SUBSET Streams /\ g.bad \in SUBSET Malformed
  BY <1>1, InitialiseMoves, FirstGroup DEF RInv, Times
<1>3. belief'.time <= g.time
  BY <1>1, <1>2 DEF Timely
<1>4. call \in Calls /\ n \in 0 .. Len(tokens) /\ tokens \in Seq(Token) /\ DOMAIN tokens = 1 .. Len(tokens)
      /\ Len(tokens) \in Nat
  BY LenProperties DEF RInv, Shape
<1>5. \A f \in hypo'.pending :
        f.source = belief'.version => f.step = Predicted(belief', f.due, f.dynamics)
  <2>1. CASE belief = NoBelief
    BY <1>1, <2>1, InitialiseMoves, FreshIs
  <2>2. CASE belief # NoBelief
    BY <1>1, <2>2, InitialiseMoves DEF RInv, Traced
  <2> QED
    BY <2>1, <2>2
<1>6. CASE n = 0
  <2>1. work' \in Priors(hypo', belief', g.time) /\ tokens' = tokens
    BY <1>6 DEF OpenGroup
  <2>2. work' = Predicted(belief', g.time, dynamics)
    BY <1>5, <2>1, PriorsArePredicted
  <2>3. call' = [call EXCEPT !.queue = g.streams, !.bad = g.bad, !.dt = g.time - belief'.time]
    BY <1>6 DEF OpenGroup
  <2>4. call' = [groups |-> call.groups, queue |-> g.streams, bad |-> g.bad, token |-> call.token,
                 dt |-> g.time - belief'.time]
    BY <1>4, <2>3 DEF Calls
  <2>5. /\ call' \in Calls /\ call'.groups = call.groups /\ call'.token = call.token
        /\ call'.queue = g.streams /\ call'.dt = g.time - belief'.time
    BY <1>2, <1>3, <1>4, <2>4 DEF Calls
  <2> QED
    BY <1>1, <1>3, <1>4, <2>1, <2>2, <2>5
<1>7. CASE n # 0
  <2>1. /\ n \in DOMAIN tokens /\ tokens[n] \in Token
        /\ work' = tokens[n].prior /\ tokens' = [tokens EXCEPT ![n].consumed = TRUE]
    BY <1>4, <1>7, ElementOfSeq DEF OpenGroup
  <2>2. belief # NoBelief /\ ValidToken(tokens[n], Current(g.time), g.time)
    BY <1>1, <1>7 DEF WellFormed, Acceptable
  <2>3. belief' = belief /\ tokens[n].source = belief.version /\ tokens[n].dynamics = dynamics
        /\ tokens[n].target = g.time
    BY <1>1, <1>2, <2>2, InitialiseMoves DEF ValidToken
  <2>4. work' = Predicted(belief', g.time, dynamics) /\ tokens[n].dt = g.time - belief'.time
    BY <2>1, <2>2, <2>3 DEF RInv, Traced
  <2>5. call' = [call EXCEPT !.queue = g.streams, !.bad = g.bad, !.dt = tokens[n].dt]
    BY <1>7 DEF OpenGroup
  <2>6. call' = [groups |-> call.groups, queue |-> g.streams, bad |-> g.bad, token |-> call.token,
                 dt |-> g.time - belief'.time]
    BY <1>4, <2>4, <2>5 DEF Calls
  <2>7. /\ call' \in Calls /\ call'.groups = call.groups /\ call'.token = call.token
        /\ call'.queue = g.streams /\ call'.dt = g.time - belief'.time
    BY <1>2, <1>3, <1>4, <2>6 DEF Calls
  <2>8. tokens' = [tokens EXCEPT ![n] = [tokens[n] EXCEPT !.consumed = TRUE]]
    BY <2>1
  <2> DEFINE spent == [tokens[n] EXCEPT !.consumed = TRUE]
  <2>9. /\ spent \in Token /\ spent.source = tokens[n].source /\ spent.prior = tokens[n].prior
        /\ spent.target = tokens[n].target /\ spent.dt = tokens[n].dt
        /\ spent.dynamics = tokens[n].dynamics
    BY <2>1 DEF Token
  <2> HIDE DEF spent
  <2>10. tokens' = [tokens EXCEPT ![n] = spent]
    BY <2>8 DEF spent
  <2>11. /\ tokens' \in Seq(Token) /\ Len(tokens') = Len(tokens) /\ DOMAIN tokens' = DOMAIN tokens
         /\ tokens'[n] = spent /\ \A i \in DOMAIN tokens : i # n => tokens'[i] = tokens[i]
    BY <1>4, <2>1, <2>9, <2>10, ExceptSeq
  <2> QED
    BY <1>1, <1>3, <2>4, <2>7, <2>9, <2>11
<1> QED
  BY <1>6, <1>7
-----------------------------------------------------------------------------
(* Between calls. *)

LEMMA InitHolds ==
  ASSUME Init
  PROVE  RInv
<1>1. Idle \in Calls /\ Idle.groups = <<>> /\ Len(<<>>) = 0
  BY DEF Idle, Calls
<1>2. DOMAIN histories = Streams /\ \A k \in Streams : DOMAIN histories[k] = {}
  BY DEF Init, Each, Empty
<1>3. tokens \in Seq(Token) /\ Len(tokens) = 0 /\ DOMAIN tokens = {}
  BY DEF Init
<1>4. belief = NoBelief /\ work = NoBelief /\ version = 0 /\ dynamics = 0 /\ revision = 0
      /\ call = Idle /\ hypo = Fresh /\ call.token = 0
  BY DEF Init, Idle
<1>5. MaxVersions \in Nat /\ dynamics \in 0 .. MaxDynamics
  BY <1>4, RuntimeAssumption
<1>6. Budget
  <2>1. Len(call.groups) = 0 /\ call.groups = <<>>
    BY <1>1, <1>4
  <2>2. (IF belief = NoBelief /\ call.groups # <<>> THEN 1 ELSE 0) = 0
    BY <2>1
  <2> QED
    BY <1>4, <1>5, <2>1, <2>2 DEF Budget
<1>7. Controller(hypo)
  BY <1>4, FreshIs
<1>8. Shape
  BY <1>1, <1>2, <1>3, <1>4, <1>5, <1>6, <1>7 DEF Shape
<1>9. Traced /\ Onward
  BY <1>3, <1>4, FreshIs DEF Traced, Onward
<1> QED
  BY <1>8, <1>9 DEF RInv

LEMMA ResetKeeps ==
  ASSUME RInv, Reset
  PROVE  RInv'
<1>1. /\ belief' = NoBelief /\ hypo' = Fresh /\ revision' = 0 /\ work = NoBelief
      /\ call.groups = <<>> /\ Len(<<>>) = 0
      /\ UNCHANGED <<tokens, dynamics, version, call, work>>
  BY DEF Reset, Resting
<1>2. DOMAIN histories' = Streams /\ \A k \in Streams : DOMAIN histories'[k] = {}
  BY DEF Reset, Each, Empty
<1>3. Budget'
  <2>1. call'.groups = call.groups /\ version' = version
    BY <1>1
  <2>2. (IF belief' = NoBelief /\ call'.groups # <<>> THEN 1 ELSE 0) = 0
    BY <1>1
  <2>3. (IF belief = NoBelief /\ call.groups # <<>> THEN 1 ELSE 0) = 0
    BY <1>1
  <2> QED
    BY <2>1, <2>2, <2>3 DEF RInv, Shape, Budget
<1>4. Controller(hypo') /\ revision' \in Nat
  BY <1>1, FreshIs
<1>5. Shape'
  BY <1>1, <1>2, <1>3, <1>4 DEF RInv, Shape
<1>6. Traced' /\ Onward'
  BY <1>1, FreshIs DEF RInv, Traced, Onward
<1> QED
  BY <1>5, <1>6 DEF RInv

LEMMA ReplacedKeeps ==
  ASSUME RInv, DetachState \/ PerturbBelief
  PROVE  RInv'
<1>1. /\ belief # NoBelief /\ version < MaxVersions /\ version' = version + 1
      /\ belief' = [belief EXCEPT !.version = version + 1]
      /\ work = NoBelief /\ call.groups = <<>> /\ Len(<<>>) = 0
      /\ UNCHANGED <<histories, revision, tokens, dynamics, call, work>>
  BY DEF DetachState, PerturbBelief, Replaced, Resting
<1>2. /\ belief \in Belief /\ version \in Nat /\ Controller(hypo) /\ MaxVersions \in Nat
      /\ Sound(belief) /\ belief.time \in Times
  BY <1>1, RuntimeAssumption DEF RInv, Shape
<1>3. /\ belief' \in Belief /\ belief'.version = version'
      /\ belief'.time = belief.time /\ belief'.start = belief.start
      /\ belief'.credited = belief.credited /\ belief'.holds = belief.holds
      /\ belief'.nextId = belief.nextId /\ belief'.dynamics = belief.dynamics
  BY <1>1, <1>2, RenewedIs
<1>4. Sound(belief')
  BY <1>1, <1>2, <1>3 DEF Sound
<1>5. Controller(hypo') /\ hypo'.pending \subseteq hypo.pending
  BY <1>2, InvalidatedIs DEF DetachState, PerturbBelief
<1>6. Shape'
  BY <1>1, <1>2, <1>3, <1>4, <1>5 DEF RInv, Shape, Budget
<1>7. Traced'
  <2>1. \A i \in DOMAIN tokens : tokens[i].source \in Nat /\ tokens[i].source <= version
    <3>1. tokens \in Seq(Token) /\ DOMAIN tokens = 1 .. Len(tokens)
      BY LenProperties DEF RInv, Shape
    <3>2. \A i \in DOMAIN tokens : tokens[i] \in Token
      BY <3>1, ElementOfSeq
    <3> QED
      BY <3>2 DEF RInv, Traced, Token
  <2>2. \A f \in hypo'.pending : f.source \in Nat /\ f.source <= version
    BY <1>2, <1>5 DEF RInv, Traced, Controller, Forecast
  <2> QED
    BY <1>1, <1>2, <1>3, <2>1, <2>2 DEF Traced
<1>8. Onward'
  BY <1>1, <1>3 DEF RInv, Onward
<1> QED
  BY <1>6, <1>7, <1>8 DEF RInv

LEMMA ChangeDynamicsKeeps ==
  ASSUME RInv, ChangeDynamics
  PROVE  RInv'
<1>1. dynamics' = dynamics + 1 /\ dynamics < MaxDynamics /\ dynamics' \in 0 .. MaxDynamics
  BY RuntimeAssumption DEF ChangeDynamics, RInv, Shape
<1>2. UNCHANGED <<belief, histories, hypo, revision, tokens, version, call, work>>
  BY DEF ChangeDynamics, kept
<1>3. Shape'
  BY <1>1, <1>2 DEF RInv, Shape, Budget
<1>4. Traced' /\ Onward'
  BY <1>2 DEF RInv, Traced, Onward
<1> QED
  BY <1>3, <1>4 DEF RInv

LEMMA PreparePropagationKeeps ==
  ASSUME RInv, NEW t \in Times, PreparePropagation(t)
  PROVE  RInv'
<1>1. /\ belief # NoBelief /\ t >= belief.time /\ hypo' = Synchronised(hypo, dynamics)
      /\ call.groups = <<>> /\ work = NoBelief
      /\ UNCHANGED <<belief, histories, revision, dynamics, version, call, work>>
  BY DEF PreparePropagation, Resting
<1>2. PICK prior \in Priors(hypo', belief, t) :
        tokens' = Append(tokens,
          [source |-> belief.version, revision |-> revision, dynamics |-> dynamics,
           target |-> t, dt |-> t - belief.time, prior |-> prior, consumed |-> FALSE])
  BY DEF PreparePropagation
<1> DEFINE made == [source |-> belief.version, revision |-> revision, dynamics |-> dynamics,
                    target |-> t, dt |-> t - belief.time, prior |-> prior, consumed |-> FALSE]
<1>3. Controller(hypo') /\ hypo'.pending \subseteq hypo.pending
  BY <1>1, SynchronisedIs DEF RInv, Shape
<1>4. prior = Predicted(belief, t, dynamics)
  BY <1>1, <1>2, <1>3, PriorsArePredicted DEF RInv, Traced
<1>5. /\ Sound(belief) /\ belief \in Belief /\ belief.time \in Nat /\ belief.version \in Nat
      /\ t \in Nat /\ dynamics \in Nat /\ revision \in Nat
      /\ dynamics \in 0 .. MaxDynamics
  BY <1>1, RuntimeAssumption DEF RInv, Shape, Sound, Belief, Times
<1>6. Sound(prior) /\ prior \in Belief /\ prior.time = t
  BY <1>4, <1>5, PredictedSound, PredictedIs
<1>7. made \in Token
  BY <1>1, <1>5, <1>6 DEF Token
<1>8. /\ made.source = belief.version /\ made.dynamics = dynamics /\ made.target = t
      /\ made.dt = t - belief.time /\ made.prior = prior
  OBVIOUS
<1> HIDE DEF made
<1>9. tokens' = Append(tokens, made) /\ tokens \in Seq(Token) /\ Len(tokens) \in Nat
      /\ DOMAIN tokens = 1 .. Len(tokens)
  BY <1>2, LenProperties DEF made, RInv, Shape
<1>10. /\ tokens' \in Seq(Token) /\ Len(tokens') = Len(tokens) + 1
       /\ DOMAIN tokens' = 1 .. Len(tokens) + 1
       /\ \A i \in DOMAIN tokens : tokens'[i] = tokens[i]
       /\ tokens'[Len(tokens) + 1] = made
  BY <1>7, <1>9, AppendProperties, LenProperties
<1>11. \A i \in DOMAIN tokens' : i \in DOMAIN tokens \/ tokens'[i] = made
  BY <1>9, <1>10
<1>12. Shape'
  <2>1. \A i \in DOMAIN tokens' : Sound(tokens'[i].prior) /\ tokens'[i].prior.time \in Times
    BY <1>6, <1>8, <1>10, <1>11 DEF RInv, Shape
  <2>2. call.token \in 0 .. Len(tokens')
    BY <1>9, <1>10 DEF RInv, Shape
  <2> QED
    BY <1>1, <1>3, <1>10, <2>1, <2>2 DEF RInv, Shape, Budget
<1>13. Traced'
  <2>1. made.source <= version
    BY <1>1, <1>8 DEF RInv, Traced
  <2> QED
    BY <1>1, <1>3, <1>4, <1>8, <1>10, <1>11, <2>1 DEF RInv, Traced
<1>14. Onward'
  BY <1>1 DEF RInv, Onward
<1> QED
  BY <1>12, <1>13, <1>14 DEF RInv

LEMMA IngestKeeps ==
  ASSUME RInv, NEW groups \in GroupLists, NEW token \in 0 .. Len(tokens), Ingest(groups, token)
  PROVE  RInv'
<1>1. PICK n \in 1 .. MaxGroups : groups \in [1 .. n -> Groups]
  BY DEF GroupLists
<1>2. groups \in Seq(Groups) /\ Len(groups) = n /\ n \in Nat /\ groups # <<>>
  <2>1. n \in Nat /\ n >= 1
    BY RuntimeAssumption
  <2>2. groups \in Seq(Groups)
    BY <1>1, <2>1, SeqDef
  <2>3. Len(groups) = n
    BY <1>1, <2>1, <2>2, LenProperties
  <2> QED
    BY <2>1, <2>2, <2>3
<1>3. /\ version + Len(groups) + (IF belief = NoBelief THEN 1 ELSE 0) <= MaxVersions
      /\ call' = [Idle EXCEPT !.groups = groups, !.token = token]
      /\ work = NoBelief
      /\ UNCHANGED <<belief, histories, hypo, revision, tokens, dynamics, version, work>>
  BY DEF Ingest, Resting, kept
<1>4. call' = [groups |-> groups, queue |-> {}, bad |-> {}, token |-> token, dt |-> 0]
  BY <1>3 DEF Idle
<1>5. token \in Nat
  BY LenProperties DEF RInv, Shape
<1>6. call' \in Calls /\ call'.groups = groups /\ call'.token = token
  BY <1>2, <1>4, <1>5 DEF Calls
<1>7. Shape'
  BY <1>2, <1>3, <1>6 DEF RInv, Shape, Budget
<1>8. Traced' /\ Onward'
  BY <1>3 DEF RInv, Traced, Onward
<1> QED
  BY <1>7, <1>8 DEF RInv
-----------------------------------------------------------------------------
(* The steps of a call. *)

(* A created belief has a version nobody holds; another is the belief.      *)
LEMMA InitialiseTraces ==
  ASSUME RInv, call.groups # <<>>, Initialise(Head(call.groups)),
         tokens' \in Seq(Token), Len(tokens') = Len(tokens),
         \A i \in DOMAIN tokens' :
           /\ i \in DOMAIN tokens
           /\ tokens'[i].source = tokens[i].source /\ tokens'[i].prior = tokens[i].prior
           /\ tokens'[i].target = tokens[i].target /\ tokens'[i].dt = tokens[i].dt
           /\ tokens'[i].dynamics = tokens[i].dynamics
  PROVE  Traced'
<1>1. /\ belief' # NoBelief /\ version \in Nat /\ version' \in Nat /\ version <= version'
      /\ belief = NoBelief => version' = version + 1 /\ belief'.version = version'
      /\ belief # NoBelief => version' = version /\ belief' = belief
      /\ hypo'.pending \subseteq (IF belief = NoBelief THEN Fresh ELSE hypo).pending
  BY InitialiseMoves DEF RInv, Shape
<1>2. \A i \in DOMAIN tokens : tokens[i].source \in Nat /\ tokens[i].source <= version
  <2>1. tokens \in Seq(Token) /\ DOMAIN tokens = 1 .. Len(tokens)
    BY LenProperties DEF RInv, Shape
  <2>2. \A i \in DOMAIN tokens : tokens[i] \in Token
    BY <2>1, ElementOfSeq
  <2> QED
    BY <2>2 DEF RInv, Traced, Token
<1>3. CASE belief = NoBelief
  <2>1. hypo'.pending = {}
    BY <1>1, <1>3, FreshIs
  <2>2. \A i \in DOMAIN tokens' : tokens'[i].source <= version' /\ tokens'[i].source # belief'.version
    BY <1>1, <1>2, <1>3
  <2> QED
    BY <2>1, <2>2, <1>1, <1>3 DEF Traced
<1>4. CASE belief # NoBelief
  <2>1. hypo'.pending \subseteq hypo.pending /\ belief' = belief /\ version' = version
    BY <1>1, <1>4
  <2> QED
    BY <2>1, <1>4 DEF RInv, Traced
<1> QED
  BY <1>3, <1>4

LEMMA OpenGroupKeeps ==
  ASSUME RInv, OpenGroup
  PROVE  RInv'
<1> DEFINE g == Head(call.groups)
<1>1. /\ Initialise(g) /\ Timely(g) /\ call.groups # <<>> /\ work = NoBelief
      /\ belief'.time <= g.time /\ work' = Predicted(belief', g.time, dynamics)
      /\ call' \in Calls /\ call'.groups = call.groups /\ call'.token = call.token
      /\ call'.queue = g.streams /\ call'.dt = g.time - belief'.time
      /\ tokens' \in Seq(Token) /\ Len(tokens') = Len(tokens)
      /\ \A i \in DOMAIN tokens' :
           /\ i \in DOMAIN tokens
           /\ tokens'[i].source = tokens[i].source /\ tokens'[i].prior = tokens[i].prior
           /\ tokens'[i].target = tokens[i].target /\ tokens'[i].dt = tokens[i].dt
           /\ tokens'[i].dynamics = tokens[i].dynamics
      /\ UNCHANGED <<histories, revision, dynamics>>
  BY OpeningMoves
<1>2. /\ Sound(belief') /\ belief'.time \in Times /\ belief' # NoBelief
      /\ version \in Nat /\ version' \in Nat
      /\ belief = NoBelief => version' = version + 1 /\ belief' = InitialBelief(g.time)
      /\ belief # NoBelief => version' = version /\ belief' = belief
      /\ Controller(hypo')
  BY <1>1, InitialiseMoves, CurrentIs DEF RInv, Shape
<1>3. /\ g.time \in Times /\ g.time \in Nat /\ g.streams # {} /\ belief'.time \in Nat
      /\ belief' \in Belief /\ dynamics \in 0 .. MaxDynamics /\ dynamics \in Nat
  BY <1>1, <1>2, FirstGroup, RuntimeAssumption DEF RInv, Shape, Sound, Times
<1>4. /\ Sound(work') /\ work' \in Belief /\ work'.time = g.time
      /\ work'.start = belief'.start /\ work'.credited = belief'.credited
      /\ work'.holds = belief'.holds /\ work'.nextId = belief'.nextId
  <2> DEFINE b == belief'
             w == work'
  <2>1. b \in Belief /\ Sound(b) /\ w = Predicted(b, g.time, dynamics)
    BY <1>1, <1>2, <1>3
  <2> HIDE DEF b, w, g
  <2>2. Sound(w)
    BY <1>3, <2>1, PredictedSound
  <2>3. /\ w \in Belief /\ w.time = g.time /\ w.start = b.start /\ w.credited = b.credited
        /\ w.holds = b.holds /\ w.nextId = b.nextId
    <3>1. g.time \in Nat /\ dynamics \in Nat /\ b \in Belief
      BY <1>3, <2>1
    <3>2. /\ Predicted(b, g.time, dynamics) \in Belief
          /\ Predicted(b, g.time, dynamics).time = g.time
          /\ Predicted(b, g.time, dynamics).start = b.start
          /\ Predicted(b, g.time, dynamics).credited = b.credited
          /\ Predicted(b, g.time, dynamics).holds = b.holds
          /\ Predicted(b, g.time, dynamics).nextId = b.nextId
      BY <3>1, PredictedIs
    <3> QED
      BY <2>1, <3>2
  <2> QED
    BY <2>2, <2>3 DEF b, w
<1>5. Shape'
  <2>1. \A i \in DOMAIN tokens' : Sound(tokens'[i].prior) /\ tokens'[i].prior.time \in Times
    BY <1>1 DEF RInv, Shape
  <2>2. Budget'
    <3>1. Len(call.groups) \in Nat
      BY <1>1, FirstGroup DEF RInv
    <3>2. MaxVersions \in Nat
      BY RuntimeAssumption
    <3>3. Len(call'.groups) = Len(call.groups)
      BY <1>1
    <3>4. version' + Len(call.groups) <= MaxVersions
      <4>1. version + Len(call.groups) + (IF belief = NoBelief THEN 1 ELSE 0) <= MaxVersions
        BY <1>1 DEF RInv, Shape, Budget
      <4>2. CASE belief = NoBelief
        BY <1>2, <3>1, <3>2, <4>1, <4>2
      <4>3. CASE belief # NoBelief
        BY <1>2, <3>1, <3>2, <4>1, <4>3
      <4> QED
        BY <4>2, <4>3
    <3>5. (IF belief' = NoBelief /\ call'.groups # <<>> THEN 1 ELSE 0) = 0
      BY <1>2
    <3> QED
      BY <1>2, <3>1, <3>2, <3>3, <3>4, <3>5 DEF Budget
  <2> QED
    BY <1>1, <1>2, <1>3, <1>4, <2>1, <2>2 DEF RInv, Shape
<1>6. Traced'
  BY <1>1, InitialiseTraces
<1>7. Onward'
  <2>1. belief'.start + belief'.credited = belief'.time
    <3>1. CASE belief = NoBelief
      BY <1>2, <1>3, <3>1 DEF InitialBelief
    <3>2. CASE belief # NoBelief
      BY <1>2, <3>2 DEF RInv, Onward
    <3> QED
      BY <3>1, <3>2
  <2>2. /\ work'.start \in Nat /\ work'.credited \in Nat /\ work'.nextId \in Nat
    BY <1>4 DEF Belief
  <2>3. work'.start + work'.credited + call'.dt = work'.time
    BY <1>1, <1>3, <1>4, <2>1, <2>2
  <2>4. Grown(belief', work')
    BY <1>1, <1>3, <1>4, <2>2 DEF Grown, Active
  <2>5. call'.queue # {}
    BY <1>1, <1>3
  <2> QED
    BY <2>1, <2>3, <2>4, <2>5 DEF Onward
<1> QED
  BY <1>5, <1>6, <1>7 DEF RInv

LEMMA RejectGroupKeeps ==
  ASSUME RInv, RejectGroup
  PROVE  RInv'
<1> DEFINE g == Head(call.groups)
<1>1. /\ call.groups # <<>> /\ work = NoBelief /\ call' = Idle
      /\ UNCHANGED <<histories, revision, tokens, dynamics, work>>
      /\ Initialise(g) \/ UNCHANGED <<belief, hypo, version>>
  BY DEF RejectGroup, Opening
<1>2. /\ call' \in Calls /\ call'.groups = <<>> /\ call'.token = 0 /\ Len(call'.groups) = 0
      /\ Len(tokens) \in Nat
  BY <1>1, LenProperties DEF Idle, Calls, RInv, Shape
<1>3. MaxVersions \in Nat /\ version \in Nat /\ Len(call.groups) \in Nat /\ Len(call.groups) >= 1
  BY <1>1, FirstGroup, RuntimeAssumption DEF RInv, Shape
<1>4. CASE Initialise(g)
  <2>1. /\ Sound(belief') /\ belief'.time \in Times /\ belief' # NoBelief /\ belief' \in Belief
        /\ version' \in Nat /\ Controller(hypo')
        /\ belief = NoBelief => version' = version + 1 /\ belief' = InitialBelief(g.time)
        /\ belief # NoBelief => version' = version /\ belief' = belief
    BY <1>1, <1>4, InitialiseMoves, CurrentIs DEF RInv, Sound
  <2>2. version' <= MaxVersions
    BY <1>1, <1>3, <2>1 DEF RInv, Shape, Budget
  <2>3. Budget'
    BY <1>2, <2>1, <2>2 DEF Budget
  <2>4. Shape'
    BY <1>1, <1>2, <2>1, <2>3 DEF RInv, Shape
  <2>5. Traced'
    BY <1>1, <1>4, InitialiseTraces DEF RInv, Shape
  <2>6. belief'.start + belief'.credited = belief'.time
    <3>1. CASE belief = NoBelief
      <4>1. g.time \in Nat
        BY <1>1, FirstGroup DEF RInv
      <4> QED
        BY <2>1, <3>1, <4>1 DEF InitialBelief
    <3>2. CASE belief # NoBelief
      BY <2>1, <3>2 DEF RInv, Onward
    <3> QED
      BY <3>1, <3>2
  <2> QED
    BY <1>1, <2>4, <2>5, <2>6 DEF RInv, Onward
<1>5. CASE UNCHANGED <<belief, hypo, version>>
  <2>1. version <= MaxVersions
    BY <1>1, <1>3 DEF RInv, Shape, Budget
  <2>2. (IF belief' = NoBelief /\ call'.groups # <<>> THEN 1 ELSE 0) = 0
    BY <1>2
  <2>3. Budget'
    BY <1>2, <1>3, <1>5, <2>1, <2>2 DEF Budget
  <2>4. Shape'
    BY <1>1, <1>2, <1>5, <2>3 DEF RInv, Shape
  <2> QED
    BY <1>1, <1>5, <2>4 DEF RInv, Traced, Onward
<1> QED
  BY <1>1, <1>4, <1>5

LEMMA PacketRaisesKeeps ==
  ASSUME RInv, PacketRaises
  PROVE  RInv'
<1>1. /\ work # NoBelief /\ work' = NoBelief /\ call' = Idle
      /\ UNCHANGED <<belief, histories, hypo, revision, tokens, dynamics, version>>
  BY DEF PacketRaises, kept
<1>2. /\ call' \in Calls /\ call'.groups = <<>> /\ call'.token = 0 /\ Len(call'.groups) = 0
      /\ Len(tokens) \in Nat
  BY <1>1, LenProperties DEF Idle, Calls, RInv, Shape
<1>3. /\ belief # NoBelief /\ MaxVersions \in Nat /\ version \in Nat
      /\ Len(call.groups) \in Nat
  BY <1>1, FirstGroup, RuntimeAssumption DEF RInv, Shape
<1>4. version <= MaxVersions
  BY <1>3 DEF RInv, Shape, Budget
<1>5. Budget'
  BY <1>1, <1>2, <1>3, <1>4 DEF Budget
<1>6. Shape'
  BY <1>1, <1>2, <1>5 DEF RInv, Shape
<1> QED
  BY <1>1, <1>6 DEF RInv, Traced, Onward

LEMMA CommitKeeps ==
  ASSUME RInv, Commit
  PROVE  RInv' /\ Grown(belief, belief')
<1>1. /\ work # NoBelief /\ call.queue = {} /\ version' = version + 1
      /\ belief' = [work EXCEPT !.version = version + 1]
      /\ revision' = revision + 1 /\ work' = NoBelief
      /\ call' = IF Len(call.groups) = 1 THEN Idle
                 ELSE [call EXCEPT !.groups = Tail(@), !.token = 0]
      /\ hypo' = Scheduled(hypo, belief', revision', dynamics)
      /\ UNCHANGED <<histories, tokens, dynamics>>
  BY DEF Commit
<1>2. /\ Sound(work) /\ work \in Belief /\ work.time \in Times /\ version \in Nat /\ revision \in Nat
      /\ dynamics \in Nat /\ Controller(hypo) /\ belief # NoBelief /\ call.groups # <<>>
      /\ MaxVersions \in Nat /\ call \in Calls /\ Len(tokens) \in Nat /\ tokens \in Seq(Token)
  BY <1>1, RuntimeAssumption, LenProperties DEF RInv, Shape, Sound
<1>3. /\ belief' \in Belief /\ belief'.version = version'
      /\ belief'.time = work.time /\ belief'.start = work.start
      /\ belief'.credited = work.credited /\ belief'.holds = work.holds
      /\ belief'.nextId = work.nextId /\ belief'.dynamics = work.dynamics
      /\ belief' # NoBelief
  BY <1>1, <1>2, RenewedIs, NoBeliefIsNone
<1>4. /\ Len(call.groups) \in Nat /\ Len(call.groups) >= 1
      /\ Tail(call.groups) \in Seq(Groups) /\ Len(Tail(call.groups)) = Len(call.groups) - 1
  BY <1>2, FirstGroup DEF RInv
<1>5. /\ call' \in Calls /\ call'.token = 0
      /\ Len(call'.groups) = Len(call.groups) - 1
  <2>1. CASE Len(call.groups) = 1
    BY <1>1, <1>4, <2>1 DEF Idle, Calls
  <2>2. CASE Len(call.groups) # 1
    <3>1. call' = [groups |-> Tail(call.groups), queue |-> call.queue, bad |-> call.bad,
                   token |-> 0, dt |-> call.dt]
      BY <1>1, <1>2, <2>2 DEF Calls
    <3> QED
      BY <1>2, <1>4, <3>1 DEF Calls
  <2> QED
    BY <2>1, <2>2
<1>6. version + Len(call.groups) <= MaxVersions
  BY <1>2, <1>4 DEF RInv, Shape, Budget
<1>7. Sound(belief')
  BY <1>1, <1>2, <1>3, <1>4, <1>6 DEF Sound
<1>8. /\ Controller(hypo')
      /\ \A f \in hypo'.pending :
           \/ f \in hypo.pending
           \/ /\ f.source = version' /\ f.step = Predicted(belief', f.due, f.dynamics)
  <2> DEFINE b == belief'
             r == revision'
  <2>1. b \in Belief /\ b.version = version' /\ r \in Nat
    BY <1>1, <1>2, <1>3
  <2>2. hypo' = Scheduled(hypo, b, r, dynamics)
    BY <1>1
  <2> HIDE DEF b, r
  <2>3. /\ Controller(hypo')
        /\ \A f \in hypo'.pending :
             \/ f \in hypo.pending
             \/ f.source = b.version /\ f.step = Predicted(b, f.due, f.dynamics)
    <3>1. Controller(hypo) /\ b \in Belief /\ r \in Nat /\ dynamics \in Nat
      BY <1>2, <2>1
    <3> DEFINE s == Scheduled(hypo, b, r, dynamics)
    <3>2. /\ Controller(s)
          /\ \A f \in s.pending :
               \/ f \in hypo.pending
               \/ /\ f.source = b.version /\ f.dynamics = dynamics /\ f.due \in Nat
                  /\ f.step = Predicted(b, f.due, dynamics)
      BY <3>1, ScheduledIs
    <3> HIDE DEF s
    <3>3. hypo' = s
      BY <2>2 DEF s
    <3> QED
      BY <3>2, <3>3
  <2> QED
    BY <2>1, <2>3 DEF b
<1>9. Shape'
  <2>1. Budget'
    <3>1. (IF belief' = NoBelief /\ call'.groups # <<>> THEN 1 ELSE 0) = 0
      BY <1>3
    <3>2. Len(call'.groups) = Len(call.groups) - 1 /\ version' = version + 1
      BY <1>1, <1>5
    <3> DEFINE n == Len(call.groups)
               m == Len(call'.groups)
    <3>3. n \in Nat /\ n >= 1 /\ m = n - 1 /\ version + n <= MaxVersions
      BY <1>4, <1>6, <3>2
    <3> HIDE DEF n, m
    <3>4. m \in Nat
      BY <3>3
    <3>5. version' + m + 0 <= MaxVersions
      BY <1>2, <3>2, <3>3, <3>4
    <3> QED
      BY <3>1, <3>5 DEF Budget, m
  <2> QED
    BY <1>1, <1>2, <1>3, <1>5, <1>7, <1>8, <2>1 DEF RInv, Shape
<1>10. Traced'
  <2>1. \A i \in DOMAIN tokens : tokens[i].source \in Nat /\ tokens[i].source <= version
    <3>1. \A i \in DOMAIN tokens : tokens[i] \in Token
      BY <1>2, ElementOfSeq, LenProperties
    <3> QED
      BY <3>1 DEF RInv, Traced, Token
  <2>2. \A f \in hypo.pending : f.source \in Nat /\ f.source <= version
    BY <1>2 DEF RInv, Traced, Controller, Forecast
  <2>3. \A i \in DOMAIN tokens' : tokens'[i].source <= version' /\ tokens'[i].source # belief'.version
    BY <1>1, <1>2, <1>3, <2>1
  <2>4. \A f \in hypo'.pending :
          /\ f.source <= version'
          /\ f.source = belief'.version => f.step = Predicted(belief', f.due, f.dynamics)
    BY <1>1, <1>2, <1>3, <1>8, <2>2
  <2> QED
    BY <1>3, <2>3, <2>4, <1>1, <1>2 DEF Traced
<1>11. Onward'
  <2>1. /\ work.start + work.credited + call.dt = work.time /\ call.dt = 0
        /\ work.start \in Nat /\ work.credited \in Nat
    BY <1>1, <1>2 DEF RInv, Onward, Belief
  <2> QED
    BY <1>1, <1>3, <2>1 DEF Onward
<1>12. Grown(belief, belief')
  BY <1>1, <1>3 DEF RInv, Onward, Grown, Active
<1> QED
  BY <1>9, <1>10, <1>11, <1>12 DEF RInv
-----------------------------------------------------------------------------
(* A packet. *)

LEMMA AppendedIs ==
  ASSUME NEW h, NEW b, b.time \in Times, b.holds \in [Active(b) -> Things],
         NEW seen, NEW added, \A i \in DOMAIN h : h[i] \in Row
  PROVE  LET a == Appended(h, b, seen, added)
         IN  /\ DOMAIN a = Active(b)
             /\ \A i \in DOMAIN a :
                  /\ a[i] \in Row
                  /\ \A x \in a[i].shows : \/ i \in DOMAIN h /\ x \in h[i].shows
                                           \/ x = b.holds[i]
<1> DEFINE a == Appended(h, b, seen, added)
           old == Aligned(h, Active(b))
<1>1. \A i \in Active(b) :
        /\ old[i] = IF i \in DOMAIN h THEN h[i] ELSE [last |-> 0, shows |-> {}]
        /\ old[i] \in Row
  <2> SUFFICES ASSUME NEW i \in Active(b)
               PROVE  /\ old[i] = IF i \in DOMAIN h THEN h[i] ELSE [last |-> 0, shows |-> {}]
                      /\ old[i] \in Row
    OBVIOUS
  <2>1. old[i] = IF i \in DOMAIN h THEN h[i] ELSE [last |-> 0, shows |-> {}]
    BY DEF Aligned
  <2>2. [last |-> 0, shows |-> {}] \in Row
    BY RuntimeAssumption DEF Row, Times
  <2> QED
    BY <2>1, <2>2
<1>2. DOMAIN a = Active(b)
  BY DEF Appended
<1>3. ASSUME NEW i \in Active(b)
      PROVE  /\ a[i] \in Row
             /\ \A x \in a[i].shows : \/ i \in DOMAIN h /\ x \in h[i].shows
                                      \/ x = b.holds[i]
  <2>1. \A x \in old[i].shows : i \in DOMAIN h /\ x \in h[i].shows
    BY <1>1
  <2>2. CASE i \in added
    <3>1. a[i] = [last |-> b.time, shows |-> old[i].shows \cup (IF i \in seen THEN {b.holds[i]} ELSE {})]
      BY <1>3, <2>2 DEF Appended
    <3>2. b.holds[i] \in Things /\ old[i].shows \subseteq Things
      BY <1>1, <1>3 DEF Row
    <3> HIDE DEF a, old
    <3> QED
      BY <2>1, <3>1, <3>2 DEF Row
  <2>3. CASE i \notin added
    <3>1. a[i] = old[i]
      BY <1>3, <2>3 DEF Appended
    <3> QED
      BY <1>1, <1>3, <2>1, <3>1
  <2> QED
    BY <2>2, <2>3
<1> HIDE DEF a
<1> QED
  BY <1>2, <1>3 DEF a

LEMMA HistoryIs ==
  ASSUME NEW k, NEW corrected, NEW retained, NEW final, NEW seen,
         corrected.time \in Times, corrected.holds \in [Active(corrected) -> Things],
         final.time \in Times, final.holds \in [Active(final) -> Things],
         \A i \in DOMAIN histories[k] : histories[k][i] \in Row
  PROVE  LET h == History(k, corrected, retained, final, seen)
         IN  \A i \in DOMAIN h :
               /\ h[i] \in Row
               /\ \A x \in h[i].shows :
                    \/ i \in DOMAIN histories[k] /\ x \in histories[k][i].shows
                    \/ i \in Active(corrected) /\ x = corrected.holds[i]
                    \/ i \in Active(final) /\ x = final.holds[i]
<1> DEFINE updated == Appended(histories[k], corrected, seen, Active(corrected))
           born == Active(final) \ Active(retained)
           again == Appended(updated, final, born, born)
           h == History(k, corrected, retained, final, seen)
<1>1. /\ DOMAIN updated = Active(corrected)
      /\ \A i \in DOMAIN updated :
           /\ updated[i] \in Row
           /\ \A x \in updated[i].shows :
                \/ i \in DOMAIN histories[k] /\ x \in histories[k][i].shows
                \/ x = corrected.holds[i]
  BY AppendedIs
<1>2. h = IF born = {} THEN updated ELSE again
  BY DEF History
<1> HIDE DEF updated, born
<1>3. /\ DOMAIN again = Active(final)
      /\ \A i \in DOMAIN again :
           /\ again[i] \in Row
           /\ \A x \in again[i].shows : \/ i \in DOMAIN updated /\ x \in updated[i].shows
                                        \/ x = final.holds[i]
  BY <1>1, AppendedIs
<1> HIDE DEF again, h
<1>4. \A i \in DOMAIN h :
        /\ h[i] \in Row
        /\ \A x \in h[i].shows :
             \/ i \in DOMAIN histories[k] /\ x \in histories[k][i].shows
             \/ i \in Active(corrected) /\ x = corrected.holds[i]
             \/ i \in Active(final) /\ x = final.holds[i]
  BY <1>1, <1>2, <1>3
<1> QED
  BY <1>4 DEF h

LEMMA PacketMoves ==
  ASSUME RInv, NEW k, NEW seen \in SUBSET Active(work), NEW retired \in SUBSET Active(work),
         NEW thing \in Things \cup {Nothing}, NEW alarmed, NEW odd \in SUBSET seen,
         IngestOne(k, seen, retired, thing, alarmed, odd)
  PROVE  LET corrected == [work EXCEPT !.credited = @ + call.dt]
             retained == Retained(corrected, retired)
         IN  /\ work # NoBelief /\ work' = WithBirth(retained, thing)
             /\ corrected.holds = work.holds /\ corrected.time = work.time
             /\ Active(retained) = Active(work) \ retired
             /\ Sound(work') /\ work'.time = work.time /\ work'.start = work.start
             /\ work'.credited = work.credited + call.dt
             /\ work'.nextId >= work.nextId
             /\ \A i \in Active(work') :
                  \/ i \in Active(work) /\ work'.holds[i] = work.holds[i]
                  \/ i = work.nextId /\ work'.nextId = work.nextId + 1
             /\ work'.holds \in [Active(work') -> Things] /\ work.holds \in [Active(work) -> Things]
<1> DEFINE corrected == [work EXCEPT !.credited = @ + call.dt]
           retained == Retained(corrected, retired)
           final == WithBirth(retained, thing)
<1>1. /\ work # NoBelief /\ work' = final
      /\ thing # Nothing => Cardinality(Active(retained)) < MaxObjects
  BY DEF IngestOne
<1>2. /\ Sound(work) /\ work \in Belief /\ call.dt \in Nat /\ work.nextId \in Nat
      /\ work.version <= MaxVersions /\ work.dynamics <= MaxDynamics /\ work.start <= MaxTime
  BY <1>1 DEF RInv, Shape, Calls, Sound, Belief
<1>3. /\ corrected.holds = work.holds /\ corrected.time = work.time
      /\ Active(retained) = Active(work) \ retired
      /\ final \in Belief
      /\ final.version = work.version /\ final.time = work.time /\ final.start = work.start
      /\ final.dynamics = work.dynamics /\ final.credited = work.credited + call.dt
      /\ final.nextId = IF thing = Nothing THEN work.nextId ELSE work.nextId + 1
      /\ Active(final) = IF thing = Nothing THEN Active(work) \ retired
                         ELSE (Active(work) \ retired) \cup {work.nextId}
      /\ work.nextId \notin Active(work)
      /\ \A i \in Active(work) \ retired : final.holds[i] = work.holds[i]
  <2>1. corrected = Corrected(work, call.dt)
    BY DEF Corrected
  <2>2. Makes(work, call.dt, retired, thing, corrected, retained, final)
    BY <1>2, <2>1, PacketMakes
  <2> QED
    BY <2>2 DEF Makes
<1> HIDE DEF corrected, retained, final
<1>4. /\ Active(work) \subseteq 0 .. work.nextId - 1 /\ IsFiniteSet(Active(work))
      /\ Cardinality(Active(work)) <= MaxObjects /\ Cardinality(Active(work)) \in Nat
  <2>1. Active(work) \subseteq 0 .. work.nextId - 1 /\ Cardinality(Active(work)) <= MaxObjects
    BY <1>2 DEF Sound, Active
  <2>2. IsFiniteSet(0 .. work.nextId - 1)
    BY <1>2, FS_Interval
  <2> QED
    BY <2>1, <2>2, FS_Subset, FS_CardinalityType
<1>5. /\ IsFiniteSet(Active(work) \ retired)
      /\ Cardinality(Active(work) \ retired) <= Cardinality(Active(work))
      /\ Cardinality(Active(work) \ retired) \in Nat
  BY <1>4, FS_Subset, FS_CardinalityType
<1>6. Cardinality(Active(final)) <= MaxObjects
  <2>1. CASE thing = Nothing
    BY <1>3, <1>4, <1>5, <2>1, RuntimeAssumption
  <2>2. CASE thing # Nothing
    <3>1. Cardinality(Active(work) \ retired) < MaxObjects
      BY <1>1, <1>3, <2>2
    <3>2. Cardinality((Active(work) \ retired) \cup {work.nextId})
            = Cardinality(Active(work) \ retired) + 1
      BY <1>3, <1>5, FS_AddElement
    <3> QED
      BY <1>3, <1>5, <2>2, <3>1, <3>2, RuntimeAssumption
  <2> QED
    BY <2>1, <2>2
<1>7. Active(final) \subseteq 0 .. final.nextId - 1
  <2>1. CASE thing = Nothing
    BY <1>3, <1>4, <2>1
  <2>2. CASE thing # Nothing
    <3>1. final.nextId - 1 = work.nextId
      BY <1>2, <1>3, <2>2
    <3>2. Active(work) \ retired \subseteq 0 .. work.nextId /\ work.nextId \in 0 .. work.nextId
      BY <1>2, <1>4
    <3> QED
      BY <1>3, <2>2, <3>1, <3>2
  <2> QED
    BY <2>1, <2>2
<1>8. Sound(final)
  BY <1>2, <1>3, <1>6, <1>7 DEF Sound, Active
<1>9. /\ final.nextId >= work.nextId
      /\ \A i \in Active(final) :
           \/ i \in Active(work) /\ final.holds[i] = work.holds[i]
           \/ i = work.nextId /\ final.nextId = work.nextId + 1
  BY <1>2, <1>3
<1>10. /\ final.holds \in [Active(final) -> Things] /\ work.holds \in [Active(work) -> Things]
  BY <1>2, <1>3, HoldingIs DEF Belief, Active
<1> QED
  BY <1>1, <1>3, <1>8, <1>9, <1>10 DEF corrected, retained, final

LEMMA PacketKeeps ==
  ASSUME RInv, NEW k, NEW seen \in SUBSET Active(work), NEW retired \in SUBSET Active(work),
         NEW thing \in Things \cup {Nothing}, NEW alarmed, NEW odd \in SUBSET seen,
         IngestOne(k, seen, retired, thing, alarmed, odd)
  PROVE  RInv'
<1> DEFINE corrected == [work EXCEPT !.credited = @ + call.dt]
           retained == Retained(corrected, retired)
<1>1. /\ work # NoBelief /\ work' = WithBirth(retained, thing)
      /\ corrected.holds = work.holds /\ corrected.time = work.time
      /\ Sound(work') /\ work'.time = work.time /\ work'.start = work.start
      /\ work'.credited = work.credited + call.dt
      /\ work'.nextId >= work.nextId
      /\ \A i \in Active(work') :
           \/ i \in Active(work) /\ work'.holds[i] = work.holds[i]
           \/ i = work.nextId /\ work'.nextId = work.nextId + 1
      /\ work'.holds \in [Active(work') -> Things] /\ work.holds \in [Active(work) -> Things]
  BY PacketMoves
<1>2. /\ call' = AfterPacket(call) /\ call.queue # {}
      /\ histories' = IF k \in Rgbd
                      THEN [histories EXCEPT ![k] = History(k, corrected, retained, work', seen)]
                      ELSE histories
      /\ hypo' = IF k \in Rgbd THEN hypo ELSE Assimilated(hypo, work, seen)
      /\ UNCHANGED <<belief, revision, tokens, dynamics, version>>
  BY <1>1 DEF IngestOne
<1>3. /\ work \in Belief /\ work' \in Belief /\ work.time \in Times /\ work' # NoBelief
      /\ belief # NoBelief /\ belief \in Belief /\ call.groups # <<>> /\ call \in Calls
  BY <1>1, NoBeliefIsNone DEF RInv, Shape, Sound
<1>4. /\ call' \in Calls /\ call'.groups = call.groups /\ call'.token = call.token /\ call'.dt = 0
  <2>1. call' = [groups |-> call.groups, queue |-> call.queue \ {First(call.queue)},
                 bad |-> call.bad, token |-> call.token, dt |-> 0]
    BY <1>2, <1>3 DEF AfterPacket, Calls
  <2> QED
    BY <1>3, <2>1 DEF Calls
<1>5. Controller(hypo') /\ hypo'.pending \subseteq hypo.pending
  BY <1>2, AssimilatedIs DEF RInv, Shape
<1>6. DOMAIN histories' = Streams /\ \A l \in Streams : \A i \in DOMAIN histories'[l] : histories'[l][i] \in Row
  <2>1. DOMAIN histories = Streams /\ \A l \in Streams : \A i \in DOMAIN histories[l] : histories[l][i] \in Row
    BY DEF RInv, Shape
  <2>2. CASE k \notin Rgbd
    BY <1>2, <2>1, <2>2
  <2>3. CASE k \in Rgbd
    <3>. k \in Streams
      BY <2>3, RuntimeAssumption
    <3> DEFINE h == History(k, corrected, retained, work', seen)
    <3>1. corrected.holds \in [Active(corrected) -> Things] /\ corrected.time \in Times
          /\ work'.time \in Times
      BY <1>1, <1>3 DEF Active
    <3> HIDE DEF corrected, retained
    <3>2. \A i \in DOMAIN h : h[i] \in Row
      BY <1>1, <2>1, <3>1, HistoryIs
    <3>3. histories' = [histories EXCEPT ![k] = h]
      BY <1>2, <2>3
    <3> HIDE DEF h
    <3> QED
      BY <2>1, <3>2, <3>3
  <2> QED
    BY <2>2, <2>3
<1>7. Shape'
  <2>1. Budget'
    BY <1>2, <1>4 DEF RInv, Shape, Budget
  <2> QED
    BY <1>1, <1>2, <1>3, <1>4, <1>5, <1>6, <2>1 DEF RInv, Shape
<1>8. Traced'
  BY <1>2, <1>5 DEF RInv, Traced
<1>9. Onward'
  <2>1. work.start \in Nat /\ work.credited \in Nat /\ call.dt \in Nat
        /\ work.nextId \in Nat /\ belief.nextId \in Nat /\ work'.nextId \in Nat
    BY <1>3 DEF Belief, Calls
  <2>2. work.start + work.credited + call.dt = work.time /\ Grown(belief, work)
    BY <1>1 DEF RInv, Onward
  <2>3. work'.start + work'.credited + call'.dt = work'.time
    BY <1>1, <1>4, <2>1, <2>2
  <2>4. Grown(belief, work')
    BY <1>1, <2>1, <2>2 DEF Grown
  <2> QED
    BY <1>2, <1>3, <1>4, <2>3, <2>4 DEF RInv, Onward
<1> QED
  BY <1>7, <1>8, <1>9 DEF RInv
-----------------------------------------------------------------------------
LEMMA NextKeeps ==
  ASSUME RInv, [Next]_vars
  PROVE  RInv'
<1>1. CASE UNCHANGED vars
  BY <1>1 DEF RInv, Shape, Budget, Traced, Onward, vars, kept
<1>2. CASE Packet
  <2>1. PICK seen \in SUBSET Active(work) :
          \E retired \in SUBSET Active(work), odd \in SUBSET seen,
             thing \in Things \cup {Nothing}, alarmed \in BOOLEAN :
            IngestOne(First(call.queue), seen, retired, thing, alarmed, odd)
    BY <1>2 DEF Packet
  <2> QED
    BY <2>1, PacketKeeps
<1>3. ASSUME NEW t \in Times, PreparePropagation(t) PROVE RInv'
  BY <1>3, PreparePropagationKeeps
<1>4. ASSUME NEW groups \in GroupLists, NEW token \in 0 .. Len(tokens), Ingest(groups, token)
      PROVE  RInv'
  BY <1>4, IngestKeeps
<1> QED
  BY <1>1, <1>2, <1>3, <1>4, ResetKeeps, ReplacedKeeps, ChangeDynamicsKeeps, OpenGroupKeeps,
     RejectGroupKeeps, PacketRaisesKeeps, CommitKeeps DEF Next

LEMMA RInvHolds == Spec => []RInv
<1>1. Init => RInv
  BY InitHolds
<1>2. RInv /\ [Next]_vars => RInv'
  BY NextKeeps
<1> QED
  BY <1>1, <1>2, PTL DEF Spec

(* Whatever streams, packets, resets, prepared propagations and changes of  *)
(* the dynamics there are, the runtime's state is well typed, and no belief *)
(* holds more things than it has slots (online_world_model.py).             *)
THEOREM TypeCorrect == Spec => []TypeOK
<1>1. RInv => TypeOK
  <2> SUFFICES ASSUME RInv PROVE TypeOK
    OBVIOUS
  <2>1. IsBelief(belief) /\ IsBelief(work)
    BY SoundIsBelief DEF RInv, Shape, IsBelief
  <2>2. \A k \in Streams : Range(histories[k]) \subseteq [last : Times, shows : SUBSET Things]
    BY DEF RInv, Shape, Row, Range
  <2>3. \A i \in DOMAIN tokens : IsBelief(tokens[i].prior) /\ tokens[i].target \in Times
    <3>1. tokens \in Seq(Token) /\ DOMAIN tokens = 1 .. Len(tokens)
      BY LenProperties DEF RInv, Shape
    <3>2. \A i \in DOMAIN tokens : tokens[i] \in Token
      BY <3>1, ElementOfSeq
    <3> QED
      BY <3>2, SoundIsBelief DEF RInv, Shape, Token
  <2>4. version \in 0 .. MaxVersions
    <3>1. Len(call.groups) \in Nat /\ version \in Nat /\ MaxVersions \in Nat
      BY LenProperties, RuntimeAssumption DEF RInv, Shape, Calls
    <3> DEFINE first == IF belief = NoBelief /\ call.groups # <<>> THEN 1 ELSE 0
    <3>2. first \in Nat /\ version + Len(call.groups) + first <= MaxVersions
      BY DEF RInv, Shape, Budget
    <3> HIDE DEF first
    <3> QED
      BY <3>1, <3>2
  <2> QED
    BY <2>1, <2>2, <2>3, <2>4 DEF RInv, Shape, TypeOK
<1> QED
  BY <1>1, RInvHolds, PTL

(* However many packets a group has, and whether its propagation was        *)
(* prepared or not, its elapsed time is credited to the belief exactly once *)
(* (dt_consumed in online_world_model.py's ingest).                         *)
THEOREM ElapsedCounted == Spec => []ElapsedCountedOnce
<1>1. RInv => ElapsedCountedOnce
  <2> SUFFICES ASSUME RInv, belief # NoBelief PROVE belief.credited = belief.time - belief.start
    BY DEF ElapsedCountedOnce
  <2>1. belief.start \in Nat /\ belief.credited \in Nat /\ belief.time \in Nat
    BY DEF RInv, Shape, Belief
  <2> QED
    BY <2>1 DEF RInv, Onward
<1> QED
  BY <1>1, RInvHolds, PTL

(* A group starts from its belief propagated to its time by the dynamics in *)
(* force, although what ingest takes may have been prepared by a caller, or *)
(* forecast by the hypothesis controller, any number of calls before.       *)
THEOREM PriorsPredicted == Spec => PriorIsPredicted
<1>1. ASSUME RInv, [Next]_vars, work = NoBelief, work' # NoBelief
      PROVE  work' = Propagated(belief', Head(call.groups).time)
  <2>1. CASE OpenGroup
    BY <1>1, <2>1, OpeningMoves DEF Propagated
  <2>2. CASE ~OpenGroup
    BY <1>1, <2>2 DEF Next, Reset, DetachState, PerturbBelief, Replaced, ChangeDynamics,
       PreparePropagation, Ingest, RejectGroup, Packet, IngestOne, PacketRaises, Commit, vars
  <2> QED
    BY <2>1, <2>2
<1>2. RInv /\ [Next]_vars =>
        [work = NoBelief /\ work' # NoBelief =>
           work' = Propagated(belief', Head(call.groups).time)]_vars
  BY <1>1
<1> QED
  BY <1>2, RInvHolds, PTL DEF Spec, PriorIsPredicted

(* Within an episode the belief only goes on.                               *)
Continued ==
  /\ belief'.time >= belief.time
  /\ belief'.nextId >= belief.nextId
  /\ \A i \in Active(belief') :
       IF i < belief.nextId THEN i \in Active(belief) /\ belief'.holds[i] = belief.holds[i]
       ELSE i < belief'.nextId

LEMMA BeliefContinues ==
  ASSUME RInv, [Next]_vars, belief # NoBelief, belief' # NoBelief
  PROVE  Continued
<1>1. RInv' /\ belief \in Belief /\ belief' \in Belief /\ Sound(belief')
  BY NextKeeps DEF RInv, Shape
<1>2. Grown(belief, belief')
  <2>1. CASE belief' = belief
    BY <1>1, <2>1 DEF Grown, Belief
  <2>2. CASE DetachState \/ PerturbBelief
    <3>1. belief' = [belief EXCEPT !.version = version + 1] /\ version \in Nat
      BY <2>2 DEF DetachState, PerturbBelief, Replaced, RInv, Shape
    <3>2. belief'.time = belief.time /\ belief'.nextId = belief.nextId /\ belief'.holds = belief.holds
      BY <1>1, <3>1, RenewedIs
    <3> QED
      BY <1>1, <3>2 DEF Grown, Belief, Active
  <2>3. CASE Commit
    BY <2>3, CommitKeeps
  <2>4. CASE OpenGroup
    BY <2>1, <2>4, OpeningMoves, InitialiseMoves
  <2>5. CASE RejectGroup
    BY <2>1, <2>5, InitialiseMoves DEF RejectGroup, Opening
  <2>6. CASE \/ Reset \/ ChangeDynamics \/ Packet \/ PacketRaises \/ UNCHANGED vars
             \/ \E t \in Times : PreparePropagation(t)
             \/ \E groups \in GroupLists : \E token \in 0 .. Len(tokens) : Ingest(groups, token)
    <3>1. belief' = belief
      <4>1. CASE Packet
        BY <4>1 DEF Packet, IngestOne
      <4>2. CASE Reset
        BY <4>2 DEF Reset
      <4>3. CASE ~Packet /\ ~Reset
        BY <2>6, <4>3 DEF ChangeDynamics, PreparePropagation, Ingest, PacketRaises, vars, kept
      <4> QED
        BY <4>1, <4>2, <4>3
    <3> QED
      BY <2>1, <3>1
  <2> QED
    BY <2>2, <2>3, <2>4, <2>5, <2>6 DEF Next
<1>3. \A i \in Active(belief') : i < belief'.nextId
  BY <1>1 DEF Sound, Belief, Active
<1> QED
  BY <1>2, <1>3 DEF Grown, Continued

(* Until a reset, the belief's clock and its identifier counter never go    *)
(* back and an identifier keeps denoting the thing it was given to, however *)
(* stale the prepared propagations that ingest is handed.                   *)
THEOREM NeverForks == Spec => BeliefNeverForks
<1>1. RInv /\ [Next]_vars => [belief # NoBelief /\ belief' # NoBelief => Continued]_vars
  BY BeliefContinues
<1> QED
  BY <1>1, RInvHolds, PTL DEF Spec, BeliefNeverForks, Continued

(* Where there is no belief, or none any more, nothing is held.             *)
LEMMA EpisodeStarts ==
  ASSUME RInv, [Next]_vars, belief = NoBelief, belief' # NoBelief
  PROVE  belief'.holds = Empty /\ belief'.nextId = 0
<1>1. CASE OpenGroup \/ RejectGroup
  <2>1. belief' = Current(Head(call.groups).time)
    BY <1>1 DEF OpenGroup, RejectGroup, Initialise
  <2> QED
    BY <2>1 DEF Current, InitialBelief
<1>2. CASE Commit
  BY <1>2 DEF Commit, RInv, Shape
<1>3. CASE ~OpenGroup /\ ~RejectGroup /\ ~Commit
  <2>1. CASE Packet
    BY <2>1 DEF Packet, IngestOne
  <2>2. CASE ~Packet
    BY <1>3, <2>2 DEF Next, Reset, DetachState, PerturbBelief, Replaced, ChangeDynamics,
      PreparePropagation, Ingest, PacketRaises, vars, kept
  <2> QED
    BY <2>1, <2>2
<1> QED
  BY <1>1, <1>2, <1>3

(* What identifiers mean outside the runtime: a registry that only a reset  *)
(* starts over, whatever its packets, prepared propagations and calls that  *)
(* raise do.                                                                *)
THEOREM RuntimeIsRegistry == Spec => IsRegistry
<1>1. Init => Registry!Init
  BY DEF Init, Registry!Init, Registry!NoBearer, Empty
<1>2. RInv /\ RInv' /\ [Next]_vars =>
        [Registry!Turnover \/ Registry!Restart]_<<
           IF belief = NoBelief THEN Empty ELSE belief.holds,
           IF belief = NoBelief THEN 0 ELSE belief.nextId>>
  <2> SUFFICES ASSUME RInv, RInv', [Next]_vars
               PROVE  Registry!Turnover \/ Registry!Restart
    OBVIOUS
  <2>1. CASE belief' = NoBelief
    BY <2>1 DEF Registry!Restart, Registry!NoBearer, Empty
  <2>2. CASE belief = NoBelief /\ belief' # NoBelief
    BY <2>2, EpisodeStarts DEF Registry!Restart, Registry!NoBearer, Empty
  <2>3. CASE belief # NoBelief /\ belief' # NoBelief
    <3>1. Continued
      BY <2>3, BeliefContinues
    <3>2. Cardinality(DOMAIN belief'.holds) <= MaxObjects
      BY <2>3 DEF RInv, Shape, Sound
    <3>3. \A S : Registry!Cardinality(S) = Cardinality(S)
      BY DEF Registry!Cardinality, Cardinality
    <3> QED
      BY <2>3, <3>1, <3>2, <3>3 DEF Registry!Turnover, Continued, Active
  <2> QED
    BY <2>1, <2>2, <2>3
<1> QED
  BY <1>1, <1>2, RInvHolds, PTL DEF Spec, IsRegistry, Registry!Spec
-----------------------------------------------------------------------------
(* The scheduler's counters count what they are meant to.                   *)
Counts(s, r) ==
  /\ s.since \in Nat /\ s.failures \in Nat
  /\ r.fast = s.since /\ r.lost = s.failures

Counted ==
  /\ DOMAIN sched = Streams /\ DOMAIN run = Streams
  /\ \A k \in Streams : Counts(sched[k], run[k])

LEMMA LesserIs ==
  ASSUME NEW m \in Nat, NEW n \in Nat
  PROVE  Min({m, n}) \in Nat
<1>1. \E x \in {m, n} : \A y \in {m, n} : x <= y
  <2>1. CASE m <= n
    BY <2>1
  <2>2. CASE n <= m
    BY <2>2
  <2> QED
    BY <2>1, <2>2
<1>2. Min({m, n}) \in {m, n}
  BY <1>1 DEF Min
<1> QED
  BY <1>2

(* A packet that is not a discovery was within both limits.                 *)
LEMMA PacketCounts ==
  ASSUME Counted, NEW k, NEW seen, NEW retired, NEW thing, NEW alarmed, NEW odd,
         IngestOne(k, seen, retired, thing, alarmed, odd)
  PROVE  /\ Counted'
         /\ \A l \in Streams : run'[l].fast > run[l].fast =>
              run'[l].fast < GlobalEvery /\ run[l].lost < FailureThreshold
<1> DEFINE discovers == Discovers(k, work, alarmed)
           lost == Active(work) # {} /\ seen = {}
           s == Recorded(k, discovers, lost, seen = {})
           r == Extended(k, discovers, lost)
<1>1. sched' = [sched EXCEPT ![k] = s] /\ run' = [run EXCEPT ![k] = r]
  BY DEF IngestOne
<1>2. CASE k \in Streams
  <2>1. /\ Counts(sched[k], run[k]) /\ sched[k].since \in Nat /\ sched[k].failures \in Nat
        /\ run[k].fast = sched[k].since /\ run[k].lost = sched[k].failures
    BY <1>2 DEF Counted, Counts
  <2>2. Min({sched[k].failures + 1, FailureThreshold}) \in Nat
    BY <2>1, LesserIs, RuntimeAssumption
  <2>3. /\ s.since = IF discovers THEN 0 ELSE sched[k].since + 1
        /\ s.failures = IF lost THEN Min({sched[k].failures + 1, FailureThreshold}) ELSE 0
    BY DEF Recorded
  <2>4. /\ r.fast = IF discovers THEN 0 ELSE sched[k].since + 1
        /\ r.lost = IF lost THEN Min({sched[k].failures + 1, FailureThreshold}) ELSE 0
    BY <2>1 DEF Extended
  <2>5. ~discovers => sched[k].failures < FailureThreshold /\ sched[k].since + 1 < GlobalEvery
    BY <2>1, RuntimeAssumption DEF Discovers
  <2> HIDE DEF discovers, lost, s, r
  <2>6. Counts(s, r)
    BY <2>1, <2>2, <2>3, <2>4 DEF Counts
  <2>7. r.fast > run[k].fast => r.fast < GlobalEvery /\ run[k].lost < FailureThreshold
    BY <2>1, <2>4, <2>5
  <2>8. /\ DOMAIN sched' = Streams /\ DOMAIN run' = Streams /\ sched'[k] = s /\ run'[k] = r
        /\ \A l \in Streams \ {k} : sched'[l] = sched[l] /\ run'[l] = run[l]
    BY <1>1, <1>2 DEF Counted
  <2>9. \A l \in Streams \ {k} : run[l].fast \in Nat
    BY DEF Counted, Counts
  <2> QED
    BY <2>6, <2>7, <2>8, <2>9 DEF Counted
<1>3. CASE k \notin Streams
  <2> HIDE DEF s, r
  <2>1. /\ DOMAIN sched' = Streams /\ DOMAIN run' = Streams
        /\ \A l \in Streams : sched'[l] = sched[l] /\ run'[l] = run[l]
    BY <1>1, <1>3 DEF Counted
  <2>2. \A l \in Streams : run[l].fast \in Nat
    BY DEF Counted, Counts
  <2> QED
    BY <2>1, <2>2 DEF Counted
<1> QED
  BY <1>2, <1>3

(* Of any GlobalEvery packets a stream gets in a row one is a discovery,    *)
(* and so is the packet after FailureThreshold that lost every track, even  *)
(* if calls raise in between and their groups are never committed           *)
(* (ObservationScheduler.choose in runtime/observation_schedule.py).        *)
THEOREM CadenceHolds == Spec => Cadence
<1> DEFINE paced == \A k \in Streams : run'[k].fast > run[k].fast =>
                      run'[k].fast < GlobalEvery /\ run[k].lost < FailureThreshold
<1>1. Init => Counted
  BY DEF Init, Each, FreshSchedule, NoRun, Counted, Counts
<1>2. ASSUME Counted, [Next]_vars
      PROVE  Counted' /\ paced
  <2>1. CASE Packet
    <3>1. PICK k, seen, retired, odd, thing, alarmed :
            IngestOne(k, seen, retired, thing, alarmed, odd)
      BY <2>1 DEF Packet
    <3> QED
      BY <1>2, <3>1, PacketCounts
  <2>2. CASE Reset
    <3>1. sched' = Each(FreshSchedule) /\ run' = Each(NoRun)
      BY <2>2 DEF Reset
    <3>2. Counted' /\ \A l \in Streams : run'[l].fast = 0 /\ run[l].fast \in Nat
      BY <1>2, <3>1 DEF Each, FreshSchedule, NoRun, Counted, Counts
    <3> QED
      BY <3>2
  <2>3. CASE UNCHANGED <<sched, run>>
    <3>1. \A l \in Streams : run'[l].fast = run[l].fast /\ run[l].fast \in Nat
      BY <1>2, <2>3 DEF Counted, Counts
    <3> QED
      BY <1>2, <2>3, <3>1 DEF Counted
  <2>4. CASE ~Packet /\ ~Reset
    <3>1. UNCHANGED <<sched, run>>
      BY <1>2, <2>4 DEF Next, DetachState, PerturbBelief, Replaced, ChangeDynamics,
         PreparePropagation, Ingest, OpenGroup, RejectGroup, PacketRaises, Commit, vars, kept
    <3> QED
      BY <2>3, <3>1
  <2> QED
    BY <2>1, <2>2, <2>4
<1>3. Counted /\ [Next]_vars => Counted'
  BY <1>2
<1>4. Spec => []Counted
  BY <1>1, <1>3, PTL DEF Spec
<1>5. Counted /\ [Next]_vars =>
        [\A k \in Streams : run'[k].fast > run[k].fast =>
           run'[k].fast < GlobalEvery /\ run[k].lost < FailureThreshold]_vars
  BY <1>2
<1> QED
  BY <1>4, <1>5, PTL DEF Spec, Cadence
-----------------------------------------------------------------------------
(* What the hypothesis controller remembers was predicted under the         *)
(* dynamics it was last synchronised with, and under the present ones       *)
(* throughout a group.                                                      *)
Dated ==
  /\ \A e : Known(hypo, e) => e.dynamics \in hypo.context
  /\ work # NoBelief => hypo.context = {dynamics} /\ \A f \in hypo.pending : f.dynamics = dynamics

LEMMA SynchronisedDates ==
  ASSUME NEW c, Controller(c), NEW d, \A e : Known(c, e) => e.dynamics \in c.context
  PROVE  LET s == Synchronised(c, d)
         IN  /\ \A e : Known(s, e) => e.dynamics \in s.context
             /\ s.context = {d} /\ \A f \in s.pending : f.dynamics = d
<1> DEFINE s == Synchronised(c, d)
<1>1. /\ s.context = {d}
      /\ s.pending \subseteq {f \in c.pending : f.dynamics = d}
      /\ \A e : Known(s, e) => Known(c, e) /\ c.context \subseteq {d}
  BY SynchronisedIs
<1> HIDE DEF s
<1>2. \A e : Known(s, e) => e.dynamics \in s.context
  BY <1>1
<1> QED
  BY <1>1, <1>2 DEF s

(* A packet remembers comparisons with forecasts made before it.            *)
LEMMA PacketRemembers ==
  ASSUME RInv, NEW k, NEW seen, NEW retired, NEW thing, NEW alarmed, NEW odd,
         IngestOne(k, seen, retired, thing, alarmed, odd)
  PROVE  /\ work # NoBelief /\ belief' = belief /\ dynamics' = dynamics
         /\ hypo'.context = hypo.context /\ hypo'.pending \subseteq hypo.pending
         /\ \A e : Known(hypo', e) =>
              \/ Known(hypo, e)
              \/ \E f \in hypo.pending : e \in Targets(f, work, seen)
<1>1. /\ work # NoBelief /\ belief' = belief /\ dynamics' = dynamics
      /\ hypo' = IF k \in Rgbd THEN hypo ELSE Assimilated(hypo, work, seen)
  BY DEF IngestOne
<1>2. Controller(hypo)
  BY DEF RInv, Shape
<1>3. CASE k \in Rgbd
  BY <1>1, <1>3
<1>4. CASE k \notin Rgbd
  <2> DEFINE a == Assimilated(hypo, work, seen)
  <2>1. /\ a.context = hypo.context /\ a.pending \subseteq hypo.pending
        /\ \A e : Known(a, e) =>
             \/ Known(hypo, e)
             \/ \E f \in hypo.pending : e \in Targets(f, work, seen)
    BY <1>2, AssimilatedIs
  <2>2. hypo' = a
    BY <1>1, <1>4
  <2> HIDE DEF a
  <2> QED
    BY <1>1, <2>1, <2>2
<1> QED
  BY <1>3, <1>4

(* A commit forecasts from the belief it makes.                             *)
LEMMA CommitSchedules ==
  ASSUME RInv, Commit
  PROVE  /\ belief' \in Belief /\ dynamics' = dynamics /\ hypo'.context = hypo.context
         /\ \A f \in hypo'.pending :
              \/ f \in hypo.pending
              \/ f.dynamics = dynamics /\ f.step = Predicted(belief', f.due, dynamics) /\ f.due \in Nat
         /\ \A e : Known(hypo', e) => Known(hypo, e)
         /\ AllJudged(hypo) => AllJudged(hypo')
<1>1. /\ work # NoBelief /\ belief' = [work EXCEPT !.version = version + 1]
      /\ revision' = revision + 1 /\ dynamics' = dynamics
      /\ hypo' = Scheduled(hypo, belief', revision', dynamics)
  BY DEF Commit
<1>2. /\ work \in Belief /\ version \in Nat /\ revision \in Nat /\ dynamics \in Nat /\ Controller(hypo)
  BY <1>1, RuntimeAssumption DEF RInv, Shape
<1> DEFINE b == belief'
           r == revision'
           s == Scheduled(hypo, b, r, dynamics)
<1>3. b \in Belief /\ r \in Nat /\ hypo' = s
  BY <1>1, <1>2, RenewedIs
<1> HIDE DEF b, r
<1>4. Controller(hypo) /\ b \in Belief /\ r \in Nat /\ dynamics \in Nat
  BY <1>2, <1>3
<1>5. s.context = hypo.context
  BY <1>4 DEF Scheduled, Controller
<1>6. \A f \in s.pending :
        \/ f \in hypo.pending
        \/ /\ f.source = b.version /\ f.dynamics = dynamics /\ f.due \in Nat
           /\ f.step = Predicted(b, f.due, dynamics)
  BY <1>4, ScheduledIs
<1>7. \A e : Known(s, e) => Known(hypo, e)
  BY <1>4, ScheduledIs
<1>8. AllJudged(hypo) => AllJudged(s)
  BY <1>4, ScheduledIs
<1> HIDE DEF s
<1> QED
  BY <1>1, <1>3, <1>5, <1>6, <1>7, <1>8 DEF b

LEMMA DatedKept ==
  ASSUME RInv, Dated, [Next]_vars
  PROVE  Dated'
<1>1. Controller(hypo)
  BY DEF RInv, Shape
<1>2. CASE Reset
  BY <1>2, FreshIs DEF Reset, Resting, Dated
<1>3. CASE DetachState \/ ChangeDynamics \/ UNCHANGED vars
           \/ \E groups \in GroupLists : \E token \in 0 .. Len(tokens) : Ingest(groups, token)
  <2>1. hypo' = hypo /\ work' = work /\ (dynamics' = dynamics \/ work = NoBelief)
    BY <1>3 DEF DetachState, Replaced, ChangeDynamics, Ingest, Resting, vars, kept
  <2> QED
    BY <2>1 DEF Dated
<1>4. CASE PerturbBelief
  BY <1>1, <1>4, InvalidatedIs DEF PerturbBelief, Replaced, Resting, Dated
<1>5. CASE \E t \in Times : PreparePropagation(t)
  <2>1. hypo' = Synchronised(hypo, dynamics) /\ work' = NoBelief
    BY <1>5 DEF PreparePropagation, Resting
  <2>2. \A e : Known(hypo', e) => e.dynamics \in hypo'.context
    BY <1>1, <2>1, SynchronisedDates DEF Dated
  <2> QED
    BY <2>1, <2>2 DEF Dated
<1>6. ASSUME call.groups # <<>>, Initialise(Head(call.groups))
      PROVE  /\ \A e : Known(hypo', e) => e.dynamics \in hypo'.context
             /\ Timely(Head(call.groups)) =>
                  hypo'.context = {dynamics} /\ \A f \in hypo'.pending : f.dynamics = dynamics
  <2> DEFINE c == IF belief = NoBelief THEN Fresh ELSE hypo
  <2>1. /\ Timely(Head(call.groups)) => hypo' = Synchronised(c, dynamics)
        /\ ~Timely(Head(call.groups)) => hypo' = c
    BY <1>6, InitialiseMoves
  <2>2. Controller(c) /\ \A e : Known(c, e) => e.dynamics \in c.context
    BY <1>1, FreshIs DEF Dated
  <2> HIDE DEF c
  <2>3. CASE Timely(Head(call.groups))
    BY <2>1, <2>2, <2>3, SynchronisedDates
  <2>4. CASE ~Timely(Head(call.groups))
    BY <2>1, <2>2, <2>4
  <2> QED
    BY <2>3, <2>4
<1>7. CASE OpenGroup
  <2>1. /\ call.groups # <<>> /\ Initialise(Head(call.groups)) /\ Timely(Head(call.groups))
        /\ dynamics' = dynamics
    BY <1>7, OpeningMoves
  <2> QED
    BY <1>6, <2>1 DEF Dated
<1>8. CASE RejectGroup
  <2>1. /\ call.groups # <<>> /\ work' = NoBelief
        /\ Initialise(Head(call.groups)) \/ hypo' = hypo
    BY <1>8 DEF RejectGroup, Opening
  <2> QED
    BY <1>6, <2>1 DEF Dated
<1>9. CASE Packet
  <2>1. PICK k, seen, retired, odd, thing, alarmed :
          IngestOne(k, seen, retired, thing, alarmed, odd)
    BY <1>9 DEF Packet
  <2>2. /\ work # NoBelief /\ dynamics' = dynamics
        /\ hypo'.context = hypo.context /\ hypo'.pending \subseteq hypo.pending
        /\ \A e : Known(hypo', e) =>
             \/ Known(hypo, e)
             \/ \E f \in hypo.pending : e \in Targets(f, work, seen)
    BY <2>1, PacketRemembers
  <2>3. \A f \in hypo.pending : \A e \in Targets(f, work, seen) : e.dynamics \in hypo.context
    BY <2>2, TargetIs DEF Dated
  <2> QED
    BY <2>2, <2>3 DEF Dated
<1>10. CASE PacketRaises
  BY <1>10 DEF PacketRaises, kept, Dated
<1>11. CASE Commit
  <2>1. hypo'.context = hypo.context /\ \A e : Known(hypo', e) => Known(hypo, e)
    BY <1>11, CommitSchedules
  <2>2. work' = NoBelief
    BY <1>11 DEF Commit
  <2> QED
    BY <2>1, <2>2 DEF Dated
<1> QED
  BY <1>2, <1>3, <1>4, <1>5, <1>7, <1>8, <1>9, <1>10, <1>11 DEF Next

(* Although a caller may change the dynamics between any two calls, while a *)
(* group is assimilated no forecast is pending, and no evidence is held     *)
(* against a hypothesis, that other dynamics made (synchronize_context in   *)
(* dynamics/hypothesis_rollout.py).                                         *)
THEOREM EvidenceCurrent == Spec => []EvidenceIsCurrent
<1>1. Init => Dated
  BY FreshIs DEF Init, Dated
<1>2. RInv /\ Dated /\ [Next]_vars => Dated'
  BY DatedKept
<1>3. Dated => EvidenceIsCurrent
  BY EvidenceIsKnown DEF Dated, EvidenceIsCurrent
<1> QED
  BY <1>1, <1>2, <1>3, RInvHolds, PTL DEF Spec
-----------------------------------------------------------------------------
(* What was compared under an identifier is the thing the identifier was    *)
(* given to, and the identifier was given by this belief.                   *)
Denotes(b, i, x) == b # NoBelief /\ i \in Nat /\ i < b.nextId /\ (i \in Active(b) => x = b.holds[i])

Denoted ==
  /\ \A f \in hypo.pending : \A i \in DOMAIN f.step.holds : Denotes(belief, i, f.step.holds[i])
  /\ \A e : Known(hypo, e) => Denotes(belief, e.under, e.of) /\ e.of = e.at
  /\ belief = NoBelief => hypo.pending = {}

LEMMA DenotedKept ==
  ASSUME RInv, Denoted, [Next]_vars
  PROVE  Denoted'
<1>1. Controller(hypo)
  BY DEF RInv, Shape
<1>2. CASE Reset
  BY <1>2, FreshIs DEF Reset, Denoted
<1>3. ASSUME belief' = belief, hypo'.pending \subseteq hypo.pending,
             \A e : Known(hypo', e) => Known(hypo, e)
      PROVE  Denoted'
  BY <1>3 DEF Denoted
<1>4. CASE ChangeDynamics \/ UNCHANGED vars \/ PacketRaises
           \/ \E groups \in GroupLists : \E token \in 0 .. Len(tokens) : Ingest(groups, token)
  <2>1. hypo' = hypo /\ belief' = belief
    BY <1>4 DEF ChangeDynamics, Ingest, PacketRaises, vars, kept
  <2> QED
    BY <2>1 DEF Denoted
<1>5. CASE DetachState \/ PerturbBelief
  <2>1. /\ belief # NoBelief /\ belief' = [belief EXCEPT !.version = version + 1] /\ version \in Nat
        /\ hypo' = hypo \/ hypo' = Invalidated(hypo)
    BY <1>5 DEF DetachState, PerturbBelief, Replaced, RInv, Shape
  <2>2. /\ belief' # NoBelief /\ belief'.nextId = belief.nextId /\ belief'.holds = belief.holds
    BY <2>1, RenewedIs, NoBeliefIsNone DEF RInv, Shape
  <2>3. /\ hypo'.pending \subseteq hypo.pending
        /\ \A e : Known(hypo', e) => Known(hypo, e)
    BY <1>1, <2>1, InvalidatedIs
  <2>4. \A i, x : Denotes(belief, i, x) => Denotes(belief', i, x)
    BY <2>1, <2>2 DEF Denotes, Active
  <2> QED
    BY <2>2, <2>3, <2>4 DEF Denoted
<1>6. CASE \E t \in Times : PreparePropagation(t)
  <2>1. hypo' = Synchronised(hypo, dynamics) /\ belief' = belief
    BY <1>6 DEF PreparePropagation
  <2>2. /\ hypo'.pending \subseteq hypo.pending
        /\ \A e : Known(hypo', e) => Known(hypo, e)
    BY <1>1, <2>1, SynchronisedIs
  <2> QED
    BY <1>3, <2>1, <2>2
<1>7. ASSUME call.groups # <<>>, Initialise(Head(call.groups))
      PROVE  Denoted'
  <2> DEFINE c == IF belief = NoBelief THEN Fresh ELSE hypo
  <2>1. /\ Timely(Head(call.groups)) => hypo' = Synchronised(c, dynamics)
        /\ ~Timely(Head(call.groups)) => hypo' = c
        /\ belief' # NoBelief
        /\ belief # NoBelief => belief' = belief
    BY <1>7, InitialiseMoves
  <2>2. Controller(c)
    BY <1>1, FreshIs
  <2>3. /\ hypo'.pending \subseteq c.pending
        /\ \A e : Known(hypo', e) => Known(c, e)
    <3> HIDE DEF c
    <3>1. CASE Timely(Head(call.groups))
      BY <2>1, <2>2, <3>1, SynchronisedIs
    <3>2. CASE ~Timely(Head(call.groups))
      BY <2>1, <2>2, <3>2
    <3> QED
      BY <3>1, <3>2
  <2>4. CASE belief = NoBelief
    BY <2>1, <2>3, <2>4, FreshIs DEF Denoted
  <2>5. CASE belief # NoBelief
    BY <1>3, <2>1, <2>3, <2>5
  <2> QED
    BY <2>4, <2>5
<1>8. CASE OpenGroup
  BY <1>7, <1>8, OpeningMoves
<1>9. CASE RejectGroup
  <2>1. call.groups # <<>> /\ (Initialise(Head(call.groups)) \/ (hypo' = hypo /\ belief' = belief))
    BY <1>9 DEF RejectGroup, Opening
  <2> QED
    BY <1>3, <1>7, <2>1
<1>10. CASE Packet
  <2>1. PICK seen \in SUBSET Active(work) : \E k, retired, odd, thing, alarmed :
          IngestOne(k, seen, retired, thing, alarmed, odd)
    BY <1>10 DEF Packet
  <2>2. /\ work # NoBelief /\ belief' = belief /\ hypo'.pending \subseteq hypo.pending
        /\ \A e : Known(hypo', e) =>
             \/ Known(hypo, e)
             \/ \E f \in hypo.pending : e \in Targets(f, work, seen)
    BY <2>1, PacketRemembers
  <2>3. Grown(belief, work)
    BY <2>2 DEF RInv, Onward
  <2>4. ASSUME NEW f \in hypo.pending, NEW e \in Targets(f, work, seen)
        PROVE  Denotes(belief, e.under, e.of) /\ e.of = e.at
    <3> DEFINE i == e.under
    <3>1. /\ i \in Active(work) /\ Denotes(belief, i, f.step.holds[i])
          /\ e.of = f.step.holds[i] /\ e.at = work.holds[i]
      BY <2>1, <2>4, TargetIs DEF Denoted
    <3>2. i \in Active(belief) /\ work.holds[i] = belief.holds[i]
      BY <2>3, <3>1 DEF Grown, Denotes
    <3> QED
      BY <3>1, <3>2 DEF Denotes
  <2> QED
    BY <2>2, <2>4 DEF Denoted
<1>11. CASE Commit
  <2>1. /\ belief' \in Belief /\ Grown(belief, belief')
        /\ \A f \in hypo'.pending :
             f \in hypo.pending \/ (f.step = Predicted(belief', f.due, dynamics) /\ f.due \in Nat)
        /\ \A e : Known(hypo', e) => Known(hypo, e)
    BY <1>11, CommitSchedules, CommitKeeps
  <2>2. /\ work # NoBelief /\ RInv' /\ belief' # NoBelief
    BY <1>11, <2>1, CommitKeeps, NoBeliefIsNone DEF Commit
  <2>3. /\ belief # NoBelief /\ belief \in Belief /\ dynamics \in Nat /\ Sound(belief')
    BY <2>2, RuntimeAssumption DEF RInv, Shape
  <2>4. \A i, x : Denotes(belief, i, x) => Denotes(belief', i, x)
    BY <2>1, <2>2, <2>3 DEF Denotes, Grown, Belief
  <2>5. \A i \in Active(belief') : Denotes(belief', i, belief'.holds[i])
    BY <2>1, <2>2, <2>3 DEF Denotes, Sound, Belief, Active
  <2>6. ASSUME NEW f \in hypo'.pending, NEW i \in DOMAIN f.step.holds
        PROVE  Denotes(belief', i, f.step.holds[i])
    <3>1. CASE f \in hypo.pending
      BY <2>4, <2>6, <3>1 DEF Denoted
    <3>2. CASE f \notin hypo.pending
      <4>1. f.step = Predicted(belief', f.due, dynamics) /\ f.due \in Nat
        BY <2>1, <2>6, <3>2
      <4>2. belief' \in Belief /\ f.due \in Nat /\ dynamics \in Nat
        BY <2>1, <2>3, <4>1
      <4>3. Predicted(belief', f.due, dynamics).holds = belief'.holds
        BY <4>2, PredictedIs
      <4>4. f.step.holds = belief'.holds
        BY <4>1, <4>3
      <4> QED
        BY <2>5, <2>6, <4>4 DEF Active
    <3> QED
      BY <3>1, <3>2
  <2> QED
    BY <2>1, <2>2, <2>4, <2>6 DEF Denoted
<1> QED
  BY <1>2, <1>4, <1>5, <1>6, <1>8, <1>9, <1>10, <1>11 DEF Next

(* What the weights of an identifier rest on, whatever happens to the       *)
(* belief: the controller's methods are all that changes them.              *)
WeightsJudged == AllJudged(hypo)

LEMMA JudgedKept ==
  ASSUME RInv, WeightsJudged, [Next]_vars
  PROVE  WeightsJudged'
<1> USE DEF WeightsJudged
<1>1. Controller(hypo)
  BY DEF RInv, Shape
<1>2. CASE Reset
  BY <1>2, FreshIs DEF Reset
<1>3. CASE DetachState \/ ChangeDynamics \/ PacketRaises \/ UNCHANGED vars
           \/ \E groups \in GroupLists : \E token \in 0 .. Len(tokens) : Ingest(groups, token)
  <2>1. hypo' = hypo
    BY <1>3 DEF DetachState, ChangeDynamics, PacketRaises, Ingest, vars, kept
  <2> QED
    BY <2>1
<1>4. CASE PerturbBelief
  BY <1>1, <1>4, InvalidatedIs DEF PerturbBelief
<1>5. CASE \E t \in Times : PreparePropagation(t)
  <2>1. hypo' = Synchronised(hypo, dynamics)
    BY <1>5 DEF PreparePropagation
  <2> QED
    BY <1>1, <2>1, SynchronisedIs
<1>6. CASE OpenGroup \/ RejectGroup
  <2>1. CASE hypo' = hypo
    BY <2>1
  <2>2. CASE hypo' # hypo
    <3> DEFINE c == IF belief = NoBelief THEN Fresh ELSE hypo
    <3>1. call.groups # <<>> /\ Initialise(Head(call.groups))
      BY <1>6, <2>2 DEF OpenGroup, RejectGroup, Opening
    <3>2. hypo' = Synchronised(c, dynamics) \/ hypo' = c
      BY <3>1, InitialiseMoves
    <3>3. Controller(c) /\ AllJudged(c)
      BY <1>1, FreshIs
    <3> HIDE DEF c
    <3> QED
      BY <3>2, <3>3, SynchronisedIs
  <2> QED
    BY <2>1, <2>2
<1>7. CASE Packet
  <2>1. PICK k, seen : hypo' = IF k \in Rgbd THEN hypo ELSE Assimilated(hypo, work, seen)
    BY <1>7 DEF Packet, IngestOne
  <2> QED
    BY <1>1, <2>1, AssimilatedIs
<1>8. CASE Commit
  BY <1>8, CommitSchedules
<1> QED
  BY <1>2, <1>3, <1>4, <1>5, <1>6, <1>7, <1>8 DEF Next

LEMMA JudgedHolds == Spec => []WeightsJudged
<1>1. Init => WeightsJudged
  BY FreshIs DEF Init, WeightsJudged
<1>2. RInv /\ WeightsJudged /\ [Next]_vars => WeightsJudged'
  BY JudgedKept
<1> QED
  BY <1>1, <1>2, RInvHolds, PTL DEF Spec

(* Slots are reused, packets retire and find things, resets begin again,    *)
(* and forecasts outlive the groups they were made in: a forecast is still  *)
(* compared only with the thing it was a forecast of, and an identifier has *)
(* weights only after a comparison of its own and, beside its own, only by  *)
(* the prior (_associated_rgb_targets, _ensure_weights and _update_evidence *)
(* in dynamics/hypothesis_rollout.py).                                      *)
THEOREM HypothesesAreOwn == Spec => []HypothesesBelong
<1>1. Init => Denoted
  BY FreshIs DEF Init, Denoted
<1>2. RInv /\ Denoted /\ [Next]_vars => Denoted'
  BY DenotedKept
<1>3. Denoted /\ WeightsJudged => HypothesesBelong
  <2> SUFFICES ASSUME Denoted, WeightsJudged, belief # NoBelief
               PROVE  HypothesesBelong
    BY DEF HypothesesBelong
  <2>1. \A e \in Evidence(hypo) :
          e.of = e.at /\ (e.under \in Active(belief) => e.of = belief.holds[e.under])
    BY EvidenceIsKnown DEF Denoted, Denotes
  <2>2. ASSUME NEW h \in Horizons, NEW i
        PROVE  /\ Weights(hypo, h, i) # {} => \E e \in Weights(hypo, h, i) : e.under = i
               /\ \A e \in Weights(hypo, h, i) :
                    e.under = i \/ (SharesPrior /\ e \in hypo.pools[h].joint)
    BY DEF Weights, WeightsJudged, AllJudged, Judged
  <2> QED
    BY <2>1, <2>2 DEF HypothesesBelong
<1> QED
  BY <1>1, <1>2, <1>3, RInvHolds, JudgedHolds, PTL DEF Spec
-----------------------------------------------------------------------------
(* What the histories, caches and radii keep under an identifier was shown  *)
(* by the thing that identifier was given to, in the belief being made if   *)
(* there is one.                                                            *)
Making == IF work = NoBelief THEN belief ELSE work

Shows(h, c, r, i, x) ==
  \/ i \in DOMAIN h /\ x \in h[i].shows
  \/ i \in DOMAIN c /\ x \in c[i]
  \/ i \in DOMAIN r /\ x = r[i]

Owned ==
  /\ DOMAIN histories = Streams /\ DOMAIN caches = Streams /\ DOMAIN radii = Streams
  /\ \A k \in Streams : \A i, x :
       Shows(histories[k], caches[k], radii[k], i, x) => Denotes(Making, i, x)

LEMMA EmptyShows ==
  \A i, x : ~Shows(Empty, Empty, Empty, i, x)
<1>1. DOMAIN Empty = {}
  BY DEF Empty
<1> QED
  BY <1>1 DEF Shows

(* A packet leaves marks of what it matched, and of what its belief holds.  *)
LEMMA PacketOwns ==
  ASSUME RInv, Owned, NEW k, NEW seen \in SUBSET Active(work), NEW retired \in SUBSET Active(work),
         NEW thing \in Things \cup {Nothing}, NEW alarmed, NEW odd \in SUBSET seen,
         IngestOne(k, seen, retired, thing, alarmed, odd)
  PROVE  Owned'
<1> DEFINE corrected == [work EXCEPT !.credited = @ + call.dt]
           retained == Retained(corrected, retired)
           discovers == Discovers(k, work, alarmed)
           h == History(k, corrected, retained, work', seen)
           c == Cache(k, discovers, corrected, work')
           r == Unconfirmed(corrected, odd)
<1>1. /\ work # NoBelief /\ work' = WithBirth(retained, thing)
      /\ corrected.holds = work.holds /\ corrected.time = work.time
      /\ Active(retained) = Active(work) \ retired
      /\ Sound(work') /\ work'.time = work.time
      /\ work'.nextId >= work.nextId
      /\ \A i \in Active(work') :
           \/ i \in Active(work) /\ work'.holds[i] = work.holds[i]
           \/ i = work.nextId /\ work'.nextId = work.nextId + 1
      /\ work'.holds \in [Active(work') -> Things] /\ work.holds \in [Active(work) -> Things]
  BY PacketMoves
<1>2. /\ histories' = IF k \in Rgbd THEN [histories EXCEPT ![k] = h] ELSE histories
      /\ caches' = IF k \in Rgbd THEN caches ELSE [caches EXCEPT ![k] = c]
      /\ radii' = IF k \in Rgbd THEN [radii EXCEPT ![k] = r] ELSE radii
  BY <1>1 DEF IngestOne
<1>3. /\ work \in Belief /\ work' \in Belief /\ work' # NoBelief /\ work.time \in Times
      /\ Sound(work) /\ work.nextId \in Nat
      /\ \A l \in Streams : \A i \in DOMAIN histories[l] : histories[l][i] \in Row
  BY <1>1, NoBeliefIsNone DEF RInv, Shape, Sound, Belief
<1>4. Making = work /\ Making' = work'
  BY <1>1, <1>3 DEF Making
<1>5. \A i \in Active(work) : i \in Nat /\ i < work.nextId
  BY <1>3 DEF Sound, Belief, Active
<1>6. \A i \in Active(work') : i \in Nat /\ i < work'.nextId
  BY <1>1, <1>3 DEF Sound, Belief, Active
<1>7. \A i, x : Denotes(work, i, x) => Denotes(work', i, x)
  BY <1>1, <1>3, <1>5 DEF Denotes, Belief
<1>8. \A i \in Active(work) : Denotes(work, i, work.holds[i])
  BY <1>1, <1>5 DEF Denotes
<1>9. \A i \in Active(work') : Denotes(work', i, work'.holds[i])
  BY <1>3, <1>6 DEF Denotes
<1>10. Active(corrected) = Active(work)
  BY <1>1 DEF Active
<1>11. ASSUME k \in Rgbd
       PROVE  \A i \in DOMAIN h : \A x \in h[i].shows : Denotes(work', i, x)
  <2>1. k \in Streams /\ \A i \in DOMAIN histories[k] : histories[k][i] \in Row
    BY <1>3, <1>11, RuntimeAssumption
  <2>2. /\ corrected.time \in Times /\ corrected.holds \in [Active(corrected) -> Things]
        /\ work'.time \in Times /\ work'.holds \in [Active(work') -> Things]
    BY <1>1, <1>3, <1>10
  <2> HIDE DEF corrected, retained
  <2>3. \A i \in DOMAIN h : \A x \in h[i].shows :
          \/ i \in DOMAIN histories[k] /\ x \in histories[k][i].shows
          \/ i \in Active(corrected) /\ x = corrected.holds[i]
          \/ i \in Active(work') /\ x = work'.holds[i]
    BY <2>1, <2>2, HistoryIs
  <2> HIDE DEF h
  <2>4. \A i, x : i \in DOMAIN histories[k] /\ x \in histories[k][i].shows => Denotes(work, i, x)
    BY <1>4, <2>1 DEF Owned, Shows
  <2> QED
    BY <1>1, <1>7, <1>8, <1>9, <1>10, <2>3, <2>4
<1>12. ASSUME k \in Streams
       PROVE  \A i \in DOMAIN c : \A x \in c[i] : Denotes(work', i, x)
  <2>1. \A i, x : i \in DOMAIN caches[k] /\ x \in caches[k][i] => Denotes(work, i, x)
    BY <1>4, <1>12 DEF Owned, Shows
  <2>2. CASE discovers \/ Active(corrected) # Active(work')
    <3>1. c = Empty
      BY <2>2 DEF Cache
    <3> QED
      BY <3>1 DEF Empty
  <2>3. CASE ~(discovers \/ Active(corrected) # Active(work'))
    <3>1. c = [i \in Active(corrected) |->
                {corrected.holds[i]}
                  \cup (IF DOMAIN caches[k] = Active(corrected) THEN caches[k][i] ELSE {})]
      BY <2>3 DEF Cache
    <3> HIDE DEF c, corrected
    <3> QED
      BY <1>1, <1>7, <1>8, <1>10, <2>1, <3>1
  <2> QED
    BY <2>2, <2>3
<1>13. \A i \in DOMAIN r : Denotes(work', i, r[i])
  <2>1. r = [i \in odd |-> work.holds[i]]
    BY <1>1 DEF Unconfirmed
  <2> HIDE DEF r
  <2> QED
    BY <1>7, <1>8, <2>1
<1> HIDE DEF h, c, r, corrected, retained, discovers
<1>14. /\ DOMAIN histories' = Streams /\ DOMAIN caches' = Streams /\ DOMAIN radii' = Streams
       /\ \A l \in Streams : histories'[l] = IF l = k /\ k \in Rgbd THEN h ELSE histories[l]
       /\ \A l \in Streams : caches'[l] = IF l = k /\ k \notin Rgbd THEN c ELSE caches[l]
       /\ \A l \in Streams : radii'[l] = IF l = k /\ k \in Rgbd THEN r ELSE radii[l]
  BY <1>2 DEF Owned
<1>15. ASSUME NEW l \in Streams, NEW i, NEW x, Shows(histories'[l], caches'[l], radii'[l], i, x)
       PROVE  Denotes(work', i, x)
  <2>1. Shows(histories[l], caches[l], radii[l], i, x) => Denotes(work', i, x)
    BY <1>4, <1>7 DEF Owned
  <2>2. CASE l # k
    BY <1>14, <1>15, <2>1, <2>2
  <2>3. CASE l = k
    BY <1>11, <1>12, <1>13, <1>14, <1>15, <2>1, <2>3 DEF Shows
  <2> QED
    BY <2>2, <2>3
<1> QED
  BY <1>4, <1>14, <1>15 DEF Owned

LEMMA OwnedKept ==
  ASSUME RInv, Owned, Malformed = {}, [Next]_vars
  PROVE  Owned'
<1>1. ASSUME UNCHANGED <<histories, caches, radii>>,
             \A i, x : Denotes(Making, i, x) => Denotes(Making', i, x)
      PROVE  Owned'
  BY <1>1 DEF Owned
<1>2. CASE Reset
  <2>1. histories' = Each(Empty) /\ caches' = Each(Empty) /\ radii' = Each(Empty)
    BY <1>2 DEF Reset
  <2>2. \A k \in Streams : histories'[k] = Empty /\ caches'[k] = Empty /\ radii'[k] = Empty
    BY <2>1 DEF Each
  <2>3. DOMAIN histories' = Streams /\ DOMAIN caches' = Streams /\ DOMAIN radii' = Streams
    BY <2>1 DEF Each
  <2> QED
    BY <2>2, <2>3, EmptyShows DEF Owned
<1>3. CASE ChangeDynamics \/ UNCHANGED vars \/ (\E t \in Times : PreparePropagation(t))
           \/ \E groups \in GroupLists : \E token \in 0 .. Len(tokens) : Ingest(groups, token)
  <2>1. UNCHANGED <<histories, caches, radii, belief, work>>
    BY <1>3 DEF ChangeDynamics, PreparePropagation, Ingest, vars, kept
  <2> QED
    BY <1>1, <2>1 DEF Making
<1>4. CASE DetachState \/ PerturbBelief
  <2>1. /\ belief # NoBelief /\ belief' = [belief EXCEPT !.version = version + 1] /\ version \in Nat
        /\ belief \in Belief /\ work = NoBelief
        /\ UNCHANGED <<histories, caches, radii, work>>
    BY <1>4 DEF DetachState, PerturbBelief, Replaced, Resting, RInv, Shape
  <2>2. belief' # NoBelief /\ belief'.nextId = belief.nextId /\ belief'.holds = belief.holds
    BY <2>1, RenewedIs, NoBeliefIsNone
  <2> QED
    BY <1>1, <2>1, <2>2 DEF Making, Denotes, Active
<1>5. ASSUME call.groups # <<>>, work = NoBelief, Initialise(Head(call.groups)),
             UNCHANGED <<histories, caches, radii>>,
             \/ work' = NoBelief
             \/ work' = Predicted(belief', Head(call.groups).time, dynamics)
      PROVE  Owned'
  <2>1. belief # NoBelief => belief' = belief /\ belief \in Belief
    BY <1>5, InitialiseMoves DEF RInv, Shape
  <2>2. belief = NoBelief => \A i, x : ~Denotes(Making, i, x)
    BY <1>5 DEF Making, Denotes
  <2>3. CASE work' = NoBelief
    BY <1>1, <1>5, <2>1, <2>2, <2>3 DEF Making
  <2>4. CASE work' # NoBelief
    <3>1. Head(call.groups).time \in Nat /\ dynamics \in Nat
      BY <1>5, FirstGroup, RuntimeAssumption DEF RInv, Shape
    <3>2. belief # NoBelief => work'.nextId = belief.nextId /\ work'.holds = belief.holds
      BY <1>5, <2>1, <2>4, <3>1, PredictedIs
    <3> QED
      BY <1>1, <1>5, <2>1, <2>2, <2>4, <3>2 DEF Making, Denotes, Active
  <2> QED
    BY <2>3, <2>4
<1>6. CASE OpenGroup
  BY <1>5, <1>6, OpeningMoves
<1>7. CASE RejectGroup
  <2>1. /\ call.groups # <<>> /\ work = NoBelief /\ work' = NoBelief
        /\ UNCHANGED <<histories, caches, radii>>
        /\ Initialise(Head(call.groups)) \/ belief' = belief
    BY <1>7 DEF RejectGroup, Opening
  <2> QED
    BY <1>1, <1>5, <2>1 DEF Making
<1>8. CASE PacketRaises
  <2>1. First(call.queue) \in {}
    BY <1>8 DEF PacketRaises, RInv, Shape, Calls
  <2> QED
    BY <2>1
<1>9. CASE Commit
  <2>1. /\ work # NoBelief /\ work' = NoBelief /\ UNCHANGED <<histories, caches, radii>>
        /\ belief' = [work EXCEPT !.version = version + 1] /\ version \in Nat /\ work \in Belief
    BY <1>9 DEF Commit, RInv, Shape
  <2>2. belief' # NoBelief /\ belief'.nextId = work.nextId /\ belief'.holds = work.holds
    BY <2>1, RenewedIs, NoBeliefIsNone
  <2> QED
    BY <1>1, <2>1, <2>2 DEF Making, Denotes, Active
<1>10. CASE Packet
  <2>1. PICK seen \in SUBSET Active(work) : \E retired \in SUBSET Active(work), odd \in SUBSET seen,
               thing \in Things \cup {Nothing}, alarmed \in BOOLEAN :
          IngestOne(First(call.queue), seen, retired, thing, alarmed, odd)
    BY <1>10 DEF Packet
  <2> QED
    BY <2>1, PacketOwns
<1> QED
  BY <1>2, <1>3, <1>4, <1>6, <1>7, <1>8, <1>9, <1>10 DEF Next

(* If no packet raises inside a group, then however packets of different    *)
(* streams find and retire things, what is kept under an identifier is only *)
(* ever about the thing the identifier denotes: the histories, the feature  *)
(* caches and the unconfirmed radii are aligned by identifier alone.  With  *)
(* packets that raise it is not so (see the README).                        *)
THEOREM EvidenceIsOwn ==
  ASSUME Malformed = {}
  PROVE  Spec => []EvidenceBelongs
<1>1. Init => Owned
  <2> SUFFICES ASSUME Init PROVE Owned
    OBVIOUS
  <2>1. histories = Each(Empty) /\ caches = Each(Empty) /\ radii = Each(Empty)
    BY DEF Init
  <2>2. /\ \A k \in Streams : histories[k] = Empty /\ caches[k] = Empty /\ radii[k] = Empty
        /\ DOMAIN histories = Streams /\ DOMAIN caches = Streams /\ DOMAIN radii = Streams
    BY <2>1 DEF Each
  <2> QED
    BY <2>2, EmptyShows DEF Owned
<1>2. RInv /\ Owned /\ [Next]_vars => Owned'
  BY OwnedKept
<1>3. Owned => EvidenceBelongs
  <2> SUFFICES ASSUME Owned, Resting, belief # NoBelief, NEW k \in Streams, NEW i \in Active(belief)
               PROVE  /\ i \in DOMAIN histories[k] => histories[k][i].shows \subseteq {belief.holds[i]}
                      /\ i \in DOMAIN caches[k] => caches[k][i] \subseteq {belief.holds[i]}
                      /\ i \in DOMAIN radii[k] => radii[k][i] = belief.holds[i]
    BY DEF EvidenceBelongs
  <2>1. \A x : Shows(histories[k], caches[k], radii[k], i, x) => x = belief.holds[i]
    BY DEF Owned, Denotes, Making, Resting
  <2> QED
    BY <2>1 DEF Shows
<1> QED
  BY <1>1, <1>2, <1>3, RInvHolds, PTL DEF Spec
=============================================================================

----------------------- MODULE ApprovalRegistry_proofs -----------------------
(* The approvals for every lifetime, every capacity and any number of          *)
(* identifiers and requests; then the catalog of a connection, a specification *)
(* with its own variables.                                                     *)
EXTENDS ApprovalRegistry, ConnectionCatalog, FiniteSetTheorems, WellFoundedInduction, TLAPS

\* What the properties need of the types: the memory of expired identifiers
\* plays no part in which request is granted.
PendingTyped ==
    /\ now \in Nat
    /\ queue.pending \in [Ids -> Requests \cup {NoRequest}]
    /\ fate \in [Whats -> Fates]
    /\ submitted \in [Whats -> Nat]

\* The deadline a request carries is the one counted from its submission.
DeadlineKept ==
    \A i \in Waiting(queue) :
        queue.pending[i].expires_at = submitted[queue.pending[i].what] + Ttl

ApprovalInv == PendingTyped /\ NoneLostNoneReplaced /\ DeadlineKept

-----------------------------------------------------------------------------
\* Removing the requests of S and recording what they became keeps the
\* invariant: what take, reject, expire, purge and sweep have in common.
LEMMA RemovalKeepsInv ==
    ASSUME ApprovalInv, NEW S \in SUBSET Waiting(queue),
           NEW f \in Fates, f \notin {"waiting", "unused"},
           queue'.pending = without(queue, S).pending,
           fate' = Became(S, f), submitted' = submitted, now' \in Nat
    PROVE  ApprovalInv'
<1> USE DEF ApprovalInv, PendingTyped, Waiting, without, Queue
<1>1. PendingTyped'
  BY DEF Became, Fates
<1>2. \A i \in Ids : /\ (i \in Waiting(queue)') <=> (i \in Waiting(queue) /\ i \notin S)
                     /\ i \in Waiting(queue)' => queue'.pending[i] = queue.pending[i]
  OBVIOUS
<1>3. DeadlineKept'
  BY <1>2 DEF DeadlineKept
<1>4. NoneLostNoneReplaced'
  BY <1>2 DEF NoneLostNoneReplaced, Became, Requests
<1> QED
  BY <1>1, <1>3, <1>4

\* The registry starts empty.
LEMMA InitApprovalInv == Init => ApprovalInv
BY MaxNowAssumption
   DEF Init, ApprovalInv, PendingTyped, NoneLostNoneReplaced, DeadlineKept,
       EmptyQueue, Queue, Waiting, Fates

\* submit keeps the invariant: it purges, then admits or refuses.
LEMMA SubmitKeepsInv ==
    ASSUME ApprovalInv, NEW id \in Ids, NEW w \in Whats, Submit(id, w)
    PROVE  ApprovalInv'
<1> USE DEF ApprovalInv, PendingTyped
<1> DEFINE S == Stale(queue, now)
<1>1. PICK place \in Orders(S) :
        LET q == purge(queue, now, place)
            others == Became(S, "expired")
        IN  /\ queue' = IF Admits(q, id) THEN admit(q, id, w, now) ELSE q
            /\ fate' = [others EXCEPT ![w] = IF Admits(q, id) THEN "waiting" ELSE "refused"]
  BY DEF Submit
<1> DEFINE q == purge(queue, now, place)
           others == Became(S, "expired")
<1>2. /\ q.pending = [i \in Ids |-> IF i \in S THEN NoRequest ELSE queue.pending[i]]
      /\ S \in SUBSET Waiting(queue)
  BY DEF purge, remember_expired, without, Queue, Stale
<1>3. fate[w] = "unused" /\ now' = now /\ submitted' = [submitted EXCEPT ![w] = now]
  BY DEF Submit
<1>4. /\ others \in [Whats -> Fates]
      /\ others[w] = "unused"
      /\ \A i \in Waiting(queue) : queue.pending[i].what # w
  BY <1>2, <1>3 DEF Became, Fates, NoneLostNoneReplaced
<1>5. \A v \in Whats :
        (others[v] = "waiting") <=> (\E i \in Waiting(queue) \ S : queue.pending[i].what = v)
  BY <1>2 DEF Became, NoneLostNoneReplaced
<1>6. \A i, j \in Waiting(queue) : queue.pending[i].what = queue.pending[j].what => i = j
  BY DEF NoneLostNoneReplaced, Waiting, Requests
<1>7. CASE ~ Admits(q, id)
  <2>1. queue' = q /\ fate' = [others EXCEPT ![w] = "refused"]
    BY <1>1, <1>7
  <2>2. \A i \in Ids : /\ (i \in Waiting(queue)') <=> (i \in Waiting(queue) /\ i \notin S)
                       /\ i \in Waiting(queue)' => queue'.pending[i] = queue.pending[i]
    BY <1>2, <2>1 DEF Waiting
  <2>3. PendingTyped'
    BY <1>2, <1>3, <1>4, <2>1 DEF Fates
  <2>4. DeadlineKept'
    BY <1>3, <1>4, <2>2 DEF DeadlineKept, Waiting, Requests
  <2>5. NoneLostNoneReplaced'
    <3> SUFFICES ASSUME NEW v \in Whats
                 PROVE  /\ (fate'[v] = "waiting") <=>
                             (\E i \in Waiting(queue)' : queue'.pending[i].what = v)
                        /\ \A i, j \in Waiting(queue)' :
                             queue'.pending[i].what = v /\ queue'.pending[j].what = v => i = j
      BY DEF NoneLostNoneReplaced
    <3>1. Waiting(queue)' = Waiting(queue) \ S
      BY <2>2 DEF Waiting
    <3>2. fate'[v] = IF v = w THEN "refused" ELSE others[v]
      BY <1>4, <2>1
    <3> HIDE DEF S, others, q
    <3> QED
      BY <1>4, <1>5, <1>6, <2>2, <3>1, <3>2 DEF Waiting
  <2> QED
    BY <2>3, <2>4, <2>5
<1>8. CASE Admits(q, id)
  <2> DEFINE r == [what |-> w, expires_at |-> now + Ttl]
  <2>1. queue'.pending = [q.pending EXCEPT ![id] = r] /\ fate' = [others EXCEPT ![w] = "waiting"]
    BY <1>1, <1>8 DEF admit, Queue
  <2>2. r \in Requests /\ r # NoRequest
    BY TtlAssumption, NoRequestAssumption DEF Requests
  <2>3. \A i \in Ids \ {id} :
          /\ (i \in Waiting(queue)') <=> (i \in Waiting(queue) /\ i \notin S)
          /\ i \in Waiting(queue)' => queue'.pending[i] = queue.pending[i]
    BY <1>2, <2>1 DEF Waiting
  <2>4. /\ id \in Waiting(queue)' /\ queue'.pending[id] = r
        /\ (id \in Waiting(queue) => id \in S)
    BY <1>2, <1>8, <2>1, <2>2 DEF Waiting, Admits
  <2>5. PendingTyped'
    BY <1>2, <1>3, <1>4, <2>1, <2>2 DEF Fates
  <2>6. DeadlineKept'
    BY <1>3, <1>4, <2>3, <2>4 DEF DeadlineKept, Waiting, Requests
  <2>7. NoneLostNoneReplaced'
    <3> SUFFICES ASSUME NEW v \in Whats
                 PROVE  /\ (fate'[v] = "waiting") <=>
                             (\E i \in Waiting(queue)' : queue'.pending[i].what = v)
                        /\ \A i, j \in Waiting(queue)' :
                             queue'.pending[i].what = v /\ queue'.pending[j].what = v => i = j
      BY DEF NoneLostNoneReplaced
    <3>1. Waiting(queue)' = (Waiting(queue) \ S) \cup {id} /\ id \notin Waiting(queue) \ S
      BY <2>3, <2>4 DEF Waiting
    <3>2. fate'[v] = IF v = w THEN "waiting" ELSE others[v]
      BY <1>4, <2>1
    <3>3. queue'.pending[id].what = w
      BY <2>4
    <3>4. \A i \in Waiting(queue) \ S : queue'.pending[i] = queue.pending[i]
      BY <2>3, <3>1 DEF Waiting
    <3> HIDE DEF S, others, q, r
    <3> QED
      BY <1>4, <1>5, <1>6, <3>1, <3>2, <3>3, <3>4
  <2> QED
    BY <2>5, <2>6, <2>7
<1> QED
  BY <1>7, <1>8

\* Every call keeps the invariant.
LEMMA NextKeepsInv == ApprovalInv /\ [Next]_vars => ApprovalInv'
<1> SUFFICES ASSUME ApprovalInv, [Next]_vars PROVE ApprovalInv'
  OBVIOUS
<1>1. ASSUME NEW id \in Ids, NEW w \in Whats, Submit(id, w) PROVE ApprovalInv'
  BY <1>1, SubmitKeepsInv
<1>2. ASSUME NEW id \in Ids, Take(id) PROVE ApprovalInv'
  <2>1. queue'.pending = without(queue, Waiting(queue) \cap {id}).pending
    BY <1>2 DEF Take, take, without, Queue, forget_expired, Waiting, ApprovalInv, PendingTyped
  <2> QED
    BY <1>2, <2>1, RemovalKeepsInv DEF Take, ApprovalInv, PendingTyped, Fates
<1>3. ASSUME NEW id \in Ids, Reject(id) PROVE ApprovalInv'
  <2>1. queue'.pending = without(queue, Waiting(queue) \cap {id}).pending
    BY <1>3 DEF Reject, reject, without, Queue, Waiting, ApprovalInv, PendingTyped
  <2> QED
    BY <1>3, <2>1, RemovalKeepsInv DEF Reject, ApprovalInv, PendingTyped, Fates
<1>4. ASSUME NEW id \in Ids, Expire(id) PROVE ApprovalInv'
  <2>1. queue'.pending = without(queue, Waiting(queue) \cap {id}).pending
    BY <1>4 DEF Expire, expire, remember_expired, without, Queue, Waiting, ApprovalInv, PendingTyped
  <2> QED
    BY <1>4, <2>1, RemovalKeepsInv DEF Expire, ApprovalInv, PendingTyped, Fates
<1>5. CASE Sweep
  <2>1. queue'.pending = without(queue, Stale(queue, now)).pending
    BY <1>5 DEF Sweep, purge, remember_expired, without, Queue
  <2>2. Stale(queue, now) \in SUBSET Waiting(queue)
    BY DEF Stale
  <2> QED
    BY <1>5, <2>1, <2>2, RemovalKeepsInv DEF Sweep, ApprovalInv, PendingTyped, Fates
<1>6. CASE Tick
  BY <1>6 DEF Tick, ApprovalInv, PendingTyped, NoneLostNoneReplaced, DeadlineKept, Waiting
<1>7. CASE UNCHANGED vars
  BY <1>7 DEF vars, ApprovalInv, PendingTyped, NoneLostNoneReplaced, DeadlineKept, Waiting
<1> QED
  BY <1>1, <1>2, <1>3, <1>4, <1>5, <1>6, <1>7 DEF Next

-----------------------------------------------------------------------------
\* Whatever the lifetime and the capacity, and in any sequence of calls.
THEOREM ApprovalInvariant == Spec => []ApprovalInv
BY InitApprovalInv, NextKeepsInv, PTL DEF Spec

\* A request waits exactly as long as it is in the queue, under one identifier:
\* submit evicts and replaces none, take and reject leave none behind.
THEOREM NoneLostNoneReplacedHolds == Spec => []NoneLostNoneReplaced
BY ApprovalInvariant, PTL DEF ApprovalInv

\* An approval is used at most once, and never once the request's delay has
\* passed: take removes what it grants, and checks the deadline itself.
THEOREM GrantedOnceInTimeHolds == Spec => GrantedOnceInTime
<1> DEFINE Step ==
      \A w \in Whats :
         /\ fate[w] \in {"granted", "rejected", "expired", "refused"} => fate'[w] = fate[w]
         /\ fate'[w] = "granted" /\ fate[w] # "granted" => now < submitted[w] + Ttl
<1>1. ASSUME ApprovalInv, Next PROVE Step
  <2>0. \A w \in Whats, i \in Waiting(queue) :
          queue.pending[i].what = w => fate[w] = "waiting"
    BY <1>1 DEF ApprovalInv, NoneLostNoneReplaced
  <2>1. ASSUME NEW id \in Ids, NEW w \in Whats, Submit(id, w) PROVE Step
    BY <1>1, <2>0, <2>1 DEF Submit, Became, Stale, ApprovalInv, PendingTyped, Fates
  <2>2. ASSUME NEW id \in Ids, Take(id) PROVE Step
    <3> SUFFICES ASSUME NEW w \in Whats
                 PROVE  /\ fate[w] \in {"granted", "rejected", "expired", "refused"}
                              => fate'[w] = fate[w]
                        /\ fate'[w] = "granted" /\ fate[w] # "granted"
                              => now < submitted[w] + Ttl
      OBVIOUS
    <3>1. CASE \E i \in Waiting(queue) \cap {id} : queue.pending[i].what = w
      <4>1. id \in Waiting(queue) /\ queue.pending[id].what = w /\ fate[w] = "waiting"
        BY <2>0, <3>1
      <4>2. fate'[w] = IF take_answer(queue, id, now) = "Granted" THEN "granted" ELSE "expired"
        BY <2>2, <3>1 DEF Take, Became
      <4>3. CASE take_answer(queue, id, now) = "Granted"
        <5>1. ~ is_expired_at(queue.pending[id], now)
          BY <4>1, <4>3 DEF take_answer, Waiting
        <5>2. queue.pending[id].expires_at = submitted[w] + Ttl
          BY <1>1, <4>1 DEF ApprovalInv, DeadlineKept
        <5> QED
          BY <1>1, <4>1, <5>1, <5>2, TtlAssumption DEF is_expired_at, ApprovalInv, PendingTyped
      <4>4. CASE take_answer(queue, id, now) # "Granted"
        BY <4>1, <4>2, <4>4
      <4> QED
        BY <4>3, <4>4
    <3>2. CASE ~ \E i \in Waiting(queue) \cap {id} : queue.pending[i].what = w
      BY <2>2, <3>2 DEF Take, Became
    <3> QED
      BY <3>1, <3>2
  <2>3. ASSUME NEW id \in Ids, Reject(id) \/ Expire(id) PROVE Step
    BY <2>0, <2>3 DEF Reject, Expire, Became
  <2>4. CASE Sweep
    BY <2>0, <2>4 DEF Sweep, Became, Stale
  <2>5. CASE Tick
    BY <2>5 DEF Tick
  <2> QED
    BY <1>1, <2>1, <2>2, <2>3, <2>4, <2>5 DEF Next
<1>2. ApprovalInv /\ [Next]_vars => [Step]_vars
  BY <1>1
<1> QED
  BY <1>2, ApprovalInvariant, PTL DEF Spec, GrantedOnceInTime

\* The bound on the waiting requests holds for every capacity, zero included:
\* submit counts what the purge left, and adds one below the bound.
THEOREM QueueBoundedHolds == Spec => []QueueBounded
<1>1. \A q : IsFiniteSet(Waiting(q))
  BY IdsAssumption, FS_Subset DEF Waiting
<1>2. Init => QueueBounded
  <2>1. Init => Waiting(queue) = {}
    BY DEF Init, EmptyQueue, Queue, Waiting
  <2> QED
    BY <2>1, FS_EmptySet, CapacityAssumption DEF QueueBounded
<1>3. ASSUME ApprovalInv, QueueBounded, Waiting(queue)' \in SUBSET Waiting(queue)
      PROVE  QueueBounded'
  <2>1. /\ Cardinality(Waiting(queue)') <= Cardinality(Waiting(queue))
        /\ Cardinality(Waiting(queue)') \in Nat /\ Cardinality(Waiting(queue)) \in Nat
    BY <1>1, <1>3, FS_Subset, FS_CardinalityType
  <2> QED
    BY <1>3, <2>1, CapacityAssumption DEF QueueBounded
<1>4. ASSUME ApprovalInv, QueueBounded, NEW id \in Ids, NEW w \in Whats, Submit(id, w)
      PROVE  QueueBounded'
  <2>1. PICK place \in Orders(Stale(queue, now)) :
          queue' = IF Admits(purge(queue, now, place), id)
                   THEN admit(purge(queue, now, place), id, w, now)
                   ELSE purge(queue, now, place)
    BY <1>4 DEF Submit
  <2> DEFINE q == purge(queue, now, place)
  <2>2. q.pending \in [Ids -> Requests \cup {NoRequest}] /\ Waiting(q) \in SUBSET Waiting(queue)
    BY <1>4 DEF purge, remember_expired, without, Queue, Waiting, ApprovalInv, PendingTyped
  <2>3. CASE ~ Admits(q, id)
    BY <1>3, <1>4, <2>1, <2>2, <2>3
  <2>4. CASE Admits(q, id)
    <3>1. Waiting(queue)' \subseteq Waiting(q) \cup {id}
      BY <2>1, <2>2, <2>4 DEF admit, Queue, Waiting
    <3>2. id \notin Waiting(q) /\ Cardinality(Waiting(q)) < Capacity
      BY <2>4 DEF Admits, Waiting
    <3>3. /\ Cardinality(Waiting(q) \cup {id}) = Cardinality(Waiting(q)) + 1
          /\ Cardinality(Waiting(q)) \in Nat /\ IsFiniteSet(Waiting(q) \cup {id})
      BY <1>1, <3>2, FS_AddElement, FS_CardinalityType
    <3>4. /\ Cardinality(Waiting(queue)') <= Cardinality(Waiting(q) \cup {id})
          /\ Cardinality(Waiting(queue)') \in Nat
      BY <1>1, <3>1, <3>3, FS_Subset, FS_CardinalityType
    <3> QED
      BY <3>2, <3>3, <3>4, CapacityAssumption DEF QueueBounded
  <2> QED
    BY <2>3, <2>4
<1>5. ASSUME ApprovalInv, QueueBounded, [Next]_vars PROVE QueueBounded'
  <2>1. ASSUME NEW id \in Ids, Take(id) \/ Reject(id) \/ Expire(id)
        PROVE  Waiting(queue)' \in SUBSET Waiting(queue)
    BY <2>1 DEF Take, take, forget_expired, Reject, reject, Expire, expire,
                remember_expired, without, Queue, Waiting
  <2>2. CASE Sweep
    BY <1>3, <1>5, <2>2 DEF Sweep, purge, remember_expired, without, Queue, Waiting
  <2>3. CASE Tick \/ UNCHANGED vars
    BY <1>5, <2>3 DEF Tick, vars, QueueBounded, Waiting
  <2> QED
    BY <1>3, <1>4, <1>5, <2>1, <2>2, <2>3 DEF Next
<1> QED
  BY <1>2, <1>5, ApprovalInvariant, PTL DEF Spec

-----------------------------------------------------------------------------
(* The memory of expiries *)

\* The expiries remembered stay within the capacity.
ExpiriesBounded == IsFiniteSet(queue.expired) /\ Cardinality(queue.expired) <= Capacity

\* Each expiry has a rank of its own, and the last of an identifier not reported
\* yet is remembered until Capacity later ones pushed it out.
ExpiriesRemembered ==
    /\ ExpiriesBounded
    /\ queue.lapses \in Nat /\ lapsed \in [Ids -> Nat]
    /\ queue.expired \subseteq [id : Ids, rank : Nat]
    /\ \A e \in queue.expired : e.rank <= queue.lapses
    /\ \A e, f \in queue.expired : e.rank = f.rank => e = f
    /\ \A id \in Ids :
         lapsed[id] > 0 /\ queue.lapses - lapsed[id] < Capacity
         => [id |-> id, rank |-> lapsed[id]] \in queue.expired
    /\ \A id \in Ids : lapsed[id] <= queue.lapses

\* At most L - r expiries of a memory whose last rank is L have a rank above r.
LEMMA FewAbove ==
    ASSUME NEW memory \in SUBSET [id : Ids, rank : Nat], NEW L \in Nat, NEW r \in 0 .. L,
           \A e \in memory : e.rank <= L,
           \A e, f \in memory : e.rank = f.rank => e = f
    PROVE  /\ IsFiniteSet({f \in memory : f.rank > r})
           /\ Cardinality({f \in memory : f.rank > r}) \in Nat
           /\ Cardinality({f \in memory : f.rank > r}) <= L - r
<1> DEFINE above == {f \in memory : f.rank > r}
           rank == [f \in above |-> f.rank]
<1>1. \A f \in above : f.rank \in r + 1 .. L
  OBVIOUS
<1>2. rank \in Injection(above, r + 1 .. L)
  BY <1>1 DEF Injection, IsInjective
<1>3. IsFiniteSet(r + 1 .. L) /\ Cardinality(r + 1 .. L) = L - r
  <2>1. /\ IsFiniteSet(r + 1 .. L)
        /\ Cardinality(r + 1 .. L) = IF r + 1 > L THEN 0 ELSE L - (r + 1) + 1
    BY FS_Interval
  <2> QED
    BY <2>1
<1> HIDE DEF above, rank
<1>4. IsFiniteSet(above) /\ Cardinality(above) <= Cardinality(r + 1 .. L)
  BY <1>2, <1>3, FS_Injection
<1>5. Cardinality(above) \in Nat
  BY <1>4, FS_CardinalityType
<1> QED
  BY <1>3, <1>4, <1>5 DEF above

\* What is fewer than Capacity ranks from the last is not forgotten.
LEMMA NewestKeepsRecent ==
    ASSUME NEW memory \in SUBSET [id : Ids, rank : Nat], NEW L \in Nat,
           \A e \in memory : e.rank <= L,
           \A e, f \in memory : e.rank = f.rank => e = f,
           NEW e \in memory, L - e.rank < Capacity
    PROVE  e \in Newest(memory)
<1>1. e.rank \in 0 .. L
  OBVIOUS
<1> DEFINE n == Cardinality({f \in memory : f.rank > e.rank})
<1>2. n \in Nat /\ n <= L - e.rank
  BY <1>1, FewAbove
<1> HIDE DEF n
<1>3. n < Capacity
  BY <1>1, <1>2, CapacityAssumption
<1> QED
  BY <1>3 DEF n, Newest

\* A set of naturals that is not empty has a least element.
LEMMA LeastNatural ==
    ASSUME NEW S \in SUBSET Nat, S # {}
    PROVE  \E m \in S : \A n \in S : m <= n
<1> DEFINE Less == {p \in Nat \X Nat : p[1] < p[2]}
<1>1. IsWellFoundedOn(Less, Nat)
  BY NatLessThanWellFounded DEF OpToRel
<1>2. ASSUME NEW m \in Nat, NEW n \in Nat, <<n, m>> \notin Less
      PROVE  m <= n
  BY <1>2
<1> HIDE DEF Less
<1>3. PICK m \in S : \A n \in S : <<n, m>> \notin Less
  BY <1>1, WFMin
<1>4. ASSUME NEW n \in S
      PROVE  m <= n
  <2>1. <<n, m>> \notin Less
    BY <1>3
  <2> QED
    BY <1>2, <2>1
<1> QED
  BY <1>4

\* What is left of a memory is within the capacity: fewer than Capacity of its
\* elements are newer than its oldest.
LEMMA NewestIsFew ==
    ASSUME NEW memory \in SUBSET [id : Ids, rank : Nat], NEW L \in Nat,
           \A e \in memory : e.rank <= L,
           \A e, f \in memory : e.rank = f.rank => e = f
    PROVE  IsFiniteSet(Newest(memory)) /\ Cardinality(Newest(memory)) <= Capacity
<1> DEFINE kept == Newest(memory)
           ranks == {e.rank : e \in kept}
<1>1. kept \subseteq memory
  BY DEF Newest
<1>2. CASE kept = {}
  BY <1>2, FS_EmptySet, CapacityAssumption
<1>3. CASE kept # {}
  <2>1. ranks \in SUBSET Nat /\ ranks # {}
    BY <1>1, <1>3
  <2>2. PICK m \in ranks : \A n \in ranks : m <= n
    BY <2>1, LeastNatural
  <2>3. PICK oldest \in kept : m = oldest.rank
    BY <2>2
  <2> DEFINE above == {f \in memory : f.rank > oldest.rank}
             others == kept \ {oldest}
  <2>4. IsFiniteSet(above) /\ Cardinality(above) \in Nat
    <3>1. oldest.rank \in 0 .. L
      BY <1>1
    <3> QED
      BY <3>1, FewAbove
  <2>5. Cardinality(above) < Capacity
    BY DEF Newest
  <2>6. others \subseteq above
    <3> SUFFICES ASSUME NEW e \in kept, e # oldest
                 PROVE  e \in above
      OBVIOUS
    <3>1. e \in memory /\ oldest \in memory /\ e.rank # oldest.rank
      BY <1>1
    <3>2. oldest.rank <= e.rank
      BY <2>2, <2>3
    <3> QED
      BY <3>1, <3>2
  <2> HIDE DEF kept, above, others
  <2>7. /\ IsFiniteSet(others) /\ Cardinality(others) \in Nat
        /\ Cardinality(others) <= Cardinality(above)
    BY <2>4, <2>6, FS_Subset, FS_CardinalityType
  <2>8. kept = others \cup {oldest} /\ oldest \notin others
    BY DEF others
  <2>9. IsFiniteSet(kept) /\ Cardinality(kept) = Cardinality(others) + 1
    BY <2>7, <2>8, FS_AddElement
  <2>10. Cardinality(kept) <= Capacity
    BY <2>4, <2>5, <2>7, <2>9, CapacityAssumption
  <2> QED
    BY <2>9, <2>10 DEF kept
<1> QED
  BY <1>2, <1>3

\* remember_expired gives each expiry the next ranks, and keeps the promise.
LEMMA Remembering ==
    ASSUME ExpiriesRemembered, NEW S \in SUBSET Ids, NEW place \in Orders(S),
           queue'.expired = Newest(queue.expired \cup Ranked(queue, place)),
           queue'.lapses = queue.lapses + Cardinality(S), Lapse(place)
    PROVE  ExpiriesRemembered'
<1> DEFINE n == Cardinality(S)
           L == queue.lapses
           last == L + n
           memory == queue.expired \cup Ranked(queue, place)
<1>1. n \in Nat
  BY IdsAssumption, FS_Subset, FS_CardinalityType
<1>2. place \in [S -> 1 .. n] /\ \A i, j \in S : place[i] = place[j] => i = j
  BY DEF Orders
<1> HIDE DEF n
<1>3. L \in Nat /\ last \in Nat /\ last = L + n /\ lapsed \in [Ids -> Nat]
  BY <1>1 DEF ExpiriesRemembered
<1> HIDE DEF last
<1>4. \A e \in Ranked(queue, place) : \E i \in S : e = [id |-> i, rank |-> L + place[i]]
  BY <1>2 DEF Ranked
<1>5. \A i \in S : /\ [id |-> i, rank |-> L + place[i]] \in Ranked(queue, place)
                   /\ place[i] \in 1 .. n
  BY <1>2 DEF Ranked
<1>6. memory \in SUBSET [id : Ids, rank : Nat] /\ \A e \in memory : e.rank <= last
  <2>1. ASSUME NEW e \in queue.expired PROVE e \in [id : Ids, rank : Nat] /\ e.rank <= last
    BY <1>1, <1>3 DEF ExpiriesRemembered
  <2>2. ASSUME NEW e \in Ranked(queue, place)
        PROVE  e \in [id : Ids, rank : Nat] /\ e.rank <= last
    BY <1>1, <1>3, <1>4, <1>5
  <2> QED
    BY <2>1, <2>2
<1>7. \A e, f \in memory : e.rank = f.rank => e = f
  <2> SUFFICES ASSUME NEW e \in memory, NEW f \in memory, e.rank = f.rank
               PROVE  e = f
    OBVIOUS
  <2>1. CASE e \in queue.expired /\ f \in queue.expired
    BY <2>1 DEF ExpiriesRemembered
  <2>2. CASE e \in Ranked(queue, place) /\ f \in Ranked(queue, place)
    <3>1. PICK i \in S : e = [id |-> i, rank |-> L + place[i]]
      BY <1>4, <2>2
    <3>2. PICK j \in S : f = [id |-> j, rank |-> L + place[j]]
      BY <1>4, <2>2
    <3>3. place[i] = place[j]
      BY <1>3, <1>5, <3>1, <3>2
    <3> QED
      BY <1>2, <3>1, <3>2, <3>3
  <2>3. ASSUME NEW a \in queue.expired, NEW b \in Ranked(queue, place) PROVE a.rank # b.rank
    <3>1. PICK i \in S : b = [id |-> i, rank |-> L + place[i]]
      BY <1>4
    <3>2. a.rank <= L /\ a.rank \in Nat /\ place[i] \in 1 .. n
      BY <1>5 DEF ExpiriesRemembered
    <3> QED
      BY <1>1, <1>3, <3>1, <3>2
  <2> QED
    BY <2>1, <2>2, <2>3
<1>8. lapsed' = [i \in Ids |-> IF i \in S THEN L + place[i] ELSE lapsed[i]]
  BY <1>2 DEF Lapse
<1>9. \A i \in Ids : lapsed'[i] \in Nat /\ lapsed'[i] <= last
  <2> SUFFICES ASSUME NEW i \in Ids PROVE lapsed'[i] \in Nat /\ lapsed'[i] <= last
    OBVIOUS
  <2>1. CASE i \in S
    <3>1. lapsed'[i] = L + place[i] /\ place[i] \in 1 .. n
      BY <1>5, <1>8, <2>1
    <3> HIDE DEF L
    <3> QED
      BY <1>1, <1>3, <3>1
  <2>2. CASE i \notin S
    <3>1. lapsed'[i] = lapsed[i] /\ lapsed[i] \in Nat /\ lapsed[i] <= L
      BY <1>3, <1>8, <2>2 DEF ExpiriesRemembered
    <3> QED
      BY <1>1, <1>3, <3>1
  <2> QED
    BY <2>1, <2>2
<1>10. queue'.expired = Newest(memory) /\ queue'.lapses = last
  BY <1>3 DEF n
<1>11. ASSUME NEW id \in Ids, lapsed'[id] > 0, last - lapsed'[id] < Capacity
       PROVE  [id |-> id, rank |-> lapsed'[id]] \in Newest(memory)
  <2> DEFINE e == [id |-> id, rank |-> lapsed'[id]]
  <2>1. e \in memory
    <3>1. CASE id \in S
      BY <1>5, <1>8, <3>1
    <3>2. CASE id \notin S
      <4>1. lapsed'[id] = lapsed[id] /\ lapsed[id] \in Nat
        BY <1>3, <1>8, <3>2
      <4>2. L - lapsed[id] < Capacity
        BY <1>1, <1>3, <1>11, <4>1, CapacityAssumption
      <4> QED
        BY <1>11, <4>1, <4>2 DEF ExpiriesRemembered
    <3> QED
      BY <3>1, <3>2
  <2>2. last - e.rank < Capacity
    BY <1>11
  <2> HIDE DEF e, memory
  <2>3. e \in Newest(memory)
    BY <1>3, <1>6, <1>7, <2>1, <2>2, NewestKeepsRecent
  <2> QED
    BY <2>3 DEF e
<1>12. Newest(memory) \subseteq memory
  BY DEF Newest
<1>13. lapsed' \in [Ids -> Nat]
  BY <1>8, <1>9
<1> HIDE DEF memory, L
<1>14. /\ queue'.expired \subseteq [id : Ids, rank : Nat]
       /\ \A e \in queue'.expired : e.rank <= last
       /\ \A e, f \in queue'.expired : e.rank = f.rank => e = f
  BY <1>6, <1>7, <1>10, <1>12
<1>15. IsFiniteSet(Newest(memory)) /\ Cardinality(Newest(memory)) <= Capacity
  BY <1>3, <1>6, <1>7, NewestIsFew
<1>16. ExpiriesBounded'
  BY <1>10, <1>15 DEF ExpiriesBounded
<1> QED
  BY <1>3, <1>9, <1>10, <1>11, <1>13, <1>14, <1>16 DEF ExpiriesRemembered

\* Every call keeps the memory of expiries.
LEMMA NextKeepsExpiries ==
    ASSUME ApprovalInv, ExpiriesRemembered, [Next]_vars
    PROVE  ExpiriesRemembered'
<1>1. ASSUME NEW id \in Ids, NEW w \in Whats, Submit(id, w) PROVE ExpiriesRemembered'
  <2>1. PICK place \in Orders(Stale(queue, now)) :
          /\ queue' = IF Admits(purge(queue, now, place), id)
                      THEN admit(purge(queue, now, place), id, w, now)
                      ELSE purge(queue, now, place)
          /\ Lapse(place)
    BY <1>1 DEF Submit
  <2>2. Stale(queue, now) \in SUBSET Ids /\ DOMAIN place = Stale(queue, now)
    BY <2>1 DEF Stale, Waiting, Orders
  <2>3. /\ queue'.expired = Newest(queue.expired \cup Ranked(queue, place))
        /\ queue'.lapses = queue.lapses + Cardinality(Stale(queue, now))
    BY <2>1, <2>2 DEF purge, remember_expired, without, admit, Queue, Ranked
  <2> QED
    BY <2>1, <2>2, <2>3, Remembering
<1>2. ASSUME NEW id \in Ids, Take(id) PROVE ExpiriesRemembered'
  <2>1. CASE queue.pending[id] # NoRequest
    BY <1>2, <2>1 DEF Take, take, without, Queue, ExpiriesRemembered, ExpiriesBounded
  <2>2. CASE queue.pending[id] = NoRequest
    <3>1. /\ queue'.expired = {e \in queue.expired : e.id # id}
          /\ queue'.lapses = queue.lapses
          /\ lapsed' = [lapsed EXCEPT ![id] = 0]
      BY <1>2, <2>2 DEF Take, take, forget_expired, Queue
    <3>2. /\ IsFiniteSet(queue'.expired)
          /\ Cardinality(queue'.expired) <= Cardinality(queue.expired)
          /\ Cardinality(queue'.expired) \in Nat /\ Cardinality(queue.expired) \in Nat
      BY <3>1, FS_Subset, FS_CardinalityType DEF ExpiriesRemembered, ExpiriesBounded
    <3>3. ExpiriesBounded'
      BY <3>2, CapacityAssumption DEF ExpiriesRemembered, ExpiriesBounded
    <3> QED
      BY <3>1, <3>3 DEF ExpiriesRemembered
  <2> QED
    BY <2>1, <2>2
<1>3. ASSUME NEW id \in Ids, Reject(id) PROVE ExpiriesRemembered'
  BY <1>3 DEF Reject, reject, without, Queue, ExpiriesRemembered, ExpiriesBounded
<1>4. ASSUME NEW id \in Ids, Expire(id) PROVE ExpiriesRemembered'
  <2>1. CASE queue.pending[id] = NoRequest
    <3>1. queue' = queue /\ Waiting(queue) \cap {id} = {}
      BY <1>4, <2>1 DEF Expire, expire, Waiting
    <3>2. lapsed' = [i \in Ids |-> lapsed[i]]
      BY <1>4, <3>1 DEF Expire, Lapse
    <3> QED
      BY <3>1, <3>2 DEF ExpiriesRemembered, ExpiriesBounded
  <2>2. CASE queue.pending[id] # NoRequest
    <3> DEFINE place == [i \in {id} |-> 1]
    <3>1. Cardinality({id}) = 1 /\ 1 \in 1 .. 1
      BY FS_Singleton
    <3>2. place \in Orders({id})
      BY <3>1 DEF Orders
    <3>3. Waiting(queue) \cap {id} = {id}
      BY <2>2 DEF Waiting
    <3>4. Lapse(place)
      BY <1>4, <3>3 DEF Expire
    <3>5. /\ queue'.expired = Newest(queue.expired \cup Ranked(queue, place))
          /\ queue'.lapses = queue.lapses + Cardinality({id})
      BY <1>4, <2>2 DEF Expire, expire, remember_expired, without, Queue, Ranked
    <3> HIDE DEF place
    <3> QED
      BY <3>2, <3>4, <3>5, Remembering
  <2> QED
    BY <2>1, <2>2
<1>5. CASE Sweep
  <2>1. PICK place \in Orders(Stale(queue, now)) : queue' = purge(queue, now, place) /\ Lapse(place)
    BY <1>5 DEF Sweep
  <2>2. Stale(queue, now) \in SUBSET Ids /\ DOMAIN place = Stale(queue, now)
    BY <2>1 DEF Stale, Waiting, Orders
  <2>3. /\ queue'.expired = Newest(queue.expired \cup Ranked(queue, place))
        /\ queue'.lapses = queue.lapses + Cardinality(Stale(queue, now))
    BY <2>1, <2>2 DEF purge, remember_expired, without, Queue, Ranked
  <2> QED
    BY <2>1, <2>2, <2>3, Remembering
<1>6. CASE Tick \/ UNCHANGED vars
  BY <1>6 DEF Tick, vars, ExpiriesRemembered, ExpiriesBounded
<1> QED
  BY <1>1, <1>2, <1>3, <1>4, <1>5, <1>6 DEF Next

\* The memory of expiries is kept in every sequence of calls.
THEOREM ExpiriesInvariant == Spec => []ExpiriesRemembered
<1>1. Init => ExpiriesRemembered
  BY CapacityAssumption, FS_EmptySet
     DEF Init, EmptyQueue, Queue, ExpiriesRemembered, ExpiriesBounded
<1>2. ApprovalInv /\ ExpiriesRemembered /\ [Next]_vars => ExpiriesRemembered'
  BY NextKeepsExpiries
<1> QED
  BY <1>1, <1>2, ApprovalInvariant, PTL DEF Spec

\* An expiry is reported to whoever approves too late, for every capacity: it
\* is remembered until it is reported, or Capacity later ones pushed it out
\* (purge, remember_expired, take).
THEOREM ExpiredIsSaidHolds == Spec => []ExpiredIsSaid
<1>1. ExpiriesRemembered => ExpiredIsSaid
  BY DEF ExpiriesRemembered, ExpiredIsSaid, take_answer, was_expired
<1> QED
  BY <1>1, ExpiriesInvariant, PTL

\* The memory of expiries never outgrows its capacity, however many requests
\* expire unread (remember_expired).
THEOREM ExpiriesBoundedHolds == Spec => []ExpiriesBounded
<1>1. ExpiriesRemembered => ExpiriesBounded
  BY DEF ExpiriesRemembered
<1> QED
  BY <1>1, ExpiriesInvariant, PTL

-----------------------------------------------------------------------------
(* The catalog of a connection, for every number of openings, refreshes,       *)
(* changes of the schema and closing calls.                                    *)

\* The shape of the state the argument needs; that there are no more changes of
\* the schema than executions is not part of it.
CatalogShape ==
    /\ opening \in [Openings -> [pc : {"idle", "opened", "attached", "over"},
                                  catalog : Openings \cup {None}]]
    /\ listed \subseteq Openings /\ setting \subseteq Openings /\ moved \subseteq Openings
    /\ closed \subseteq Openings
    /\ catalog \in Openings \cup {None}
    /\ preferred \in [Openings -> Openings \cup {None}]
    /\ cache \in [Openings -> [level : {"never", "fetched", "invalidated"}, at : Nat]]
    /\ refresh \in [Refreshes -> [pc : {"idle", "locking", "waiting", "reading", "read", "over"},
                                  catalog : Openings \cup {None},
                                  session : Openings \cup {None}, at : Nat]]
    /\ schema \in Nat

\* A catalog that something refers to was created: its opening has passed
\* "opened", and cannot create it a second time.
Referred(c) ==
    /\ c # None
    /\ \/ catalog = c \/ preferred[c] # None \/ c \in closed
       \/ \E o \in Openings : opening[o].catalog = c
CreatedOnce == \A c \in Openings : Referred(c) => opening[c].pc \in {"attached", "over"}

\* The connection's catalog is not a closed one.
CurrentIsOpen == catalog # None => catalog \notin closed

\* Only a session its opening returned has its context changed: not one that
\* may still be reserved.
ContextOfReturned == \A s \in moved \cup setting : opening[s].pc = "over"

\* A catalog is read by one refresh at a time, of a catalog that exists.
OneReader ==
    /\ \A q, r \in Refreshes, c \in Openings : Holds(q, c) /\ Holds(r, c) => q = r
    /\ \A r \in Refreshes :
        refresh[r].pc \in {"locking", "waiting", "reading", "read"} => refresh[r].catalog \in Openings

\* What is published was read before now, and what is about to be published
\* was read after what is.
ReadAfter ==
    /\ \A c \in Openings : cache[c].at <= schema
    /\ \A r \in Refreshes :
        refresh[r].pc = "read" => /\ cache[refresh[r].catalog].at <= refresh[r].at
                                  /\ refresh[r].at <= schema

CatalogInv ==
    /\ CatalogShape /\ CreatedOnce /\ CurrentIsOpen /\ ContextOfReturned
    /\ OneReader /\ ReadAfter /\ ReservedKeepsContext

\* Before the first opening nothing refers to a catalog.
LEMMA InitCatalogInv == CatalogInit => CatalogInv
<1> SUFFICES ASSUME CatalogInit PROVE CatalogInv
  OBVIOUS
<1> USE DEF CatalogInit, Catalogs
<1>1. CatalogShape
  BY DEF CatalogShape
<1>2. CreatedOnce /\ CurrentIsOpen /\ ContextOfReturned
  BY DEF CreatedOnce, Referred, CurrentIsOpen, ContextOfReturned
<1>3. OneReader /\ ReadAfter
  BY DEF OneReader, ReadAfter, Holds
<1>4. ReservedKeepsContext
  BY DEF ReservedKeepsContext
<1> QED
  BY <1>1, <1>2, <1>3, <1>4 DEF CatalogInv

\* What leaves the openings, the catalogs, the refreshes, the contexts and the
\* schema alone, and registers no session, keeps the invariant: sessions that
\* close, and calls that end.
LEMMA CatalogFrame ==
    ASSUME CatalogInv, listed' \subseteq listed,
           UNCHANGED <<opening, setting, moved, catalog, closed, preferred, cache, refresh, schema>>
    PROVE  CatalogInv'
BY DEF CatalogInv, CatalogShape, CreatedOnce, Referred, CurrentIsOpen, ContextOfReturned,
       OneReader, ReadAfter, Holds, ReservedKeepsContext

\* An opening changes neither the refreshes nor what a catalog holds.
LEMMA OpeningKeepsCatalog ==
    ASSUME CatalogInv, NEW o \in Openings,
           Open(o) \/ Attach(o) \/ Prefer(o) \/ DropOpening(o)
    PROVE  CatalogInv'
<1> USE DEF CatalogInv, CatalogShape, catalogs, server
<1>1. UNCHANGED <<setting, moved, closed, cache, refresh, schema>>
  BY DEF Open, Attach, Prefer, DropOpening
<1>8. listed' \subseteq Openings
  BY DEF Open, Attach, Prefer, DropOpening
<1>2. OneReader' /\ ReadAfter'
  BY <1>1 DEF OneReader, ReadAfter, Holds
<1>3. ASSUME NEW where \in {"opened", "over"}, opening' = [opening EXCEPT ![o].pc = where],
             opening[o].pc \in {"idle", "opened"}, UNCHANGED <<catalog, preferred>>
      PROVE  CatalogInv'
  <2>4. /\ opening' \in [Openings -> [pc : {"idle", "opened", "attached", "over"},
                                      catalog : Openings \cup {None}]]
        /\ \A p \in Openings : opening'[p].catalog = opening[p].catalog
        /\ \A p \in Openings \ {o} : opening'[p] = opening[p]
        /\ opening'[o].pc = where
    BY <1>3
  <2>1. CatalogShape'
    BY <1>1, <1>3, <1>8, <2>4
  <2>5. CurrentIsOpen' /\ ContextOfReturned'
    BY <1>1, <1>3, <2>4 DEF CurrentIsOpen, ContextOfReturned
  <2>6. ASSUME NEW c \in Openings, Referred(c)' PROVE opening'[c].pc \in {"attached", "over"}
    BY <1>1, <1>3, <2>4, <2>6 DEF CreatedOnce, Referred
  <2>2. CreatedOnce' /\ CurrentIsOpen' /\ ContextOfReturned'
    BY <2>5, <2>6 DEF CreatedOnce
  <2>3. ReservedKeepsContext'
    BY <1>1, <1>3 DEF ReservedKeepsContext
  <2> QED
    BY <1>2, <2>1, <2>2, <2>3
<1>4. CASE Open(o)
  BY <1>3, <1>4 DEF Open
<1>5. CASE DropOpening(o)
  BY <1>3, <1>5 DEF DropOpening
<1>6. CASE Attach(o)
  <2>1. /\ opening[o].pc = "opened" /\ preferred' = preferred
        /\ catalog' = IF catalog = None THEN o ELSE catalog
        /\ opening' = [opening EXCEPT ![o] = [pc |-> "attached", catalog |-> catalog']]
    BY <1>6 DEF Attach
  <2>2. CatalogShape'
    BY <1>1, <1>8, <2>1
  <2>3. CurrentIsOpen'
    BY <1>1, <2>1 DEF CurrentIsOpen, CreatedOnce, Referred
  <2>4. ContextOfReturned'
    BY <1>1, <2>1 DEF ContextOfReturned
  <2>5. CreatedOnce'
    BY <1>1, <2>1 DEF CreatedOnce, Referred
  <2>6. ReservedKeepsContext'
    BY <1>1, <2>1 DEF ReservedKeepsContext, CreatedOnce, Referred
  <2> QED
    BY <1>2, <2>2, <2>3, <2>4, <2>5, <2>6
<1>7. CASE Prefer(o)
  <2> DEFINE c == opening[o].catalog
  <2>1. /\ opening[o].pc = "attached" /\ catalog' = catalog
        /\ preferred' = preferred \/ preferred' = [preferred EXCEPT ![c] = o]
        /\ opening' = [opening EXCEPT ![o].pc = "over"]
    BY <1>7 DEF Prefer
  <2>7. preferred' \in [Openings -> Openings \cup {None}]
    BY <2>1
  <2>8. opening' \in [Openings -> [pc : {"idle", "opened", "attached", "over"},
                                   catalog : Openings \cup {None}]]
    BY <2>1
  <2>2. CatalogShape'
    BY <1>1, <1>8, <2>1, <2>7, <2>8
  <2>3. CurrentIsOpen' /\ ContextOfReturned'
    BY <1>1, <2>1 DEF CurrentIsOpen, ContextOfReturned
  <2>4. CreatedOnce'
    BY <1>1, <2>1 DEF CreatedOnce, Referred
  <2>5. o \notin moved \cup setting
    BY <2>1 DEF ContextOfReturned
  <2>6. ReservedKeepsContext'
    BY <1>1, <2>1, <2>5 DEF ReservedKeepsContext
  <2> QED
    BY <1>2, <2>2, <2>3, <2>4, <2>6
<1> QED
  BY <1>4, <1>5, <1>6, <1>7

\* A change of context is refused on the session the catalog reads through, and
\* asked on returned sessions only.
LEMMA ContextKeepsCatalog ==
    ASSUME CatalogInv, NEW s \in Openings, SetContext(s) \/ ContextSet(s)
    PROVE  CatalogInv'
<1> USE DEF CatalogInv, CatalogShape, catalogs, server
<1>1. UNCHANGED <<opening, listed, catalog, closed, preferred, cache, refresh, schema>>
  BY DEF SetContext, ContextSet
<1>2. moved' \cup setting' \subseteq moved \cup setting \cup {s}
  BY DEF SetContext, ContextSet
<1>3. opening[s].pc = "over" /\ (s \in moved \cup setting \/ catalog = None \/ preferred[catalog] # s)
  BY DEF SetContext, ContextSet, ContextOfReturned
<1>4. CatalogShape' /\ ContextOfReturned'
  BY <1>1, <1>2, <1>3 DEF ContextOfReturned
<1>5. CreatedOnce' /\ CurrentIsOpen'
  BY <1>1 DEF CreatedOnce, Referred, CurrentIsOpen
<1>6. OneReader' /\ ReadAfter'
  BY <1>1 DEF OneReader, ReadAfter, Holds
<1>7. ReservedKeepsContext'
  BY <1>1, <1>2, <1>3 DEF ReservedKeepsContext
<1> QED
  BY <1>4, <1>5, <1>6, <1>7

\* A refresh holds its catalog from before it reads until it publishes.
LEMMA RefreshKeepsCatalog ==
    ASSUME CatalogInv, NEW r \in Refreshes,
           \/ BeginRefresh(r) \/ LockRefresh(r) \/ BeginRead(r)
           \/ Read(r) \/ RefreshCancelled(r) \/ RefreshFails(r)
           \/ Publish(r)
    PROVE  CatalogInv'
<1> USE DEF CatalogInv, CatalogShape, catalogs, server, sessions
<1>1. UNCHANGED <<opening, listed, setting, moved, catalog, closed, preferred, schema>>
  BY DEF BeginRefresh, LockRefresh, BeginRead, Read,
         RefreshCancelled, RefreshFails, Publish
<1>2. CreatedOnce' /\ CurrentIsOpen' /\ ContextOfReturned' /\ ReservedKeepsContext'
  BY <1>1 DEF CreatedOnce, Referred, CurrentIsOpen, ContextOfReturned, ReservedKeepsContext
<1>3. ASSUME RefreshOver(r), cache' = cache PROVE CatalogInv'
  <2>1. CatalogShape'
    BY <1>1, <1>3 DEF RefreshOver
  <2>2. OneReader' /\ ReadAfter'
    BY <1>1, <1>3 DEF RefreshOver, OneReader, ReadAfter, Holds
  <2> QED
    BY <1>2, <2>1, <2>2
<1>4. ASSUME NEW m \in [pc : {"locking", "waiting", "reading", "read"}, catalog : Openings,
                        session : Openings \cup {None}, at : Nat],
             refresh' = [refresh EXCEPT ![r] = m], cache' = cache,
             m.pc # "locking" => \A q \in Refreshes \ {r} : ~ Holds(q, m.catalog),
             m.pc = "read" => m.at = schema
      PROVE  CatalogInv'
  <2>1. CatalogShape'
    BY <1>1, <1>4
  <2>2. /\ \A q \in Refreshes \ {r} : refresh'[q] = refresh[q]
        /\ refresh'[r] = m
    BY <1>4
  <2>3. ReadAfter'
    BY <1>1, <1>4, <2>2 DEF ReadAfter, OneReader
  <2>4. OneReader'
    BY <1>4, <2>2 DEF OneReader, Holds
  <2> QED
    BY <1>2, <2>1, <2>3, <2>4
<1>11. refresh[r] \in [pc : {"idle", "locking", "waiting", "reading", "read", "over"},
                       catalog : Openings \cup {None}, session : Openings \cup {None}, at : Nat]
  OBVIOUS
<1>5. CASE BeginRefresh(r)
  <2>1. CASE catalog = None
    BY <1>3, <1>5, <2>1 DEF BeginRefresh
  <2>2. CASE catalog # None
    <3>1. PICK m : /\ m = [refresh[r] EXCEPT !.pc = "locking", !.catalog = catalog]
                   /\ refresh' = [refresh EXCEPT ![r] = m] /\ cache' = cache
      BY <1>5, <2>2 DEF BeginRefresh
    <3>2. /\ m \in [pc : {"locking", "waiting", "reading", "read"}, catalog : Openings,
                    session : Openings \cup {None}, at : Nat]
          /\ m.pc = "locking"
      BY <1>11, <2>2, <3>1
    <3> QED
      BY <1>4, <3>1, <3>2
  <2> QED
    BY <2>1, <2>2
<1>6. CASE LockRefresh(r)
  <2>1. /\ cache' = cache /\ refresh[r].catalog \in Openings
        /\ \A q \in Refreshes : ~ Holds(q, refresh[r].catalog)
    BY <1>6 DEF LockRefresh, OneReader
  <2>2. CASE RefreshOver(r)
    BY <1>3, <2>1, <2>2
  <2>3. CASE ~ RefreshOver(r)
    <3>1. PICK s \in IF preferred[refresh[r].catalog] = None THEN listed
                     ELSE {preferred[refresh[r].catalog]} :
             refresh' = [refresh EXCEPT ![r] = [refresh[r] EXCEPT !.pc = "waiting", !.session = s]]
      BY <1>6, <2>3 DEF LockRefresh
    <3>2. s \in Openings \cup {None}
      BY <3>1, <2>1
    <3>3. PICK m : /\ m = [refresh[r] EXCEPT !.pc = "waiting", !.session = s]
                   /\ refresh' = [refresh EXCEPT ![r] = m]
      BY <3>1
    <3>4. /\ m \in [pc : {"locking", "waiting", "reading", "read"}, catalog : Openings,
                    session : Openings \cup {None}, at : Nat]
          /\ m.pc = "waiting" /\ m.catalog = refresh[r].catalog
      BY <1>11, <2>1, <3>2, <3>3
    <3> QED
      BY <1>4, <2>1, <3>3, <3>4
  <2> QED
    BY <2>2, <2>3
<1>7. CASE BeginRead(r)
  <2>1. /\ cache' = cache /\ refresh[r].catalog \in Openings
        /\ \A q \in Refreshes \ {r} : ~ Holds(q, refresh[r].catalog)
    BY <1>7 DEF BeginRead, OneReader, Holds
  <2>2. CASE RefreshOver(r)
    BY <1>3, <2>1, <2>2
  <2>3. CASE ~ RefreshOver(r)
    <3>1. PICK m : /\ m = [refresh[r] EXCEPT !.pc = "reading"]
                   /\ refresh' = [refresh EXCEPT ![r] = m]
      BY <1>7, <2>3 DEF BeginRead, RefreshAt
    <3>2. /\ m \in [pc : {"locking", "waiting", "reading", "read"}, catalog : Openings,
                    session : Openings \cup {None}, at : Nat]
          /\ m.pc = "reading" /\ m.catalog = refresh[r].catalog
      BY <1>11, <2>1, <3>1
    <3> QED
      BY <1>4, <2>1, <3>1, <3>2
  <2> QED
    BY <2>2, <2>3
<1>8. CASE Read(r)
  <2>1. /\ cache' = cache /\ refresh[r].catalog \in Openings
        /\ \A q \in Refreshes \ {r} : ~ Holds(q, refresh[r].catalog)
    BY <1>8 DEF Read, OneReader, Holds
  <2>2. PICK m : /\ m = [refresh[r] EXCEPT !.pc = "read", !.at = schema]
                 /\ refresh' = [refresh EXCEPT ![r] = m]
    BY <1>8 DEF Read
  <2>3. /\ m \in [pc : {"locking", "waiting", "reading", "read"}, catalog : Openings,
                  session : Openings \cup {None}, at : Nat]
        /\ m.pc = "read" /\ m.catalog = refresh[r].catalog /\ m.at = schema
    BY <1>11, <2>1, <2>2
  <2> QED
    BY <1>4, <2>1, <2>2, <2>3
<1>9. CASE RefreshCancelled(r) \/ RefreshFails(r)
  BY <1>3, <1>9 DEF RefreshCancelled, RefreshFails
<1>10. CASE Publish(r)
  <2> DEFINE c == refresh[r].catalog
  <2>1. /\ refresh[r].pc = "read" /\ RefreshOver(r)
        /\ cache' = cache
           \/ cache' = [cache EXCEPT ![c] = [level |-> "fetched", at |-> refresh[r].at]]
    BY <1>10 DEF Publish
  <2>2. CatalogShape'
    <3>1. refresh[r] \in [pc : {"read"}, catalog : Openings \cup {None},
                          session : Openings \cup {None}, at : Nat]
      BY <2>1
    <3>2. PICK m : /\ m = [level |-> "fetched", at |-> refresh[r].at]
                   /\ cache' = cache \/ cache' = [cache EXCEPT ![c] = m]
      BY <2>1
    <3>3. m \in [level : {"never", "fetched", "invalidated"}, at : Nat]
      BY <3>1, <3>2
    <3>4. cache' \in [Openings -> [level : {"never", "fetched", "invalidated"}, at : Nat]]
      BY <3>2, <3>3
    <3> QED
      BY <1>1, <2>1, <3>4 DEF RefreshOver
  <2>3. OneReader'
    BY <1>1, <2>1 DEF RefreshOver, OneReader, Holds
  <2>4. \A q \in Refreshes \ {r} : refresh[q].pc = "read" => refresh[q].catalog # c
    BY <2>1 DEF OneReader, Holds
  <2>5. ReadAfter'
    BY <1>1, <2>1, <2>4 DEF ReadAfter, OneReader, RefreshOver
  <2> QED
    BY <1>2, <2>2, <2>3, <2>5
<1> QED
  BY <1>5, <1>6, <1>7, <1>8, <1>9, <1>10

\* The schema only grows, and an invalidation keeps when a level was read.
LEMMA DdlKeepsCatalog ==
    ASSUME CatalogInv, NEW d \in Ddls, ApplyDdl(d) \/ ConcludeDdl(d)
    PROVE  CatalogInv'
<1> USE DEF CatalogInv, CatalogShape, catalogs, sessions
<1>1. UNCHANGED <<opening, listed, setting, moved, catalog, closed, preferred, refresh>>
  BY DEF ApplyDdl, ConcludeDdl
<1>2. CreatedOnce' /\ CurrentIsOpen' /\ ContextOfReturned' /\ ReservedKeepsContext'
  BY <1>1 DEF CreatedOnce, Referred, CurrentIsOpen, ContextOfReturned, ReservedKeepsContext
<1>3. OneReader'
  BY <1>1 DEF OneReader, Holds
<1>4. schema' \in {schema, schema + 1}
  BY DEF ApplyDdl, ConcludeDdl
<1>5. cache' = cache \/ cache' = [cache EXCEPT ![catalog].level = "invalidated"]
  BY DEF ApplyDdl, ConcludeDdl
<1>8. /\ cache' \in [Openings -> [level : {"never", "fetched", "invalidated"}, at : Nat]]
      /\ \A c \in Openings : cache'[c].at = cache[c].at
  <2>1. CASE cache' = cache
    BY <2>1
  <2>2. CASE cache' = [cache EXCEPT ![catalog].level = "invalidated"]
    <3>1. CASE catalog \in Openings
      BY <2>2, <3>1
    <3>2. CASE catalog \notin Openings
      BY <2>2, <3>2
    <3> QED
      BY <3>1, <3>2
  <2> QED
    BY <1>5, <2>1, <2>2
<1>6. CatalogShape' /\ \A c \in Openings : cache'[c].at = cache[c].at
  BY <1>1, <1>4, <1>8
<1>7. ReadAfter'
  BY <1>1, <1>4, <1>6 DEF ReadAfter, OneReader
<1> QED
  BY <1>2, <1>3, <1>6, <1>7

\* Only a disconnection touches the catalog, and leaves none.
LEMMA CloserKeepsCatalog ==
    ASSUME CatalogInv, NEW k \in Closers,
           \/ BeginDisconnect(k) \/ BeginDelete(k) \/ BeginCloseSession(k)
           \/ Drain(k) \/ MarkOne(k) \/ TakeOne(k) \/ ClosedAll(k)
    PROVE  CatalogInv'
<1> USE DEF catalogs, sessions, server
<1>1. CASE BeginDisconnect(k)
  <2> USE DEF CatalogInv, CatalogShape
  <2>1. /\ UNCHANGED <<opening, listed, setting, moved, preferred, cache, refresh, schema>>
        /\ catalog' = None
        /\ closed' = IF catalog = None THEN closed ELSE closed \cup {catalog}
    BY <1>1 DEF BeginDisconnect
  <2>2. CatalogShape' /\ CurrentIsOpen' /\ ContextOfReturned' /\ ReservedKeepsContext'
    BY <2>1 DEF CurrentIsOpen, ContextOfReturned, ReservedKeepsContext
  <2>3. CreatedOnce'
    BY <2>1 DEF CreatedOnce, Referred
  <2>4. OneReader' /\ ReadAfter'
    BY <2>1 DEF OneReader, ReadAfter, Holds
  <2> QED
    BY <2>2, <2>3, <2>4
<1>2. CASE BeginDelete(k)
  BY <1>2, CatalogFrame DEF BeginDelete
<1>3. CASE BeginCloseSession(k)
  BY <1>3, CatalogFrame DEF BeginCloseSession
<1>4. CASE Drain(k)
  BY <1>4, CatalogFrame DEF Drain
<1>5. CASE MarkOne(k)
  BY <1>5, CatalogFrame DEF MarkOne
<1>6. CASE TakeOne(k)
  BY <1>6, CatalogFrame DEF TakeOne
<1>7. CASE ClosedAll(k)
  BY <1>7, CatalogFrame DEF ClosedAll
<1> QED
  BY <1>1, <1>2, <1>3, <1>4, <1>5, <1>6, <1>7

\* Every step of the connection keeps the invariant.
LEMMA CatalogStep == CatalogInv /\ [CatalogNext]_catalogVars => CatalogInv'
<1> SUFFICES ASSUME CatalogInv, [CatalogNext]_catalogVars PROVE CatalogInv'
  OBVIOUS
<1>1. CASE UNCHANGED catalogVars
  BY <1>1, CatalogFrame DEF catalogVars
<1>2. CASE CatalogNext
  BY <1>2, OpeningKeepsCatalog, ContextKeepsCatalog, RefreshKeepsCatalog, DdlKeepsCatalog,
     CloserKeepsCatalog DEF CatalogNext
<1> QED
  BY <1>1, <1>2

\* The openings, the refreshes and the closing calls of a connection agree on
\* its catalog, however many there are (connect, refresh_catalog, disconnect).
THEOREM CatalogInvariant == CatalogSpec => []CatalogInv
BY InitCatalogInv, CatalogStep, PTL DEF CatalogSpec

\* The session reserved for the connection's catalog never had its context
\* changed (set_session_context).
THEOREM ReservedKeepsContextHolds == CatalogSpec => []ReservedKeepsContext
<1>1. CatalogInv => ReservedKeepsContext
  BY DEF CatalogInv
<1> QED
  BY CatalogInvariant, <1>1, PTL

\* What a step may change of what the catalogs hold: a publication in the
\* connection's catalog, or its invalidation.
LEMMA ContentStep ==
    ASSUME [CatalogNext]_catalogVars
    PROVE  \/ cache' = cache
           \/ catalog # None /\ cache' = [cache EXCEPT ![catalog].level = "invalidated"]
           \/ \E r \in Refreshes :
                /\ refresh[r].pc = "read" /\ refresh[r].catalog = catalog /\ catalog \notin closed
                /\ cache' = [cache EXCEPT ![catalog] = [level |-> "fetched", at |-> refresh[r].at]]
<1> USE DEF catalogs, sessions, server
<1>1. CASE UNCHANGED catalogVars
  BY <1>1 DEF catalogVars
<1>2. ASSUME NEW o \in Openings,
             \/ Open(o) \/ Attach(o) \/ Prefer(o) \/ DropOpening(o)
             \/ SetContext(o) \/ ContextSet(o)
      PROVE  cache' = cache
  BY <1>2 DEF Open, Attach, Prefer, DropOpening,
              SetContext, ContextSet
<1>3. ASSUME NEW r \in Refreshes,
             \/ BeginRefresh(r) \/ LockRefresh(r) \/ BeginRead(r)
             \/ Read(r) \/ RefreshCancelled(r) \/ RefreshFails(r)
      PROVE  cache' = cache
  BY <1>3 DEF BeginRefresh, LockRefresh, BeginRead, Read,
              RefreshCancelled, RefreshFails
<1>4. ASSUME NEW r \in Refreshes, Publish(r)
      PROVE  \/ cache' = cache
             \/ /\ refresh[r].pc = "read" /\ refresh[r].catalog = catalog /\ catalog \notin closed
                /\ cache' = [cache EXCEPT ![catalog] = [level |-> "fetched", at |-> refresh[r].at]]
  BY <1>4 DEF Publish
<1>5. ASSUME NEW d \in Ddls, ApplyDdl(d) \/ ConcludeDdl(d)
      PROVE  \/ cache' = cache
             \/ catalog # None /\ cache' = [cache EXCEPT ![catalog].level = "invalidated"]
  BY <1>5 DEF ApplyDdl, ConcludeDdl
<1>6. ASSUME NEW k \in Closers,
             \/ BeginDisconnect(k) \/ BeginDelete(k) \/ BeginCloseSession(k)
             \/ Drain(k) \/ MarkOne(k) \/ TakeOne(k) \/ ClosedAll(k)
      PROVE  cache' = cache
  BY <1>6 DEF BeginDisconnect, BeginDelete, BeginCloseSession,
              Drain, MarkOne, TakeOne, ClosedAll
<1> QED
  BY <1>1, <1>2, <1>3, <1>4, <1>5, <1>6 DEF CatalogNext

\* Once a disconnection removed a catalog nothing is published in it any more,
\* though a refresh that read before may come after (refresh_catalog).
THEOREM ClosedIsFrozenHolds == CatalogSpec => ClosedIsFrozen
<1>1. CatalogInv /\ [CatalogNext]_catalogVars
      => [\A c \in closed : cache'[c] = cache[c]]_catalogVars
  <2> SUFFICES ASSUME CatalogInv, [CatalogNext]_catalogVars, NEW c \in closed
               PROVE  cache'[c] = cache[c]
    OBVIOUS
  <2> QED
    BY ContentStep DEF CatalogInv, CatalogShape, CurrentIsOpen
<1> QED
  BY CatalogInvariant, <1>1, PTL DEF CatalogSpec, ClosedIsFrozen

\* Of two refreshes of one catalog the later publication never carries the
\* older read (refresh_catalog).
THEOREM PublishedInOrderHolds == CatalogSpec => PublishedInOrder
<1>1. CatalogInv /\ [CatalogNext]_catalogVars
      => [\A c \in Catalogs : cache'[c].at >= cache[c].at]_catalogVars
  <2> SUFFICES ASSUME CatalogInv, [CatalogNext]_catalogVars, NEW c \in Openings
               PROVE  cache'[c].at >= cache[c].at
    BY DEF Catalogs
  <2>1. cache[c] \in [level : {"never", "fetched", "invalidated"}, at : Nat]
    BY DEF CatalogInv, CatalogShape
  <2>2. ASSUME NEW r \in Refreshes, refresh[r].pc = "read", refresh[r].catalog = c
        PROVE  refresh[r].at >= cache[c].at
    BY <2>2, <2>1 DEF CatalogInv, CatalogShape, ReadAfter
  <2> QED
    BY ContentStep, <2>1, <2>2 DEF CatalogInv, CatalogShape
<1> QED
  BY CatalogInvariant, <1>1, PTL DEF CatalogSpec, PublishedInOrder
=============================================================================

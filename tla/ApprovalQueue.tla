---------------------------- MODULE ApprovalQueue ----------------------------
(* oxyn-exec/src/approval.rs: the commands set aside until the user answers.    *)
(* A queue is what waits under each identifier, and the last identifiers        *)
(* removed as stale: the deque of the code is a set of identifiers ranked by    *)
(* when they expired.  Every operation of the registry takes its one lock for   *)
(* its whole duration: an operation is one operator here, and one step of       *)
(* whoever calls it.                                                            *)
EXTENDS Integers, FiniteSets

CONSTANTS
    Ids,        \* command identifiers
    Whats,      \* what a request holds: actor, command, reason and preview
    NoRequest,  \* nothing waits under an identifier
    Ttl,        \* how long a request stays valid
    Capacity    \* the requests that may wait, and the expired ones remembered

ASSUME TtlAssumption == Ttl \in Nat
ASSUME CapacityAssumption == Capacity \in Nat
ASSUME IdsAssumption == IsFiniteSet(Ids)

\* PendingCommand: the registry stores and gives back "what" as it is.
Requests == [what : Whats, expires_at : Nat]

ASSUME NoRequestAssumption == NoRequest \notin Requests

Queues ==
    [pending : [Ids -> Requests \cup {NoRequest}],
     expired : SUBSET [id : Ids, rank : Nat],
     lapses : Nat]      \* the expiries remembered so far

Queue(pending, expired, lapses) ==
    [pending |-> pending, expired |-> expired, lapses |-> lapses]

EmptyQueue == Queue([i \in Ids |-> NoRequest], {}, 0)

is_expired_at(request, now) == now >= request.expires_at

Waiting(q) == {i \in Ids : q.pending[i] # NoRequest}
Stale(q, now) == {i \in Waiting(q) : is_expired_at(q.pending[i], now)}

without(q, S) ==
    Queue([i \in Ids |-> IF i \in S THEN NoRequest ELSE q.pending[i]], q.expired, q.lapses)

\* What is left of a memory once its oldest are forgotten, down to the capacity.
Newest(memory) ==
    {e \in memory : Cardinality({f \in memory : f.rank > e.rank}) < Capacity}

\* A HashMap gives the stale requests in any order: the place of each.
Orders(S) ==
    {place \in [S -> 1 .. Cardinality(S)] : \A i, j \in S : place[i] = place[j] => i = j}

Ranked(q, place) == {[id |-> i, rank |-> q.lapses + place[i]] : i \in DOMAIN place}

remember_expired(q, place) ==
    Queue(q.pending, Newest(q.expired \cup Ranked(q, place)),
          q.lapses + Cardinality(DOMAIN place))

\* Mutant: what the purge removes is not remembered as expired.
mut_purge(q, now, place) == without(q, Stale(q, now))

\* purge, the stale requests being met in this order.
purge(q, now, place) == remember_expired(without(q, Stale(q, now)), place)

\* Has the identifier expired, not reported since?  Read once, then forgotten.
was_expired(q, id) == \E e \in q.expired : e.id = id
forget_expired(q, id) == Queue(q.pending, {e \in q.expired : e.id # id}, q.lapses)

\* submit, once the stale requests are purged.
Admits(q, id) == Cardinality(Waiting(q)) < Capacity /\ q.pending[id] = NoRequest
admit(q, id, what, now) ==
    Queue([q.pending EXCEPT ![id] = [what |-> what, expires_at |-> now + Ttl]],
          q.expired, q.lapses)

\* take: the answer, and the queue it leaves.  A stale request is removed too,
\* and its expiry is then already reported.
take_answer(q, id, now) ==
    IF q.pending[id] # NoRequest
    THEN IF is_expired_at(q.pending[id], now) THEN "Expired" ELSE "Granted"
    ELSE IF was_expired(q, id) THEN "Expired" ELSE "Unknown"

take(q, id) ==
    IF q.pending[id] # NoRequest THEN without(q, {id}) ELSE forget_expired(q, id)

\* reject and expire: whether there was something to remove is q.pending[id].
reject(q, id) == without(q, {id})
expire(q, id) ==
    IF q.pending[id] = NoRequest THEN q
    ELSE remember_expired(without(q, {id}), [i \in {id} |-> 1])
=============================================================================

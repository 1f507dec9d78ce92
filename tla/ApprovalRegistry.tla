-------------------------- MODULE ApprovalRegistry --------------------------
(* The registry of commands awaiting approval under every sequence of calls     *)
(* from any number of threads: each call holds the registry's lock, so the      *)
(* calls are the steps.  "fate", "submitted" and "lapsed" only record what      *)
(* happened, for the properties.                                                *)
EXTENDS ApprovalQueue

CONSTANT MaxNow     \* bound of the clock, for model checking

ASSUME MaxNowAssumption == MaxNow \in Nat

VARIABLES
    now,        \* the monotonic clock
    queue,      \* ApprovalRegistry.queue
    fate,       \* what became of each request
    submitted,  \* when each request was set aside
    lapsed      \* the rank of an identifier's expiry not reported yet, or 0

vars == <<now, queue, fate, submitted, lapsed>>

Fates == {"unused", "refused", "waiting", "granted", "rejected", "expired"}

TypeOK ==
    /\ now \in 0 .. MaxNow
    /\ queue \in Queues /\ Cardinality(queue.expired) <= Capacity
    /\ fate \in [Whats -> Fates]
    /\ submitted \in [Whats -> 0 .. MaxNow]
    /\ lapsed \in [Ids -> Nat]

Init ==
    /\ now = 0
    /\ queue = EmptyQueue
    /\ fate = [w \in Whats |-> "unused"]
    /\ submitted = [w \in Whats |-> 0]
    /\ lapsed = [i \in Ids |-> 0]

-----------------------------------------------------------------------------
\* What the requests under the identifiers of S become.
Became(S, f) ==
    [w \in Whats |-> IF \E i \in S : queue.pending[i].what = w THEN f ELSE fate[w]]

\* The expiries of this order are remembered, not reported yet.
Lapse(place) ==
    lapsed' = [i \in Ids |-> IF i \in DOMAIN place THEN queue.lapses + place[i] ELSE lapsed[i]]

\* Mutant: a request under the same identifier replaces the one that waits.
mut_Submit(id, w) ==
    /\ fate[w] = "unused"
    /\ \E place \in Orders(Stale(queue, now)) :
        LET q == purge(queue, now, place)
            others == Became(Stale(queue, now), "expired")
            full == Cardinality(Waiting(q)) >= Capacity
        IN  /\ queue' = IF full THEN q ELSE admit(q, id, w, now)
            /\ fate' = [others EXCEPT ![w] = IF full THEN "refused" ELSE "waiting"]
            /\ Lapse(place)
    /\ submitted' = [submitted EXCEPT ![w] = now]
    /\ UNCHANGED now

\* submit: the stale requests leave first, so as not to count in the bound; a
\* full queue and a request already waiting refuse the new one.
Submit(id, w) ==
    /\ fate[w] = "unused"
    /\ \E place \in Orders(Stale(queue, now)) :
        LET q == purge(queue, now, place)
            others == Became(Stale(queue, now), "expired")
        IN  /\ queue' = IF Admits(q, id) THEN admit(q, id, w, now) ELSE q
            /\ fate' = [others EXCEPT ![w] = IF Admits(q, id) THEN "waiting" ELSE "refused"]
            /\ Lapse(place)
    /\ submitted' = [submitted EXCEPT ![w] = now]
    /\ UNCHANGED now

\* Mutant: the approval gives the request back without removing it.
mut_Take(id) ==
    /\ fate' = Became(Waiting(queue) \cap {id},
                      IF take_answer(queue, id, now) = "Granted" THEN "granted" ELSE "expired")
    /\ lapsed' = IF queue.pending[id] = NoRequest THEN [lapsed EXCEPT ![id] = 0] ELSE lapsed
    /\ queue' = IF queue.pending[id] = NoRequest THEN forget_expired(queue, id) ELSE queue
    /\ UNCHANGED <<now, submitted>>

\* take: the request leaves whatever the answer.
Take(id) ==
    /\ fate' = Became(Waiting(queue) \cap {id},
                      IF take_answer(queue, id, now) = "Granted" THEN "granted" ELSE "expired")
    /\ lapsed' = IF queue.pending[id] = NoRequest THEN [lapsed EXCEPT ![id] = 0] ELSE lapsed
    /\ queue' = take(queue, id)
    /\ UNCHANGED <<now, submitted>>

\* reject: the user's no, or a request its asker withdraws.
Reject(id) ==
    /\ fate' = Became(Waiting(queue) \cap {id}, "rejected")
    /\ queue' = reject(queue, id)
    /\ UNCHANGED <<now, submitted, lapsed>>

\* expire: the asker's own deadline passed, wherever this clock stands.
Expire(id) ==
    /\ fate' = Became(Waiting(queue) \cap {id}, "expired")
    /\ queue' = expire(queue, id)
    /\ Lapse([i \in Waiting(queue) \cap {id} |-> 1])
    /\ UNCHANGED <<now, submitted>>

\* sweep: clears the display.
Sweep ==
    /\ \E place \in Orders(Stale(queue, now)) :
        /\ queue' = purge(queue, now, place)
        /\ Lapse(place)
    /\ fate' = Became(Stale(queue, now), "expired")
    /\ UNCHANGED <<now, submitted>>

Tick ==
    /\ now < MaxNow
    /\ now' = now + 1
    /\ UNCHANGED <<queue, fate, submitted, lapsed>>

Next ==
    \/ \E id \in Ids :
        \/ \E w \in Whats : Submit(id, w)
        \/ Take(id) \/ Reject(id) \/ Expire(id)
    \/ Sweep
    \/ Tick

Spec == Init /\ [][Next]_vars

-----------------------------------------------------------------------------
(* Properties *)

\* A request waits for an answer exactly as long as it is in the queue, under
\* one identifier only: none is evicted by the bound, none is replaced by a
\* later request under its identifier, and none answered stays to be answered
\* again (submit, take).
NoneLostNoneReplaced ==
    \A w \in Whats :
        /\ (fate[w] = "waiting") <=> (\E i \in Waiting(queue) : queue.pending[i].what = w)
        /\ \A i, j \in Waiting(queue) :
             queue.pending[i].what = w /\ queue.pending[j].what = w => i = j

\* An approval is given at most once to a request, and only before its delay
\* has passed since it was submitted, whoever forgot to sweep (take).
GrantedOnceInTime ==
    [][\A w \in Whats :
         /\ fate[w] \in {"granted", "rejected", "expired", "refused"} => fate'[w] = fate[w]
         /\ fate'[w] = "granted" /\ fate[w] # "granted" => now < submitted[w] + Ttl]_vars

\* The queue stays within its capacity, stale requests included, however many
\* calls are made (submit).
QueueBounded == Cardinality(Waiting(queue)) <= Capacity

\* A request removed as stale is still reported stale: an approval that arrives
\* afterwards says "expired", not that nothing was waiting, unless Capacity
\* later expiries pushed it out of memory or it was already reported.
ExpiredIsSaid ==
    \A id \in Ids :
        /\ lapsed[id] > 0
        /\ queue.lapses - lapsed[id] < Capacity
        /\ queue.pending[id] = NoRequest
        => take_answer(queue, id, now) = "Expired"
=============================================================================

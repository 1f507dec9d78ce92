------------------------ MODULE CommandTracker_proofs ------------------------
(* A cancellation reaches the command it was sent for, running or to come, and *)
(* no other, whatever the number of commands and identifiers, and whatever the *)
(* bounds of the tracker's memories; then the close an exit records, a         *)
(* specification with its own variables.                                       *)
EXTENDS CommandTracker, Exit, SequenceTheorems, WellFoundedInduction, TLAPS

\* What register and release read: whose the entries are.
Entries ==
    /\ running \in [Ids -> Nat]
    /\ next_generation \in Nat
    /\ guard \in [Guards -> [pc : {"idle", "coming", "tracked", "ended"},
                             id : Ids \cup {Nothing}, generation : Nat]]

\* A generation is given once: the entry that carries it can have no other guard.
OwnGeneration ==
    /\ \A g \in Guards : guard[g].pc = "coming" => guard[g].id \in Ids
    /\ \A g \in Guards :
        guard[g].pc = "tracked" => /\ guard[g].id \in Ids
                                   /\ guard[g].generation \in 1 .. next_generation
    /\ \A g, h \in Guards :
        /\ guard[g].pc = "tracked" /\ guard[h].pc = "tracked"
        /\ guard[g].generation = guard[h].generation
        => g = h

TrackerInv == Entries /\ OwnGeneration /\ RunningIsReachable

LEMMA InitEstablishes == Init => TrackerInv
  BY DEF Init, TrackerInv, Entries, OwnGeneration, RunningIsReachable, Guard

LEMMA StepPreserves == TrackerInv /\ [Next]_vars => TrackerInv'
<1> SUFFICES ASSUME TrackerInv, [Next]_vars
             PROVE  TrackerInv'
    OBVIOUS
<1> USE DEF TrackerInv, Entries, OwnGeneration, RunningIsReachable
<1>1. ASSUME NEW g \in Guards, NEW id \in Ids, Invoke(g, id)
      PROVE  TrackerInv'
      BY <1>1 DEF Invoke, Guard, tracker
<1>2. ASSUME NEW g \in Guards, track(g)
      PROVE  TrackerInv'
  <2> DEFINE id == guard[g].id
             generation == next_generation + 1
  <2>1. guard[g].pc = "coming" /\ id \in Ids
        BY <1>2 DEF track
  <2>2. CASE running[id] # 0
    <3>1. /\ guard' = [guard EXCEPT ![g].pc = "ended"]
          /\ UNCHANGED tracker
          BY <1>2, <2>2 DEF track
    <3> QED BY <3>1, <2>1 DEF tracker
  <2>3. CASE running[id] = 0
    <3>1. /\ next_generation' = generation
          /\ running' = [running EXCEPT ![id] = generation]
          /\ guard' = [guard EXCEPT ![g] = Guard("tracked", id, generation)]
          BY <1>2, <2>3 DEF track
    \* A tracked command has an entry, and this identifier has none.
    <3>2. \A h \in Guards : guard[h].pc = "tracked" => guard[h].id # id
          BY <2>3
    <3>3. Entries'
          BY <3>1, <2>1 DEF Guard
    <3>4. OwnGeneration'
          BY <3>1, <2>1 DEF Guard
    <3>5. RunningIsReachable'
          BY <3>1, <3>2, <2>1 DEF Guard
    <3> QED BY <3>3, <3>4, <3>5
  <2> QED BY <2>2, <2>3
<1>3. ASSUME NEW g \in Guards, release(g)
      PROVE  TrackerInv'
  <2>1. /\ guard[g].pc = "tracked" /\ guard[g].id \in Ids
        /\ guard' = [guard EXCEPT ![g].pc = "ended"]
        /\ next_generation' = next_generation
        /\ running' = [running EXCEPT ![guard[g].id] = 0]
        BY <1>3 DEF release
  \* The only command under its identifier, whose entry it removes.
  <2>2. \A h \in Guards : guard[h].pc = "tracked" /\ h # g => guard[h].id # guard[g].id
        BY <2>1
  <2>3. Entries'
        BY <2>1
  <2>4. OwnGeneration'
        BY <2>1
  <2>5. RunningIsReachable'
        BY <2>1, <2>2
  <2> QED BY <2>3, <2>4, <2>5
<1>4. ASSUME NEW id \in Ids, cancel(id)
      PROVE  TrackerInv'
      BY <1>4 DEF cancel
<1>5. CASE Tick
      BY <1>5 DEF Tick, tracker
<1>6. CASE UNCHANGED vars
      BY <1>6 DEF vars
<1> QED BY <1>1, <1>2, <1>3, <1>4, <1>5, <1>6 DEF Next

\* The entries and the guards agree in every behaviour of the tracker.
THEOREM TrackerInvariant == Spec => []TrackerInv
<1>1. Init => TrackerInv
      BY InitEstablishes
<1>2. TrackerInv /\ [Next]_vars => TrackerInv'
      BY StepPreserves
<1> QED BY <1>1, <1>2, PTL DEF Spec

\* The command that runs under an identifier is the one its cancellation reaches.
THEOREM RunningIsReachableHolds == Spec => []RunningIsReachable
<1>1. TrackerInv => RunningIsReachable
      BY DEF TrackerInv
<1> QED BY <1>1, TrackerInvariant, PTL

-----------------------------------------------------------------------------
(* The queues *)

Requests == [id : Ids, at : Nat]

\* The oldest first, and one request for an identifier.
Ordered(queue) ==
    \A j, k \in DOMAIN queue :
        j < k => queue[j].at <= queue[k].at /\ queue[j].id # queue[k].id

\* Every element of the first queue is one of the second.
Within(short, queue) ==
    \A k \in DOMAIN short : \E j \in DOMAIN queue : short[k] = queue[j]

\* A set of naturals that is not empty has a least element: what an induction
\* over the places of a queue comes down to.
LEMMA MinOfNaturals ==
    ASSUME NEW S \in SUBSET Nat, S # {}
    PROVE  Min(S) \in S /\ \A n \in S : Min(S) <= n
<1> DEFINE Less == {p \in Nat \X Nat : p[1] < p[2]}
<1>1. IsWellFoundedOn(Less, Nat)
      BY NatLessThanWellFounded DEF OpToRel
<1>2. ASSUME NEW m \in Nat, NEW n \in Nat, <<n, m>> \notin Less
      PROVE  m <= n
      BY <1>2
<1> HIDE DEF Less
<1>3. PICK m \in S : \A n \in S : <<n, m>> \notin Less
      BY <1>1, WFMin
<1>4. ASSUME NEW n \in S
      PROVE  m <= n
  <2>1. <<n, m>> \notin Less
        BY <1>3
  <2> QED BY <1>2, <2>1
<1> QED BY <1>4 DEF Min

\* What is left of an ordered queue from one of its places on.
LEMMA SuffixOfOrdered ==
    ASSUME NEW queue \in Seq(Requests), Ordered(queue), NEW m \in 1 .. Len(queue)
    PROVE  LET rest == SubSeq(queue, m, Len(queue))
           IN  /\ rest \in Seq(Requests) /\ Ordered(rest) /\ Within(rest, queue)
               /\ Len(rest) = Len(queue) - m + 1
               /\ \A k \in 1 .. Len(rest) : rest[k] = queue[m + k - 1]
               /\ \A j \in m .. Len(queue) : \E k \in DOMAIN rest : rest[k] = queue[j]
<1> DEFINE rest == SubSeq(queue, m, Len(queue))
<1>1. Len(queue) \in Nat /\ DOMAIN queue = 1 .. Len(queue) /\ m \in Nat
      BY LenProperties
<1>2. \A i \in m .. Len(queue) : queue[i] \in Requests
      BY <1>1, ElementOfSeq
<1>3. /\ rest \in Seq(Requests) /\ Len(rest) = Len(queue) - m + 1
      /\ \A k \in 1 .. Len(queue) - m + 1 : rest[k] = queue[m + k - 1]
      BY <1>1, <1>2, SubSeqProperties
<1>4. DOMAIN rest = 1 .. Len(queue) - m + 1
      BY <1>3, LenProperties
<1> HIDE DEF rest
<1>5. ASSUME NEW k \in DOMAIN rest
      PROVE  k \in Nat /\ m + k - 1 \in DOMAIN queue /\ rest[k] = queue[m + k - 1]
  <2>1. k \in 1 .. Len(queue) - m + 1
        BY <1>4
  <2>2. rest[k] = queue[m + k - 1]
        BY <1>3, <2>1
  <2>3. k \in Nat /\ m + k - 1 \in 1 .. Len(queue)
        BY <1>1, <2>1
  <2> QED BY <1>1, <2>2, <2>3
<1>6. Ordered(rest)
  <2> SUFFICES ASSUME NEW j \in DOMAIN rest, NEW k \in DOMAIN rest, j < k
               PROVE  rest[j].at <= rest[k].at /\ rest[j].id # rest[k].id
      BY DEF Ordered
  <2>1. /\ m + j - 1 \in DOMAIN queue /\ m + k - 1 \in DOMAIN queue
        /\ m + j - 1 < m + k - 1
        /\ rest[j] = queue[m + j - 1] /\ rest[k] = queue[m + k - 1]
        BY <1>1, <1>5
  <2> QED BY <2>1 DEF Ordered
<1>7. Within(rest, queue)
      BY <1>5 DEF Within
<1>8. ASSUME NEW j \in m .. Len(queue)
      PROVE  \E k \in DOMAIN rest : rest[k] = queue[j]
  <2>1. j - m + 1 \in DOMAIN rest /\ rest[j - m + 1] = queue[j]
        BY <1>1, <1>3, <1>4
  <2> QED BY <2>1
<1> QED BY <1>3, <1>4, <1>6, <1>7, <1>8 DEF rest

\* forget_expired pops what is too old, and nothing else: in a queue in the
\* order of its times, all that is too old is at the front.
LEMMA ForgetExpired ==
    ASSUME early \in Seq(Requests), Ordered(early), now \in Nat
    PROVE  /\ forget_expired \in Seq(Requests) /\ Ordered(forget_expired)
           /\ Within(forget_expired, early)
           /\ \A k \in DOMAIN forget_expired : Recent(forget_expired[k])
           /\ \A j \in DOMAIN early :
                Recent(early[j]) => \E k \in DOMAIN forget_expired : forget_expired[k] = early[j]
<1> DEFINE recent == {k \in DOMAIN early : Recent(early[k])}
           rest == SubSeq(early, Min(recent), Len(early))
<1>1. Len(early) \in Nat /\ DOMAIN early = 1 .. Len(early)
      BY LenProperties
<1>2. CASE recent = {}
  <2>1. forget_expired = <<>>
        BY <1>2 DEF forget_expired
  <2>2. <<>> \in Seq(Requests) /\ DOMAIN <<>> = {}
        BY EmptySeq
  <2> QED BY <1>2, <2>1, <2>2 DEF Ordered, Within
<1>3. CASE recent # {}
  <2>1. forget_expired = rest
        BY <1>3 DEF forget_expired
  <2>2. recent \in SUBSET Nat
        BY <1>1
  <2>3. Min(recent) \in recent /\ \A k \in recent : Min(recent) <= k
        BY <1>3, <2>2, MinOfNaturals
  <2> DEFINE m == Min(recent)
  <2>4. m \in 1 .. Len(early) /\ Recent(early[m])
        BY <1>1, <2>3
  <2> HIDE DEF m
  <2>5. /\ rest \in Seq(Requests) /\ Ordered(rest) /\ Within(rest, early)
        /\ Len(rest) = Len(early) - m + 1
        /\ \A k \in 1 .. Len(rest) : rest[k] = early[m + k - 1]
        /\ \A j \in m .. Len(early) : \E k \in DOMAIN rest : rest[k] = early[j]
        BY <2>4, SuffixOfOrdered DEF m
  <2>6. ASSUME NEW k \in DOMAIN rest
        PROVE  Recent(rest[k])
    <3>1. k \in 1 .. Len(early) - m + 1 /\ rest[k] = early[m + k - 1]
          BY <2>5, LenProperties
    <3>2. m + k - 1 \in 1 .. Len(early) /\ m <= m + k - 1
          BY <1>1, <2>4, <3>1
    <3>3. early[m] \in Requests /\ early[m + k - 1] \in Requests
          BY <2>4, <3>2, ElementOfSeq
    <3>4. early[m].at <= early[m + k - 1].at
      <4>1. CASE m = m + k - 1
            BY <3>3, <4>1 DEF Requests
      <4>2. CASE m < m + k - 1
            BY <1>1, <2>4, <3>2, <4>2 DEF Ordered
      <4> QED BY <1>1, <2>4, <3>2, <4>1, <4>2
    <3>5. early[m].at \in Nat /\ early[m + k - 1].at \in Nat
          BY <3>3 DEF Requests
    <3>6. now - early[m + k - 1].at <= EARLY_CANCEL_WINDOW
      <4> DEFINE a == early[m].at
                 b == early[m + k - 1].at
      <4>1. now - a <= EARLY_CANCEL_WINDOW
            BY <2>4 DEF Recent
      <4> HIDE DEF a, b
      <4>2. a \in Nat /\ b \in Nat /\ a <= b
            BY <3>4, <3>5 DEF a, b
      <4>3. now - b <= EARLY_CANCEL_WINDOW
            BY <4>1, <4>2, BoundsAssumption
      <4> QED BY <4>3 DEF b
    <3> HIDE DEF rest
    <3> QED BY <3>1, <3>6 DEF Recent
  <2>7. ASSUME NEW j \in DOMAIN early, Recent(early[j])
        PROVE  \E k \in DOMAIN rest : rest[k] = early[j]
    <3>1. j \in m .. Len(early)
          BY <1>1, <2>3, <2>4, <2>7 DEF m
    <3> QED BY <2>5, <3>1
  <2> HIDE DEF rest, recent
  <2> QED BY <2>1, <2>5, <2>6, <2>7
<1> QED BY <1>2, <1>3

\* take_early removes the one request for the identifier, and leaves the others
\* in their order.
LEMMA TakenOut ==
    ASSUME NEW queue \in Seq(Requests), Ordered(queue), NEW id \in Ids
    PROVE  LET others == Without(queue, id)
           IN  /\ others \in Seq(Requests) /\ Ordered(others) /\ Within(others, queue)
               /\ ~ Has(others, id)
               /\ \A j \in DOMAIN queue :
                    queue[j].id # id => \E k \in DOMAIN others : others[k] = queue[j]
<1> DEFINE places == {k \in DOMAIN queue : queue[k].id = id}
           others == Without(queue, id)
           n == Len(queue)
<1>1. n \in Nat /\ DOMAIN queue = 1 .. n
      BY LenProperties
<1>2. CASE places = {}
  <2>1. others = queue
        BY <1>2 DEF Without
  <2> QED BY <1>2, <2>1 DEF Within, Has
<1>3. CASE places # {}
  <2> DEFINE m == Min(places)
             before == SubSeq(queue, 1, m - 1)
             after == SubSeq(queue, m + 1, n)
  <2>1. others = before \o after
        BY <1>3 DEF Without
  <2>2. places \in SUBSET Nat
        BY <1>1
  <2>3. m \in places
        BY <1>3, <2>2, MinOfNaturals
  <2>4. m \in 1 .. n /\ queue[m].id = id
        BY <1>1, <2>3
  <2> HIDE DEF places, others, m, n
  <2>5. \A i \in 1 .. n : queue[i] \in Requests
        BY ElementOfSeq DEF n
  <2>6. /\ before \in Seq(Requests) /\ Len(before) = m - 1
        /\ \A i \in 1 .. m - 1 : before[i] = queue[i]
    <3>1. m - 1 \in Int /\ \A i \in 1 .. m - 1 : queue[i] \in Requests
          BY <1>1, <2>4, <2>5
    <3>2. /\ before \in Seq(Requests)
          /\ Len(before) = IF 1 <= m - 1 THEN m - 1 - 1 + 1 ELSE 0
          /\ \A i \in 1 .. m - 1 - 1 + 1 : before[i] = queue[1 + i - 1]
          BY <3>1, SubSeqProperties
    <3> HIDE DEF before
    <3> QED BY <1>1, <2>4, <3>2
  <2>7. /\ after \in Seq(Requests) /\ Len(after) = n - m
        /\ \A i \in 1 .. n - m : after[i] = queue[m + i]
    <3>1. m + 1 \in Int /\ \A i \in m + 1 .. n : queue[i] \in Requests
          BY <1>1, <2>4, <2>5
    <3>2. /\ after \in Seq(Requests)
          /\ Len(after) = IF m + 1 <= n THEN n - (m + 1) + 1 ELSE 0
          /\ \A i \in 1 .. n - (m + 1) + 1 : after[i] = queue[m + 1 + i - 1]
          BY <1>1, <3>1, SubSeqProperties
    <3> HIDE DEF after
    <3> QED BY <1>1, <2>4, <3>2
  <2> HIDE DEF before, after
  <2>8. /\ others \in Seq(Requests) /\ Len(others) = n - 1
        /\ DOMAIN others = 1 .. n - 1
        /\ \A i \in 1 .. n - 1 :
             others[i] = IF i <= m - 1 THEN before[i] ELSE after[i - (m - 1)]
    <3>1. /\ before \o after \in Seq(Requests)
          /\ Len(before \o after) = Len(before) + Len(after)
          /\ \A i \in 1 .. Len(before) + Len(after) :
               (before \o after)[i] = IF i <= Len(before) THEN before[i]
                                      ELSE after[i - Len(before)]
          BY <2>6, <2>7, ConcatProperties
    <3>2. Len(before) + Len(after) = n - 1
          BY <1>1, <2>4, <2>6, <2>7
    <3> QED BY <2>1, <2>6, <3>1, <3>2, LenProperties
  <2>9. ASSUME NEW i \in DOMAIN others
        PROVE  LET j == IF i <= m - 1 THEN i ELSE i + 1
               IN  i \in Nat /\ j \in DOMAIN queue /\ j # m /\ others[i] = queue[j]
    <3>1. i \in 1 .. n - 1
          BY <2>8
    <3>2. CASE i <= m - 1
      <4>1. i \in 1 .. m - 1 /\ i \in 1 .. n /\ i # m
            BY <1>1, <2>4, <3>1, <3>2
      <4> QED BY <1>1, <2>6, <2>8, <3>1, <3>2, <4>1
    <3>3. CASE ~ (i <= m - 1)
      <4>1. /\ i - (m - 1) \in 1 .. n - m /\ m + (i - (m - 1)) = i + 1
            /\ i + 1 \in 1 .. n /\ i + 1 # m
            BY <1>1, <2>4, <3>1, <3>3
      <4>2. after[i - (m - 1)] = queue[i + 1]
            BY <2>7, <4>1
      <4> QED BY <1>1, <2>8, <3>1, <3>3, <4>1, <4>2
    <3> QED BY <3>2, <3>3
  <2>10. Ordered(others)
    <3> SUFFICES ASSUME NEW i \in DOMAIN others, NEW k \in DOMAIN others, i < k
                 PROVE  others[i].at <= others[k].at /\ others[i].id # others[k].id
        BY DEF Ordered
    <3> DEFINE p == IF i <= m - 1 THEN i ELSE i + 1
               q == IF k <= m - 1 THEN k ELSE k + 1
    <3>1. p \in DOMAIN queue /\ others[i] = queue[p] /\ i \in Nat
          BY <2>9
    <3>2. q \in DOMAIN queue /\ others[k] = queue[q] /\ k \in Nat
          BY <2>9
    <3>3. p < q
          BY <1>1, <2>4, <3>1, <3>2
    <3> HIDE DEF p, q
    <3> QED BY <3>1, <3>2, <3>3 DEF Ordered
  <2>11. Within(others, queue)
         BY <2>9 DEF Within
  <2>12. ~ Has(others, id)
    <3> SUFFICES ASSUME NEW i \in DOMAIN others
                 PROVE  others[i].id # id
        BY DEF Has
    <3>1. PICK j \in DOMAIN queue : j # m /\ others[i] = queue[j]
          BY <2>9
    <3>2. CASE j < m
          BY <1>1, <2>4, <3>1, <3>2 DEF Ordered
    <3>3. CASE m < j
          BY <1>1, <2>4, <3>1, <3>3 DEF Ordered
    <3> QED BY <1>1, <2>4, <3>1, <3>2, <3>3
  <2>13. ASSUME NEW j \in DOMAIN queue, queue[j].id # id
         PROVE  \E k \in DOMAIN others : others[k] = queue[j]
    <3>1. j \in 1 .. n /\ j # m
          BY <1>1, <2>4, <2>13
    <3>2. CASE j < m
      <4>1. j \in 1 .. n - 1 /\ j \in 1 .. m - 1 /\ j <= m - 1
            BY <1>1, <2>4, <3>1, <3>2
      <4> QED BY <2>6, <2>8, <4>1
    <3>3. CASE m < j
      <4>1. /\ j - 1 \in 1 .. n - 1 /\ ~ (j - 1 <= m - 1)
            /\ (j - 1) - (m - 1) \in 1 .. n - m /\ m + ((j - 1) - (m - 1)) = j
            BY <1>1, <2>4, <3>1, <3>3
      <4>2. others[j - 1] = queue[j]
            BY <2>7, <2>8, <4>1
      <4> QED BY <2>8, <4>1, <4>2
    <3> QED BY <1>1, <2>4, <3>1, <3>2, <3>3
  <2> QED BY <2>8, <2>10, <2>11, <2>12, <2>13 DEF others
<1> QED BY <1>2, <1>3

\* What is pushed is in the queue, the others come from it, and only its oldest
\* may have left.
PushedOnto(queue, bound, e, longer) ==
    /\ \A k \in DOMAIN longer :
         longer[k] = e \/ \E j \in DOMAIN queue : longer[k] = queue[j]
    /\ \E k \in DOMAIN longer : longer[k] = e
    /\ \A j \in DOMAIN queue :
         \/ Len(queue) >= bound /\ queue[j] = queue[1]
         \/ \E k \in DOMAIN longer : longer[k] = queue[j]

\* Push, below its bound and at it.
LEMMA Pushed ==
    ASSUME NEW S, NEW queue \in Seq(S), NEW bound \in Nat \ {0}, NEW e \in S
    PROVE  /\ Push(queue, bound, e) \in Seq(S)
           /\ PushedOnto(queue, bound, e, Push(queue, bound, e))
<1> DEFINE kept == IF Len(queue) >= bound THEN Tail(queue) ELSE queue
           longer == Push(queue, bound, e)
<1>1. Len(queue) \in Nat /\ DOMAIN queue = 1 .. Len(queue)
      BY LenProperties
<1>2. /\ kept \in Seq(S)
      /\ \A k \in DOMAIN kept : \E j \in DOMAIN queue : kept[k] = queue[j]
      /\ \A j \in DOMAIN queue :
           \/ Len(queue) >= bound /\ queue[j] = queue[1]
           \/ \E k \in DOMAIN kept : kept[k] = queue[j]
  <2>1. CASE ~ (Len(queue) >= bound)
        BY <2>1
  <2>2. CASE Len(queue) >= bound
    <3>1. queue # <<>>
          BY <1>1, <2>2, EmptySeq
    <3>2. /\ Tail(queue) \in Seq(S) /\ Len(Tail(queue)) = Len(queue) - 1
          /\ \A i \in 1 .. Len(Tail(queue)) : Tail(queue)[i] = queue[i + 1]
          BY <3>1, HeadTailProperties
    <3>3. DOMAIN Tail(queue) = 1 .. Len(queue) - 1
          BY <3>2, LenProperties
    <3>4. kept = Tail(queue)
          BY <2>2
    <3> HIDE DEF kept
    <3>5. ASSUME NEW k \in DOMAIN kept
          PROVE  \E j \in DOMAIN queue : kept[k] = queue[j]
      <4>1. k + 1 \in DOMAIN queue /\ kept[k] = queue[k + 1]
            BY <1>1, <3>2, <3>3, <3>4
      <4> QED BY <4>1
    <3>6. ASSUME NEW j \in DOMAIN queue, queue[j] # queue[1]
          PROVE  \E k \in DOMAIN kept : kept[k] = queue[j]
      <4>1. j - 1 \in DOMAIN kept /\ kept[j - 1] = queue[j]
            BY <1>1, <3>2, <3>3, <3>4, <3>6
      <4> QED BY <4>1
    <3> QED BY <2>2, <3>2, <3>4, <3>5, <3>6
  <2> QED BY <2>1, <2>2
<1>3. longer = Append(kept, e)
      BY DEF Push
<1> HIDE DEF kept, longer
<1>4. /\ longer \in Seq(S) /\ Len(longer) = Len(kept) + 1
      /\ \A i \in 1 .. Len(kept) : longer[i] = kept[i]
      /\ longer[Len(kept) + 1] = e
      BY <1>2, <1>3, AppendProperties
<1>5. /\ Len(kept) \in Nat /\ DOMAIN kept = 1 .. Len(kept)
      /\ DOMAIN longer = 1 .. Len(kept) + 1
      BY <1>2, <1>4, LenProperties
<1>6. \A k \in DOMAIN longer : k = Len(kept) + 1 \/ k \in DOMAIN kept
      BY <1>5
<1>7. \A k \in DOMAIN kept : k \in DOMAIN longer /\ longer[k] = kept[k]
      BY <1>4, <1>5
<1>8. Len(kept) + 1 \in DOMAIN longer
      BY <1>5
<1> QED BY ZenonT(30), <1>2, <1>4, <1>6, <1>7, <1>8 DEF longer, PushedOnto

\* A later request for an identifier that has none is pushed in order.
LEMMA PushedInOrder ==
    ASSUME NEW queue \in Seq(Requests), Ordered(queue), NEW bound \in Nat \ {0},
           NEW e \in Requests, ~ Has(queue, e.id),
           \A j \in DOMAIN queue : queue[j].at <= e.at
    PROVE  Ordered(Push(queue, bound, e))
<1> DEFINE kept == IF Len(queue) >= bound THEN Tail(queue) ELSE queue
<1>1. Len(queue) \in Nat /\ DOMAIN queue = 1 .. Len(queue)
      BY LenProperties
<1>2. kept \in Seq(Requests) /\ Ordered(kept) /\ Within(kept, queue)
  <2>1. CASE ~ (Len(queue) >= bound)
        BY <2>1 DEF Within
  <2>2. CASE Len(queue) >= bound
    <3>1. queue # <<>>
          BY <1>1, <2>2, EmptySeq
    <3>2. CASE Len(queue) = 1
      <4>1. Tail(queue) \in Seq(Requests) /\ Len(Tail(queue)) = 0
            BY <3>1, <3>2, HeadTailProperties
      <4>2. DOMAIN Tail(queue) = 1 .. 0
            BY <4>1, LenProperties
      <4> QED BY <2>2, <4>1, <4>2 DEF Ordered, Within
    <3>3. CASE Len(queue) # 1
      <4>1. 2 \in 1 .. Len(queue)
            BY <1>1, <2>2, <3>3
      <4>2. kept = SubSeq(queue, 2, Len(queue))
            BY <2>2, <3>1, TailIsSubSeq
      <4> QED BY <4>1, <4>2, SuffixOfOrdered
    <3> QED BY <3>2, <3>3
  <2> QED BY <2>1, <2>2
<1> DEFINE longer == Append(kept, e)
<1>3. Push(queue, bound, e) = longer
      BY DEF Push
<1> HIDE DEF kept
<1>4. /\ longer \in Seq(Requests) /\ Len(longer) = Len(kept) + 1
      /\ \A i \in 1 .. Len(kept) : longer[i] = kept[i]
      /\ longer[Len(kept) + 1] = e
      BY <1>2, AppendProperties
<1>5. /\ Len(kept) \in Nat /\ DOMAIN kept = 1 .. Len(kept)
      /\ DOMAIN longer = 1 .. Len(kept) + 1
      BY <1>2, <1>4, LenProperties
<1> HIDE DEF longer
<1>6. \A i \in DOMAIN kept : kept[i].at <= e.at /\ kept[i].id # e.id
      BY <1>2 DEF Within, Has
<1>7. Ordered(longer)
  <2> SUFFICES ASSUME NEW j \in DOMAIN longer, NEW k \in DOMAIN longer, j < k
               PROVE  longer[j].at <= longer[k].at /\ longer[j].id # longer[k].id
      BY DEF Ordered
  <2>1. j \in DOMAIN kept /\ longer[j] = kept[j]
        BY <1>4, <1>5
  <2>2. CASE k = Len(kept) + 1
        BY <1>4, <1>6, <2>1, <2>2
  <2>3. CASE k # Len(kept) + 1
    <3>1. k \in DOMAIN kept /\ longer[k] = kept[k]
          BY <1>4, <1>5, <2>3
    <3> QED BY <1>2, <2>1, <3>1 DEF Ordered
  <2> QED BY <2>2, <2>3
<1> QED BY <1>3, <1>7

-----------------------------------------------------------------------------
(* The memories *)

\* What track and cancel read and keep of the tracker's memories.
Memories ==
    /\ now \in Nat
    /\ early \in Seq(Requests) /\ released \in Seq(Ids)
    /\ ended \subseteq Ids
    /\ meant \in [generations : SUBSET Nat, ids : [Ids -> Nat]]

\* Only a generation already given is cancelled, or meant to be.
GivenGenerations ==
    /\ cancelled \cup meant.generations \subseteq 1 .. next_generation
    /\ \A id \in Ids : running[id] <= next_generation

\* Requests wait in the order they were sent, one for an identifier.
EarlyInOrder ==
    /\ Ordered(early)
    /\ \A k \in DOMAIN early : early[k].at <= now

\* released holds what ended, as far as its bound allows.
EndedIsRemembered ==
    /\ \A k \in DOMAIN released : released[k] \in ended
    /\ \A id \in ended : id \in forgotten \/ \E k \in DOMAIN released : released[k] = id

\* What waits in early is a request sent for a command to come, and a request
\* sent for a command to come waits there for its whole window, unless a bound
\* pushed its identifier out of a memory.
WaitsAsMeant ==
    /\ \A k \in DOMAIN early :
         early[k].id \notin forgotten => meant.ids[early[k].id] = early[k].at + 1
    /\ \A id \in Ids :
         /\ meant.ids[id] > 0 /\ id \notin forgotten
         /\ now - (meant.ids[id] - 1) <= EARLY_CANCEL_WINDOW
         => \E k \in DOMAIN early : early[k].id = id /\ early[k].at = meant.ids[id] - 1

CancelInv ==
    /\ TrackerInv /\ Memories /\ GivenGenerations
    /\ EarlyInOrder /\ EndedIsRemembered /\ WaitsAsMeant
    /\ CancellationIsKept /\ OnlyMeantIsCancelled

\* Nothing is tracked, retained or remembered at first.
LEMMA InitCancel == Init => CancelInv
<1> SUFFICES ASSUME Init
             PROVE  CancelInv
    OBVIOUS
<1>1. TrackerInv
      BY InitEstablishes
<1>2. DOMAIN <<>> = {} /\ <<>> \in Seq(Requests) /\ <<>> \in Seq(Ids)
      BY EmptySeq
<1>3. Memories
      BY <1>2 DEF Init, Memories
<1>4. EarlyInOrder /\ EndedIsRemembered /\ WaitsAsMeant
      BY <1>2 DEF Init, EarlyInOrder, Ordered, EndedIsRemembered, WaitsAsMeant
<1>5. GivenGenerations /\ CancellationIsKept /\ OnlyMeantIsCancelled
      BY DEF Init, GivenGenerations, CancellationIsKept, OnlyMeantIsCancelled, Guard
<1> QED BY <1>1, <1>3, <1>4, <1>5 DEF CancelInv

\* track takes the request that waits for its identifier, if it is in time, and
\* leaves the others.
LEMMA TrackKeepsCancel ==
    ASSUME CancelInv, NEW g \in Guards, track(g), TrackerInv'
    PROVE  CancelInv'
<1> USE DEF CancelInv, TrackerInv, Entries
<1> DEFINE id == guard[g].id
           generation == next_generation + 1
<1>1. guard[g].pc = "coming" /\ id \in Ids
      BY DEF track, OwnGeneration
<1>2. now' = now /\ ended' = ended /\ forgotten' = forgotten
      BY DEF track
<1>3. CASE running[id] # 0
  <2>1. /\ guard' = [guard EXCEPT ![g].pc = "ended"]
        /\ UNCHANGED <<running, early, released, next_generation, cancelled, meant>>
        BY <1>3 DEF track, tracker
  <2>2. Memories' /\ GivenGenerations' /\ EarlyInOrder' /\ EndedIsRemembered' /\ WaitsAsMeant'
        BY <1>2, <2>1 DEF Memories, GivenGenerations, EarlyInOrder, EndedIsRemembered,
                          WaitsAsMeant
  <2>3. CancellationIsKept' /\ OnlyMeantIsCancelled'
        BY <1>2, <2>1 DEF CancellationIsKept, OnlyMeantIsCancelled
  <2> QED BY <2>2, <2>3
<1>4. CASE running[id] = 0
  <2> DEFINE inTime == /\ meant.ids[id] > 0
                       /\ now - (meant.ids[id] - 1) <= EARLY_CANCEL_WINDOW
  <2>1. /\ next_generation' = generation
        /\ running' = [running EXCEPT ![id] = generation]
        /\ cancelled' = IF Has(forget_expired, id) THEN cancelled \cup {generation} ELSE cancelled
        /\ early' = Without(forget_expired, id)
        /\ guard' = [guard EXCEPT ![g] = Guard("tracked", id, generation)]
        /\ meant' = [meant EXCEPT
             !.generations = IF inTime THEN @ \cup {generation} ELSE @, !.ids[id] = 0]
        /\ released' = released
        BY <1>4 DEF track
  <2>2. /\ meant'.ids = [meant.ids EXCEPT ![id] = 0]
        /\ meant'.generations = IF inTime THEN meant.generations \cup {generation}
                                ELSE meant.generations
        /\ meant' \in [generations : SUBSET Nat, ids : [Ids -> Nat]]
        BY <1>1, <2>1 DEF Memories
  <2>3. /\ forget_expired \in Seq(Requests) /\ Ordered(forget_expired)
        /\ Within(forget_expired, early)
        /\ \A k \in DOMAIN forget_expired : Recent(forget_expired[k])
        /\ \A j \in DOMAIN early :
             Recent(early[j]) => \E k \in DOMAIN forget_expired : forget_expired[k] = early[j]
        BY ForgetExpired DEF Memories, EarlyInOrder
  <2>4. /\ early' \in Seq(Requests) /\ Ordered(early')
        /\ Within(early', forget_expired) /\ ~ Has(early', id)
        /\ \A j \in DOMAIN forget_expired :
             forget_expired[j].id # id => \E k \in DOMAIN early' : early'[k] = forget_expired[j]
    <3> DEFINE fresh == forget_expired
    <3> HIDE DEF fresh, id
    <3>1. LET others == Without(fresh, id)
          IN  /\ others \in Seq(Requests) /\ Ordered(others) /\ Within(others, fresh)
              /\ ~ Has(others, id)
              /\ \A j \in DOMAIN fresh :
                   fresh[j].id # id => \E k \in DOMAIN others : others[k] = fresh[j]
          BY <1>1, <2>3, TakenOut DEF fresh
    <3> QED BY <2>1, <3>1 DEF fresh, id
  <2>5. \A k \in DOMAIN early' :
          early'[k].id # id /\ \E j \in DOMAIN early : early'[k] = early[j]
        BY <2>3, <2>4 DEF Within, Has
  <2>6. \A k \in DOMAIN early : early[k].id \in Ids /\ early[k].at \in Nat
    <3>1. \A k \in DOMAIN early : early[k] \in Requests
          BY ElementOfSeq, LenProperties DEF Memories
    <3> QED BY <3>1 DEF Requests
  <2>7. Memories'
        BY <1>2, <2>1, <2>2, <2>4 DEF Memories
  <2>8. GivenGenerations'
        BY <1>1, <2>1, <2>2 DEF GivenGenerations
  <2>9. EarlyInOrder'
        BY <1>2, <2>4, <2>5 DEF EarlyInOrder
  <2>10. EndedIsRemembered'
        BY <1>2, <2>1 DEF EndedIsRemembered
  <2>11. WaitsAsMeant'
    <3>1. ASSUME NEW k \in DOMAIN early', early'[k].id \notin forgotten
          PROVE  meant'.ids[early'[k].id] = early'[k].at + 1
      <4>1. PICK j \in DOMAIN early : early'[k] = early[j] /\ early[j].id # id
            BY <2>5
      <4>2. meant'.ids[early[j].id] = meant.ids[early[j].id]
            BY <2>2, <2>6, <4>1 DEF Memories
      <4> QED BY <3>1, <4>1, <4>2 DEF WaitsAsMeant
    <3>2. ASSUME NEW i \in Ids, meant'.ids[i] > 0, i \notin forgotten,
                 now - (meant'.ids[i] - 1) <= EARLY_CANCEL_WINDOW
          PROVE  \E k \in DOMAIN early' : early'[k].id = i /\ early'[k].at = meant'.ids[i] - 1
      <4>1. i # id /\ meant'.ids[i] = meant.ids[i]
            BY <1>1, <2>2, <3>2 DEF Memories
      <4>2. PICK j \in DOMAIN early : early[j].id = i /\ early[j].at = meant.ids[i] - 1
            BY <3>2, <4>1 DEF WaitsAsMeant
      <4>3. Recent(early[j])
            BY <3>2, <4>1, <4>2 DEF Recent
      <4>4. PICK l \in DOMAIN forget_expired : forget_expired[l] = early[j]
            BY <2>3, <4>3
      <4>5. \E k \in DOMAIN early' : early'[k] = forget_expired[l]
            BY <2>4, <4>1, <4>2, <4>4
      <4> QED BY <4>1, <4>2, <4>4, <4>5
    <3> QED BY <1>2, <3>1, <3>2 DEF WaitsAsMeant
  \* The new command is cancelled if and only if a request sent for it is in time.
  <2>12. ASSUME id \notin forgotten
         PROVE  inTime <=> Has(forget_expired, id)
    <3>1. ASSUME inTime PROVE Has(forget_expired, id)
      <4>1. PICK j \in DOMAIN early : early[j].id = id /\ early[j].at = meant.ids[id] - 1
            BY <1>1, <2>12, <3>1 DEF WaitsAsMeant
      <4>2. Recent(early[j])
            BY <3>1, <4>1 DEF Recent
      <4> QED BY <2>3, <4>1, <4>2 DEF Has
    <3>2. ASSUME Has(forget_expired, id) PROVE inTime
      <4>1. PICK k \in DOMAIN forget_expired : forget_expired[k].id = id
            BY <3>2 DEF Has
      <4>2. PICK j \in DOMAIN early : forget_expired[k] = early[j]
            BY <2>3 DEF Within
      <4>3. early[j].id = id /\ Recent(early[j])
            BY <2>3, <4>1, <4>2
      <4>4. meant.ids[id] = early[j].at + 1 /\ early[j].at \in Nat
            BY <2>6, <2>12, <4>3 DEF WaitsAsMeant
      <4> QED BY SMTT(30), <4>3, <4>4 DEF Recent, Memories
    <3> QED BY <3>1, <3>2
  <2>13. \A h \in Guards \ {g} : guard'[h] = guard[h]
         BY <2>1
  <2>14. guard'[g].id = id /\ guard'[g].generation = generation
         BY <2>1 DEF Guard
  <2>15. generation \notin cancelled /\ generation \notin meant.generations
         BY DEF GivenGenerations
  <2>16. \A h \in Guards \ {g} : guard[h].pc = "tracked" => guard[h].generation # generation
         BY DEF OwnGeneration
  <2> HIDE DEF inTime
  <2>17. CancellationIsKept'
    <3> SUFFICES ASSUME NEW h \in Guards, guard'[h].pc = "tracked",
                        guard'[h].generation \in meant'.generations
                 PROVE  guard'[h].generation \in cancelled' \/ guard'[h].id \in forgotten
        BY <1>2 DEF CancellationIsKept
    <3>1. CASE h = g
          BY <2>1, <2>2, <2>12, <2>14, <2>15, <3>1
    <3>2. CASE h # g
          BY <2>1, <2>2, <2>13, <2>16, <3>2 DEF CancellationIsKept
    <3> QED BY <3>1, <3>2
  <2>18. OnlyMeantIsCancelled'
    <3> SUFFICES ASSUME NEW h \in Guards, guard'[h].pc = "tracked",
                        guard'[h].generation \in cancelled'
                 PROVE  guard'[h].generation \in meant'.generations \/ guard'[h].id \in forgotten
        BY <1>2 DEF OnlyMeantIsCancelled
    <3>1. CASE h = g
          BY <2>1, <2>2, <2>12, <2>14, <2>15, <3>1
    <3>2. CASE h # g
          BY <2>1, <2>2, <2>13, <2>16, <3>2 DEF OnlyMeantIsCancelled
    <3> QED BY <3>1, <3>2
  <2> QED BY <2>7, <2>8, <2>9, <2>10, <2>11, <2>17, <2>18
<1> QED BY <1>3, <1>4

\* cancel reaches what runs, spares what ended, and retains the rest.
LEMMA CancelKeepsCancel ==
    ASSUME CancelInv, NEW id \in Ids, cancel(id), TrackerInv'
    PROVE  CancelInv'
<1> USE DEF CancelInv, TrackerInv, Entries
<1>1. UNCHANGED <<now, running, released, next_generation, guard, ended>>
      BY DEF cancel
<1>2. CASE running[id] # 0
  <2>1. /\ cancelled' = cancelled \cup {running[id]}
        /\ meant' = [meant EXCEPT !.generations = @ \cup {running[id]}]
        /\ UNCHANGED <<early, forgotten>>
        BY <1>2 DEF cancel
  <2>2. /\ meant'.generations = meant.generations \cup {running[id]}
        /\ meant'.ids = meant.ids
        /\ meant' \in [generations : SUBSET Nat, ids : [Ids -> Nat]]
        BY <2>1 DEF Memories
  <2>3. Memories' /\ EarlyInOrder' /\ EndedIsRemembered'
        BY <1>1, <2>1, <2>2 DEF Memories, EarlyInOrder, EndedIsRemembered
  <2>4. GivenGenerations'
        BY <1>1, <1>2, <2>1, <2>2 DEF GivenGenerations
  <2>5. WaitsAsMeant'
        BY <1>1, <2>1, <2>2 DEF WaitsAsMeant
  <2>6. CancellationIsKept' /\ OnlyMeantIsCancelled'
        BY <1>1, <2>1, <2>2 DEF CancellationIsKept, OnlyMeantIsCancelled
  <2> QED BY <2>3, <2>4, <2>5, <2>6
<1>3. CASE running[id] = 0
  <2> DEFINE fresh == forget_expired
             new == [id |-> id, at |-> now]
  <2>1. /\ cancelled' = cancelled
        /\ meant' = IF id \in ended \/ Has(fresh, id) THEN meant
                    ELSE [meant EXCEPT !.ids[id] = now + 1]
        BY <1>3 DEF cancel
  <2>2. /\ fresh \in Seq(Requests) /\ Ordered(fresh) /\ Within(fresh, early)
        /\ \A k \in DOMAIN fresh : Recent(fresh[k])
        /\ \A j \in DOMAIN early :
             Recent(early[j]) => \E k \in DOMAIN fresh : fresh[k] = early[j]
        BY ForgetExpired DEF Memories, EarlyInOrder
  <2>3. \/ /\ \E k \in DOMAIN released : released[k] = id
           /\ UNCHANGED <<early, forgotten>>
        \/ /\ \A k \in DOMAIN released : released[k] # id
           /\ Has(fresh, id) /\ early' = fresh /\ UNCHANGED forgotten
        \/ /\ \A k \in DOMAIN released : released[k] # id
           /\ ~ Has(fresh, id) /\ early' = Push(fresh, EARLY_CANCELS, new)
           /\ forgotten' = IF Len(fresh) >= EARLY_CANCELS THEN forgotten \cup {fresh[1].id}
                           ELSE forgotten
        BY <1>3 DEF cancel
  <2> HIDE DEF fresh
  <2>4. /\ meant'.generations = meant.generations
        /\ meant' \in [generations : SUBSET Nat, ids : [Ids -> Nat]]
        /\ meant'.ids = IF id \in ended \/ Has(fresh, id) THEN meant.ids
                        ELSE [meant.ids EXCEPT ![id] = now + 1]
    <3>1. meant \in [generations : SUBSET Nat, ids : [Ids -> Nat]] /\ now + 1 \in Nat
          BY DEF Memories
    <3>2. CASE id \in ended \/ Has(fresh, id)
          BY <2>1, <3>1, <3>2
    <3>3. CASE ~ (id \in ended \/ Has(fresh, id))
          BY <2>1, <3>1, <3>3
    <3> QED BY <3>2, <3>3
  <2>5. \A k \in DOMAIN early : early[k].id \in Ids /\ early[k].at \in Nat
    <3>1. \A k \in DOMAIN early : early[k] \in Requests
          BY ElementOfSeq, LenProperties DEF Memories
    <3> QED BY <3>1 DEF Requests
  <2>6. forgotten \subseteq forgotten'
        BY <2>3
  <2>7. GivenGenerations'
        BY <1>1, <2>1, <2>4 DEF GivenGenerations
  <2>8. EndedIsRemembered'
        BY <1>1, <2>6 DEF EndedIsRemembered
  <2>9. CancellationIsKept' /\ OnlyMeantIsCancelled'
        BY <1>1, <2>1, <2>4, <2>6 DEF CancellationIsKept, OnlyMeantIsCancelled
  \* The identifier has just ended: nothing is retained.
  <2>10. CASE /\ \E k \in DOMAIN released : released[k] = id
              /\ UNCHANGED <<early, forgotten>>
    <3>1. meant' = meant
          BY <2>1, <2>10 DEF EndedIsRemembered
    <3>2. Memories' /\ EarlyInOrder' /\ WaitsAsMeant'
          BY <1>1, <2>10, <3>1 DEF Memories, EarlyInOrder, WaitsAsMeant
    <3> QED BY <2>7, <2>8, <2>9, <3>2
  \* A request already waits for it.
  <2>11. CASE /\ \A k \in DOMAIN released : released[k] # id
              /\ Has(fresh, id) /\ early' = fresh /\ UNCHANGED forgotten
    <3>1. meant' = meant
          BY <2>1, <2>11
    <3>2. Memories'
          BY <1>1, <2>2, <2>11, <3>1 DEF Memories
    <3>3. EarlyInOrder'
          BY <1>1, <2>2, <2>11 DEF EarlyInOrder, Within
    <3>4. WaitsAsMeant'
      <4>1. \A k \in DOMAIN fresh :
              fresh[k].id \notin forgotten => meant.ids[fresh[k].id] = fresh[k].at + 1
            BY <2>2 DEF WaitsAsMeant, Within
      <4>2. ASSUME NEW i \in Ids, meant.ids[i] > 0, i \notin forgotten,
                   now - (meant.ids[i] - 1) <= EARLY_CANCEL_WINDOW
            PROVE  \E k \in DOMAIN fresh : fresh[k].id = i /\ fresh[k].at = meant.ids[i] - 1
        <5>1. PICK j \in DOMAIN early : early[j].id = i /\ early[j].at = meant.ids[i] - 1
              BY <4>2 DEF WaitsAsMeant
        <5>2. Recent(early[j])
              BY <4>2, <5>1 DEF Recent
        <5> QED BY <2>2, <5>1, <5>2
      <4> QED BY <1>1, <2>11, <3>1, <4>1, <4>2 DEF WaitsAsMeant
    <3> QED BY <2>7, <2>8, <2>9, <3>2, <3>3, <3>4
  \* The request is retained, the oldest giving way at the bound.
  <2>12. CASE /\ \A k \in DOMAIN released : released[k] # id
              /\ ~ Has(fresh, id) /\ early' = Push(fresh, EARLY_CANCELS, new)
              /\ forgotten' = IF Len(fresh) >= EARLY_CANCELS THEN forgotten \cup {fresh[1].id}
                              ELSE forgotten
    <3>1. new \in Requests /\ new.id = id /\ new.at = now
          BY DEF Requests, Memories
    <3> HIDE DEF new
    <3>2. early' \in Seq(Requests) /\ PushedOnto(fresh, EARLY_CANCELS, new, early')
          BY <2>2, <2>12, <3>1, BoundsAssumption, Pushed
    <3>3. \A j \in DOMAIN fresh : fresh[j].at <= now /\ \E i \in DOMAIN early : fresh[j] = early[i]
          BY <2>2 DEF EarlyInOrder, Within
    <3>4. Memories'
          BY <1>1, <2>4, <3>2 DEF Memories
    <3>5. EarlyInOrder'
      <4>1. Ordered(Push(fresh, EARLY_CANCELS, new))
            BY <2>2, <2>12, <3>1, <3>3, BoundsAssumption, PushedInOrder
      <4>2. ASSUME NEW k \in DOMAIN early'
            PROVE  early'[k].at <= now
        <5>1. CASE early'[k] = new
              BY <3>1, <5>1 DEF Memories
        <5>2. CASE \E j \in DOMAIN fresh : early'[k] = fresh[j]
              BY <3>3, <5>2
        <5> QED BY <3>2, <5>1, <5>2 DEF PushedOnto
      <4> QED BY <1>1, <2>12, <4>1, <4>2 DEF EarlyInOrder
    \* An identifier that ended and is not among those released is forgotten.
    <3>6. id \in ended => id \in forgotten
          BY <2>12 DEF EndedIsRemembered
    <3>7. ASSUME NEW k \in DOMAIN early', early'[k].id \notin forgotten'
          PROVE  meant'.ids[early'[k].id] = early'[k].at + 1
      <4>1. CASE early'[k] = new
            BY <2>4, <2>6, <2>12, <3>1, <3>6, <3>7, <4>1 DEF Memories
      <4>2. CASE early'[k] # new
        <5>1. PICK j \in DOMAIN fresh : early'[k] = fresh[j]
              BY <3>2, <4>2 DEF PushedOnto
        <5>2. PICK i \in DOMAIN early : fresh[j] = early[i]
              BY <3>3
        <5>3. early[i].id # id /\ meant.ids[early[i].id] = early[i].at + 1
              BY <2>6, <2>12, <3>7, <5>1, <5>2 DEF WaitsAsMeant, Has
        <5> QED BY <2>4, <2>5, <5>1, <5>2, <5>3 DEF Memories
      <4> QED BY <4>1, <4>2
    <3>8. ASSUME NEW i \in Ids, meant'.ids[i] > 0, i \notin forgotten',
                 now - (meant'.ids[i] - 1) <= EARLY_CANCEL_WINDOW
          PROVE  \E k \in DOMAIN early' : early'[k].id = i /\ early'[k].at = meant'.ids[i] - 1
      <4>1. CASE i = id
        <5>1. meant'.ids[i] - 1 = now
              BY <2>4, <2>6, <2>12, <3>6, <3>8, <4>1 DEF Memories
        <5> QED BY <3>1, <3>2, <4>1, <5>1 DEF PushedOnto
      <4>2. CASE i # id
        <5>1. meant'.ids[i] = meant.ids[i] /\ i \notin forgotten
              BY <2>4, <2>6, <3>8, <4>2 DEF Memories
        <5>2. PICK j \in DOMAIN early : early[j].id = i /\ early[j].at = meant.ids[i] - 1
              BY <3>8, <5>1 DEF WaitsAsMeant
        <5>3. Recent(early[j])
              BY <3>8, <5>1, <5>2 DEF Recent
        <5>4. PICK l \in DOMAIN fresh : fresh[l] = early[j]
              BY <2>2, <5>3
        <5>5. ~ (Len(fresh) >= EARLY_CANCELS /\ fresh[l] = fresh[1])
              BY <2>12, <3>8, <5>2, <5>4
        <5> QED BY <3>2, <5>1, <5>2, <5>4, <5>5 DEF PushedOnto
      <4> QED BY <4>1, <4>2
    <3>9. WaitsAsMeant'
          BY <1>1, <3>7, <3>8 DEF WaitsAsMeant
    <3> QED BY <2>7, <2>8, <2>9, <3>4, <3>5, <3>9
  <2> QED BY <2>3, <2>10, <2>11, <2>12
<1> QED BY <1>2, <1>3

\* release remembers the identifier it ends, the oldest giving way at the bound.
LEMMA ReleaseKeepsCancel ==
    ASSUME CancelInv, NEW g \in Guards, release(g), TrackerInv'
    PROVE  CancelInv'
<1> USE DEF CancelInv, TrackerInv, Entries
<1> DEFINE id == guard[g].id
<1>1. /\ guard[g].pc = "tracked" /\ id \in Ids /\ running[id] = guard[g].generation
      /\ guard' = [guard EXCEPT ![g].pc = "ended"]
      /\ running' = [running EXCEPT ![id] = 0]
      /\ released' = Push(released, RELEASED, id)
      /\ ended' = ended \cup {id}
      /\ forgotten' = IF Len(released) >= RELEASED THEN forgotten \cup {released[1]}
                      ELSE forgotten
      /\ UNCHANGED <<now, early, next_generation, cancelled, meant>>
      BY DEF release, OwnGeneration, RunningIsReachable
<1>2. released' \in Seq(Ids) /\ PushedOnto(released, RELEASED, id, released')
      BY <1>1, BoundsAssumption, Pushed DEF Memories
<1>3. Memories'
      BY <1>1, <1>2 DEF Memories
<1>4. EndedIsRemembered'
      BY <1>1, <1>2 DEF EndedIsRemembered, PushedOnto
<1>5. GivenGenerations'
      BY <1>1 DEF GivenGenerations
<1>6. EarlyInOrder' /\ WaitsAsMeant'
      BY <1>1 DEF EarlyInOrder, WaitsAsMeant
<1>7. CancellationIsKept' /\ OnlyMeantIsCancelled'
      BY <1>1 DEF CancellationIsKept, OnlyMeantIsCancelled
<1> QED BY <1>3, <1>4, <1>5, <1>6, <1>7

\* Every step keeps what the tracker's memories promise.
LEMMA NextKeepsCancel == CancelInv /\ [Next]_vars => CancelInv'
<1> SUFFICES ASSUME CancelInv, [Next]_vars
             PROVE  CancelInv'
    OBVIOUS
<1>1. TrackerInv'
      BY StepPreserves DEF CancelInv
<1>2. ASSUME NEW g \in Guards, NEW id \in Ids, Invoke(g, id)
      PROVE  CancelInv'
      BY <1>1, <1>2 DEF Invoke, Guard, tracker, CancelInv, TrackerInv, Entries, Memories,
         GivenGenerations, EarlyInOrder, EndedIsRemembered, WaitsAsMeant, CancellationIsKept,
         OnlyMeantIsCancelled
<1>3. ASSUME NEW g \in Guards, track(g)
      PROVE  CancelInv'
      BY <1>1, <1>3, TrackKeepsCancel
<1>4. ASSUME NEW g \in Guards, release(g)
      PROVE  CancelInv'
      BY <1>1, <1>4, ReleaseKeepsCancel
<1>5. ASSUME NEW id \in Ids, cancel(id)
      PROVE  CancelInv'
      BY <1>1, <1>5, CancelKeepsCancel
<1>6. CASE Tick
  <2>1. now' = now + 1 /\ now \in Nat
        BY <1>6 DEF Tick, CancelInv, Memories
  <2>2. \A k \in DOMAIN early : early[k] \in Requests
        BY ElementOfSeq, LenProperties DEF CancelInv, Memories
  <2>3. Memories' /\ GivenGenerations' /\ EndedIsRemembered'
        BY <1>6, <2>1 DEF Tick, tracker, CancelInv, Memories, GivenGenerations,
           EndedIsRemembered
  <2>4. EarlyInOrder'
        BY <1>6, <2>1, <2>2 DEF Tick, tracker, CancelInv, EarlyInOrder, Requests
  <2>5. WaitsAsMeant'
        BY <1>6, <2>1, BoundsAssumption DEF Tick, tracker, CancelInv, Memories, WaitsAsMeant
  <2>6. CancellationIsKept' /\ OnlyMeantIsCancelled'
        BY <1>6 DEF Tick, tracker, CancelInv, CancellationIsKept, OnlyMeantIsCancelled
  <2> QED BY <1>1, <2>3, <2>4, <2>5, <2>6 DEF CancelInv
<1>7. CASE UNCHANGED vars
      BY <1>1, <1>7 DEF vars, CancelInv, Memories, GivenGenerations, EarlyInOrder,
         EndedIsRemembered, WaitsAsMeant, CancellationIsKept, OnlyMeantIsCancelled
<1> QED BY <1>2, <1>3, <1>4, <1>5, <1>6, <1>7 DEF Next

\* What waits, what ended and what is cancelled agree in every behaviour of the
\* tracker.
THEOREM CancelInvariant == Spec => []CancelInv
<1>1. Init => CancelInv
      BY InitCancel
<1>2. CancelInv /\ [Next]_vars => CancelInv'
      BY NextKeepsCancel
<1> QED BY <1>1, <1>2, PTL DEF Spec

\* A cancellation sent for a command, running or in the delay before it is
\* tracked, cancels it, unless a bound pushed the request out (cancel,
\* take_early).
THEOREM CancellationIsKeptHolds == Spec => []CancellationIsKept
<1>1. CancelInv => CancellationIsKept
      BY DEF CancelInv
<1> QED BY <1>1, CancelInvariant, PTL

\* Only a cancellation sent for it cancels a command: one that arrives as its
\* identifier ends spares the approval that follows, while released remembers
\* the identifier (cancel, release).
THEOREM OnlyMeantIsCancelledHolds == Spec => []OnlyMeantIsCancelled
<1>1. CancelInv => OnlyMeantIsCancelled
      BY DEF CancelInv
<1> QED BY <1>1, CancelInvariant, PTL

-----------------------------------------------------------------------------
(* Leaving the application, for every number of windows and of exits or closes *)
(* asked at once.                                                              *)

\* The types the argument needs.
ExitTyped ==
    /\ step \in [Steps -> StepStates]
    /\ draft \in [Writers -> {"held", "submitted", "written"}]
    /\ due \subseteq Writers /\ live \subseteq Windows

\* Past begin_shutdown: the layouts saved, the drafts flushed and awaited, the
\* close recorded.
Shuts(t) == step[t].pc \in {"layouts", "flushing", "writes", "recording", "leaving"}

\* LocalWork::closing is swapped once: one exit flushes and records, or a forced
\* one does.
OneShutdown ==
    /\ \A t, u \in Steps : Shuts(t) /\ Shuts(u) => t = u
    /\ forced => \A t \in Steps : ~ Shuts(t)
    /\ forced \/ (\E t \in Steps : Shuts(t)) => begun

\* Its writes are not awaited yet.
BeforeWrites(t) == step[t].pc \in {"layouts", "flushing"}

\* What the close has to wait for is fixed before the close is queued, of
\* drafts already submitted, and is written once it is queued.
WaitsForDrafts ==
    /\ \A w \in due : draft[w] # "held"
    /\ process = "alive" /\ (~ begun \/ \E t \in Steps : BeforeWrites(t))
       => recorder = "none" /\ ~ recorded
    /\ recorder # "none" => \A w \in due : draft[w] = "written"

ExitInv == ExitTyped /\ OneShutdown /\ WaitsForDrafts /\ CloseOverNothing

\* Nothing is due before anything is asked.
LEMMA InitExitInv == ExitInit => ExitInv
BY DEF ExitInit, NoStep, StepStates, Pcs, ExitInv, ExitTyped, OneShutdown,
       Shuts, BeforeWrites, WaitsForDrafts, CloseOverNothing

\* What leaves the drafts and the close alone, and moves no exit into the
\* shutdown nor in it, keeps the invariant: all that asks and answers.
LEMMA AskingKeepsExit ==
    ASSUME ExitInv, UNCHANGED local, UNCHANGED process, live' \subseteq live,
           step' \in [Steps -> StepStates],
           \A t \in Steps : Shuts(t) \/ Shuts(t)' => step'[t].pc = step[t].pc
    PROVE  ExitInv'
<1> USE DEF ExitInv, local
<1>1. \A t \in Steps : /\ Shuts(t)' <=> Shuts(t)
                       /\ BeforeWrites(t)' <=> BeforeWrites(t)
  BY DEF Shuts, BeforeWrites
<1>2. ExitTyped' /\ CloseOverNothing'
  BY DEF ExitTyped, CloseOverNothing
<1>3. OneShutdown'
  BY <1>1 DEF OneShutdown
<1>4. WaitsForDrafts'
  BY <1>1 DEF WaitsForDrafts
<1> QED
  BY <1>2, <1>3, <1>4

\* An exit or a close that is listing or waiting is not in the shutdown.
LEMMA ExitStepKeepsExit ==
    ASSUME ExitInv, NEW t \in Steps,
           AskExit(t) \/ ExitStep(t) \/ \E w \in Windows : AskClose(t, w)
    PROVE  ExitInv'
<1>1. UNCHANGED <<local, process, live>>
  BY DEF registry, AskExit, ExitStep, AskClose, NothingOpen, FindOpen, Ask,
         Decide, CloseAsk, CloseDecide
<1>2. ASSUME NEW s \in StepStates, step' = [step EXCEPT ![t] = s],
             ~ Shuts(t),
             s.pc \notin {"layouts", "flushing", "writes", "recording", "leaving"}
      PROVE  ExitInv'
  <2>1. step' \in [Steps -> StepStates]
    BY <1>2 DEF ExitInv, ExitTyped
  <2>2. /\ step'[t] = s /\ \A u \in Steps \ {t} : step'[u] = step[u]
    BY <1>2 DEF ExitInv, ExitTyped
  <2>3. \A u \in Steps : Shuts(u) \/ Shuts(u)' => step'[u].pc = step[u].pc
    BY <1>2, <2>2 DEF Shuts
  <2> QED
    BY <1>1, <2>1, <2>3, AskingKeepsExit
<1>3. NoStep \in StepStates /\ NoStep.pc = "idle"
  BY DEF NoStep, StepStates, Pcs
<1>4. step[t] \in StepStates
  BY DEF ExitInv, ExitTyped
<1>5. CASE AskExit(t)
  <2>1. [NoStep EXCEPT !.pc = "listing"] \in StepStates
    BY DEF NoStep, StepStates, Pcs
  <2>2. [NoStep EXCEPT !.pc = "listing"].pc = "listing"
    BY DEF NoStep
  <2> QED
    BY <1>2, <1>5, <2>1, <2>2 DEF AskExit, At, Shuts
<1>6. ASSUME NEW w \in Windows, AskClose(t, w) PROVE ExitInv'
  <2>1. [NoStep EXCEPT !.pc = "listing", !.of = w] \in StepStates
    BY DEF NoStep, StepStates, Pcs
  <2>2. [NoStep EXCEPT !.pc = "listing", !.of = w].pc = "listing"
    BY DEF NoStep
  <2> QED
    BY <1>2, <1>6, <2>1, <2>2 DEF AskClose, At, Shuts
<1>7. ASSUME Proceed(t, "Listing") \/ Proceed(t, "Asking"), ~ Shuts(t) PROVE ExitInv'
  <2>1. [NoStep EXCEPT !.pc = "proceeding"] \in StepStates
    BY DEF NoStep, StepStates, Pcs
  <2>2. [NoStep EXCEPT !.pc = "proceeding"].pc = "proceeding"
    BY DEF NoStep
  <2>3. \E s \in {NoStep, [NoStep EXCEPT !.pc = "proceeding"]} :
          step' = [step EXCEPT ![t] = s]
    BY <1>7 DEF Proceed
  <2> QED
    BY <1>2, <1>3, <1>7, <2>1, <2>2, <2>3
<1>8. ASSUME NEW found \in SUBSET Windows, ~ Shuts(t),
             step' = [step EXCEPT ![t] = [step[t] EXCEPT !.pc = "waiting", !.list = found]]
      PROVE  ExitInv'
  <2>1. [step[t] EXCEPT !.pc = "waiting", !.list = found] \in StepStates
    BY <1>4 DEF StepStates, Pcs
  <2>2. [step[t] EXCEPT !.pc = "waiting", !.list = found].pc = "waiting"
    BY <1>4 DEF StepStates
  <2> QED
    BY <1>2, <1>8, <2>1, <2>2
<1>9. ASSUME Ends(t), ~ Shuts(t) PROVE ExitInv'
  BY <1>2, <1>3, <1>9 DEF Ends
<1>10. CASE ExitStep(t)
  <2>1. ~ Shuts(t)
    BY <1>10 DEF ExitStep, NothingOpen, FindOpen, Ask, Decide, CloseAsk,
                 CloseDecide, Answered, At, Shuts
  <2>2. CASE NothingOpen(t)
    BY <1>7, <2>1, <2>2 DEF NothingOpen
  <2>3. CASE Ask(t)
    BY <1>8, <1>9, <2>1, <2>3 DEF Ask, ExitInv, ExitTyped
  <2>4. CASE Decide(t)
    BY <1>7, <1>9, <2>1, <2>4 DEF Decide
  <2>5. CASE CloseAsk(t)
    <3>1. CASE Ends(t)
      BY <1>9, <2>1, <3>1
    <3>2. CASE ~ Ends(t)
      <4>1. /\ step[t].of \in live
            /\ step' = [step EXCEPT ![t] = [step[t] EXCEPT !.pc = "waiting", !.list = {step[t].of}]]
        BY <2>5, <3>2 DEF CloseAsk
      <4>2. {step[t].of} \in SUBSET Windows
        BY <4>1 DEF ExitInv, ExitTyped
      <4> QED
        BY <1>8, <2>1, <4>1, <4>2
    <3> QED
      BY <3>1, <3>2
  <2>6. CASE CloseDecide(t)
    BY <1>9, <2>1, <2>6 DEF CloseDecide
  <2>7. CASE FindOpen(t)
    <3>1. step' = [step EXCEPT ![t] = [step[t] EXCEPT !.pc = "reading"]]
      BY <2>7 DEF FindOpen, Goes, ExitInv, ExitTyped
    <3>2. /\ [step[t] EXCEPT !.pc = "reading"] \in StepStates
          /\ [step[t] EXCEPT !.pc = "reading"].pc = "reading"
      BY <1>4 DEF StepStates, Pcs
    <3> QED
      BY <1>2, <2>1, <3>1, <3>2
  <2> QED
    BY <1>10, <2>2, <2>3, <2>4, <2>5, <2>6, <2>7 DEF ExitStep
<1> QED
  BY <1>5, <1>6, <1>10

\* The user and the webviews move no exit.
LEMMA WindowKeepsExit ==
    ASSUME ExitInv, NEW w \in Windows,
           \/ Acknowledge(w) \/ Cancel(w) \/ confirm_window_close(w)
           \/ Destroyed(w)
    PROVE  ExitInv'
<1>1. UNCHANGED <<local, process>> /\ live' \subseteq live
  BY DEF Acknowledge, Cancel, confirm_window_close, Destroyed
<1>2. /\ step' \in [Steps -> StepStates]
      /\ \A t \in Steps : step'[t].pc = step[t].pc
  <2>1. CASE step' = step
    BY <2>1 DEF ExitInv, ExitTyped
  <2>2. CASE step' = [t \in Steps |-> [step[t] EXCEPT !.abandoned =
                                         IsExit(t) /\ step[t].pc = "waiting"]]
    <3>1. ASSUME NEW t \in Steps
          PROVE  step'[t] \in StepStates /\ step'[t].pc = step[t].pc
      <4>1. PICK b \in BOOLEAN : step'[t] = [step[t] EXCEPT !.abandoned = b]
        BY <2>2 DEF IsExit
      <4>2. step[t] \in StepStates
        BY DEF ExitInv, ExitTyped
      <4> QED
        BY <4>1, <4>2 DEF StepStates
    <3> QED
      BY <2>2, <3>1
  <2> QED
    BY <2>1, <2>2 DEF Acknowledge, Cancel, confirm_window_close,
                      Destroyed
<1> QED
  BY <1>1, <1>2, AskingKeepsExit

\* A draft only goes from its webview to the disk.
LEMMA DraftKeepsExit ==
    ASSUME ExitInv, NEW w \in Writers, Submit(w) \/ Written(w)
    PROVE  ExitInv'
<1> USE DEF ExitInv, ExitTyped, registry
<1>1. UNCHANGED <<live, step, begun, forced, recorder, recorded, due, process>>
  BY DEF Submit, Written
<1>2. PICK d \in {"submitted", "written"} :
        /\ draft' = [draft EXCEPT ![w] = d]
        /\ draft[w] # "written"
        /\ d = "submitted" => draft[w] = "held"
  BY DEF Submit, Written
<1>7. draft'[w] = d /\ \A v \in Writers \ {w} : draft'[v] = draft[v]
  BY <1>2
<1>3. ExitTyped'
  BY <1>1, <1>2
<1>4. OneShutdown'
  BY <1>1 DEF OneShutdown, Shuts
<1>5. WaitsForDrafts'
  BY <1>1, <1>2, <1>7 DEF WaitsForDrafts, BeforeWrites
<1>6. CloseOverNothing'
  BY <1>1, <1>2, <1>7 DEF CloseOverNothing
<1> QED
  BY <1>3, <1>4, <1>5, <1>6

\* The process ends: the disk stays as it is.
LEMMA GoneKeepsExit ==
    ASSUME ExitInv, Gone
    PROVE  ExitInv'
<1>1. ExitTyped'
  BY DEF ExitInv, ExitTyped, Gone, NoStep, StepStates, Pcs
<1>2. OneShutdown' /\ WaitsForDrafts' /\ CloseOverNothing'
  BY DEF ExitInv, Gone, NoStep, OneShutdown, Shuts, WaitsForDrafts,
         BeforeWrites, CloseOverNothing
<1> QED
  BY <1>1, <1>2 DEF ExitInv

\* The shutdown: the layouts saved, the drafts flushed, then the writes awaited, then the close recorded.
LEMMA ShutdownKeepsExit ==
    ASSUME ExitInv, NEW t \in Steps, ShutdownStep(t)
    PROVE  ExitInv'
<1> USE DEF ExitInv, registry
<1>1. CASE Leave(t)
  BY <1>1, GoneKeepsExit DEF Leave
<1>2. ASSUME NEW where \in {"layouts", "flushing", "writes", "recording", "leaving"},
             Goes(t, where), UNCHANGED <<live, draft, forced, process>>, due' \subseteq Writers
      PROVE  /\ ExitTyped'
             /\ step'[t].pc = where /\ \A u \in Steps \ {t} : step'[u] = step[u]
             /\ Shuts(t)' /\ \A u \in Steps \ {t} : Shuts(u)' <=> Shuts(u)
  BY <1>2 DEF Goes, ExitTyped, StepStates, Pcs, Shuts
<1>3. CASE BeginShutdown(t)
  <2>1. /\ step[t].pc = "proceeding" /\ process = "alive"
        /\ UNCHANGED <<live, draft, forced, recorder, recorded, due, process>> /\ begun' = TRUE
    BY <1>3 DEF BeginShutdown, At
  <2>2. CASE begun /\ Ends(t)
    <3>1. /\ step' \in [Steps -> StepStates]
          /\ step'[t].pc = "idle" /\ \A u \in Steps \ {t} : step'[u] = step[u]
      BY <2>2 DEF Ends, ExitTyped, NoStep, StepStates, Pcs
    <3>2. ExitTyped' /\ CloseOverNothing'
      BY <2>1, <3>1 DEF ExitTyped, CloseOverNothing
    <3>3. OneShutdown' /\ WaitsForDrafts'
      BY <2>1, <2>2, <3>1 DEF OneShutdown, Shuts, WaitsForDrafts, BeforeWrites
    <3> QED
      BY <3>2, <3>3
  <2>3. CASE ~ begun /\ Goes(t, "layouts")
    <3>1. /\ ExitTyped'
          /\ step'[t].pc = "layouts" /\ \A u \in Steps \ {t} : step'[u] = step[u]
          /\ Shuts(t)' /\ \A u \in Steps \ {t} : Shuts(u)' <=> Shuts(u)
      BY <1>2, <2>1, <2>3 DEF ExitTyped
    <3>2. OneShutdown'
      BY <2>1, <2>3, <3>1 DEF OneShutdown
    <3>3. WaitsForDrafts' /\ CloseOverNothing'
      BY <2>1, <2>3 DEF WaitsForDrafts, CloseOverNothing
    <3> QED
      BY <3>1, <3>2, <3>3
  <2> QED
    BY <1>3, <2>2, <2>3 DEF BeginShutdown
<1>4. ASSUME NEW where \in {"flushing", "writes", "recording", "leaving"}, Shuts(t),
             Goes(t, where),
             UNCHANGED <<live, draft, begun, forced, process>>, due' \subseteq Writers,
             WaitsForDrafts', CloseOverNothing'
      PROVE  ExitInv'
  <2>1. /\ ExitTyped' /\ Shuts(t)' /\ \A u \in Steps \ {t} : Shuts(u)' <=> Shuts(u)
    BY <1>2, <1>4
  <2>2. OneShutdown'
    BY <1>4, <2>1 DEF OneShutdown
  <2> QED
    BY <1>4, <2>1, <2>2
<1>5. CASE Flushed(t)
  <2>1. /\ step[t].pc = "flushing" /\ process = "alive" /\ Goes(t, "writes")
        /\ due' = Submitted
        /\ UNCHANGED <<live, draft, begun, forced, recorder, recorded, process>>
    BY <1>5 DEF Flushed, At
  <2>2. recorder = "none" /\ ~ recorded
    BY <2>1 DEF WaitsForDrafts, BeforeWrites
  <2>3. WaitsForDrafts' /\ CloseOverNothing' /\ due' \subseteq Writers
    BY <2>1, <2>2 DEF WaitsForDrafts, CloseOverNothing, Submitted
  <2>4. Shuts(t)
    BY <2>1 DEF Shuts
  <2> QED
    BY <1>4, <2>1, <2>3, <2>4
<1>6. CASE WritesDone(t)
  <2>1. /\ step[t].pc = "writes" /\ process = "alive" /\ Goes(t, "recording")
        /\ Pending = {} /\ recorder' = "queued"
        /\ UNCHANGED <<live, draft, begun, forced, recorded, due, process>>
    BY <1>6 DEF WritesDone, At
  <2>2. Shuts(t) /\ \A u \in Steps \ {t} : ~ Shuts(u)
    BY <2>1 DEF Shuts, OneShutdown
  <2>3. \A w \in due : draft[w] = "written"
    BY <2>1 DEF WaitsForDrafts, ExitTyped, Pending
  <2>4. begun
    BY <2>2 DEF OneShutdown
  <2>5. /\ step'[t].pc = "recording" /\ \A u \in Steps \ {t} : ~ Shuts(u)'
    BY <1>2, <2>1, <2>2 DEF ExitTyped
  <2>6. WaitsForDrafts' /\ CloseOverNothing' /\ due' \subseteq Writers
    BY <2>1, <2>3, <2>4, <2>5
       DEF WaitsForDrafts, BeforeWrites, CloseOverNothing, ExitTyped, Shuts
  <2> QED
    BY <1>4, <2>1, <2>2, <2>6
<1>7. CASE RecordDone(t) \/ GiveUp(t)
  <2>1. /\ Shuts(t) /\ Goes(t, "leaving")
        /\ UNCHANGED <<live, draft, begun, forced, recorder, recorded, due, process>>
    BY <1>7 DEF RecordDone, GiveUp, At, local, Shuts
  <2>2. /\ step'[t].pc = "leaving" /\ \A u \in Steps \ {t} : step'[u] = step[u]
    BY <1>2, <2>1 DEF ExitTyped
  <2>3. WaitsForDrafts' /\ CloseOverNothing' /\ due' \subseteq Writers
    BY <2>1, <2>2 DEF WaitsForDrafts, BeforeWrites, CloseOverNothing, ExitTyped
  <2> QED
    BY <1>4, <2>1, <2>3
<1>8. CASE SaveLayouts(t)
  <2>1. /\ BeforeWrites(t) /\ Shuts(t) /\ Goes(t, "flushing") /\ process = "alive"
        /\ UNCHANGED <<live, draft, begun, forced, recorder, recorded, due, process>>
    BY <1>8 DEF SaveLayouts, At, local, BeforeWrites, Shuts
  <2>2. recorder = "none" /\ ~ recorded
    BY <2>1 DEF WaitsForDrafts
  <2>3. WaitsForDrafts' /\ CloseOverNothing' /\ due' \subseteq Writers
    BY <2>1, <2>2 DEF WaitsForDrafts, CloseOverNothing, ExitTyped
  <2> QED
    BY <1>4, <2>1, <2>3
<1> QED
  BY <1>1, <1>3, <1>5, <1>6, <1>7, <1>8 DEF ShutdownStep

\* Every step of the exits and the closes keeps the invariant.
LEMMA NextExitInv == ExitInv /\ [ExitNext]_exitVars => ExitInv'
<1> SUFFICES ASSUME ExitInv, [ExitNext]_exitVars PROVE ExitInv'
  OBVIOUS
<1>1. ASSUME UNCHANGED <<live, step, draft, begun, forced, process>>, due' \subseteq Writers,
             WaitsForDrafts', CloseOverNothing'
      PROVE  ExitInv'
  BY <1>1 DEF ExitInv, ExitTyped, OneShutdown, Shuts
<1> USE DEF registry
<1>2. CASE UNCHANGED exitVars
  BY <1>2, AskingKeepsExit DEF ExitInv, ExitTyped, exitVars, local
<1>3. CASE Record
  <2>1. WaitsForDrafts' /\ CloseOverNothing' /\ due' \subseteq Writers
    BY <1>3 DEF Record, ExitInv, ExitTyped, WaitsForDrafts, BeforeWrites,
                CloseOverNothing
  <2> QED
    BY <1>1, <1>3, <2>1 DEF Record
<1>4. CASE ForcedWritesDone
  <2>1. begun /\ \A t \in Steps : ~ BeforeWrites(t)
    BY <1>4 DEF ForcedWritesDone, ExitInv, OneShutdown, Shuts, BeforeWrites
  <2>2. \A w \in due : draft[w] = "written"
    BY <1>4 DEF ForcedWritesDone, ExitInv, ExitTyped, WaitsForDrafts, Pending
  <2>3. WaitsForDrafts' /\ CloseOverNothing' /\ due' \subseteq Writers
    BY <1>4, <2>1, <2>2
       DEF ForcedWritesDone, ExitInv, ExitTyped, WaitsForDrafts, BeforeWrites,
           CloseOverNothing
  <2> QED
    BY <1>1, <1>4, <2>3 DEF ForcedWritesDone
<1>5. CASE Terminate
  <2>1. /\ UNCHANGED <<live, step, draft, recorder, recorded, process>>
        /\ process = "alive" /\ ~ begun /\ begun' = TRUE /\ due' = Submitted
    BY <1>5 DEF Terminate
  <2>2. recorder = "none" /\ ~ recorded /\ \A t \in Steps : ~ Shuts(t)
    BY <2>1 DEF ExitInv, WaitsForDrafts, OneShutdown
  <2>3. WaitsForDrafts' /\ CloseOverNothing' /\ ExitTyped'
    BY <2>1, <2>2 DEF ExitInv, ExitTyped, WaitsForDrafts, CloseOverNothing, Submitted
  <2>4. OneShutdown'
    BY <2>1, <2>2 DEF OneShutdown, Shuts
  <2> QED
    BY <2>3, <2>4 DEF ExitInv
<1>6. CASE ForcedEnd \/ Crash
  BY <1>6, GoneKeepsExit DEF ForcedEnd, Crash
<1>7. CASE \E t \in Steps : \/ AskExit(t) \/ ExitStep(t) \/ ShutdownStep(t)
                            \/ \E w \in Windows : AskClose(t, w)
  BY <1>7, ExitStepKeepsExit, ShutdownKeepsExit
<1>8. CASE \E w \in Windows : \/ Acknowledge(w) \/ Cancel(w)
                            \/ confirm_window_close(w) \/ Destroyed(w)
  BY <1>8, WindowKeepsExit
<1>9. CASE \E w \in Writers : Submit(w) \/ Written(w)
  BY <1>9, DraftKeepsExit
<1> QED
  BY <1>2, <1>3, <1>4, <1>5, <1>6, <1>7, <1>8, <1>9 DEF ExitNext

\* A close on disk is never over unwritten work, whatever the number of windows
\* and of exits asked, and however the process ends
\* (close_session_after_local_writes, close_on_forced_exit).
THEOREM CloseOverNothingHolds == ExitSpec => []CloseOverNothing
<1>1. ExitSpec => []ExitInv
  BY InitExitInv, NextExitInv, PTL DEF ExitSpec
<1>2. ExitInv => CloseOverNothing
  BY DEF ExitInv
<1> QED
  BY <1>1, <1>2, PTL
=============================================================================

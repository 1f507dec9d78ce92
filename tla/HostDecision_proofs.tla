------------------------- MODULE HostDecision_proofs -------------------------
(* The dialog of the host decides what it showed, and keeps the promise of      *)
(* ProductionConsent, whatever the number of calls, of requests and of          *)
(* identifiers, and whatever the delays.                                        *)
EXTENDS HostDecision, FiniteSetTheorems, TLAPS

\* A call, with no bound on the clock.
CallRecords ==
    [at : {"idle", "looking", "reading", "asking", "answered", "refusing", "granting", "running"},
     id : Ids \cup {Nobody}, held : Requests \cup {NoRequest}, due : Nat,
     ok : BOOLEAN, shown : Nat, marked : BOOLEAN, read : BOOLEAN]

Screens ==
    [stage : {"free", "queued", "shown"}, by : Deciders \cup {Nobody}, at : Nat]

RegistryTyped ==
    /\ queue.pending \in [Ids -> Requests \cup {NoRequest}]
    /\ fate \in [Whats -> {"unused", "waiting", "granted", "ended"}]

HostTyped ==
    /\ now \in Nat /\ RegistryTyped
    /\ production \in BOOLEAN /\ slot \in BOOLEAN
    /\ ask \in [Deciders -> CallRecords]
    /\ screen \in Screens

\* A call that has the slot, and one that looked at a request.
Using == {"reading", "asking", "answered"}
Holding == Using \cup {"granting"}

\* A request waits exactly while it is in the registry, under one identifier.
WaitsInRegistry ==
    /\ \A w \in Whats :
         fate[w] = "waiting" <=> \E i \in Waiting(queue) : queue.pending[i].what = w
    /\ \A i, j \in Waiting(queue) : queue.pending[i].what = queue.pending[j].what => i = j

\* The slot is taken exactly while a call uses it, and one call does.
OneUser ==
    /\ slot <=> \E d \in Deciders : ask[d].at \in Using
    /\ \A d, e \in Deciders : ask[d].at \in Using /\ ask[e].at \in Using => d = e

\* A call tracks its identifier, which no other call has.
OwnIdentifier ==
    /\ \A d \in Deciders : ask[d].id # Nobody => ask[d].id \in tracked
    /\ \A d, e \in Deciders : ask[d].id = ask[e].id /\ ask[d].id # Nobody => d = e

\* What a call r carries at each of its places: an answer that passes was read
\* slowly enough, and in time.
Shaped(r) ==
    /\ r.at = "idle" => r.id = Nobody
    /\ r.at \in {"looking", "reading", "granting", "running"} => r.id # Nobody
    /\ r.at \notin Holding => r.held = NoRequest
    /\ r.at \in Using => IF r.id = Nobody THEN r.held = NoRequest
                         ELSE r.held # NoRequest /\ r.held.what \in Mutating
    /\ r.at \notin {"answered", "granting"} => ~ r.read
    /\ r.at = "asking" => now <= r.due
    /\ r.at = "answered" => (r.read <=> r.ok /\ now - r.shown >= MinDelay)
    /\ r.at = "granting" /\ ~ r.read /\ r.held # NoRequest =>
         ~ r.marked \/ r.held.what \notin Mutating

\* Nothing is submitted under the identifier of a call: what waits there is what
\* it looked at, until it leaves.
Backed(r) ==
    r.at \in Holding /\ r.id # Nobody =>
        /\ queue.pending[r.id] \in {r.held, NoRequest}
        /\ r.held # NoRequest =>
             /\ fate[r.held.what] # "unused"
             /\ fate[r.held.what] = "waiting" => queue.pending[r.id] = r.held

CallsShaped == \A d \in Deciders : Shaped(ask[d])
CallsBacked == \A d \in Deciders : Backed(ask[d])

\* The screen belongs to a call that awaits its dialog, or to nobody.
ScreenOwned ==
    /\ screen.by # Nobody => ask[screen.by].at = "asking"
    /\ screen.stage = "free" => screen.by = Nobody

HostInv ==
    /\ HostTyped /\ WaitsInRegistry /\ OneUser /\ OwnIdentifier
    /\ CallsShaped /\ CallsBacked /\ ScreenOwned

-----------------------------------------------------------------------------
(* The registry *)

\* Requests only leave the registry, and what leaves it no longer waits.
Shrinks ==
    /\ RegistryTyped' /\ WaitsInRegistry'
    /\ \A i \in Ids : queue'.pending[i] \in {queue.pending[i], NoRequest}
    /\ \A w \in Whats : /\ fate'[w] = "unused" => fate[w] = "unused"
                        /\ fate'[w] = "waiting" => fate[w] = "waiting"
    /\ \A i \in Waiting(queue) :
         fate'[queue.pending[i].what] = "waiting" => queue'.pending[i] = queue.pending[i]

\* Nothing leaves.
LEMMA StillShrinks ==
    ASSUME HostInv, UNCHANGED <<queue, fate>>
    PROVE  Shrinks
BY DEF Shrinks, HostInv, HostTyped, RegistryTyped, WaitsInRegistry, Waiting

\* What take, reject and sweep do to the registry.
LEMMA RemoveShrinks ==
    ASSUME HostInv, NEW S \in SUBSET Ids, NEW f \in {"granted", "ended"}, Remove(S, f)
    PROVE  /\ Shrinks
           /\ \A i \in S : queue'.pending[i] = NoRequest
           /\ \A w \in Whats : fate'[w] # fate[w] => fate'[w] = f /\ fate[w] = "waiting"
<1> USE DEF HostInv, HostTyped, RegistryTyped
<1>1. /\ queue'.pending = [i \in Ids |-> IF i \in S THEN NoRequest ELSE queue.pending[i]]
      /\ fate' = [w \in Whats |-> IF \E i \in S : queue.pending[i] # NoRequest
                                               /\ queue.pending[i].what = w
                                  THEN f ELSE fate[w]]
      BY DEF Remove, without, Queue
<1>2. \A i \in Ids : /\ queue'.pending[i] = IF i \in S THEN NoRequest ELSE queue.pending[i]
                     /\ i \in Waiting(queue) => queue.pending[i].what \in Whats
      BY <1>1 DEF Waiting, Requests
<1>3. Waiting(queue)' = Waiting(queue) \ S
      BY <1>1, <1>2 DEF Waiting
<1>4. \A w \in Whats : fate'[w] = IF \E i \in Waiting(queue) \cap S : queue.pending[i].what = w
                                  THEN f ELSE fate[w]
      BY <1>1 DEF Waiting
<1>5. RegistryTyped'
      BY <1>1
<1>6. WaitsInRegistry'
  <2>1. ASSUME NEW w \in Whats
        PROVE  fate'[w] = "waiting" <=> \E i \in Waiting(queue)' : queue'.pending[i].what = w
    <3>1. CASE \E i \in Waiting(queue) \cap S : queue.pending[i].what = w
      <4>1. fate'[w] = f
            BY <1>4, <3>1
      <4>2. \A i \in Waiting(queue) \ S : queue.pending[i].what # w
            BY <3>1 DEF WaitsInRegistry
      <4> QED BY <1>2, <1>3, <4>1, <4>2 DEF Waiting
    <3>2. CASE ~ \E i \in Waiting(queue) \cap S : queue.pending[i].what = w
      <4>1. fate'[w] = fate[w]
            BY <1>4, <3>2
      <4> QED BY <1>2, <1>3, <3>2, <4>1 DEF WaitsInRegistry, Waiting
    <3> QED BY <3>1, <3>2
  <2>2. \A i, j \in Waiting(queue)' : queue'.pending[i].what = queue'.pending[j].what => i = j
        BY <1>2, <1>3 DEF WaitsInRegistry, Waiting
  <2> QED BY <2>1, <2>2 DEF WaitsInRegistry
<1>7. \A w \in Whats : fate'[w] # fate[w] => fate'[w] = f /\ fate[w] = "waiting"
      BY <1>4 DEF WaitsInRegistry
<1>8. \A i \in Waiting(queue) :
        fate'[queue.pending[i].what] = "waiting" => queue'.pending[i] = queue.pending[i]
      BY <1>2, <1>4 DEF Waiting
<1> QED BY <1>2, <1>5, <1>6, <1>7, <1>8 DEF Shrinks

\* A call that has seen a request is none the worse for its leaving.
LEMMA BackedUnderShrinking ==
    ASSUME HostInv, Shrinks, NEW r \in CallRecords, Backed(r)
    PROVE  Backed(r)'
<1> SUFFICES ASSUME r.at \in Holding, r.id # Nobody
             PROVE  /\ queue'.pending[r.id] \in {r.held, NoRequest}
                    /\ r.held # NoRequest =>
                         /\ fate'[r.held.what] # "unused"
                         /\ fate'[r.held.what] = "waiting" => queue'.pending[r.id] = r.held
    BY DEF Backed
<1>1. r.id \in Ids /\ (r.held # NoRequest => r.held.what \in Whats)
      BY DEF CallRecords, Requests
<1>2. queue.pending[r.id] \in {r.held, NoRequest}
      BY DEF Backed
<1>3. queue'.pending[r.id] \in {r.held, NoRequest}
      BY <1>1, <1>2 DEF Shrinks
<1>4. ASSUME r.held # NoRequest
      PROVE  fate'[r.held.what] # "unused"
      BY <1>1, <1>4 DEF Backed, Shrinks
<1>5. ASSUME r.held # NoRequest, fate'[r.held.what] = "waiting"
      PROVE  queue'.pending[r.id] = r.held
  <2>1. queue.pending[r.id] = r.held
        BY <1>1, <1>5 DEF Backed, Shrinks
  <2>2. r.id \in Waiting(queue)
        BY <1>1, <1>5, <2>1 DEF Waiting
  <2> QED BY <1>5, <2>1, <2>2 DEF Shrinks
<1> QED BY <1>3, <1>4, <1>5

-----------------------------------------------------------------------------
(* The calls *)

\* A step of one call: it becomes r, the others stay as they are.  What it gives
\* back of its identifier, the slot and the screen was its own.
LEMMA StepOfOneCall ==
    ASSUME HostInv, NEW d \in Deciders, NEW r \in CallRecords,
           ask' = [ask EXCEPT ![d] = r], now' = now, Shrinks, production' \in BOOLEAN,
           Shaped(r), Backed(r)',
           tracked \ {ask[d].id} \subseteq tracked',
           r.id # Nobody => r.id \in tracked' /\ (r.id = ask[d].id \/ r.id \notin tracked),
           slot' = (r.at \in Using \/ (slot /\ ask[d].at \notin Using)),
           r.at \in Using => ask[d].at \in Using \/ ~ slot,
           screen' \in Screens, screen'.stage = "free" => screen'.by = Nobody,
           screen'.by = d => r.at = "asking",
           screen'.by # d => screen'.by \in {screen.by, Nobody}
    PROVE  HostInv'
<1> USE DEF HostInv, HostTyped
<1>1. \A e \in Deciders : ask'[e] = IF e = d THEN r ELSE ask[e]
      OBVIOUS
<1>2. HostTyped'
      BY DEF Shrinks
<1>3. OneUser'
  <2>1. CASE r.at \in Using
    <3>1. \A e \in Deciders \ {d} : ask[e].at \notin Using
          BY <2>1 DEF OneUser
    <3> QED BY <1>1, <2>1, <3>1 DEF OneUser
  <2>2. CASE r.at \notin Using /\ ask[d].at \in Using
    <3>1. \A e \in Deciders \ {d} : ask[e].at \notin Using
          BY <2>2 DEF OneUser
    <3> QED BY <1>1, <2>2, <3>1 DEF OneUser
  <2>3. CASE r.at \notin Using /\ ask[d].at \notin Using
        BY <1>1, <2>3 DEF OneUser
  <2> QED BY <2>1, <2>2, <2>3
<1>4. OwnIdentifier'
  <2>1. ASSUME NEW e \in Deciders, ask'[e].id # Nobody
        PROVE  ask'[e].id \in tracked'
    <3>1. CASE e = d
          BY <1>1, <2>1, <3>1
    <3>2. CASE e # d
          BY <1>1, <2>1, <3>2 DEF OwnIdentifier
    <3> QED BY <3>1, <3>2
  <2>2. ASSUME NEW e \in Deciders, NEW g \in Deciders, ask'[e].id = ask'[g].id,
               ask'[e].id # Nobody
        PROVE  e = g
        BY <1>1, <2>2 DEF OwnIdentifier
  <2> QED BY <2>1, <2>2 DEF OwnIdentifier
<1>5. CallsShaped'
      BY <1>1 DEF CallsShaped, Shaped
<1>6. CallsBacked'
  <2> SUFFICES ASSUME NEW e \in Deciders
               PROVE  Backed(ask[e])'
      BY DEF CallsBacked
  <2>1. CASE e = d
        BY <1>1, <2>1 DEF Backed
  <2>2. CASE e # d
    <3>1. ask[e] \in CallRecords /\ Backed(ask[e])
          BY DEF CallsBacked
    <3> DEFINE s == ask[e]
    <3>2. ask'[e] = s
          BY <1>1, <2>2
    <3>3. s \in CallRecords /\ Backed(s)
          BY <3>1
    <3> HIDE DEF s
    <3> QED BY <3>2, <3>3, BackedUnderShrinking DEF Backed
  <2> QED BY <2>1, <2>2
<1>7. ScreenOwned'
      BY <1>1 DEF ScreenOwned, Screens
<1>8. WaitsInRegistry'
      BY DEF Shrinks
<1> QED BY <1>2, <1>3, <1>4, <1>5, <1>6, <1>7, <1>8

\* No call, no request and no dialog at first.
LEMMA InitHost == Init => HostInv
<1> SUFFICES ASSUME Init
             PROVE  HostInv
    OBVIOUS
<1>1. /\ Idle \in CallRecords /\ Idle.at = "idle" /\ Idle.id = Nobody
      /\ Idle.held = NoRequest /\ ~ Idle.read
      BY DEF Idle, CallRecords
<1>2. queue.pending = [i \in Ids |-> NoRequest] /\ Waiting(queue) = {}
      BY DEF Init, EmptyQueue, Queue, Waiting
<1>3. ask \in [Deciders -> CallRecords] /\ \A d \in Deciders : ask[d] = Idle
      BY <1>1 DEF Init
<1>4. screen = Blank /\ screen \in Screens /\ screen.by = Nobody
      BY DEF Init, Blank, Screens
<1>5. HostTyped
      BY <1>2, <1>3, <1>4 DEF Init, HostTyped, RegistryTyped
<1>6. WaitsInRegistry
      BY <1>2 DEF Init, WaitsInRegistry
<1>7. OneUser /\ OwnIdentifier
      BY <1>1, <1>3 DEF Init, OneUser, OwnIdentifier, Using
<1>8. CallsShaped /\ CallsBacked
      BY <1>1, <1>3 DEF CallsShaped, CallsBacked, Shaped, Backed, Using, Holding
<1>9. ScreenOwned
      BY <1>4 DEF ScreenOwned
<1> QED BY <1>5, <1>6, <1>7, <1>8, <1>9 DEF HostInv

\* The registry's own steps, when what waits only leaves.
LEMMA ShrinkingKeepsInv ==
    ASSUME HostInv, Shrinks, UNCHANGED <<now, calls>>
    PROVE  HostInv'
<1> USE DEF HostInv, HostTyped, calls
<1>1. HostTyped' /\ WaitsInRegistry'
      BY DEF Shrinks
<1>2. OneUser' /\ OwnIdentifier' /\ ScreenOwned'
      BY DEF OneUser, OwnIdentifier, ScreenOwned
<1>3. CallsShaped'
      BY DEF CallsShaped, Shaped
<1>4. CallsBacked'
  <2> SUFFICES ASSUME NEW d \in Deciders
               PROVE  Backed(ask[d])'
      BY DEF CallsBacked
  <2> DEFINE r == ask[d]
  <2>1. r \in CallRecords /\ Backed(r) /\ ask'[d] = r
        BY DEF CallsBacked
  <2> HIDE DEF r
  <2> QED BY <2>1, BackedUnderShrinking DEF Backed
<1> QED BY <1>1, <1>2, <1>3, <1>4

\* A command is submitted under an identifier no call tracks.
LEMMA DispatchKeepsInv ==
    ASSUME HostInv, NEW id \in Ids, NEW w \in Whats, Dispatch(id, w)
    PROVE  /\ HostInv'
           /\ \A v \in Whats \ {w} : fate'[v] # fate[v] => fate'[v] = "ended" /\ fate[v] = "waiting"
           /\ fate[w] = "unused" /\ fate'[w] \in {"waiting", "ended"}
<1> USE DEF HostInv, HostTyped, RegistryTyped
<1> DEFINE S == Stale(queue, now)
           q == without(queue, S)
           gone == {queue.pending[i].what : i \in S}
           r == [what |-> w, expires_at |-> now + Ttl]
<1>1. /\ id \notin tracked /\ fate[w] = "unused" /\ UNCHANGED <<now, calls>>
      /\ queue' = IF Admits(q, id) THEN admit(q, id, w, now) ELSE q
      /\ fate' = [v \in Whats |-> IF v = w THEN IF Admits(q, id) THEN "waiting" ELSE "ended"
                                  ELSE IF v \in gone THEN "ended" ELSE fate[v]]
      BY DEF Dispatch, submit
<1>2. S \subseteq Waiting(queue) /\ Waiting(queue) \subseteq Ids
      BY DEF Stale, Waiting
<1>3. q.pending = [i \in Ids |-> IF i \in S THEN NoRequest ELSE queue.pending[i]]
      BY DEF without, Queue
<1>4. r \in Requests /\ r # NoRequest /\ r.what = w
      BY TtlAssumption, NoRequestAssumption DEF Requests
<1>5. queue'.pending = [i \in Ids |-> IF i = id /\ Admits(q, id) THEN r
                                      ELSE IF i \in S THEN NoRequest ELSE queue.pending[i]]
      BY <1>1, <1>3 DEF admit, Queue
<1>6. Admits(q, id) => id \notin Waiting(queue) \/ id \in S
      BY <1>3 DEF Admits, Waiting
<1>7. \A i \in Waiting(queue) : queue.pending[i].what # w /\ queue.pending[i].what \in Whats
      BY <1>1 DEF WaitsInRegistry, Waiting, Requests
<1>8. \A v \in Whats : (v \in gone) <=> \E i \in S : queue.pending[i].what = v
      OBVIOUS
<1>9. \A v \in Whats \ {w} :
        fate'[v] # fate[v] => fate'[v] = "ended" /\ fate[v] = "waiting"
      BY <1>1, <1>2, <1>8 DEF WaitsInRegistry
<1>10. fate'[w] = IF Admits(q, id) THEN "waiting" ELSE "ended"
      BY <1>1
<1> HIDE DEF S, q, r, gone
<1>11. RegistryTyped'
  <2>1. queue'.pending \in [Ids -> Requests \cup {NoRequest}]
        BY <1>4, <1>5
  <2> QED BY <1>1, <2>1
<1>12. ASSUME NEW i \in Ids
       PROVE  /\ i \in Waiting(queue)' <=> (i = id /\ Admits(q, id)) \/ i \in Waiting(queue) \ S
              /\ i = id /\ Admits(q, id) => queue'.pending[i] = r
              /\ ~ (i = id /\ Admits(q, id)) /\ i \in Waiting(queue)' =>
                   queue'.pending[i] = queue.pending[i]
       BY <1>2, <1>4, <1>5 DEF Waiting
<1>13. WaitsInRegistry'
  <2>1. ASSUME NEW v \in Whats
        PROVE  fate'[v] = "waiting" <=> \E i \in Waiting(queue)' : queue'.pending[i].what = v
    <3>1. CASE v = w
      <4>1. \A i \in Waiting(queue)' : queue'.pending[i].what = w => i = id /\ Admits(q, id)
            BY <1>2, <1>7, <1>12 DEF Waiting
      <4>2. Admits(q, id) => id \in Waiting(queue)' /\ queue'.pending[id].what = w
            BY <1>4, <1>12
      <4> QED BY <1>10, <3>1, <4>1, <4>2
    <3>2. CASE v # w
      <4>1. fate'[v] = "waiting" <=> fate[v] = "waiting" /\ ~ \E i \in S : queue.pending[i].what = v
            BY <1>1, <1>8, <3>2
      <4>2. fate'[v] = "waiting" <=> \E i \in Waiting(queue) \ S : queue.pending[i].what = v
            BY <1>2, <4>1 DEF WaitsInRegistry
      <4>3. \A i \in Waiting(queue) \ S :
              ~ (i = id /\ Admits(q, id)) /\ i \in Waiting(queue)' /\ queue'.pending[i] = queue.pending[i]
            BY <1>2, <1>6, <1>12
      <4>4. \A i \in Waiting(queue)' : queue'.pending[i].what = v =>
              i \in Waiting(queue) \ S /\ queue'.pending[i] = queue.pending[i]
            BY <1>4, <1>12, <3>2 DEF Waiting
      <4> QED BY <4>2, <4>3, <4>4
    <3> QED BY <3>1, <3>2
  <2>2. ASSUME NEW i \in Waiting(queue)', NEW j \in Waiting(queue)',
               queue'.pending[i].what = queue'.pending[j].what
        PROVE  i = j
    <3>1. i \in Ids /\ j \in Ids
          BY DEF Waiting
    <3>2. \A k \in Ids : k \in Waiting(queue)' /\ ~ (k = id /\ Admits(q, id)) =>
            k \in Waiting(queue) /\ queue'.pending[k] = queue.pending[k] /\ queue'.pending[k].what # w
          BY <1>7, <1>12
    <3>3. \A k \in Ids : k = id /\ Admits(q, id) => queue'.pending[k].what = w
          BY <1>4, <1>12
    <3> QED BY <2>2, <3>1, <3>2, <3>3 DEF WaitsInRegistry
  <2> QED BY <2>1, <2>2 DEF WaitsInRegistry
<1>14. CallsBacked'
  <2> SUFFICES ASSUME NEW d \in Deciders, ask[d].at \in Holding, ask[d].id # Nobody
               PROVE  /\ queue'.pending[ask[d].id] \in {ask[d].held, NoRequest}
                      /\ ask[d].held # NoRequest =>
                           /\ fate'[ask[d].held.what] # "unused"
                           /\ fate'[ask[d].held.what] = "waiting" =>
                                queue'.pending[ask[d].id] = ask[d].held
      BY <1>1 DEF CallsBacked, Backed, calls
  <2> DEFINE i == ask[d].id
             h == ask[d].held
  <2>1. i \in Ids /\ i # id /\ (h # NoRequest => h.what \in Whats) /\ h \in Requests \cup {NoRequest}
        BY <1>1 DEF OwnIdentifier, CallRecords, Requests
  <2>2. /\ queue.pending[i] \in {h, NoRequest}
        /\ h # NoRequest => /\ fate[h.what] # "unused"
                            /\ fate[h.what] = "waiting" => queue.pending[i] = h
        BY DEF CallsBacked, Backed
  <2> HIDE DEF i, h
  <2>3. queue'.pending[i] = IF i \in S THEN NoRequest ELSE queue.pending[i]
        BY <1>5, <2>1
  <2>4. ASSUME h # NoRequest
        PROVE  /\ fate'[h.what] # "unused"
               /\ fate'[h.what] = "waiting" => queue'.pending[i] = h
    <3>1. h.what # w /\ h.what \in Whats
          BY <1>1, <2>1, <2>2, <2>4
    <3>2. fate'[h.what] = IF h.what \in gone THEN "ended" ELSE fate[h.what]
          BY <1>1, <3>1
    <3>3. i \in S /\ queue.pending[i] = h => h.what \in gone
          BY <1>8, <3>1
    <3> QED BY <2>2, <2>3, <2>4, <3>2, <3>3
  <2>5. queue'.pending[i] \in {h, NoRequest}
        BY <2>2, <2>3
  <2> QED BY <2>4, <2>5 DEF i, h
<1>15. HostTyped' /\ OneUser' /\ OwnIdentifier' /\ CallsShaped' /\ ScreenOwned'
       BY <1>1, <1>11 DEF calls, OneUser, OwnIdentifier, CallsShaped, Shaped, ScreenOwned
<1>16. HostInv'
       BY <1>13, <1>14, <1>15
<1> QED BY <1>1, <1>9, <1>10, <1>16

-----------------------------------------------------------------------------
(* Each step of a call *)

\* A call that is over, or not yet at its request: it carries no more than an
\* identifier of its own, and has given the slot and the screen back.
LEMMA RestingCall ==
    ASSUME HostInv, NEW d \in Deciders, NEW at \in {"idle", "looking", "refusing", "running"},
           NEW id \in Ids \cup {Nobody}, at = "idle" => id = Nobody,
           at \in {"looking", "running"} => id # Nobody,
           id # Nobody => id \in tracked' /\ (id = ask[d].id \/ id \notin tracked),
           ask' = [ask EXCEPT ![d] = [Idle EXCEPT !.at = at, !.id = id]],
           now' = now, Shrinks, production' \in BOOLEAN,
           tracked \ {ask[d].id} \subseteq tracked',
           slot' = (slot /\ ask[d].at \notin Using),
           screen' \in Screens, screen'.stage = "free" => screen'.by = Nobody,
           screen'.by # d, screen'.by \in {screen.by, Nobody}
    PROVE  HostInv'
<1> DEFINE r == [Idle EXCEPT !.at = at, !.id = id]
<1>1. /\ r \in CallRecords /\ r.at = at /\ r.id = id /\ r.held = NoRequest /\ ~ r.read
      BY DEF Idle, CallRecords
<1>2. ask' = [ask EXCEPT ![d] = r]
      OBVIOUS
<1> HIDE DEF r
<1>3. r.at \notin Holding /\ r.at \notin Using
      BY <1>1 DEF Holding, Using
<1>4. Shaped(r) /\ Backed(r)'
      BY <1>1, <1>3 DEF Shaped, Backed, Holding, Using
<1> QED BY <1>1, <1>2, <1>3, <1>4, StepOfOneCall

\* The screen, where a call that awaits no dialog leaves it.
LEMMA ScreenAsIs ==
    ASSUME HostInv, NEW d \in Deciders, ask[d].at # "asking", UNCHANGED screen
    PROVE  /\ screen' \in Screens /\ screen'.by # d /\ screen'.by \in {screen.by, Nobody}
           /\ screen'.stage = "free" => screen'.by = Nobody
BY HostAssumption DEF HostInv, HostTyped, ScreenOwned

\* The end of a call that has no slot.
LEMMA EndKeepsInv ==
    ASSUME HostInv, NEW d \in Deciders, ask[d].at \notin Using, End(d), Shrinks,
           UNCHANGED <<now, production, slot, screen>>
    PROVE  HostInv'
<1>1. ask[d].at # "asking"
      BY DEF Using
<1>2. ask' = [ask EXCEPT ![d] = [Idle EXCEPT !.at = "idle", !.id = Nobody]]
      BY DEF End, Idle
<1>3. production' \in BOOLEAN /\ slot' = (slot /\ ask[d].at \notin Using)
      BY DEF HostInv, HostTyped
<1>4. tracked \ {ask[d].id} \subseteq tracked'
      BY DEF End
<1> QED BY <1>1, <1>2, <1>3, <1>4, ScreenAsIs, RestingCall

\* A user decides on a request: the call tracks its identifier.
LEMMA DecideKeepsInv ==
    ASSUME HostInv, NEW d \in Deciders, NEW id \in Ids, Decide(d, id)
    PROVE  HostInv'
<1>1. ask[d].at \notin Using /\ ask[d].at # "asking"
      BY DEF Decide, Using
<1>2. id # Nobody
      BY HostAssumption
<1>3. Shrinks
      BY StillShrinks DEF Decide, registry
<1>4. production' \in BOOLEAN /\ slot' = (slot /\ ask[d].at \notin Using)
      BY <1>1 DEF HostInv, HostTyped, Decide
<1> QED BY <1>1, <1>2, <1>3, <1>4, ScreenAsIs, RestingCall DEF Decide, registry

\* confirm_held looks at the request: nothing can be submitted there after.
LEMMA LookKeepsInv ==
    ASSUME HostInv, NEW d \in Deciders, Look(d)
    PROVE  HostInv'
<1> DEFINE id == ask[d].id
           held == queue.pending[id]
<1> USE DEF HostInv, HostTyped
<1>1. /\ ask[d].at \notin Using /\ ask[d].at = "looking"
      /\ UNCHANGED <<now, queue, fate, production, screen>>
      BY DEF Look, Using, registry
<1>2. Shrinks
      BY <1>1, StillShrinks
<1>3. CASE Critical(held) /\ slot
      BY <1>1, <1>2, <1>3, EndKeepsInv DEF Look
<1>4. CASE ~ (Critical(held) /\ slot)
  <2>2. id \in Ids /\ id # Nobody
        BY <1>1 DEF CallsShaped, Shaped, CallRecords
  <2>3. held \in Requests \cup {NoRequest}
        BY <2>2 DEF RegistryTyped
  <2>4. ask[d] \in CallRecords /\ ~ ask[d].read /\ production \in BOOLEAN
        BY <1>1 DEF CallsShaped, Shaped
  <2> DEFINE n == [ask[d] EXCEPT !.at = IF Critical(held) THEN "reading" ELSE "granting",
                                 !.held = held, !.marked = production]
  <2>0. /\ n \in CallRecords /\ n.id = id /\ n.held = held /\ ~ n.read /\ n.marked = production
        /\ n.at = IF Critical(held) THEN "reading" ELSE "granting"
        BY <2>3, <2>4 DEF CallRecords
  <2>1. /\ ask' = [ask EXCEPT ![d] = n]
        /\ slot' = (slot \/ Critical(held)) /\ UNCHANGED tracked
        BY <1>4 DEF Look
  <2> HIDE DEF n
  <2>5. PICK r \in CallRecords : r = n
        BY <2>0
  <2>6. r.at \in Using <=> Critical(held)
        BY <2>0, <2>5 DEF Using
  <2>7. Shaped(r)
        BY <2>0, <2>2, <2>5, <2>6 DEF Shaped, Holding, Using, Critical
  <2>8. held # NoRequest => fate[held.what] = "waiting"
        BY <2>2, <2>3 DEF WaitsInRegistry, Waiting, Requests
  <2>9. Backed(r)'
        BY <1>1, <2>0, <2>5, <2>8 DEF Backed
  <2>10. slot' = (r.at \in Using \/ (slot /\ ask[d].at \notin Using))
        BY <1>1, <2>1, <2>6
  <2>11. r.at \in Using => ~ slot
        BY <1>4, <2>6
  <2>12. r.id # Nobody => r.id \in tracked' /\ r.id = ask[d].id
        BY <2>0, <2>1, <2>5 DEF OwnIdentifier
  <2>13. tracked \ {ask[d].id} \subseteq tracked'
        BY <2>1
  <2>14. /\ screen' \in Screens /\ screen'.by # d /\ screen'.by \in {screen.by, Nobody}
         /\ screen'.stage = "free" => screen'.by = Nobody
        BY <1>1, ScreenAsIs
  <2> HIDE DEF HostInv
  <2> QED BY <1>1, <1>2, <2>1, <2>4, <2>5, <2>7, <2>9, <2>10, <2>11, <2>12, <2>13, <2>14, StepOfOneCall
<1> QED BY <1>3, <1>4

\* A step from the slot to the slot: the call keeps its identifier and request.
LEMMA DialogStep ==
    ASSUME HostInv, NEW d \in Deciders, NEW r \in CallRecords,
           ask[d].at \in Using, r.at \in {"asking", "answered"},
           r.id = ask[d].id, r.held = ask[d].held, ask' = [ask EXCEPT ![d] = r],
           r.at = "asking" => ~ r.read /\ now <= r.due,
           r.at = "answered" => (r.read <=> r.ok /\ now - r.shown >= MinDelay),
           UNCHANGED <<registry, production, tracked, slot>>,
           screen' \in Screens, screen'.stage = "free" => screen'.by = Nobody,
           screen'.by = d => r.at = "asking",
           screen'.by # d => screen'.by \in {screen.by, Nobody}
    PROVE  HostInv'
<1> USE DEF HostInv, HostTyped
<1>1. Shaped(ask[d]) /\ Backed(ask[d]) /\ r.at \in Using /\ ask[d].at \in Holding
      BY DEF CallsShaped, CallsBacked, Using, Holding
<1>2. Shaped(r)
      BY <1>1 DEF Shaped, Using, Holding
<1>3. Backed(r)'
      BY <1>1 DEF Backed, registry
<1>4. Shrinks
      BY StillShrinks DEF registry
<1>5. r.id # Nobody => r.id \in tracked' /\ r.id = ask[d].id
      BY DEF OwnIdentifier
<1>6. slot' = (r.at \in Using \/ (slot /\ ask[d].at \notin Using))
      BY <1>1 DEF OneUser
<1>7. production' \in BOOLEAN /\ now' = now /\ tracked \ {ask[d].id} \subseteq tracked'
      BY DEF registry
<1> HIDE DEF HostInv
<1> QED BY <1>1, <1>2, <1>3, <1>4, <1>5, <1>6, <1>7, StepOfOneCall

\* The dialog is refused before it is drawn, or not drawn.
LEMMA NotDrawn ==
    ASSUME HostInv, NEW d \in Deciders, ask[d].at = "asking",
           ask' = [ask EXCEPT ![d] = [ask[d] EXCEPT !.at = "answered", !.ok = FALSE]],
           UNCHANGED <<registry, production, tracked, slot>>,
           screen' \in Screens, screen'.stage = "free" => screen'.by = Nobody,
           screen'.by \in {screen.by, Nobody}, screen'.by # d
    PROVE  HostInv'
<1> DEFINE n == [ask[d] EXCEPT !.at = "answered", !.ok = FALSE]
<1>1. ask[d] \in CallRecords /\ ~ ask[d].read /\ ask[d].at \in Using
      BY DEF HostInv, HostTyped, CallsShaped, Shaped, Using
<1>2. /\ n \in CallRecords /\ n.at = "answered" /\ n.id = ask[d].id /\ n.held = ask[d].held
      /\ ~ n.read /\ ~ n.ok
      BY <1>1 DEF CallRecords
<1>3. ask' = [ask EXCEPT ![d] = n]
      OBVIOUS
<1> HIDE DEF n
<1> QED BY <1>1, <1>2, <1>3, DialogStep

\* read_config, then the dialog is asked for.
LEMMA ReadConfigKeepsInv ==
    ASSUME HostInv, NEW d \in Deciders, ReadConfig(d)
    PROVE  HostInv'
<1>1. /\ ask[d].at = "reading" /\ ask[d] \in CallRecords /\ ask[d].id \in tracked
      /\ ask[d].id \in Ids \cup {Nobody} /\ ask[d].at \in Using /\ ~ ask[d].read
      BY DEF ReadConfig, HostInv, HostTyped, CallsShaped, Shaped, OwnIdentifier, CallRecords, Using
<1>2. UNCHANGED <<registry, production, tracked, screen>>
      BY DEF ReadConfig
<1>3. /\ screen' \in Screens /\ screen'.by # d /\ screen'.by \in {screen.by, Nobody}
      /\ screen'.stage = "free" => screen'.by = Nobody
      BY <1>1, <1>2, ScreenAsIs
<1>4. Shrinks /\ now' = now /\ production' \in BOOLEAN
      BY <1>2, StillShrinks DEF registry, HostInv, HostTyped
<1>5. CASE ask' = [ask EXCEPT ![d] = [@ EXCEPT !.at = "asking", !.due = now + Deadline]] /\ UNCHANGED slot
  <2> DEFINE n == [ask[d] EXCEPT !.at = "asking", !.due = now + Deadline]
  <2>1. now + Deadline \in Nat /\ now <= now + Deadline
        BY HostAssumption DEF HostInv, HostTyped
  <2>2. /\ n \in CallRecords /\ n.at = "asking" /\ n.id = ask[d].id /\ n.held = ask[d].held
        /\ ~ n.read /\ n.due = now + Deadline
        BY <1>1, <2>1 DEF CallRecords
  <2>3. ask' = [ask EXCEPT ![d] = n]
        BY <1>5
  <2> HIDE DEF n
  <2> QED BY <1>1, <1>2, <1>3, <1>5, <2>1, <2>2, <2>3, DialogStep
<1>6. CASE ask' = [ask EXCEPT ![d] = Refused(d)] /\ slot' = FALSE
  <2>1. ask' = [ask EXCEPT ![d] = [Idle EXCEPT !.at = "refusing", !.id = ask[d].id]]
        BY <1>6 DEF Refused
  <2> QED BY <1>1, <1>2, <1>3, <1>4, <1>6, <2>1, RestingCall
<1> QED BY <1>5, <1>6 DEF ReadConfig

\* A dialog about no request.
LEMMA AskOtherKeepsInv ==
    ASSUME HostInv, NEW d \in Deciders, AskOther(d)
    PROVE  HostInv'
<1> DEFINE r == [Idle EXCEPT !.at = "asking", !.due = now + Deadline]
<1>1. ask[d].at = "idle" /\ ~ slot /\ slot' /\ UNCHANGED <<registry, production, tracked, screen>>
      BY DEF AskOther
<1>2. now + Deadline \in Nat /\ now <= now + Deadline
      BY HostAssumption DEF HostInv, HostTyped
<1>3. /\ r \in CallRecords /\ r.at = "asking" /\ r.id = Nobody /\ r.held = NoRequest
      /\ ~ r.read /\ r.due = now + Deadline
      BY <1>2 DEF CallRecords, Idle
<1>4. ask' = [ask EXCEPT ![d] = r]
      BY DEF AskOther
<1> HIDE DEF r
<1>5. PICK s \in CallRecords : s = r
      BY <1>3
<1>6. Shaped(s) /\ Backed(s)' /\ s.at \in Using
      BY <1>2, <1>3, <1>5 DEF Shaped, Backed, Using, Holding
<1>7. /\ screen' \in Screens /\ screen'.by # d /\ screen'.by \in {screen.by, Nobody}
      /\ screen'.stage = "free" => screen'.by = Nobody
      BY <1>1, ScreenAsIs
<1>8. Shrinks /\ now' = now /\ production' \in BOOLEAN /\ tracked \ {ask[d].id} \subseteq tracked'
      BY <1>1, StillShrinks DEF registry, HostInv, HostTyped
<1>9. slot' = (s.at \in Using \/ (slot /\ ask[d].at \notin Using))
      BY <1>1, <1>6 DEF AskOther
<1> QED BY <1>1, <1>3, <1>4, <1>5, <1>6, <1>7, <1>8, <1>9, StepOfOneCall

\* The reply of the host, then the request is looked at again.
LEMMA ConcludeKeepsInv ==
    ASSUME HostInv, NEW d \in Deciders, Conclude(d)
    PROVE  HostInv'
<1>1. /\ ask[d].at = "answered" /\ ask[d] \in CallRecords /\ ask[d].at \in Using
      /\ ask[d].id \in Ids \cup {Nobody} /\ (ask[d].id # Nobody => ask[d].id \in tracked)
      /\ Shaped(ask[d]) /\ Backed(ask[d])
      BY DEF Conclude, HostInv, HostTyped, CallsShaped, CallsBacked, OwnIdentifier, CallRecords, Using
<1>2. UNCHANGED <<registry, tracked, screen>> /\ ~ slot' /\ slot' = FALSE
      BY DEF Conclude
<1>3. /\ screen' \in Screens /\ screen'.by # d /\ screen'.by \in {screen.by, Nobody}
      /\ screen'.stage = "free" => screen'.by = Nobody
      BY <1>1, <1>2, ScreenAsIs
<1>4. Shrinks /\ now' = now /\ production' \in BOOLEAN
      BY <1>2, StillShrinks DEF registry, HostInv, HostTyped, Conclude
<1>5. CASE ask[d].id = Nobody
  <2>1. ask' = [ask EXCEPT ![d] = [Idle EXCEPT !.at = "idle", !.id = Nobody]]
        BY <1>5 DEF Conclude, Idle
  <2> QED BY <1>1, <1>2, <1>3, <1>4, <2>1, RestingCall
<1>6. CASE ask[d].id # Nobody /\ ~ (Passes(d) /\ queue.pending[ask[d].id] = ask[d].held)
  <2>1. ask' = [ask EXCEPT ![d] = [Idle EXCEPT !.at = "refusing", !.id = ask[d].id]]
        BY <1>6 DEF Conclude, Refused
  <2> QED BY <1>1, <1>2, <1>3, <1>4, <2>1, RestingCall
<1>7. CASE ask[d].id # Nobody /\ Passes(d) /\ queue.pending[ask[d].id] = ask[d].held
  <2> DEFINE n == Passed(d)
  <2>1. /\ n \in CallRecords /\ n.at = "granting" /\ n.id = ask[d].id /\ n.held = ask[d].held
        /\ n.read = ask[d].read
        BY <1>1 DEF CallRecords, Passed
  <2>2. ask' = [ask EXCEPT ![d] = n]
        BY <1>7 DEF Conclude
  <2>3. ask[d].read /\ ask[d].held # NoRequest
        BY <1>1, <1>7 DEF Shaped, Passes
  <2> HIDE DEF n
  <2>4. PICK r \in CallRecords : r = n
        BY <2>1
  <2>5. Shaped(r)
        BY <1>7, <2>1, <2>3, <2>4 DEF Shaped, Using, Holding
  <2>6. Backed(r)'
        BY <1>1, <1>2, <2>1, <2>4 DEF Backed, Holding, Using, registry
  <2>7. r.at \notin Using
        BY <2>1, <2>4 DEF Using
  <2>8. slot' = (r.at \in Using \/ (slot /\ ask[d].at \notin Using))
        BY <1>1, <1>2, <2>7
  <2> QED BY <1>1, <1>2, <1>3, <1>4, <1>7, <2>1, <2>2, <2>4, <2>5, <2>6, <2>7, <2>8, StepOfOneCall
<1> QED BY <1>5, <1>6, <1>7

\* A refused decision is consumed.
LEMMA RefuseKeepsInv ==
    ASSUME HostInv, NEW d \in Deciders, Refuse(d)
    PROVE  HostInv' /\ Shrinks
<1>1. ask[d].at \notin Using /\ End(d) /\ UNCHANGED <<now, production, slot, screen>>
      BY DEF Refuse, Using
<1>2. Shrinks
  <2>1. CASE ask[d].id = Nobody
        BY <2>1, StillShrinks DEF Refuse
  <2>2. CASE ask[d].id # Nobody
    <3>1. {ask[d].id} \in SUBSET Ids
          BY <2>2 DEF HostInv, HostTyped, CallRecords
    <3> QED BY <2>2, <3>1, RemoveShrinks DEF Refuse
  <2> QED BY <2>1, <2>2
<1> QED BY <1>1, <1>2, EndKeepsInv

\* A console that moves, and the end of a command.
LEMMA EndsKeepInv ==
    ASSUME HostInv, NEW d \in Deciders, CannotRun(d) \/ Finish(d)
    PROVE  HostInv'
<1>1. ask[d].at \notin Using /\ End(d) /\ UNCHANGED <<registry, production, slot, screen>>
      BY DEF CannotRun, Finish, Using
<1>2. Shrinks /\ now' = now
      BY <1>1, StillShrinks DEF registry
<1> QED BY <1>1, <1>2, EndKeepsInv

\* The executor takes the request of the call, and no other.
LEMMA ApproveKeepsInv ==
    ASSUME HostInv, NEW d \in Deciders, Approve(d)
    PROVE  /\ HostInv' /\ Shrinks
           /\ \A w \in Whats : fate'[w] # fate[w] =>
                /\ fate[w] = "waiting" /\ fate'[w] \in {"granted", "ended"}
                /\ ask[d].held # NoRequest /\ ask[d].held.what = w
                /\ queue.pending[ask[d].id] = ask[d].held
<1> DEFINE f == IF ask[d].id \in Stale(queue, now) THEN "ended" ELSE "granted"
<1>1. /\ ask[d].at = "granting" /\ ask[d].at \notin Using /\ ask[d].at # "asking"
      /\ Remove({ask[d].id}, f) /\ UNCHANGED <<now, production, tracked, slot, screen>>
      /\ ask' = [ask EXCEPT ![d] = [Idle EXCEPT !.at = "running", !.id = ask[d].id]]
      BY DEF Approve, Using
<1>2. /\ ask[d].id \in Ids /\ ask[d].id # Nobody /\ ask[d].id \in tracked
      /\ {ask[d].id} \in SUBSET Ids /\ Backed(ask[d])
      BY <1>1 DEF HostInv, HostTyped, CallsShaped, CallsBacked, Shaped, OwnIdentifier, CallRecords
<1>3. f \in {"granted", "ended"}
      OBVIOUS
<1> HIDE DEF f
<1>4. Shrinks /\ \A w \in Whats : fate'[w] # fate[w] => fate'[w] = f /\ fate[w] = "waiting"
      BY <1>1, <1>2, <1>3, RemoveShrinks
<1>5. \A w \in Whats : fate'[w] # fate[w] =>
        queue.pending[ask[d].id] # NoRequest /\ queue.pending[ask[d].id].what = w
      BY <1>1 DEF Remove, HostInv, HostTyped, RegistryTyped
<1>6. queue.pending[ask[d].id] \in {ask[d].held, NoRequest}
      BY <1>1, <1>2 DEF Backed, Holding
<1>7. production' \in BOOLEAN /\ slot' = (slot /\ ask[d].at \notin Using)
      BY <1>1 DEF HostInv, HostTyped
<1>8. HostInv'
      BY <1>1, <1>2, <1>4, <1>7, ScreenAsIs, RestingCall
<1> QED BY <1>3, <1>4, <1>5, <1>6, <1>8

\* A call takes the screen.
LEMMA TakeScreenKeepsInv ==
    ASSUME HostInv, NEW d \in Deciders, TakeScreen(d)
    PROVE  HostInv'
<1>1. /\ ask[d] \in CallRecords /\ ask[d].at = "asking" /\ ask[d].at \in Using /\ ~ ask[d].read
      /\ now <= ask[d].due /\ ask' = [ask EXCEPT ![d] = ask[d]]
      /\ UNCHANGED <<registry, production, tracked, slot>>
      BY DEF TakeScreen, HostInv, HostTyped, CallsShaped, Shaped, Using
<1>2. screen' \in Screens /\ screen'.stage # "free" /\ screen'.by = d
      BY DEF TakeScreen, Screens
<1> QED BY <1>1, <1>2, DialogStep

\* No window: refused at once.
LEMMA CannotOpenKeepsInv ==
    ASSUME HostInv, NEW d \in Deciders, CannotOpen(d)
    PROVE  HostInv'
<1>1. /\ ask[d].at = "asking" /\ UNCHANGED <<registry, production, tracked, slot, screen>>
      /\ ask' = [ask EXCEPT ![d] = [ask[d] EXCEPT !.at = "answered", !.ok = FALSE]]
      /\ screen.by # d
      BY DEF CannotOpen, HostInv, HostTyped
<1>2. screen' \in Screens /\ (screen'.stage = "free" => screen'.by = Nobody)
      BY <1>1 DEF HostInv, HostTyped, ScreenOwned
<1> QED BY <1>1, <1>2, NotDrawn

\* The deadline: the call is refused, its dialog stays where it is.
LEMMA TimeOutKeepsInv ==
    ASSUME HostInv, NEW d \in Deciders, TimeOut(d)
    PROVE  HostInv'
<1>1. /\ ask[d].at = "asking" /\ ask[d].at \in Using /\ ask[d].id \in Ids \cup {Nobody}
      /\ (ask[d].id # Nobody => ask[d].id \in tracked)
      /\ UNCHANGED <<registry, production, tracked>> /\ slot' = FALSE
      /\ ask' = [ask EXCEPT ![d] = [Idle EXCEPT !.at = "refusing", !.id = ask[d].id]]
      BY DEF TimeOut, Refused, HostInv, HostTyped, OwnIdentifier, CallRecords, Using
<1>2. screen \in Screens /\ (screen.stage = "free" => screen.by = Nobody) /\ d # Nobody
      BY HostAssumption DEF HostInv, HostTyped, ScreenOwned
<1>3. /\ screen' \in Screens /\ screen'.by # d /\ screen'.by \in {screen.by, Nobody}
      /\ screen'.stage = "free" => screen'.by = Nobody
      BY <1>2 DEF TimeOut, Screens
<1>4. Shrinks /\ now' = now /\ production' \in BOOLEAN
      BY <1>1, StillShrinks DEF registry, HostInv, HostTyped
<1> QED BY <1>1, <1>3, <1>4, RestingCall

\* A dialog nobody awaits leaves the screen.
LEMMA ScreenLeft ==
    ASSUME HostInv, screen' = Blank, ask' = ask, UNCHANGED <<registry, production, tracked, slot>>
    PROVE  HostInv'
<1> USE DEF HostInv, HostTyped, registry
<1>1. screen' \in Screens /\ screen'.by = Nobody
      BY DEF Blank, Screens
<1>2. HostTyped' /\ WaitsInRegistry'
      BY <1>1 DEF RegistryTyped, WaitsInRegistry, Waiting
<1>3. OneUser' /\ OwnIdentifier' /\ CallsShaped' /\ CallsBacked'
      BY DEF OneUser, OwnIdentifier, CallsShaped, CallsBacked, Shaped, Backed
<1>4. ScreenOwned'
      BY <1>1 DEF ScreenOwned
<1> QED BY <1>2, <1>3, <1>4

\* The main thread draws the dialog, or does not.
LEMMA DrawKeepsInv ==
    ASSUME HostInv, Draw
    PROVE  HostInv'
<1>1. UNCHANGED <<registry, production, tracked, slot>> /\ screen.stage = "queued" /\ screen \in Screens
      BY DEF Draw, HostInv, HostTyped
<1>2. Blank \in Screens /\ Blank.by = Nobody
      BY DEF Blank, Screens
<1>3. CASE screen.by = Nobody
  <2>1. screen' = Blank /\ ask' = ask
        BY <1>3, HostAssumption DEF Draw, HostInv, HostTyped
  <2> QED BY <1>1, <2>1, ScreenLeft
<1>4. CASE screen.by # Nobody
  <2>1. PICK d \in Deciders : d = screen.by
        BY <1>1, <1>4 DEF Screens
  <2>2. /\ ask[d] \in CallRecords /\ ask[d].at = "asking" /\ ask[d].at \in Using /\ ~ ask[d].read
        /\ now <= ask[d].due /\ d # Nobody
        BY <1>4, <2>1 DEF HostInv, HostTyped, CallsShaped, Shaped, Using, ScreenOwned
  <2>3. CASE now < ask[d].due
    <3>1. ask' = [ask EXCEPT ![d] = ask[d]]
          BY <1>4, <2>1, <2>3 DEF Draw, HostInv, HostTyped
    <3>2. screen' \in Screens /\ screen'.by = d /\ screen'.stage # "free"
          BY <1>1, <1>4, <2>1, <2>3 DEF Draw, HostInv, HostTyped, Screens
    <3> QED BY <1>1, <2>2, <3>1, <3>2, DialogStep
  <2>4. CASE ~ (now < ask[d].due)
    <3>1. ask' = [ask EXCEPT ![d] = [ask[d] EXCEPT !.at = "answered", !.ok = FALSE]]
          BY <1>4, <2>1, <2>4 DEF Draw, HostInv, HostTyped
    <3>2. screen' = Blank
          BY <1>4, <2>1, <2>4 DEF Draw
    <3> QED BY <1>1, <1>2, <2>2, <3>1, <3>2, NotDrawn
  <2> QED BY <2>3, <2>4
<1> QED BY <1>3, <1>4

\* The user closes the dialog.
LEMMA PressKeepsInv ==
    ASSUME HostInv, NEW ok \in BOOLEAN, Press(ok)
    PROVE  HostInv'
<1>1. /\ UNCHANGED <<registry, production, tracked, slot>> /\ screen.stage = "shown"
      /\ screen \in Screens /\ screen' = Blank
      BY DEF Press, HostInv, HostTyped
<1>2. Blank \in Screens /\ Blank.by = Nobody
      BY DEF Blank, Screens
<1>3. CASE screen.by = Nobody
  <2>1. ask' = ask
        BY <1>3, HostAssumption DEF Press, HostInv, HostTyped
  <2> QED BY <1>1, <2>1, ScreenLeft
<1>4. CASE screen.by # Nobody
  <2>1. PICK d \in Deciders : d = screen.by
        BY <1>1, <1>4 DEF Screens
  <2> DEFINE n == [ask[d] EXCEPT !.at = "answered", !.ok = ok, !.shown = screen.at,
                                 !.read = ok /\ now - screen.at >= MinDelay /\ now <= ask[d].due]
  <2>2. /\ ask[d] \in CallRecords /\ ask[d].at = "asking" /\ ask[d].at \in Using
        /\ now <= ask[d].due /\ d # Nobody /\ screen.at \in Nat
        BY <1>1, <1>4, <2>1 DEF HostInv, HostTyped, CallsShaped, Shaped, Using, ScreenOwned, Screens
  <2>3. /\ n \in CallRecords /\ n.at = "answered" /\ n.id = ask[d].id /\ n.held = ask[d].held
        /\ n.ok = ok /\ n.shown = screen.at
        /\ n.read = (ok /\ now - screen.at >= MinDelay /\ now <= ask[d].due)
        BY <2>2 DEF CallRecords
  <2>4. ask' = [ask EXCEPT ![d] = n]
        BY <2>1 DEF Press, HostInv, HostTyped
  <2> HIDE DEF n
  <2> QED BY <1>1, <1>2, <2>2, <2>3, <2>4, DialogStep
<1> QED BY <1>3, <1>4

\* Time passes: no answer is left unserved, and no deadline is missed.
LEMMA ClockKeepsInv ==
    ASSUME HostInv, Clock
    PROVE  HostInv'
<1> USE DEF HostInv, HostTyped
<1>1. now' = now + 1 /\ now \in Nat /\ UNCHANGED <<queue, fate, calls>>
      BY DEF Clock
<1>2. HostTyped' /\ WaitsInRegistry'
      BY <1>1 DEF calls, RegistryTyped, WaitsInRegistry, Waiting
<1>3. OneUser' /\ OwnIdentifier' /\ CallsBacked' /\ ScreenOwned'
      BY <1>1 DEF calls, OneUser, OwnIdentifier, CallsBacked, Backed, ScreenOwned
<1>4. CallsShaped'
  <2> SUFFICES ASSUME NEW d \in Deciders
               PROVE  Shaped(ask[d])'
      BY DEF CallsShaped
  <2>1. /\ Shaped(ask[d]) /\ ask'[d] = ask[d] /\ ask[d].due \in Nat /\ ask[d].at # "answered"
        /\ ask[d].at = "asking" => now < ask[d].due
        BY <1>1 DEF CallsShaped, calls, Clock, CallRecords
  <2>2. ask[d].at = "asking" => now + 1 <= ask[d].due
        BY <1>1, <2>1
  <2> QED BY <1>1, <2>1, <2>2 DEF Shaped
<1> QED BY <1>2, <1>3, <1>4

\* decide(approved = false), the asker's withdrawal, and the sweep.
LEMMA RegistryStepsKeepInv ==
    ASSUME HostInv, NEW id \in Ids, Withdraw(id) \/ Sweep
    PROVE  HostInv' /\ \A w \in Whats : fate'[w] # fate[w] => fate'[w] = "ended" /\ fate[w] = "waiting"
<1>1. PICK S \in SUBSET Ids : Remove(S, "ended")
      BY DEF Withdraw, Sweep, Stale, Waiting
<1> QED BY <1>1, RemoveShrinks, ShrinkingKeepsInv DEF Withdraw, Sweep

\* Every step keeps the invariant.
LEMMA NextKeepsHost == HostInv /\ [Next]_vars => HostInv'
<1> SUFFICES ASSUME HostInv, [Next]_vars
             PROVE  HostInv'
    OBVIOUS
<1>1. ASSUME NEW id \in Ids, NEW w \in Whats, Dispatch(id, w)
      PROVE  HostInv'
      BY <1>1, DispatchKeepsInv
<1>2. ASSUME NEW id \in Ids, Withdraw(id)
      PROVE  HostInv'
      BY <1>2, RegistryStepsKeepInv
<1>3. CASE Sweep
  <2>1. Stale(queue, now) \in SUBSET Ids
        BY DEF Stale, Waiting
  <2> QED BY <1>3, <2>1, RemoveShrinks, ShrinkingKeepsInv DEF Sweep
<1>4. ASSUME NEW d \in Deciders, NEW id \in Ids, Decide(d, id)
      PROVE  HostInv'
      BY <1>4, DecideKeepsInv
<1>5. ASSUME NEW d \in Deciders, Serve(d)
      PROVE  HostInv'
      BY <1>5, LookKeepsInv, ReadConfigKeepsInv, ConcludeKeepsInv, RefuseKeepsInv,
         ApproveKeepsInv, EndsKeepInv, TakeScreenKeepsInv, TimeOutKeepsInv DEF Serve
<1>6. ASSUME NEW d \in Deciders, AskOther(d) \/ CannotRun(d) \/ CannotOpen(d)
      PROVE  HostInv'
      BY <1>6, AskOtherKeepsInv, EndsKeepInv, CannotOpenKeepsInv
<1>7. CASE Draw \/ \E ok \in BOOLEAN : Press(ok)
      BY <1>7, DrawKeepsInv, PressKeepsInv
<1>8. CASE Clock
      BY <1>8, ClockKeepsInv
<1>9. CASE UNCHANGED vars
  <2>1. Shrinks /\ UNCHANGED <<now, calls>>
        BY <1>9, StillShrinks DEF vars, calls
  <2> QED BY <2>1, ShrinkingKeepsInv
<1> QED BY <1>1, <1>2, <1>3, <1>4, <1>5, <1>6, <1>7, <1>8, <1>9 DEF Next

\* The calls, the registry, the slot and the screen agree at every step of
\* decide_held and of the dialogs: a call that looked at a request finds that
\* very request, or nothing, under its identifier until it has done with it.
THEOREM HostInvariant == Spec => []HostInv
<1>1. Init => HostInv
      BY InitHost
<1>2. HostInv /\ [Next]_vars => HostInv'
      BY NextKeepsHost
<1> QED BY <1>1, <1>2, PTL DEF Spec

-----------------------------------------------------------------------------
(* A request is granted as it was read *)

\* What becomes of a request in one step: it comes in, it ends, or the call that
\* holds it has it granted.
FateStep(w) ==
    \/ fate'[w] = fate[w]
    \/ fate[w] = "unused" /\ fate'[w] \in {"waiting", "ended"} /\ UNCHANGED calls
    \/ fate[w] = "waiting" /\ fate'[w] = "ended"
    \/ /\ fate[w] = "waiting" /\ fate'[w] = "granted"
       /\ \E d \in Deciders :
            /\ ask[d].at = "granting" /\ ask[d].held # NoRequest /\ ask[d].held.what = w
            /\ \A e \in Deciders \ {d} : ask'[e] = ask[e]

\* Every step of the application is such a step for every request.
LEMMA FateSteps ==
    ASSUME HostInv, Next, NEW w \in Whats
    PROVE  FateStep(w)
<1>1. ASSUME NEW id \in Ids, NEW v \in Whats, Dispatch(id, v)
      PROVE  FateStep(w)
  <2>1. UNCHANGED calls
        BY <1>1 DEF Dispatch, calls
  <2>2. fate[v] = "unused" /\ fate'[v] \in {"waiting", "ended"}
        BY <1>1, DispatchKeepsInv
  <2>3. w # v /\ fate'[w] # fate[w] => fate'[w] = "ended" /\ fate[w] = "waiting"
        BY <1>1, DispatchKeepsInv
  <2> QED BY <2>1, <2>2, <2>3 DEF FateStep
<1>2. ASSUME NEW id \in Ids, Withdraw(id)
      PROVE  FateStep(w)
      BY <1>2, RegistryStepsKeepInv DEF FateStep
<1>3. CASE Sweep
  <2>1. Stale(queue, now) \in SUBSET Ids
        BY DEF Stale, Waiting
  <2> QED BY <1>3, <2>1, RemoveShrinks DEF Sweep, FateStep
<1>4. ASSUME NEW d \in Deciders, Refuse(d)
      PROVE  FateStep(w)
  <2>1. CASE ask[d].id = Nobody
        BY <1>4, <2>1 DEF Refuse, FateStep
  <2>2. CASE ask[d].id # Nobody
    <3>1. {ask[d].id} \in SUBSET Ids
          BY <2>2 DEF HostInv, HostTyped, CallRecords
    <3> QED BY <1>4, <2>2, <3>1, RemoveShrinks DEF Refuse, FateStep
  <2> QED BY <2>1, <2>2
<1>5. ASSUME NEW d \in Deciders, Approve(d)
      PROVE  FateStep(w)
  <2>1. ask[d].at = "granting" /\ \A e \in Deciders \ {d} : ask'[e] = ask[e]
        BY <1>5 DEF Approve, HostInv, HostTyped
  <2>2. fate'[w] # fate[w] =>
          /\ fate[w] = "waiting" /\ fate'[w] \in {"granted", "ended"}
          /\ ask[d].held # NoRequest /\ ask[d].held.what = w
        BY <1>5, ApproveKeepsInv
  <2> QED BY <2>1, <2>2 DEF FateStep
<1>6. ASSUME NEW d \in Deciders,
             \/ \E id \in Ids : Decide(d, id)
             \/ Look(d) \/ ReadConfig(d) \/ Conclude(d) \/ Finish(d) \/ TakeScreen(d) \/ TimeOut(d)
             \/ AskOther(d) \/ CannotRun(d) \/ CannotOpen(d)
      PROVE  fate' = fate
      BY <1>6 DEF Decide, Look, ReadConfig, Conclude, Finish, TakeScreen, TimeOut, AskOther,
                  CannotRun, CannotOpen, registry
<1>7. CASE Draw \/ (\E ok \in BOOLEAN : Press(ok)) \/ Clock
      BY <1>7 DEF Draw, Press, Clock, registry, FateStep
<1> QED BY <1>1, <1>2, <1>3, <1>4, <1>5, <1>6, <1>7 DEF Next, Serve, FateStep

\* A mutating request on a connection the call saw as production is granted only
\* to the call whose own dialog showed that very request, confirmed slowly
\* enough and in time (confirm_held, decide_held).
THEOREM GrantedAsReadHolds == Spec => GrantedAsRead
<1> DEFINE A == \A d \in Deciders, w \in Mutating :
                  /\ ask[d].at = "granting" /\ ask'[d].at = "running" /\ ask[d].marked
                  /\ fate[w] # "granted" /\ fate'[w] = "granted"
                  => ask[d].read /\ ask[d].held.what = w
<1>1. HostInv /\ [Next]_vars => [A]_vars
  <2> SUFFICES ASSUME HostInv, Next, NEW d \in Deciders, NEW w \in Mutating,
                      ask[d].at = "granting", ask'[d].at = "running", ask[d].marked,
                      fate[w] # "granted", fate'[w] = "granted"
               PROVE  ask[d].read /\ ask[d].held.what = w
      OBVIOUS
  <2>1. w \in Whats
        BY HostAssumption
  <2>2. FateStep(w)
        BY <2>1, FateSteps
  <2>3. ask[d].held # NoRequest /\ ask[d].held.what = w
        BY <2>2 DEF FateStep
  <2>4. Shaped(ask[d])
        BY DEF HostInv, CallsShaped
  <2> QED BY <2>3, <2>4 DEF Shaped
<1> QED BY <1>1, HostInvariant, PTL DEF Spec, GrantedAsRead

\* The slot is taken exactly while one call uses it: neither a failure nor a
\* deadline loses it, and nothing gives it back twice (reserve, Drop for Slot).
THEOREM SlotIsOwnedHolds == Spec => []SlotIsOwned
<1>1. HostInv => SlotIsOwned
  <2> SUFFICES ASSUME HostInv
               PROVE  SlotIsOwned
      OBVIOUS
  <2> DEFINE U == {d \in Deciders : ask[d].at \in {"reading", "asking", "answered"}}
  <2>1. CASE slot
    <3>1. PICK d \in Deciders : U = {d}
          BY <2>1 DEF HostInv, OneUser, Using
    <3>2. Cardinality({d}) = 1
          BY FS_Singleton
    <3> QED BY <2>1, <3>1, <3>2 DEF SlotIsOwned
  <2>2. CASE ~ slot
    <3>1. U = {}
          BY <2>2 DEF HostInv, OneUser, Using
    <3>2. Cardinality({}) = 0
          BY FS_EmptySet
    <3> QED BY <2>2, <3>1, <3>2 DEF SlotIsOwned
  <2> QED BY <2>1, <2>2
<1> QED BY <1>1, HostInvariant, PTL

-----------------------------------------------------------------------------
(* The promise *)

\* A call that holds a request, and how the promise sees the request then.
Holds(d, w) == ask[d].at \in Holding /\ ask[d].held # NoRequest /\ ask[d].held.what = w

Shown(d) == screen.stage = "shown" /\ screen.by = d

Mark(d) ==
    IF ask[d].read THEN "agreed"
    ELSE IF Shown(d) THEN "shown"
    ELSE IF ask[d].at = "granting" THEN "exempt"
    ELSE "waiting"

\* One call at most holds a request that waits: it alone says where it stands.
Stands(w) ==
    /\ fate[w] = "unused" => Verdict(w) = "absent"
    /\ fate[w] = "granted" => Verdict(w) = "granted"
    /\ fate[w] = "ended" => Verdict(w) = "ended"
    /\ fate[w] = "waiting" =>
         /\ \A d, e \in Deciders : Holds(d, w) /\ Holds(e, w) => d = e
         /\ \A d \in Deciders : Holds(d, w) => Verdict(w) = Mark(d)
         /\ (\A d \in Deciders : ~ Holds(d, w)) => Verdict(w) = "waiting"

\* The verdict of a request is what the call that holds it makes of it.
LEMMA VerdictStands == HostInv => \A w \in Whats : Stands(w)
<1> SUFFICES ASSUME HostInv, NEW w \in Whats
             PROVE  Stands(w)
    OBVIOUS
<1> USE DEF HostInv, HostTyped
<1>1. CASE fate[w] # "waiting"
      BY <1>1 DEF Stands, Verdict, RegistryTyped
<1>2. CASE fate[w] = "waiting"
  <2>1. ASSUME NEW d \in Deciders, Holds(d, w)
        PROVE  /\ ask[d].id \in Waiting(queue) /\ ask[d].id # Nobody
               /\ queue.pending[ask[d].id] = ask[d].held /\ ask[d].held.what = w
    <3>1. Shaped(ask[d]) /\ Backed(ask[d]) /\ ask[d] \in CallRecords
          BY DEF CallsShaped, CallsBacked
    <3>2. ask[d].id \in Ids /\ ask[d].id # Nobody
          BY <2>1, <3>1 DEF Holds, Shaped, Holding, CallRecords
    <3> QED BY <1>2, <2>1, <3>1, <3>2 DEF Holds, Backed, Waiting
  <2>2. ASSUME NEW d \in Deciders, NEW e \in Deciders, Holds(d, w), Holds(e, w)
        PROVE  d = e
        BY <2>1, <2>2 DEF WaitsInRegistry, OwnIdentifier
  <2> DEFINE granting == {d \in Deciders : ask[d].at = "granting"
                            /\ queue.pending[ask[d].id] # NoRequest
                            /\ queue.pending[ask[d].id].what = w}
             showing == {d \in Deciders : screen.stage = "shown" /\ screen.by = d
                            /\ ask[d].id # Nobody /\ ask[d].held.what = w}
             agreed == {d \in Deciders : ask[d].at \in {"answered", "granting"}
                            /\ ask[d].read /\ ask[d].held # NoRequest /\ ask[d].held.what = w}
  <2>3. Verdict(w) = IF agreed # {} THEN "agreed"
                     ELSE IF showing # {} THEN "shown"
                     ELSE IF \E d \in granting : ~ ask[d].marked \/ w \notin Mutating THEN "exempt"
                     ELSE "waiting"
        BY <1>2 DEF Verdict
  <2>4. \A d \in Deciders : d \in agreed <=> Holds(d, w) /\ ask[d].read
        BY DEF Holds, Holding, Using, CallsShaped, Shaped
  <2>5. \A d \in Deciders : d \in showing <=> Holds(d, w) /\ Shown(d)
    <3> TAKE d \in Deciders
    <3>1. Shown(d) => ask[d].at = "asking"
          BY HostAssumption DEF Shown, ScreenOwned
    <3>2. Shaped(ask[d])
          BY DEF CallsShaped
    <3> QED BY <3>1, <3>2 DEF Holds, Shown, Shaped, Holding, Using
  <2>6. \A d \in Deciders : d \in granting <=> Holds(d, w) /\ ask[d].at = "granting"
    <3> TAKE d \in Deciders
    <3>1. ASSUME Holds(d, w), ask[d].at = "granting"
          PROVE  d \in granting
          BY <2>1, <3>1 DEF Waiting
    <3>2. ASSUME d \in granting
          PROVE  Holds(d, w) /\ ask[d].at = "granting"
      <4>1. Shaped(ask[d]) /\ Backed(ask[d])
            BY DEF CallsShaped, CallsBacked
      <4>2. ask[d].id # Nobody /\ ask[d].at \in Holding
            BY <3>2, <4>1 DEF Shaped, Holding
      <4> QED BY <3>2, <4>1, <4>2 DEF Backed, Holds
    <3> QED BY <3>1, <3>2
  <2>7. granting \subseteq Deciders /\ showing \subseteq Deciders /\ agreed \subseteq Deciders
        OBVIOUS
  <2> HIDE DEF granting, showing, agreed
  <2>8. ASSUME NEW d \in Deciders, Holds(d, w)
        PROVE  Verdict(w) = Mark(d)
    <3>1. (agreed # {}) <=> ask[d].read
          BY <2>2, <2>4, <2>7, <2>8
    <3>2. (showing # {}) <=> Shown(d)
          BY <2>2, <2>5, <2>7, <2>8
    <3>3. ~ ask[d].read => ((\E e \in granting : ~ ask[e].marked \/ w \notin Mutating)
                              <=> ask[d].at = "granting")
      <4>1. ~ ask[d].read /\ ask[d].at = "granting" => ~ ask[d].marked \/ w \notin Mutating
            BY <2>8 DEF CallsShaped, Shaped, Holds
      <4> QED BY <2>2, <2>6, <2>7, <2>8, <4>1
    <3> QED BY <2>3, <3>1, <3>2, <3>3 DEF Mark
  <2>9. ASSUME \A d \in Deciders : ~ Holds(d, w)
        PROVE  Verdict(w) = "waiting"
    <3>1. agreed = {} /\ showing = {} /\ granting = {}
          BY <2>4, <2>5, <2>6, <2>7, <2>9
    <3> QED BY <2>3, <3>1
  <2> QED BY <1>2, <2>2, <2>8, <2>9 DEF Stands
<1> QED BY <1>1, <1>2

\* Where a request may stand from here, in one step.
Goes(a, b) == a = b \/ <<a, b>> \in Promise!Moves

\* The moves of ProductionConsent that the steps below make.
LEMMA MovesAre ==
    /\ Goes("absent", "waiting") /\ Goes("absent", "ended")
    /\ \A a \in {"waiting", "exempt", "shown", "agreed"} :
         Goes(a, a) /\ Goes(a, "waiting") /\ Goes(a, "ended")
    /\ Goes("waiting", "exempt") /\ Goes("waiting", "shown") /\ Goes("shown", "agreed")
    /\ Goes("exempt", "granted") /\ Goes("agreed", "granted")
BY DEF Goes, Promise!Moves, Promise!Open

\* A step of one call, for a request that waits before and after it: only the
\* call that holds the request moves it, and a call that comes to hold it has
\* not had it read.
LEMMA CallMoves ==
    ASSUME NEW w \in Whats, Stands(w), Stands(w)', fate[w] = "waiting", fate'[w] = "waiting",
           NEW d \in Deciders, \A e \in Deciders \ {d} : ask'[e] = ask[e] /\ Shown(e)' = Shown(e),
           Holds(d, w) /\ Holds(d, w)' => Goes(Mark(d), Mark(d)'),
           ~ Holds(d, w) /\ Holds(d, w)' => ~ ask'[d].read
    PROVE  Goes(Verdict(w), Verdict(w)')
<1>1. ASSUME NEW e \in Deciders \ {d}
      PROVE  (Holds(e, w)' <=> Holds(e, w)) /\ Mark(e)' = Mark(e)
      BY <1>1 DEF Holds, Mark
<1>2. \A e \in Deciders : Mark(e) \in {"waiting", "exempt", "shown", "agreed"}
      BY DEF Mark
<1>3. CASE Holds(d, w) /\ Holds(d, w)'
      BY <1>3 DEF Stands
<1>4. CASE Holds(d, w) /\ ~ Holds(d, w)'
  <2>1. \A e \in Deciders : ~ Holds(e, w)'
        BY <1>1, <1>4 DEF Stands
  <2> QED BY <1>2, <1>4, <2>1, MovesAre DEF Stands
<1>5. CASE ~ Holds(d, w) /\ Holds(d, w)'
  <2>1. \A e \in Deciders : ~ Holds(e, w)
        BY <1>1, <1>5 DEF Stands
  <2>2. Mark(d)' \in {"waiting", "exempt", "shown"}
        BY <1>5 DEF Mark
  <2>3. Verdict(w) = "waiting" /\ Verdict(w)' = Mark(d)'
        BY <1>5, <2>1 DEF Stands
  <2> QED BY <2>2, <2>3, MovesAre
<1>6. CASE ~ Holds(d, w) /\ ~ Holds(d, w)'
  <2>1. CASE \E e \in Deciders : Holds(e, w)
    <3>1. PICK e \in Deciders : Holds(e, w)
          BY <2>1
    <3>2. e # d
          BY <1>6, <3>1
    <3>3. Verdict(w) = Mark(e) /\ Verdict(w)' = Mark(e)'
          BY <1>1, <3>1, <3>2 DEF Stands
    <3> QED BY <1>1, <3>2, <3>3 DEF Goes
  <2>2. CASE \A e \in Deciders : ~ Holds(e, w)
    <3>1. \A e \in Deciders : ~ Holds(e, w)'
          BY <1>1, <1>6, <2>2
    <3> QED BY <2>2, <3>1 DEF Stands, Goes
  <2> QED BY <2>1, <2>2
<1> QED BY <1>3, <1>4, <1>5, <1>6

\* Nothing a call or the screen is concerned with.
LEMMA NoMove ==
    ASSUME NEW w \in Whats, Stands(w), Stands(w)', fate[w] = "waiting", fate'[w] = "waiting",
           ask' = ask, \A e \in Deciders : Shown(e)' = Shown(e)
    PROVE  Goes(Verdict(w), Verdict(w)')
<1>1. \A e \in Deciders : (Holds(e, w)' <=> Holds(e, w)) /\ Mark(e)' = Mark(e)
      BY DEF Holds, Mark
<1> QED BY <1>1 DEF Stands, Goes

\* A step that leaves the screen as it is, by a call that does not await a dialog.
LEMMA OffScreen ==
    ASSUME HostInv, NEW d \in Deciders, ask[d].at # "asking", screen' = screen
    PROVE  ~ Shown(d) /\ ~ Shown(d)' /\ \A e \in Deciders : Shown(e)' = Shown(e)
BY HostAssumption DEF HostInv, ScreenOwned, Shown

\* What is left of a call: nothing it held or read.
LEMMA Emptied ==
    ASSUME NEW d \in Deciders
    PROVE  /\ Idle.held = NoRequest /\ ~ Idle.read /\ Idle.at = "idle"
           /\ Refused(d).held = NoRequest /\ ~ Refused(d).read /\ Refused(d).at = "refusing"
<1>1. \A i : /\ [Idle EXCEPT !.at = "refusing", !.id = i].held = NoRequest
             /\ ~ [Idle EXCEPT !.at = "refusing", !.id = i].read
             /\ [Idle EXCEPT !.at = "refusing", !.id = i].at = "refusing"
      BY DEF Idle
<1>2. Idle.held = NoRequest /\ ~ Idle.read /\ Idle.at = "idle"
      BY DEF Idle
<1> QED BY <1>1, <1>2 DEF Refused

\* The steps of a call that no longer holds a request, or does not yet.
LEMMA RestingMoves ==
    ASSUME HostInv, NEW w \in Whats, Stands(w), Stands(w)', fate[w] = "waiting",
           fate'[w] = "waiting", NEW d \in Deciders,
           \/ \E id \in Ids : Decide(d, id)
           \/ Refuse(d) \/ CannotRun(d) \/ Approve(d) \/ Finish(d) \/ AskOther(d)
           \/ TimeOut(d)
    PROVE  Goes(Verdict(w), Verdict(w)')
<1> USE DEF HostInv, HostTyped
<1>1. /\ \A e \in Deciders \ {d} : ask'[e] = ask[e]
      /\ ask'[d].held = NoRequest
  <2>1. CASE \E id \in Ids : Decide(d, id)
        BY <2>1 DEF Decide, Idle
  <2>2. CASE Refuse(d) \/ CannotRun(d) \/ Finish(d)
        BY <2>2, Emptied DEF Refuse, CannotRun, Finish, End
  <2>3. CASE Approve(d)
        BY <2>3 DEF Approve, Idle
  <2>4. CASE AskOther(d)
        BY <2>4 DEF AskOther, Idle
  <2>5. CASE TimeOut(d)
        BY <2>5, Emptied DEF TimeOut
  <2> QED BY <2>1, <2>2, <2>3, <2>4, <2>5
<1>2. \A e \in Deciders \ {d} : Shown(e)' = Shown(e)
  <2>1. CASE TimeOut(d)
    <3>1. screen'.stage = screen.stage
          BY <2>1 DEF TimeOut, Screens
    <3>2. screen'.by = IF screen.by = d THEN Nobody ELSE screen.by
          BY <2>1 DEF TimeOut, Screens
    <3> QED BY <3>1, <3>2, HostAssumption DEF Shown
  <2>2. CASE ~ TimeOut(d)
    <3>1. screen' = screen
          BY <2>2 DEF Decide, Refuse, CannotRun, Approve, Finish, AskOther
    <3> QED BY <3>1 DEF Shown
  <2> QED BY <2>1, <2>2
<1>3. ~ Holds(d, w)'
      BY <1>1 DEF Holds
<1> HIDE DEF HostInv
<1> QED BY <1>1, <1>2, <1>3, CallMoves

\* confirm_held comes to hold a request: nothing of it has been read.
LEMMA LookMoves ==
    ASSUME HostInv, NEW w \in Whats, Stands(w), Stands(w)', fate[w] = "waiting",
           fate'[w] = "waiting", NEW d \in Deciders, Look(d)
    PROVE  Goes(Verdict(w), Verdict(w)')
<1>1. ask[d].at = "looking" /\ screen' = screen /\ \A e \in Deciders \ {d} : ask'[e] = ask[e]
      BY DEF Look, End, HostInv, HostTyped
<1>2. ~ ask[d].read /\ ~ Holds(d, w)
      BY <1>1 DEF HostInv, CallsShaped, Shaped, Holds, Holding, Using
<1>3. ~ ask'[d].read
  <2> DEFINE held == queue.pending[ask[d].id]
  <2>1. ask \in [Deciders -> CallRecords]
        BY DEF HostInv, HostTyped
  <2>2. CASE Critical(held) /\ slot
        BY <2>1, <2>2 DEF Look, End, Idle
  <2>3. CASE ~ (Critical(held) /\ slot)
    <3>1. ask' = [ask EXCEPT ![d] = [@ EXCEPT
                    !.at = IF Critical(held) THEN "reading" ELSE "granting",
                    !.held = held, !.marked = production]]
          BY <2>3 DEF Look
    <3> HIDE DEF held
    <3> QED BY <1>2, <2>1, <3>1 DEF CallRecords
  <2> QED BY <2>2, <2>3
<1> QED BY <1>1, <1>2, <1>3, OffScreen, CallMoves

\* A call that has asked for its dialog, until it is drawn.
LEMMA AskingMoves ==
    ASSUME HostInv, NEW w \in Whats, Stands(w), Stands(w)', fate[w] = "waiting",
           fate'[w] = "waiting", NEW d \in Deciders, ReadConfig(d) \/ TakeScreen(d) \/ CannotOpen(d)
    PROVE  Goes(Verdict(w), Verdict(w)')
<1> USE DEF HostInv, HostTyped
<1>1. /\ \A e \in Deciders \ {d} : ask'[e] = ask[e]
      /\ ask[d].at \in {"reading", "asking"} /\ ask[d] \in CallRecords /\ ~ ask[d].read
      BY DEF ReadConfig, TakeScreen, CannotOpen, CallsShaped, Shaped
<1>2. ~ Shown(d) /\ \A e \in Deciders : Shown(e)' = Shown(e)
  <2>1. CASE TakeScreen(d)
    <3>1. screen.stage = "free" /\ screen'.stage = "queued"
          BY <2>1 DEF TakeScreen
    <3> QED BY <3>1 DEF Shown
  <2>2. CASE ReadConfig(d) \/ CannotOpen(d)
    <3>1. screen' = screen /\ screen.by # d
          BY <2>2, HostAssumption DEF ReadConfig, CannotOpen, ScreenOwned
    <3> QED BY <3>1 DEF Shown
  <2> QED BY <2>1, <2>2
<1>3. ~ ask'[d].read /\ ask'[d].at # "granting"
  <2>1. CASE ask' = ask
        BY <1>1, <2>1
  <2>2. CASE ask' = [ask EXCEPT ![d] = [@ EXCEPT !.at = "asking", !.due = now + Deadline]]
        BY <1>1, <2>2 DEF CallRecords
  <2>3. CASE ask' = [ask EXCEPT ![d] = Refused(d)]
        BY <2>3, Emptied
  <2>4. CASE ask' = [ask EXCEPT ![d] = [@ EXCEPT !.at = "answered", !.ok = FALSE]]
        BY <1>1, <2>4 DEF CallRecords
  <2> QED BY <2>1, <2>2, <2>3, <2>4 DEF ReadConfig, TakeScreen, CannotOpen
<1>4. Mark(d) = "waiting" /\ Mark(d)' = "waiting"
      BY <1>1, <1>2, <1>3 DEF Mark
<1> HIDE DEF HostInv
<1> QED BY <1>1, <1>2, <1>3, <1>4, CallMoves DEF Goes

\* The reply: a call that passes has had its request read.
LEMMA ConcludeMoves ==
    ASSUME HostInv, NEW w \in Whats, Stands(w), Stands(w)', fate[w] = "waiting",
           fate'[w] = "waiting", NEW d \in Deciders, Conclude(d)
    PROVE  Goes(Verdict(w), Verdict(w)')
<1> USE DEF HostInv, HostTyped
<1>1. /\ \A e \in Deciders \ {d} : ask'[e] = ask[e]
      /\ ask[d].at = "answered" /\ ask[d] \in CallRecords /\ screen' = screen
      BY DEF Conclude
<1>2. ask'[d].held # NoRequest =>
        ask[d].read /\ ask'[d].read /\ ask'[d].held = ask[d].held
  <2>1. CASE ask[d].id # Nobody /\ Passes(d) /\ queue.pending[ask[d].id] = ask[d].held
    <3>1. ask[d].read
          BY <1>1, <2>1 DEF CallsShaped, Shaped, Passes
    <3>2. ask'[d] = Passed(d)
          BY <2>1 DEF Conclude
    <3> QED BY <1>1, <3>1, <3>2 DEF Passed, CallRecords
  <2>2. CASE ~ (ask[d].id # Nobody /\ Passes(d) /\ queue.pending[ask[d].id] = ask[d].held)
    <3>1. ask'[d] = Idle \/ ask'[d] = Refused(d)
          BY <2>2 DEF Conclude
    <3>2. ask'[d].held = NoRequest
          BY <3>1, Emptied
    <3> QED BY <3>2
  <2> QED BY <2>1, <2>2
<1>3. Holds(d, w)' => Holds(d, w) /\ Mark(d) = "agreed" /\ Mark(d)' = "agreed"
      BY <1>1, <1>2 DEF Holds, Mark, Holding, Using
<1>4. \A e \in Deciders \ {d} : Shown(e)' = Shown(e)
      BY <1>1 DEF Shown
<1> HIDE DEF HostInv
<1> QED BY <1>1, <1>3, <1>4, CallMoves DEF Goes

\* The dialog is drawn, or not: a request it draws is shown.
LEMMA DrawMoves ==
    ASSUME HostInv, NEW w \in Whats, Stands(w), Stands(w)', fate[w] = "waiting",
           fate'[w] = "waiting", Draw
    PROVE  Goes(Verdict(w), Verdict(w)')
<1> USE DEF HostInv, HostTyped
<1>1. screen.stage = "queued" /\ screen \in Screens /\ \A e \in Deciders : ~ Shown(e)
      BY DEF Draw, Shown
<1>2. CASE screen.by = Nobody
  <2>1. ask' = ask /\ screen' = Blank
        BY <1>2, HostAssumption DEF Draw
  <2>2. \A e \in Deciders : ~ Shown(e)'
        BY <2>1, HostAssumption DEF Shown, Blank
  <2> HIDE DEF HostInv
  <2>3. \A e \in Deciders : Shown(e)' = Shown(e)
        BY <1>1, <2>2 DEF Shown
  <2> QED BY <2>1, <2>3, NoMove
<1>3. CASE screen.by # Nobody
  <2>1. PICK d \in Deciders : d = screen.by
        BY <1>1, <1>3 DEF Screens
  <2>2. ask[d] \in CallRecords /\ ask[d].at = "asking" /\ ~ ask[d].read
        BY <1>3, <2>1 DEF ScreenOwned, CallsShaped, Shaped
  <2>3. /\ \A e \in Deciders \ {d} : ask'[e] = ask[e]
        /\ ~ ask'[d].read /\ ask'[d].at \in {"asking", "answered"}
        /\ screen'.by \in {d, Nobody}
    <3>1. CASE now < ask[d].due
      <4>1. ask' = ask /\ screen' = [screen EXCEPT !.stage = "shown", !.at = now]
            BY <1>3, <2>1, <3>1 DEF Draw
      <4>2. screen'.by = d
            BY <1>1, <2>1, <4>1 DEF Screens
      <4> QED BY <2>2, <4>1, <4>2
    <3>2. CASE ~ (now < ask[d].due)
      <4>1. /\ screen' = Blank
            /\ \A e \in Deciders : ask'[e] = IF e = d THEN [ask[e] EXCEPT !.at = "answered", !.ok = FALSE]
                                            ELSE ask[e]
            BY <1>3, <2>1, <3>2 DEF Draw
      <4>2. screen'.by = Nobody
            BY <4>1 DEF Blank
      <4>3. ask'[d].at = "answered" /\ ~ ask'[d].read
            BY <2>2, <4>1 DEF CallRecords
      <4> QED BY <4>1, <4>2, <4>3
    <3> QED BY <3>1, <3>2
  <2>4. \A e \in Deciders \ {d} : ~ Shown(e)'
        BY <2>3, HostAssumption DEF Shown
  <2>5. \A e \in Deciders \ {d} : Shown(e)' = Shown(e)
        BY <1>1, <2>4 DEF Shown
  <2>6. Mark(d) = "waiting" /\ Mark(d)' \in {"waiting", "shown"}
        BY <1>1, <2>2, <2>3 DEF Mark
  <2>7. Goes(Mark(d), Mark(d)')
        BY <2>6, MovesAre
  <2> HIDE DEF HostInv
  <2> QED BY <2>3, <2>5, <2>7, CallMoves
<1> QED BY <1>2, <1>3

\* The user closes the dialog: what was shown is agreed, or waits again.
LEMMA PressMoves ==
    ASSUME HostInv, NEW w \in Whats, Stands(w), Stands(w)', fate[w] = "waiting",
           fate'[w] = "waiting", NEW ok \in BOOLEAN, Press(ok)
    PROVE  Goes(Verdict(w), Verdict(w)')
<1> USE DEF HostInv, HostTyped
<1>1. screen.stage = "shown" /\ screen \in Screens /\ \A e \in Deciders : ~ Shown(e)'
      BY HostAssumption DEF Press, Shown, Blank
<1>2. CASE screen.by = Nobody
  <2>1. ask' = ask
        BY <1>2, HostAssumption DEF Press
  <2>2. \A e \in Deciders : Shown(e)' = Shown(e)
        BY <1>1, <1>2, HostAssumption DEF Shown
  <2> HIDE DEF HostInv
  <2> QED BY <2>1, <2>2, NoMove
<1>3. CASE screen.by # Nobody
  <2>1. PICK d \in Deciders : d = screen.by
        BY <1>1, <1>3 DEF Screens
  <2>2. ask[d] \in CallRecords /\ ask[d].at = "asking" /\ ~ ask[d].read /\ Shown(d)
        BY <1>1, <1>3, <2>1 DEF ScreenOwned, CallsShaped, Shaped, Shown
  <2>3. /\ \A e \in Deciders \ {d} : ask'[e] = ask[e]
        /\ ask'[d].at = "answered" /\ ask'[d].held = ask[d].held
        BY <2>1, <2>2 DEF Press, CallRecords
  <2>4. \A e \in Deciders \ {d} : Shown(e)' = Shown(e)
        BY <1>1, <2>1 DEF Shown
  <2>5. Mark(d) = "shown" /\ Mark(d)' \in {"waiting", "agreed"}
        BY <1>1, <2>2, <2>3 DEF Mark
  <2>6. Goes(Mark(d), Mark(d)')
        BY <2>5, MovesAre
  <2>7. Holds(d, w)' => Holds(d, w)
        BY <2>2, <2>3 DEF Holds, Holding, Using
  <2> HIDE DEF HostInv
  <2> QED BY <2>3, <2>4, <2>6, <2>7, CallMoves
<1> QED BY <1>2, <1>3

\* Every step moves every request as ProductionConsent allows.
LEMMA StepMoves ==
    ASSUME HostInv, Next, NEW w \in Whats, Stands(w), Stands(w)'
    PROVE  Goes(Verdict(w), Verdict(w)')
<1> USE DEF HostInv, HostTyped
<1>1. FateStep(w) /\ fate[w] \in {"unused", "waiting", "granted", "ended"}
      BY FateSteps DEF RegistryTyped
<1>2. CASE fate[w] = "waiting" /\ fate'[w] = "waiting"
  <2>1. CASE ask' = ask /\ screen' = screen
        BY <1>2, <2>1, NoMove DEF Shown
  <2>2. CASE ~ (ask' = ask /\ screen' = screen)
    <3>1. ASSUME NEW id \in Ids
          PROVE  /\ \A v \in Whats : ~ Dispatch(id, v)
                 /\ ~ Withdraw(id) /\ ~ Sweep /\ ~ Clock
          BY <2>2 DEF Dispatch, Withdraw, Sweep, Clock, calls
    <3>2. ~ Sweep /\ ~ Clock
          BY <2>2 DEF Sweep, Clock, calls
    <3> HIDE DEF HostInv
    <3>3. ASSUME NEW d \in Deciders, \E id \in Ids : Decide(d, id)
          PROVE  Goes(Verdict(w), Verdict(w)')
          BY <1>2, <3>3, RestingMoves
    <3>4. ASSUME NEW d \in Deciders, Serve(d)
          PROVE  Goes(Verdict(w), Verdict(w)')
          BY <1>2, <3>4, RestingMoves, LookMoves, AskingMoves, ConcludeMoves DEF Serve
    <3>5. ASSUME NEW d \in Deciders, AskOther(d) \/ CannotRun(d) \/ CannotOpen(d)
          PROVE  Goes(Verdict(w), Verdict(w)')
          BY <1>2, <3>5, RestingMoves, AskingMoves
    <3>6. CASE Draw
          BY <1>2, <3>6, DrawMoves
    <3>7. ASSUME NEW ok \in BOOLEAN, Press(ok)
          PROVE  Goes(Verdict(w), Verdict(w)')
          BY <1>2, <3>7, PressMoves
    <3> QED BY <3>1, <3>2, <3>3, <3>4, <3>5, <3>6, <3>7 DEF Next
  <2> QED BY <2>1, <2>2
<1>3. CASE fate'[w] = fate[w] /\ fate[w] # "waiting"
      BY <1>1, <1>3 DEF Stands, Goes
<1>4. CASE fate[w] = "waiting" /\ fate'[w] = "ended"
  <2>1. Verdict(w) \in {"waiting", "exempt", "shown", "agreed"} /\ Verdict(w)' = "ended"
        BY <1>4 DEF Stands, Mark
  <2> QED BY <2>1, MovesAre
<1>5. CASE fate[w] = "unused" /\ fate'[w] = "ended"
      BY <1>5, MovesAre DEF Stands
<1>6. CASE fate[w] = "unused" /\ fate'[w] = "waiting"
  <2>1. UNCHANGED calls
        BY <1>1, <1>6 DEF FateStep
  <2>2. ASSUME NEW d \in Deciders
        PROVE  ~ Holds(d, w)'
    <3>1. Shaped(ask[d]) /\ Backed(ask[d]) /\ ask'[d] = ask[d]
          BY <2>1 DEF CallsShaped, CallsBacked, calls
    <3> QED BY <1>6, <3>1 DEF Holds, Shaped, Backed, Holding
  <2>3. Verdict(w) = "absent" /\ Verdict(w)' = "waiting"
        BY <1>6, <2>2 DEF Stands
  <2> QED BY <2>3, MovesAre
<1>7. CASE fate[w] = "waiting" /\ fate'[w] = "granted"
  <2>1. PICK d \in Deciders :
          ask[d].at = "granting" /\ ask[d].held # NoRequest /\ ask[d].held.what = w
        BY <1>1, <1>7 DEF FateStep
  <2>2. Holds(d, w) /\ ~ Shown(d)
        BY <2>1, HostAssumption DEF Holds, Holding, Shown, ScreenOwned
  <2>3. Mark(d) \in {"exempt", "agreed"}
        BY <2>1, <2>2 DEF Mark
  <2>4. Verdict(w) = Mark(d) /\ Verdict(w)' = "granted"
        BY <1>7, <2>2 DEF Stands
  <2> QED BY <2>3, <2>4, MovesAre
<1> QED BY <1>1, <1>2, <1>3, <1>4, <1>5, <1>6, <1>7 DEF FateStep

\* The decisions of the user implement the promise of the host's dialog: on a
\* production connection a request passes only from "agreed", which follows
\* "shown", and what has passed or ended stays so (decide_held, confirm_held).
THEOREM KeepsPromiseHolds == Spec => KeepsPromise
<1> DEFINE v == [w \in Whats |-> Verdict(w)]
<1>1. Init => Promise!Init
  <2> SUFFICES ASSUME Init
               PROVE  Promise!Init
      OBVIOUS
  <2>1. \A w \in Whats : fate[w] = "unused"
        BY DEF Init
  <2>2. \A w \in Whats : Verdict(w) = "absent"
        BY <2>1, InitHost, VerdictStands DEF Stands
  <2> QED BY <2>2 DEF Promise!Init
<1>2. HostInv /\ HostInv' /\ [Next]_vars => [Promise!Next]_v
  <2> SUFFICES ASSUME HostInv, HostInv', [Next]_vars
               PROVE  [Promise!Next]_v
      OBVIOUS
  <2>1. CASE UNCHANGED vars
        BY <2>1 DEF vars, Verdict
  <2>2. CASE Next
    <3>1. \A w \in Whats : Stands(w)
          BY VerdictStands
    <3>2. (\A w \in Whats : Stands(w))'
          BY VerdictStands, PTL
    <3>3. \A w \in Whats : Goes(Verdict(w), Verdict(w)')
          BY <2>2, <3>1, <3>2, StepMoves
    <3>4. \A w \in Whats : Verdict(w)' \in Promise!Verdicts
      <4> TAKE w \in Whats
      <4>1. Stands(w)' /\ fate'[w] \in {"unused", "waiting", "granted", "ended"}
            BY <3>2 DEF HostInv, HostTyped, RegistryTyped
      <4>2. Verdict(w)' \in {"absent", "waiting", "exempt", "shown", "agreed", "granted", "ended"}
            BY <4>1 DEF Stands, Mark
      <4> QED BY <4>2 DEF Promise!Verdicts
    <3> QED BY <3>3, <3>4 DEF Promise!Next, Goes
  <2> QED BY <2>1, <2>2
<1> QED BY <1>1, <1>2, HostInvariant, PTL DEF Spec, KeepsPromise, Promise!Spec
=============================================================================

---------------------- MODULE ConnectionMarkings_proofs ----------------------
(* What holds of the gate and of the three copies of a connection's markings   *)
(* for every set of connections, edits and openings; then of the calls of an   *)
(* agent that wait for the user, a specification with its own variables.       *)
EXTENDS ConnectionMarkings, AgentApproval, TLAPS

-----------------------------------------------------------------------------
(* The gate *)

\* The decision of the gate is one of the three, whatever it is asked.
LEMMA DecisionType ==
    ASSUME NEW k, NEW actor, NEW cmd, NEW env
    PROVE  authorize(k, actor, cmd, env) \in Decisions
BY DEF authorize, Decisions

\* DefaultPolicy::authorize is never more lenient with an agent than with the
\* user, on any command and any announced environment: every refusal and every
\* approval the user meets, the agent meets too.
LEMMA AgentAtLeastAsRestricted ==
    ASSUME NEW k, NEW cmd, NEW env
    PROVE  restrictiveness(authorize(k, "agent", cmd, env))
               >= restrictiveness(authorize(k, "human", cmd, env))
<1> DEFINE e == retained_environment(k, cmd, env)
<1>1. denied(k, "human", cmd, e) => denied(k, "agent", cmd, e)
  BY DEF denied
<1>2. held("human", cmd, e) => held("agent", cmd, e)
  BY DEF held
<1>3. CASE denied(k, "agent", cmd, e)
  <2>1. authorize(k, "agent", cmd, env) = "Deny"
    BY <1>3 DEF authorize
  <2>2. authorize(k, "human", cmd, env) \in Decisions
    BY DecisionType
  <2> QED
    BY <2>1, <2>2 DEF restrictiveness, Decisions
<1>4. CASE ~ denied(k, "agent", cmd, e) /\ held("agent", cmd, e)
  <2>1. authorize(k, "agent", cmd, env) = "RequireApproval"
    BY <1>4 DEF authorize
  <2>2. authorize(k, "human", cmd, env) \in {"Allow", "RequireApproval"}
    BY <1>4, <1>1 DEF authorize
  <2> QED
    BY <2>1, <2>2 DEF restrictiveness
<1>5. CASE ~ denied(k, "agent", cmd, e) /\ ~ held("agent", cmd, e)
  <2>1. authorize(k, "agent", cmd, env) = "Allow"
    BY <1>5 DEF authorize
  <2>2. authorize(k, "human", cmd, env) = "Allow"
    BY <1>5, <1>1, <1>2 DEF authorize
  <2> QED
    BY <2>1, <2>2 DEF restrictiveness
<1> QED
  BY <1>3, <1>4, <1>5

\* The environment the gate retains is at least the announced one and at least
\* its own marking.
LEMMA RetainedIsMostRestrictive ==
    ASSUME NEW announced \in Environments, NEW k \in Knowledge
    PROVE  /\ retain(announced, k) \in Environments
           /\ retain(announced, k) >= announced
           /\ k # Unregistered => retain(announced, k) >= k.environment
BY DEF retain, Max2, Knowledge, Facts, Environments, Local, Production

-----------------------------------------------------------------------------
(* The inductive invariant *)

MarkingsInv == TypeOK /\ SavesOnOrigin /\ CacheFollowsStore

LEMMA InitInv == Init => MarkingsInv
<1> SUFFICES ASSUME Init PROVE MarkingsInv
  OBVIOUS
<1>1. TypeOK
  BY ConfigsAssumption DEF Init, TypeOK, Knowledge, EditStates, EditPcs, OpeningStates
<1>2. SavesOnOrigin
  BY NoneAssumption DEF Init, SavesOnOrigin, LockedPcs
<1>3. CacheFollowsStore
  BY DEF Init, CacheFollowsStore
<1> QED
  BY <1>1, <1>2, <1>3 DEF MarkingsInv

\* Every step keeps the types.
LEMMA TypeStep == TypeOK /\ [Next]_vars => TypeOK'
<1> SUFFICES ASSUME TypeOK, [Next]_vars PROVE TypeOK'
  OBVIOUS
<1> USE DEF TypeOK, EditStates, EditPcs, OpeningStates
<1>1. ASSUME NEW w \in Edits, BeginUpdate(w) PROVE TypeOK'
  BY <1>1, ConfigsAssumption DEF BeginUpdate, Knowledge
<1>2. ASSUME NEW w \in Edits, BeginDelete(w) PROVE TypeOK'
  BY <1>2 DEF BeginDelete, Knowledge
<1>3. ASSUME NEW w \in Edits, Confirm(w) PROVE TypeOK'
  BY <1>3 DEF Confirm
<1>4. ASSUME NEW w \in Edits, Refuse(w) PROVE TypeOK'
  BY <1>4 DEF Refuse
<1>5. ASSUME NEW w \in Edits, TakeLock(w) PROVE TypeOK'
  BY <1>5 DEF TakeLock
<1>6. ASSUME NEW w \in Edits, Check(w) PROVE TypeOK'
  BY <1>6 DEF Check
<1>7. ASSUME NEW w \in Edits, Save(w) PROVE TypeOK'
  BY <1>7 DEF Save
<1>8. ASSUME NEW w \in Edits, SaveFails(w) PROVE TypeOK'
  BY <1>8 DEF SaveFails
<1>9. ASSUME NEW w \in Edits, Finish(w) PROVE TypeOK'
  BY <1>9 DEF Finish
<1>10. ASSUME NEW w \in Edits, Approve(w) PROVE TypeOK'
  BY <1>10 DEF Approve
<1>11. ASSUME NEW w \in Edits, CheckHeld(w) PROVE TypeOK'
  BY <1>11 DEF CheckHeld, Approved
<1>12. ASSUME NEW o \in Openings, BeginOpening(o) PROVE TypeOK'
  BY <1>12 DEF BeginOpening
<1>13. ASSUME NEW o \in Openings, RegisterOpening(o) PROVE TypeOK'
  BY <1>13 DEF RegisterOpening
<1>14. ASSUME NEW o \in Openings, Connect(o) PROVE TypeOK'
  BY <1>14 DEF Connect
<1>15. ASSUME NEW w \in Edits, CloseSessions(w) PROVE TypeOK'
  BY <1>15 DEF CloseSessions
<1>16. CASE UNCHANGED vars
  BY <1>16 DEF vars
<1> QED
  BY <1>1, <1>2, <1>3, <1>4, <1>5, <1>6, <1>7, <1>8, <1>9, <1>10, <1>11,
     <1>12, <1>13, <1>14, <1>15, <1>16 DEF Next, EditNext, OpeningNext

\* Every step keeps the lock with the edit that is checking or saving, and what
\* is about to be saved on what is on disk.
LEMMA SavesStep ==
    MarkingsInv /\ [Next]_vars => SavesOnOrigin'
<1> SUFFICES ASSUME MarkingsInv, [Next]_vars PROVE SavesOnOrigin'
  OBVIOUS
<1> USE NoneAssumption DEF MarkingsInv, TypeOK, SavesOnOrigin, EditStates, EditPcs, LockedPcs
<1>1. ASSUME NEW w \in Edits, BeginUpdate(w) PROVE SavesOnOrigin'
  BY <1>1 DEF BeginUpdate
<1>2. ASSUME NEW w \in Edits, BeginDelete(w) PROVE SavesOnOrigin'
  BY <1>2 DEF BeginDelete
<1>3. ASSUME NEW w \in Edits, Confirm(w) PROVE SavesOnOrigin'
  BY <1>3 DEF Confirm
<1>4. ASSUME NEW w \in Edits, Refuse(w) PROVE SavesOnOrigin'
  BY <1>4 DEF Refuse
<1>5. ASSUME NEW w \in Edits, TakeLock(w) PROVE SavesOnOrigin'
  BY <1>5 DEF TakeLock
<1>6. ASSUME NEW w \in Edits, Check(w) PROVE SavesOnOrigin'
  BY <1>6 DEF Check
<1>7. ASSUME NEW w \in Edits, Save(w) PROVE SavesOnOrigin'
  BY <1>7 DEF Save
<1>8. ASSUME NEW w \in Edits, SaveFails(w) PROVE SavesOnOrigin'
  BY <1>8 DEF SaveFails
<1>9. ASSUME NEW w \in Edits, Finish(w) PROVE SavesOnOrigin'
  BY <1>9 DEF Finish
<1>10. ASSUME NEW w \in Edits, Approve(w) PROVE SavesOnOrigin'
  BY <1>10 DEF Approve
<1>11. ASSUME NEW w \in Edits, CheckHeld(w) PROVE SavesOnOrigin'
  BY <1>11 DEF CheckHeld, Approved
<1>12. ASSUME NEW o \in Openings, BeginOpening(o) PROVE SavesOnOrigin'
  BY <1>12 DEF BeginOpening
<1>13. ASSUME NEW o \in Openings, RegisterOpening(o) PROVE SavesOnOrigin'
  BY <1>13 DEF RegisterOpening
<1>14. ASSUME NEW o \in Openings, Connect(o) PROVE SavesOnOrigin'
  BY <1>14 DEF Connect
<1>15. ASSUME NEW w \in Edits, CloseSessions(w) PROVE SavesOnOrigin'
  BY <1>15 DEF CloseSessions
<1>16. CASE UNCHANGED vars
  BY <1>16 DEF vars
<1> QED
  BY <1>1, <1>2, <1>3, <1>4, <1>5, <1>6, <1>7, <1>8, <1>9, <1>10, <1>11,
     <1>12, <1>13, <1>14, <1>15, <1>16 DEF Next, EditNext, OpeningNext

\* Only a save and an opening write the cache, and both write what is on disk.
LEMMA CacheStep ==
    MarkingsInv /\ [Next]_vars => CacheFollowsStore'
<1> SUFFICES ASSUME MarkingsInv, [Next]_vars PROVE CacheFollowsStore'
  OBVIOUS
<1> USE DEF MarkingsInv, TypeOK, CacheFollowsStore
<1>1. ASSUME NEW w \in Edits, Save(w) PROVE CacheFollowsStore'
  BY <1>1 DEF Save, EditStates
<1>2. ASSUME NEW o \in Openings, Connect(o) PROVE CacheFollowsStore'
  BY <1>2 DEF Connect, OpeningStates
<1>3. CASE UNCHANGED <<store, cache>>
  BY <1>3
<1> QED
  BY <1>1, <1>2, <1>3
     DEF Next, EditNext, OpeningNext, vars, BeginUpdate, BeginDelete, Confirm,
         Refuse, TakeLock, Check, CloseSessions, SaveFails, Finish, Approve, CheckHeld,
         BeginOpening, RegisterOpening

\* The types, the lock discipline and the cache's agreement with the disk hold
\* in every reachable state, for any number of edits and openings.
THEOREM MarkingsInvariant == Spec => []MarkingsInv
<1>1. Init => MarkingsInv
  BY InitInv
<1>2. MarkingsInv /\ [Next]_vars => MarkingsInv'
  BY TypeStep, SavesStep, CacheStep DEF MarkingsInv
<1> QED
  BY <1>1, <1>2, PTL DEF Spec

\* Type correctness of the markings' three copies and of the edits.
THEOREM TypeCorrect == Spec => []TypeOK
<1>1. MarkingsInv => TypeOK
  BY DEF MarkingsInv
<1> QED
  BY <1>1, MarkingsInvariant, PTL

\* An edit only saves, under the lock, what it computed on the configuration
\* that is on disk.
THEOREM SavesOnOriginHolds == Spec => []SavesOnOrigin
<1>1. MarkingsInv => SavesOnOrigin
  BY DEF MarkingsInv
<1> QED
  BY <1>1, MarkingsInvariant, PTL

\* The cache never contradicts the disk.
THEOREM CacheFollowsStoreHolds == Spec => []CacheFollowsStore
<1>1. MarkingsInv => CacheFollowsStore
  BY DEF MarkingsInv
<1> QED
  BY <1>1, MarkingsInvariant, PTL

\* No lost update: whatever dialogs and approvals an edit waited for, it
\* replaces the configuration it was computed on and no other.
THEOREM NoLostUpdateHolds == Spec => NoLostUpdate
<1> DEFINE Step ==
      \A c \in Connections :
         store'[c] # store[c] =>
            \E w \in Edits : /\ edit[w].pc = "saving"
                             /\ edit[w].conn = c
                             /\ edit[w].origin = store[c]
                             /\ edit[w].config = store'[c]
<1>1. MarkingsInv /\ [Next]_vars => [Step]_vars
  <2> SUFFICES ASSUME MarkingsInv, Next PROVE Step
    OBVIOUS
  <2>1. ASSUME NEW w \in Edits, Save(w) PROVE Step
    BY <2>1 DEF Save, MarkingsInv, TypeOK, SavesOnOrigin, EditStates
  <2>2. CASE store' = store
    BY <2>2
  <2> QED
    BY <2>1, <2>2
       DEF Next, EditNext, OpeningNext, BeginUpdate, BeginDelete, Confirm,
           Refuse, TakeLock, Check, CloseSessions, SaveFails, Finish, Approve, CheckHeld,
           BeginOpening, RegisterOpening, Connect
<1> QED
  BY <1>1, MarkingsInvariant, PTL DEF Spec, NoLostUpdate

\* An agent is never freer than the user, whatever was registered and saved.
THEOREM AgentNeverFreerHolds == Spec => []AgentNeverFreer
<1>1. AgentNeverFreer
  BY AgentAtLeastAsRestricted DEF AgentNeverFreer
<1> QED
  BY <1>1, PTL

\* A write on a connection the disk marks production is refused to an agent and
\* held or refused for the user, whichever stale marking the policy holds: the
\* cache agrees with the disk, or knows nothing and counts as production.
THEOREM ProductionIsProtectedHolds == Spec => []ProductionIsProtected
<1>1. MarkingsInv => ProductionIsProtected
  <2> SUFFICES ASSUME MarkingsInv,
                      NEW c \in Connections, NEW cmd \in Executes,
                      cmd.target = c, is_mutating(cmd),
                      store[c] # Unregistered, store[c].environment = Production
               PROVE  /\ authorize(facts, "human", cmd, environment_of(c)) # "Allow"
                      /\ authorize(facts, "agent", cmd, environment_of(c)) = "Deny"
    BY DEF ProductionIsProtected
  <2>1. environment_of(c) = Production
    BY DEF MarkingsInv, CacheFollowsStore, environment_of
  <2>2. facts[c] \in Knowledge /\ Production \in Environments
    BY DEF MarkingsInv, TypeOK, Environments, Production, Local
  <2>3. known(facts, cmd) = facts[c]
    BY NoConnectionAssumption DEF known
  <2>4. retained_environment(facts, cmd, environment_of(c)) = Production
    BY <2>1, <2>2, <2>3, RetainedIsMostRestrictive
       DEF retained_environment, Environments, Production, Local
  <2> QED
    BY <2>4 DEF authorize, denied, held, refused_to_agent
<1> QED
  BY <1>1, MarkingsInvariant, PTL

\* What the gate lets an agent run at once on a connection marked production or
\* read-only leaves bounded to a read-only execution: bounded_to exempts a text
\* made only of transaction verbs, which the gate refuses to an agent.
THEOREM AgentReadsAreBoundedHolds == Spec => []AgentReadsAreBounded
<1>1. AgentReadsAreBounded
  <2> SUFFICES ASSUME NEW c \in Connections, NEW cmd \in Executes,
                      NEW env, NEW ro, cmd.target = c, env = Production \/ ro,
                      authorize(facts, "agent", cmd, environment_of(c)) = "Allow"
               PROVE  bounded_to(cmd, env, ro).read_only
    BY DEF AgentReadsAreBounded
  <2>1. ~ is_mutating(cmd) /\ ~ cmd.transaction_control
    BY DEF authorize, denied, held, refused_to_agent
  <2> QED
    BY <2>1 DEF bounded_to, Executes
<1> QED
  BY <1>1, PTL

-----------------------------------------------------------------------------
(* An agent's calls that wait for the user: what they say of their requests,   *)
(* for every number of calls and decisions, every lifetime and every capacity. *)

\* The shape of the state the argument needs.
Shape ==
    /\ now \in Nat
    /\ pc \in [Ids -> Pcs]
    /\ told \in [Ids -> Reports \cup {"nothing", "withdrawn", "refused"}]
    /\ mail \in [Ids -> Reports \cup {"none", "Released"}]
    /\ card \in [Ids -> {"none", "review", "withdrawn", "decided"}]
    /\ queue.pending \in [Ids -> Requests \cup {NoRequest}]
    /\ decider \in [Deciders -> [pc : {"idle"} \cup Deciding, id : Ids \cup {Nobody},
                                 report : Reports]]

\* Where each request is: waiting, expired, withdrawn by a release and taken
\* exclude one another, and only a request the user was shown can be taken; a
\* message to the call, and a decision past the taking, find it gone.
Where(c) ==
    /\ pc[c] = "idle" => /\ ~ was_expired(queue, c)
                         /\ mail[c] = "none" /\ told[c] = "nothing"
    /\ pc[c] \in {"idle", "submitted"} => card[c] = "none"
    /\ card[c] = "none" => c \notin granted
    /\ queue.pending[c] # NoRequest => /\ pc[c] \in {"submitted", "waiting"}
                                       /\ c \notin granted
                                       /\ told[c] = "nothing"
    /\ was_expired(queue, c) => c \notin granted /\ queue.pending[c] = NoRequest
    /\ mail[c] # "none" => queue.pending[c] = NoRequest
    /\ mail[c] = "Released" => c \notin granted
    /\ told[c] = "withdrawn" => c \notin granted /\ queue.pending[c] = NoRequest

DecidesShown ==
    \A d \in Deciders :
        /\ decider[d].pc # "idle" => decider[d].id \in Ids /\ card[decider[d].id] # "none"
        /\ decider[d].pc \in {"approved", "running", "reporting"} =>
             queue.pending[decider[d].id] = NoRequest

AgentInv == Shape /\ DecidesShown /\ \A c \in Ids : Where(c)

-----------------------------------------------------------------------------
\* Removing a request and nothing else.
LEMMA RejectFacts ==
    ASSUME NEW q, q.pending \in [Ids -> Requests \cup {NoRequest}], NEW c \in Ids
    PROVE  /\ reject(q, c).pending \in [Ids -> Requests \cup {NoRequest}]
           /\ reject(q, c).pending[c] = NoRequest
           /\ \A i \in Ids : i # c => reject(q, c).pending[i] = q.pending[i]
           /\ \A i \in Ids : was_expired(reject(q, c), i) <=> was_expired(q, i)
BY DEF reject, without, Queue, was_expired

\* What is remembered was remembered before, or has a place in this order.
LEMMA RememberFacts ==
    ASSUME NEW q, NEW place, NEW i, was_expired(remember_expired(q, place), i)
    PROVE  was_expired(q, i) \/ i \in DOMAIN place
<1>1. PICK e \in Newest(q.expired \cup Ranked(q, place)) : e.id = i
  BY DEF was_expired, remember_expired, Queue
<1>2. e \in q.expired \/ e \in Ranked(q, place)
  BY <1>1 DEF Newest
<1>3. e \in Ranked(q, place) => e.id \in DOMAIN place
  BY DEF Ranked
<1> QED
  BY <1>1, <1>2, <1>3 DEF was_expired

\* Expiring a request: what is newly remembered was waiting.
LEMMA ExpireFacts ==
    ASSUME NEW q, q.pending \in [Ids -> Requests \cup {NoRequest}], NEW c \in Ids
    PROVE  /\ expire(q, c).pending \in [Ids -> Requests \cup {NoRequest}]
           /\ expire(q, c).pending[c] = NoRequest
           /\ \A i \in Ids : i # c => expire(q, c).pending[i] = q.pending[i]
           /\ \A i \in Ids : was_expired(expire(q, c), i) =>
                was_expired(q, i) \/ (i = c /\ q.pending[c] # NoRequest)
<1>1. CASE q.pending[c] = NoRequest
  BY <1>1 DEF expire
<1>2. CASE q.pending[c] # NoRequest
  <2> DEFINE place == [i \in {c} |-> 1]
  <2>1. expire(q, c) = remember_expired(without(q, {c}), place)
    BY <1>2 DEF expire
  <2>2. expire(q, c).pending = [i \in Ids |-> IF i \in {c} THEN NoRequest ELSE q.pending[i]]
    BY <2>1 DEF remember_expired, without, Queue
  <2>3. \A i \in Ids : was_expired(without(q, {c}), i) <=> was_expired(q, i)
    BY DEF without, Queue, was_expired
  <2>4. ASSUME NEW i \in Ids, was_expired(expire(q, c), i)
        PROVE  was_expired(q, i) \/ (i = c /\ q.pending[c] # NoRequest)
    <3>1. was_expired(without(q, {c}), i) \/ i \in DOMAIN place
      BY <2>1, <2>4, RememberFacts
    <3> QED
      BY <1>2, <2>3, <3>1
  <2> QED
    BY <2>2, <2>4
<1> QED
  BY <1>1, <1>2

\* Purging: every stale request leaves, and only those are newly remembered.
LEMMA PurgeFacts ==
    ASSUME NEW q, q.pending \in [Ids -> Requests \cup {NoRequest}], NEW t,
           NEW place \in Orders(Stale(q, t))
    PROVE  /\ purge(q, t, place).pending \in [Ids -> Requests \cup {NoRequest}]
           /\ \A i \in Ids : purge(q, t, place).pending[i] =
                IF i \in Stale(q, t) THEN NoRequest ELSE q.pending[i]
           /\ \A i \in Ids : was_expired(purge(q, t, place), i) =>
                was_expired(q, i) \/ i \in Stale(q, t)
           /\ \A i \in Stale(q, t) : i \in Ids /\ q.pending[i] # NoRequest
<1> DEFINE S == Stale(q, t)
<1>1. purge(q, t, place) = remember_expired(without(q, S), place)
  BY DEF purge
<1>2. purge(q, t, place).pending = [i \in Ids |-> IF i \in S THEN NoRequest ELSE q.pending[i]]
  BY <1>1 DEF remember_expired, without, Queue
<1>3. \A i \in Ids : was_expired(without(q, S), i) <=> was_expired(q, i)
  BY DEF without, Queue, was_expired
<1>4. DOMAIN place = S
  BY DEF Orders
<1>5. ASSUME NEW i \in Ids, was_expired(purge(q, t, place), i)
      PROVE  was_expired(q, i) \/ i \in S
  <2>1. was_expired(without(q, S), i) \/ i \in DOMAIN place
    BY <1>1, <1>5, RememberFacts
  <2> QED
    BY <1>3, <1>4, <2>1
<1>6. \A i \in S : i \in Ids /\ q.pending[i] # NoRequest
  BY DEF Stale, Waiting
<1> QED
  BY <1>2, <1>5, <1>6

\* Taking: the request leaves, or the memory of its expiry does.
LEMMA TakeFacts ==
    ASSUME NEW q, q.pending \in [Ids -> Requests \cup {NoRequest}], NEW c \in Ids
    PROVE  /\ take(q, c).pending \in [Ids -> Requests \cup {NoRequest}]
           /\ take(q, c).pending[c] = NoRequest
           /\ \A i \in Ids : i # c => take(q, c).pending[i] = q.pending[i]
           /\ \A i \in Ids : was_expired(take(q, c), i) => was_expired(q, i)
BY DEF take, forget_expired, without, Queue, was_expired

-----------------------------------------------------------------------------
\* No request at the start.
LEMMA InitAgentInv == AgentInit => AgentInv
BY DEF AgentInit, AgentInv, Shape, DecidesShown, Where, EmptyQueue, Queue, was_expired,
       Idle, Pcs, Reports, Deciding

\* A step that leaves the deciders alone, takes no card away and admits nothing.
LEMMA DecidesKept ==
    ASSUME DecidesShown, decider' = decider,
           \A i \in Ids : card[i] # "none" => card'[i] # "none",
           \A i \in Ids : queue.pending[i] = NoRequest => queue'.pending[i] = NoRequest
    PROVE  DecidesShown'
BY Zenon DEF DecidesShown, Deciding

\* The steps of the call.
LEMMA CallKeepsInv ==
    ASSUME AgentInv, NEW c \in Ids,
           \/ Submit(c) \/ Show(c) \/ Settled(c) \/ Stopped(c) \/ Expired(c)
           \/ CheckExpired(c) \/ LoseTrack(c) \/ HangUp(c)
    PROVE  AgentInv'
<1>0. queue.pending \in [Ids -> Requests \cup {NoRequest}]
  BY DEF AgentInv, Shape
<1>r. /\ reject(queue, c).pending \in [Ids -> Requests \cup {NoRequest}]
      /\ reject(queue, c).pending[c] = NoRequest
      /\ \A i \in Ids : i # c => reject(queue, c).pending[i] = queue.pending[i]
      /\ \A i \in Ids : was_expired(reject(queue, c), i) => was_expired(queue, i)
  BY <1>0, RejectFacts
<1> USE DEF AgentInv, Shape, DecidesShown, Where, Pcs, Reports, question, calls, registry
<1>1. CASE Submit(c)
  <2>1. PICK place \in Orders(Stale(queue, now)), who \in Whats :
          IF Admits(purge(queue, now, place), c)
          THEN /\ queue' = admit(purge(queue, now, place), c, who, now)
               /\ pc' = [pc EXCEPT ![c] = "submitted"]
               /\ UNCHANGED told
          ELSE /\ queue' = purge(queue, now, place)
               /\ pc' = [pc EXCEPT ![c] = "ended"]
               /\ told' = [told EXCEPT ![c] = "refused"]
    BY <1>1 DEF Submit
  <2> DEFINE q == purge(queue, now, place)
  <2>2. /\ q.pending \in [Ids -> Requests \cup {NoRequest}]
        /\ \A i \in Ids : q.pending[i] =
             IF i \in Stale(queue, now) THEN NoRequest ELSE queue.pending[i]
        /\ \A i \in Ids : was_expired(q, i) => was_expired(queue, i) \/ i \in Stale(queue, now)
        /\ \A i \in Stale(queue, now) : i \in Ids /\ queue.pending[i] # NoRequest
    BY PurgeFacts
  <2>3. pc[c] = "idle" /\ UNCHANGED <<mail, card, decider, granted>>
    BY <1>1 DEF Submit
  <2>4. \A i \in Ids : was_expired(queue', i) <=> was_expired(q, i)
    BY <2>1 DEF admit, Queue, was_expired
  <2>5. now + Ttl \in Nat
    BY TtlAssumption
  <2>6. CASE Admits(q, c)
    <3> DEFINE r == [what |-> who, expires_at |-> now + Ttl]
    <3>1. queue'.pending = [q.pending EXCEPT ![c] = r] /\ r \in Requests
      BY <2>1, <2>5, <2>6 DEF admit, Queue, Requests
    <3>2. pc' = [pc EXCEPT ![c] = "submitted"] /\ told' = told /\ now' = now
      BY <1>1, <2>1, <2>6 DEF Submit
    <3>3. ~ was_expired(queue', c)
      BY <2>2, <2>3, <2>4
    <3> HIDE DEF q, r
    <3> QED
      BY <2>2, <2>3, <2>4, <3>1, <3>2, <3>3
  <2>7. CASE ~ Admits(q, c)
    <3>1. queue' = q /\ pc' = [pc EXCEPT ![c] = "ended"] /\ told' = [told EXCEPT ![c] = "refused"]
      BY <2>1, <2>7
    <3>2. now' = now
      BY <1>1 DEF Submit
    <3> HIDE DEF q
    <3> QED
      BY <2>2, <2>3, <3>1, <3>2
  <2> QED
    BY <2>6, <2>7
<1>2. CASE Show(c)
  <2>1. Shape'
    BY <1>2, <1>r DEF Show, End
  <2>2. DecidesShown'
    <3>1. decider' = decider
      BY <1>2 DEF Show
    <3>2. \A i \in Ids : card[i] # "none" => card'[i] # "none"
      BY <1>2 DEF Show, End
    <3>3. \A i \in Ids : queue.pending[i] = NoRequest => queue'.pending[i] = NoRequest
      BY <1>2, <1>r DEF Show, End
    <3> QED
      BY <3>1, <3>2, <3>3, DecidesKept
  <2>3. ASSUME NEW i \in Ids PROVE Where(i)'
    BY <1>2, <1>r DEF Show, End
  <2> QED
    BY <2>1, <2>2, <2>3
<1>3. CASE Settled(c)
  <2>1. Shape'
    BY <1>3 DEF Settled, End, Say
  <2>2. DecidesShown'
    BY <1>3 DEF Settled, End, Say
  <2>3. ASSUME NEW i \in Ids PROVE Where(i)'
    BY <1>3 DEF Settled, End, Say, was_expired
  <2> QED
    BY <2>1, <2>2, <2>3
<1>4. CASE Stopped(c)
  <2>1. Shape'
    BY <1>4, <1>r DEF Stopped, End, Say
  <2>2. DecidesShown'
    <3>1. decider' = decider
      BY <1>4 DEF Stopped
    <3>2. \A i \in Ids : card[i] # "none" => card'[i] # "none"
      BY <1>4 DEF Stopped, End, Say
    <3>3. \A i \in Ids : queue.pending[i] = NoRequest => queue'.pending[i] = NoRequest
      BY <1>4, <1>r DEF Stopped, End, Say
    <3> QED
      BY <3>1, <3>2, <3>3, DecidesKept
  <2>3. ASSUME NEW i \in Ids PROVE Where(i)'
    BY <1>4, <1>r DEF Stopped, End, Say
  <2> QED
    BY <2>1, <2>2, <2>3
<1>5. CASE Expired(c)
  <2>0. /\ expire(queue, c).pending \in [Ids -> Requests \cup {NoRequest}]
        /\ expire(queue, c).pending[c] = NoRequest
        /\ \A i \in Ids : i # c => expire(queue, c).pending[i] = queue.pending[i]
        /\ \A i \in Ids : was_expired(expire(queue, c), i) =>
             was_expired(queue, i) \/ (i = c /\ queue.pending[c] # NoRequest)
    BY ExpireFacts
  <2>1. Shape'
    BY <1>5, <2>0 DEF Expired, End, Say
  <2>2. DecidesShown'
    BY <1>5, <2>0 DEF Expired, End, Say
  <2>3. ASSUME NEW i \in Ids PROVE Where(i)'
    BY <1>5, <2>0 DEF Expired, End, Say
  <2> QED
    BY <2>1, <2>2, <2>3
<1>6. CASE CheckExpired(c)
  BY <1>6 DEF CheckExpired, End, Say
<1>7. CASE LoseTrack(c)
  BY <1>7 DEF LoseTrack, End, was_expired
<1>8. CASE HangUp(c)
  <2>1. Shape'
    BY <1>8, <1>r DEF HangUp, Say
  <2>2. DecidesShown'
    <3>1. decider' = decider
      BY <1>8 DEF HangUp
    <3>2. \A i \in Ids : card[i] # "none" => card'[i] # "none"
      BY <1>8 DEF HangUp, Say
    <3>3. \A i \in Ids : queue.pending[i] = NoRequest => queue'.pending[i] = NoRequest
      BY <1>8, <1>r DEF HangUp, Say
    <3> QED
      BY <3>1, <3>2, <3>3, DecidesKept
  <2>3. ASSUME NEW i \in Ids PROVE Where(i)'
    BY <1>8, <1>r DEF HangUp, Say
  <2> QED
    BY <2>1, <2>2, <2>3
<1> QED
  BY <1>1, <1>2, <1>3, <1>4, <1>5, <1>6, <1>7, <1>8

\* The steps of the agent, of other submissions and of the user.
LEMMA OthersKeepInv ==
    ASSUME AgentInv,
           \/ \E c \in Ids : ReleaseOne(c) \/ Reject(c)
           \/ \E d \in Deciders : DeciderNext(d)
           \/ Stop \/ Close \/ Release \/ OtherSubmit \/ Tick \/ UNCHANGED agentVars
    PROVE  AgentInv'
<1> USE DEF AgentInv, Shape, DecidesShown, Where, Pcs, Reports, Deciding, question, calls, registry
<1>1. ASSUME NEW c \in Ids, ReleaseOne(c) \/ Reject(c) PROVE AgentInv'
  <2>1. /\ queue'.pending \in [Ids -> Requests \cup {NoRequest}]
        /\ queue'.pending[c] = NoRequest
        /\ \A i \in Ids : i # c => queue'.pending[i] = queue.pending[i]
        /\ \A i \in Ids : was_expired(queue', i) <=> was_expired(queue, i)
    BY <1>1, RejectFacts DEF ReleaseOne, Reject
  <2>2. UNCHANGED <<now, pc, told, decider, granted>>
    BY <1>1 DEF ReleaseOne, Reject
  <2>3. \/ card' = card
        \/ card' = [card EXCEPT ![c] = "decided"] /\ card[c] # "none"
    BY <1>1 DEF ReleaseOne, Reject
  <2>4. \/ mail' = mail
        \/ mail' = [mail EXCEPT ![c] = "Denied"] /\ card[c] # "none"
        \/ mail' = [mail EXCEPT ![c] = "Released"] /\ queue.pending[c] # NoRequest
    BY <1>1 DEF ReleaseOne, Reject, settle
  <2>5. Shape'
    BY <2>1, <2>2, <2>3, <2>4
  <2>6. DecidesShown'
    <3>1. \A i \in Ids : card[i] # "none" => card'[i] # "none"
      BY <2>3
    <3>2. \A i \in Ids : queue.pending[i] = NoRequest => queue'.pending[i] = NoRequest
      BY <2>1
    <3> QED
      BY <2>2, <3>1, <3>2, DecidesKept
  <2>7. ASSUME NEW i \in Ids PROVE Where(i)'
    BY <2>1, <2>2, <2>3, <2>4
  <2> QED
    BY <2>5, <2>6, <2>7
<1>3. ASSUME NEW d \in Deciders, NEW c \in Ids, DecideApproved(d, c) PROVE AgentInv'
  BY <1>3 DEF DecideApproved
<1>4. ASSUME NEW d \in Deciders, Take(d) PROVE AgentInv'
  <2> DEFINE c == decider[d].id
  <2>1. c \in Ids /\ card[c] # "none"
    BY <1>4 DEF Take
  <2>2. take_answer(queue, c, now) = "Granted" => queue.pending[c] # NoRequest
    BY DEF take_answer
  <2>3. queue' = take(queue, c)
    BY <1>4 DEF Take
  <2>4. /\ queue'.pending \in [Ids -> Requests \cup {NoRequest}]
        /\ queue'.pending[c] = NoRequest
        /\ \A i \in Ids : i # c => queue'.pending[i] = queue.pending[i]
        /\ \A i \in Ids : was_expired(queue', i) => was_expired(queue, i)
    <3> HIDE DEF c, AgentInv, DecidesShown, Where
    <3>1. queue.pending \in [Ids -> Requests \cup {NoRequest}]
      BY DEF AgentInv
    <3> QED
      BY <2>1, <2>3, <3>1, TakeFacts
  <2>5. UNCHANGED <<now, pc, told, mail, card>>
    BY <1>4 DEF Take
  <2>6. granted' = granted \/ (granted' = granted \cup {c} /\ queue.pending[c] # NoRequest)
    BY <1>4, <2>2 DEF Take
  <2>7. /\ decider' \in [Deciders -> [pc : {"idle"} \cup Deciding, id : Ids \cup {Nobody},
                                      report : Reports]]
        /\ \A e \in Deciders : e # d => decider'[e] = decider[e]
        /\ decider'[d].id = c
    BY <1>4 DEF Take
  <2>8. Shape'
    BY <2>4, <2>5, <2>7
  <2>9. ASSUME NEW e \in Deciders
        PROVE  /\ decider'[e].pc # "idle" => decider'[e].id \in Ids /\ card'[decider'[e].id] # "none"
               /\ decider'[e].pc \in {"approved", "running", "reporting"} =>
                    queue'.pending[decider'[e].id] = NoRequest
    <3>1. CASE e = d
      BY <2>1, <2>4, <2>5, <2>7, <3>1
    <3>2. CASE e # d
      <4>1. decider'[e] = decider[e]
        BY <2>7, <3>2
      <4> HIDE DEF c
      <4> QED
        BY <2>4, <2>5, <4>1
    <3> QED
      BY <3>1, <3>2
  <2>10. ASSUME NEW i \in Ids PROVE Where(i)'
    <3> HIDE DEF c
    <3> QED
      BY <2>1, <2>4, <2>5, <2>6
  <2> QED
    BY <2>8, <2>9, <2>10
<1>9. ASSUME NEW d \in Deciders, Barred(d) PROVE AgentInv'
  <2>1. UNCHANGED <<now, queue, pc, told, mail, card, granted>>
    BY <1>9 DEF Barred
  <2>2. decider' = [decider EXCEPT ![d] = Idle]
    BY <1>9 DEF Barred
  <2>3. Shape' /\ DecidesShown'
    BY <2>1, <2>2 DEF Idle
  <2>4. ASSUME NEW i \in Ids PROVE Where(i)'
    BY <2>1 DEF was_expired
  <2> QED
    BY <2>3, <2>4
<1>5. ASSUME NEW d \in Deciders, Run(d) \/ Complete(d) PROVE AgentInv'
  <2>1. UNCHANGED <<now, queue, pc, told, mail, card, granted>>
    BY <1>5 DEF Run, Complete
  <2>2. /\ decider' \in [Deciders -> [pc : {"idle"} \cup Deciding, id : Ids \cup {Nobody},
                                      report : Reports]]
        /\ \A e \in Deciders : e # d => decider'[e] = decider[e]
        /\ decider'[d].id = decider[d].id
        /\ decider[d].pc \in {"approved", "running"}
    <3> DEFINE D == [pc : {"idle"} \cup Deciding, id : Ids \cup {Nobody}, report : Reports]
    <3>1. decider \in [Deciders -> D] /\ decider[d].pc \in {"approved", "running"}
      BY <1>5 DEF Run, Complete
    <3>2. PICK n \in D : n.id = decider[d].id /\ decider' = [decider EXCEPT ![d] = n]
      <4>1. CASE decider' = [decider EXCEPT ![d] = [@ EXCEPT !.pc = "running", !.report = "Ran"]]
        <5>1. [decider[d] EXCEPT !.pc = "running", !.report = "Ran"] \in D
          BY ZenonT(30), <3>1 DEF Deciding, Reports
        <5> QED
          BY <3>1, <4>1, <5>1
      <4>2. CASE decider' = [decider EXCEPT ![d].pc = "reporting"]
        <5>1. [decider[d] EXCEPT !.pc = "reporting"] \in D
          BY ZenonT(30), <3>1 DEF Deciding
        <5> QED
          BY <3>1, <4>2, <5>1
      <4>3. CASE Complete(d)
        BY ZenonT(30), <3>1, <4>3 DEF Complete, Deciding, Reports
      <4> QED
        BY <1>5, <4>1, <4>2, <4>3 DEF Run
    <3> HIDE DEF D
    <3>3. decider' \in [Deciders -> D]
      BY <3>1, <3>2
    <3> QED
      BY <3>1, <3>2, <3>3 DEF D
  <2>3. Shape'
    BY <2>1, <2>2
  <2>4. DecidesShown'
    BY <2>1, <2>2
  <2>5. ASSUME NEW i \in Ids PROVE Where(i)'
    BY <2>1 DEF was_expired
  <2> QED
    BY <2>3, <2>4, <2>5
<1>6. ASSUME NEW d \in Deciders, Report(d) \/ Cut(d) PROVE AgentInv'
  <2> DEFINE c == decider[d].id
  <2>1. UNCHANGED <<now, queue, pc, told, card, granted>>
    BY <1>6 DEF Report, Cut
  <2>2. c \in Ids /\ card[c] # "none" /\ queue.pending[c] = NoRequest
    BY <1>6 DEF Report, Cut
  <2>3. mail' = mail \/ \E r \in Reports : mail' = [mail EXCEPT ![c] = r]
    BY <1>6 DEF Report, Cut, settle
  <2>4. decider' = [decider EXCEPT ![d] = Idle]
    BY <1>6 DEF Report, Cut
  <2> HIDE DEF c
  <2>5. Shape'
    BY <2>1, <2>2, <2>3, <2>4 DEF Idle
  <2>6. DecidesShown'
    BY <2>1, <2>4 DEF Idle
  <2>7. ASSUME NEW i \in Ids PROVE Where(i)'
    BY <2>1, <2>2, <2>3 DEF was_expired
  <2> QED
    BY <2>5, <2>6, <2>7
<1>7. CASE Stop \/ Close \/ Release \/ Tick \/ UNCHANGED agentVars
  BY <1>7 DEF Stop, Close, Release, Tick, agentVars, was_expired
<1>8. CASE OtherSubmit
  <2>1. PICK place \in Orders(Stale(queue, now)) : queue' = purge(queue, now, place)
    BY <1>8 DEF OtherSubmit
  <2>2. UNCHANGED <<now, pc, told, mail, card, decider, granted>>
    BY <1>8 DEF OtherSubmit
  <2> QED
    BY <2>1, <2>2, PurgeFacts
<1> QED
  BY <1>1, <1>3, <1>4, <1>5, <1>6, <1>7, <1>8, <1>9 DEF DeciderNext

-----------------------------------------------------------------------------
\* Waiting, expired, withdrawn and taken exclude one another, always.
THEOREM AgentInvariant == AgentSpec => []AgentInv
<1>1. AgentInv /\ [AgentNext]_agentVars => AgentInv'
  BY CallKeepsInv, OthersKeepInv DEF AgentNext, CallNext
<1> QED
  BY <1>1, InitAgentInv, PTL DEF AgentSpec

\* A call that says « nothing ran » is right, and stays right: the request it
\* withdrew was not taken by decide and can no longer be.
THEOREM NothingRanIsTrueHolds == AgentSpec => []NothingRanIsTrue
<1>1. AgentInv => NothingRanIsTrue
  BY DEF AgentInv, Where, NothingRanIsTrue
<1> QED
  BY <1>1, AgentInvariant, PTL

\* A call that ended or was dropped leaves nothing approvable behind.
THEOREM NoOrphanRequestHolds == AgentSpec => []NoOrphanRequest
<1>1. AgentInv => NoOrphanRequest
  BY DEF AgentInv, Where, NoOrphanRequest, Over
<1> QED
  BY <1>1, AgentInvariant, PTL
=============================================================================

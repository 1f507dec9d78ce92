---------------------------- MODULE AgentApproval ----------------------------
(* An agent's write that the policy holds back: the tool call waits inside      *)
(* AgentSink::await_user until the user decides, the request expires, the       *)
(* question is stopped, the agent is released or the call is dropped, while     *)
(* decide() runs on another thread (oxyn-desktop: conversation.rs,              *)
(* conversation/decisions.rs, threads.rs, backend.rs).  Each step takes one of  *)
(* the locks involved, or follows an await.                                     *)
EXTENDS ApprovalQueue

CONSTANTS
    Deciders,   \* the calls of decide(approved = true) that may be under way
    Nobody,     \* no identifier
    MaxNow      \* bound of the clock, for model checking

\* Ids are the calls, each under the fresh identifier the executor gave it, and
\* Whats the agent they all come from.
ASSUME AgentAssumption == Whats # {} /\ Nobody \notin Ids
ASSUME MaxNowAssumption == MaxNow \in Nat

VARIABLES
    now,        \* the monotonic clock
    queue,      \* the approval registry
    open,       \* QuestionOpen: the question still waits for its answer
    stopped,    \* the question's cancellation token
    releasing,  \* requests WithdrawOnRelease has listed and not yet withdrawn
    pc,         \* where each call is
    deadline,   \* the timer of each wait
    registered, \* Decisions.waiting: the calls whose sender is still there
    mail,       \* what each call's oneshot channel holds
    told,       \* what each call answered its model
    card,       \* what the panel shows for each call
    decider,    \* where each decide() is, and on which request
    granted,    \* requests whose approval was taken
    ran         \* requests whose command started executing

registry == <<now, queue>>
question == <<open, stopped, releasing>>
calls == <<pc, deadline, told>>
agentVars ==
    <<now, queue, open, stopped, releasing, pc, deadline, registered, mail,
      told, card, decider, granted, ran>>

Pcs == {"idle", "submitted", "waiting", "checking", "outcome", "ended", "gone"}
Reports == {"Denied", "Ran", "Ambiguous"}
Deciding == {"tracked", "approved", "running", "reporting"}

AgentTypeOK ==
    /\ now \in 0 .. MaxNow
    /\ queue \in Queues
    /\ open \in BOOLEAN /\ stopped \in BOOLEAN
    /\ releasing \subseteq Ids
    /\ pc \in [Ids -> Pcs]
    /\ deadline \in [Ids -> Nat]
    /\ registered \subseteq Ids
    /\ mail \in [Ids -> Reports \cup {"none", "Released"}]
    /\ told \in [Ids -> Reports \cup {"nothing", "withdrawn", "refused"}]
    /\ card \in [Ids -> {"none", "review", "withdrawn", "decided"}]
    /\ decider \in [Deciders -> [pc : {"idle"} \cup Deciding, id : Ids \cup {Nobody},
                                 report : Reports]]
    /\ granted \subseteq Ids /\ ran \subseteq Ids

Idle == [pc |-> "idle", id |-> Nobody, report |-> "Denied"]

AgentInit ==
    /\ now = 0 /\ queue = EmptyQueue
    /\ open = TRUE /\ stopped = FALSE /\ releasing = {}
    /\ pc = [c \in Ids |-> "idle"] /\ deadline = [c \in Ids |-> 0]
    /\ registered = {} /\ mail = [c \in Ids |-> "none"]
    /\ told = [c \in Ids |-> "nothing"] /\ card = [c \in Ids |-> "none"]
    /\ decider = [d \in Deciders |-> Idle]
    /\ granted = {} /\ ran = {}

\* Decisions::settle: the sender leaves the map and sends, if it was there.
settle(c, message) ==
    /\ mail' = IF c \in registered THEN [mail EXCEPT ![c] = message] ELSE mail
    /\ registered' = registered \ {c}

\* The end of a call: its answer, and Awaited dropped.
End(c, answer) ==
    /\ pc' = [pc EXCEPT ![c] = "ended"]
    /\ told' = [told EXCEPT ![c] = answer]
    /\ registered' = registered \ {c}
    /\ UNCHANGED <<deadline, mail>>

\* ShownRequest::say, when a request ends without the user's decision.
Say(c) == card' = [card EXCEPT ![c] = "withdrawn"]

-----------------------------------------------------------------------------
(* The tool call *)

\* Executor::dispatch_as: the decision journaled, the command is set aside.
Submit(c) ==
    /\ pc[c] = "idle"
    /\ now + Ttl <= MaxNow
    /\ \E place \in Orders(Stale(queue, now)), who \in Whats :
        LET q == purge(queue, now, place) IN
        IF Admits(q, c)
        THEN /\ queue' = admit(q, c, who, now)
             /\ pc' = [pc EXCEPT ![c] = "submitted"]
             /\ UNCHANGED told
        ELSE /\ queue' = q
             /\ pc' = [pc EXCEPT ![c] = "ended"]
             /\ told' = [told EXCEPT ![c] = "refused"]
    /\ UNCHANGED <<now, question, deadline, registered, mail, card, decider, granted, ran>>

\* await_user, up to its first await: a closed question withdraws the request;
\* one withdrawn meanwhile is never shown; otherwise the wait is registered and
\* the card offers « Review… ».
Show(c) ==
    /\ pc[c] = "submitted"
    /\ IF ~ open
       THEN /\ queue' = reject(queue, c)
            /\ End(c, "withdrawn")
            /\ UNCHANGED card
       ELSE /\ UNCHANGED queue
            /\ IF queue.pending[c] = NoRequest
               THEN End(c, "withdrawn") /\ UNCHANGED card
               ELSE /\ pc' = [pc EXCEPT ![c] = "waiting"]
                    /\ deadline' = [deadline EXCEPT ![c] = queue.pending[c].expires_at]
                    /\ registered' = registered \cup {c}
                    /\ card' = [card EXCEPT ![c] = "review"]
                    /\ UNCHANGED <<mail, told>>
    /\ UNCHANGED <<now, question, decider, granted, ran>>

\* ending: what the channel brought, in either wait.
Settled(c) ==
    /\ pc[c] \in {"waiting", "outcome"}
    /\ mail[c] # "none"
    /\ IF mail[c] = "Released"
       THEN End(c, "withdrawn") /\ Say(c)
       ELSE End(c, mail[c]) /\ UNCHANGED card
    /\ UNCHANGED <<registry, question, decider, granted, ran>>

\* The question's stop ends the first wait.
Stopped(c) ==
    /\ pc[c] = "waiting"
    /\ stopped
    /\ IF queue.pending[c] # NoRequest
       THEN /\ queue' = reject(queue, c)
            /\ End(c, "withdrawn")
            /\ Say(c)
       ELSE /\ pc' = [pc EXCEPT ![c] = "checking"]
            /\ UNCHANGED <<queue, deadline, registered, mail, told, card>>
    /\ UNCHANGED <<now, question, decider, granted, ran>>

\* Mutant: the expiry withdraws the request without a word on the card.
mut_Expired(c) ==
    /\ pc[c] = "waiting"
    /\ now >= deadline[c]
    /\ queue' = expire(queue, c)
    /\ IF queue.pending[c] # NoRequest
       THEN End(c, "withdrawn")
       ELSE /\ pc' = [pc EXCEPT ![c] = "checking"]
            /\ UNCHANGED <<deadline, registered, mail, told>>
    /\ UNCHANGED <<now, question, card, decider, granted, ran>>

\* So does the request's own expiry, which withdraws it as expired.
Expired(c) ==
    /\ pc[c] = "waiting"
    /\ now >= deadline[c]
    /\ queue' = expire(queue, c)
    /\ IF queue.pending[c] # NoRequest
       THEN End(c, "withdrawn") /\ Say(c)
       ELSE /\ pc' = [pc EXCEPT ![c] = "checking"]
            /\ UNCHANGED <<deadline, registered, mail, told, card>>
    /\ UNCHANGED <<now, question, decider, granted, ran>>

\* Mutant: a request gone from the registry is taken for an expired one.
mut_CheckExpired(c) ==
    /\ pc[c] = "checking"
    /\ End(c, "withdrawn") /\ Say(c)
    /\ UNCHANGED <<registry, question, decider, granted, ran>>

\* The bounded clock stops at MaxNow, which stands for any later time.
Capped(t) == IF t <= MaxNow THEN t ELSE MaxNow

\* The request is gone: purged as stale by another's submission, or taken.
CheckExpired(c) ==
    /\ pc[c] = "checking"
    /\ IF was_expired(queue, c)
       THEN End(c, "withdrawn") /\ Say(c)
       ELSE /\ pc' = [pc EXCEPT ![c] = "outcome"]
            /\ deadline' = [deadline EXCEPT ![c] = Capped(now + Ttl)]
            /\ UNCHANGED <<registered, mail, told, card>>
    /\ UNCHANGED <<registry, question, decider, granted, ran>>

\* Mutant: the wait for the outcome of an approved command has no bound.
mut_LoseTrack(c) ==
    /\ pc[c] = "outcome"
    /\ stopped
    /\ End(c, "Ambiguous")
    /\ UNCHANGED <<registry, question, card, decider, granted, ran>>

\* lost_track: the second wait is bounded too, by its own timer or a stop.
LoseTrack(c) ==
    /\ pc[c] = "outcome"
    /\ stopped \/ now >= deadline[c]
    /\ End(c, "Ambiguous")
    /\ UNCHANGED <<registry, question, card, decider, granted, ran>>

\* Mutant: a dropped call leaves its request to the approvals.
mut_HangUp(c) ==
    /\ pc[c] \in {"waiting", "outcome"}
    /\ pc' = [pc EXCEPT ![c] = "gone"]
    /\ registered' = registered \ {c}
    /\ UNCHANGED <<registry, question, deadline, mail, told, card, decider, granted, ran>>

\* The future is dropped at an await: Awaited, then ShownRequest.
HangUp(c) ==
    /\ pc[c] \in {"waiting", "outcome"}
    /\ pc' = [pc EXCEPT ![c] = "gone"]
    /\ registered' = registered \ {c}
    /\ queue' = reject(queue, c)
    /\ IF queue.pending[c] # NoRequest THEN Say(c) ELSE UNCHANGED card
    /\ UNCHANGED <<now, question, deadline, mail, told, decider, granted, ran>>

-----------------------------------------------------------------------------
(* The question and the agent *)

Stop ==
    /\ ~ stopped
    /\ stopped' = TRUE
    /\ UNCHANGED <<registry, open, releasing, calls, registered, mail, card, decider, granted, ran>>

Close ==
    /\ open
    /\ open' = FALSE
    /\ UNCHANGED <<registry, stopped, releasing, calls, registered, mail, card, decider, granted, ran>>

\* WithdrawOnRelease: lists what the agent left pending, then withdraws each.
Release ==
    /\ releasing = {}
    /\ Waiting(queue) # {}
    /\ releasing' = Waiting(queue)
    /\ UNCHANGED <<registry, open, stopped, calls, registered, mail, card, decider, granted, ran>>

ReleaseOne(c) ==
    /\ c \in releasing
    /\ releasing' = releasing \ {c}
    /\ queue' = reject(queue, c)
    /\ IF queue.pending[c] # NoRequest THEN settle(c, "Released")
       ELSE UNCHANGED <<registered, mail>>
    /\ UNCHANGED <<now, open, stopped, calls, card, decider, granted, ran>>

-----------------------------------------------------------------------------
(* decide: the user answers a card that was shown. *)

\* approved = false: the answer goes to the call whether or not the request was
\* still there.
Reject(c) ==
    /\ card[c] # "none"
    /\ queue' = reject(queue, c)
    /\ settle(c, "Denied")
    /\ card' = [card EXCEPT ![c] = "decided"]
    /\ UNCHANGED <<now, question, calls, decider, granted, ran>>

\* approved = true: one decision under way per identifier (Backend::track).
DecideApproved(d, c) ==
    /\ decider[d] = Idle
    /\ card[c] # "none"
    /\ \A e \in Deciders : decider[e].id # c
    /\ decider' = [decider EXCEPT ![d] = [pc |-> "tracked", id |-> c, report |-> "Denied"]]
    /\ card' = [card EXCEPT ![c] = "decided"]
    /\ UNCHANGED <<registry, question, calls, registered, mail, granted, ran>>

\* run_on: the statement's console is moving to another window.  The decision
\* is not consumed, and the call not told.  (An agent's request is never critical:
\* confirm_held opens no dialog for it, and does not wait.)
Barred(d) ==
    /\ decider[d].pc = "tracked"
    /\ queue.pending[decider[d].id] # NoRequest
    /\ decider' = [decider EXCEPT ![d] = Idle]
    /\ UNCHANGED <<registry, question, calls, registered, mail, card, granted, ran>>

\* Executor::approve: takes the request, or reports why it cannot.
Take(d) ==
    /\ decider[d].pc = "tracked"
    /\ LET c == decider[d].id IN
        /\ queue' = take(queue, c)
        /\ IF take_answer(queue, c, now) = "Granted"
           THEN /\ granted' = granted \cup {c}
                /\ decider' = [decider EXCEPT ![d].pc = "approved"]
           ELSE /\ decider' = [decider EXCEPT ![d].pc = "reporting"]
                /\ UNCHANGED granted
    /\ UNCHANGED <<now, question, calls, registered, mail, card, ran>>

\* The gate again, then the journal: either may keep the command from running.
Run(d) ==
    /\ decider[d].pc = "approved"
    /\ \/ /\ decider' = [decider EXCEPT ![d] = [@ EXCEPT !.pc = "running", !.report = "Ran"]]
          /\ ran' = ran \cup {decider[d].id}
       \/ /\ decider' = [decider EXCEPT ![d].pc = "reporting"]
          /\ UNCHANGED ran
    /\ UNCHANGED <<registry, question, calls, registered, mail, card, granted>>

Complete(d) ==
    /\ decider[d].pc = "running"
    /\ decider' = [decider EXCEPT ![d].pc = "reporting"]
    /\ UNCHANGED <<registry, question, calls, registered, mail, card, granted, ran>>

\* Answer::report, then the guards of decide go.
Report(d) ==
    /\ decider[d].pc = "reporting"
    /\ settle(decider[d].id, decider[d].report)
    /\ decider' = [decider EXCEPT ![d] = Idle]
    /\ UNCHANGED <<registry, question, calls, card, granted, ran>>

\* decide dropped at an await: Answer's drop says the command may have run.
Cut(d) ==
    /\ decider[d].pc \in {"approved", "running"}
    /\ settle(decider[d].id, "Ambiguous")
    /\ decider' = [decider EXCEPT ![d] = Idle]
    /\ UNCHANGED <<registry, question, calls, card, granted, ran>>

\* Another actor's submission purges the stale requests; its own request is not
\* followed here.
OtherSubmit ==
    /\ Stale(queue, now) # {}
    /\ \E place \in Orders(Stale(queue, now)) : queue' = purge(queue, now, place)
    /\ UNCHANGED <<now, question, calls, registered, mail, card, decider, granted, ran>>

Tick ==
    /\ now < MaxNow
    /\ now' = now + 1
    /\ UNCHANGED <<queue, question, calls, registered, mail, card, decider, granted, ran>>

-----------------------------------------------------------------------------
CallNext(c) ==
    \/ Submit(c) \/ Show(c) \/ Settled(c) \/ Stopped(c) \/ Expired(c)
    \/ CheckExpired(c) \/ LoseTrack(c) \/ HangUp(c)
    \/ ReleaseOne(c) \/ Reject(c)

DeciderNext(d) ==
    \/ \E c \in Ids : DecideApproved(d, c)
    \/ Barred(d) \/ Take(d) \/ Run(d) \/ Complete(d) \/ Report(d) \/ Cut(d)

AgentNext ==
    \/ \E c \in Ids : CallNext(c)
    \/ \E d \in Deciders : DeciderNext(d)
    \/ Stop \/ Close \/ Release \/ OtherSubmit \/ Tick

\* The clock runs, and the runtime polls a call whose channel, timer or check
\* is ready.  Nothing is assumed of the user, of decide or of the agent.
AgentFairness ==
    /\ WF_agentVars(Tick)
    /\ \A c \in Ids : WF_agentVars(Settled(c) \/ Expired(c) \/ CheckExpired(c) \/ LoseTrack(c))

AgentSpec == AgentInit /\ [][AgentNext]_agentVars /\ AgentFairness

-----------------------------------------------------------------------------
(* Properties *)

Over(c) == pc[c] \in {"ended", "gone"}

\* « Nothing ran » is true whenever a call says it, and stays true: a request
\* the call withdrew was not taken, and can no longer be (wait, ending, I-13).
NothingRanIsTrue ==
    \A c \in Ids :
        told[c] = "withdrawn" => c \notin granted /\ queue.pending[c] = NoRequest

\* A call that ended or was dropped leaves nothing approvable behind: nobody
\* would see the result of what an approval ran then (ShownRequest, wait).
NoOrphanRequest ==
    \A c \in Ids : Over(c) => queue.pending[c] = NoRequest

\* What a call tells its model it withdrew, it also took back on its card: the
\* user is never offered the review of what nothing will run (wait, say).
WithdrawalIsSaid ==
    \A c \in Ids : told[c] = "withdrawn" => card[c] # "review"

\* threads.rs, on a released agent's request: "the call still waiting on it is
\* told, so that its card stops offering « Review… » now rather than failing on
\* the click", for every way a call ends, a hang-up included.
CardIsTakenBack ==
    \A c \in Ids : Over(c) => card[c] # "review"

\* decisions.rs, INTERRUPTED: "the user approved this statement, then Oxyn lost
\* track of its execution" is only said of a request the user did decide on.
LostTrackWasDecided ==
    \A c \in Ids : told[c] = "Ambiguous" => card[c] = "decided"

\* decisions.rs: the call "answers the model with what really happened": it never
\* says rejected of a command that was running or had run.
RejectedDidNotRun ==
    \A c \in Ids : told[c] = "Denied" => c \notin ran

\* A call that waits for the user always comes back, though neither the user
\* nor decide has to answer: both of its waits are bounded.
WaitEnds ==
    \A c \in Ids : pc[c] = "waiting" ~> Over(c)
=============================================================================

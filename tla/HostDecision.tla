---------------------------- MODULE HostDecision ----------------------------
(* A decision the user takes in the webview and, when it is critical, confirms  *)
(* in a dialog of the host: decide_held and confirm_held on the registry of     *)
(* requests, the one dialog slot, and the native dialog, which the plugin       *)
(* cannot close: past its deadline it stays on screen, and the next waits for   *)
(* it (oxyn-desktop: backend.rs, confirm.rs, confirm/native.rs).  Each step     *)
(* takes one lock, or follows an await.  The registry's memory of what expired, *)
(* which only words an answer, is left out: ApprovalRegistry has it.            *)
EXTENDS ApprovalQueue

CONSTANTS
    Deciders,   \* the calls that may ask for a dialog at the same time
    Mutating,   \* requests whose actor is human and whose command mutates
    Nobody,     \* no identifier, or nobody awaits the dialog
    MinDelay,   \* Timing::min_delay
    Deadline,   \* Timing::deadline
    MaxNow      \* bound of the clock, for model checking

ASSUME HostAssumption ==
    /\ Mutating \subseteq Whats
    /\ Nobody \notin Ids /\ Nobody \notin Deciders
    /\ MinDelay \in Nat /\ Deadline \in Nat /\ MaxNow \in Nat

VARIABLES
    now,        \* the monotonic clock
    queue,      \* the approval registry
    fate,       \* what became of each request
    production, \* the gate retains the connection as production
    tracked,    \* identifiers that Backend::track has given out
    slot,       \* Confirmations.open
    ask,        \* where each call is
    screen      \* NativeDialog.screen, and the dialog that holds it

registry == <<now, queue, fate>>
calls == <<production, tracked, slot, ask, screen>>
vars == <<now, queue, fate, production, tracked, slot, ask, screen>>

\* "marked" and "read" only record, for the properties, what the connection was
\* when the call looked at it, and that the user confirmed the dialog of this
\* call after MinDelay on screen and no later than its deadline.
Asks ==
    [at : {"idle", "looking", "reading", "asking", "answered", "refusing", "granting", "running"},
     id : Ids \cup {Nobody}, held : Requests \cup {NoRequest}, due : 0 .. MaxNow,
     ok : BOOLEAN, shown : 0 .. MaxNow, marked : BOOLEAN, read : BOOLEAN]

Idle ==
    [at |-> "idle", id |-> Nobody, held |-> NoRequest, due |-> 0,
     ok |-> FALSE, shown |-> 0, marked |-> FALSE, read |-> FALSE]

\* What is left of a call once its dialog is over.
Refused(d) == [Idle EXCEPT !.at = "refusing", !.id = ask[d].id]
Passed(d) == [ask[d] EXCEPT !.at = "granting", !.due = 0, !.ok = FALSE, !.shown = 0]

Blank == [stage |-> "free", by |-> Nobody, at |-> 0]

TypeOK ==
    /\ now \in 0 .. MaxNow /\ queue \in Queues
    /\ fate \in [Whats -> {"unused", "waiting", "granted", "ended"}]
    /\ production \in BOOLEAN /\ slot \in BOOLEAN
    /\ tracked \subseteq Ids
    /\ ask \in [Deciders -> Asks]
    /\ screen \in [stage : {"free", "queued", "shown"}, by : Deciders \cup {Nobody},
                   at : 0 .. MaxNow]

Init ==
    /\ now = 0 /\ queue = EmptyQueue /\ fate = [w \in Whats |-> "unused"]
    /\ production \in BOOLEAN /\ tracked = {} /\ slot = FALSE
    /\ ask = [d \in Deciders |-> Idle] /\ screen = Blank

-----------------------------------------------------------------------------
(* The registry, as the rest of the application calls it *)

\* The requests under the identifiers of S leave the registry.
Remove(S, f) ==
    /\ queue' = without(queue, S)
    /\ fate' = [w \in Whats |-> IF \E i \in S : queue.pending[i] # NoRequest
                                               /\ queue.pending[i].what = w
                               THEN f ELSE fate[w]]

\* ApprovalRegistry::submit.
submit(id, w) ==
    LET q == without(queue, Stale(queue, now))
        stale == {queue.pending[i].what : i \in Stale(queue, now)}
    IN  /\ fate[w] = "unused"
        /\ queue' = IF Admits(q, id) THEN admit(q, id, w, now) ELSE q
        /\ fate' = [v \in Whats |->
            IF v = w THEN IF Admits(q, id) THEN "waiting" ELSE "ended"
            ELSE IF v \in stale THEN "ended" ELSE fate[v]]

\* Mutant: a command is submitted under an identifier in use.
mut_Dispatch(id, w) == submit(id, w) /\ UNCHANGED <<now, calls>>

\* Backend::submit tracks the command's identifier: one in use is refused.
Dispatch(id, w) == id \notin tracked /\ submit(id, w) /\ UNCHANGED <<now, calls>>

\* decide(approved = false), which asks nobody and tracks nothing, or the asker
\* of a request, who withdraws it.
Withdraw(id) == Remove({id}, "ended") /\ UNCHANGED <<now, calls>>

\* The periodic sweep.
Sweep == Remove(Stale(queue, now), "ended") /\ UNCHANGED <<now, calls>>

\* The timers and the tasks they wake are served within one unit of the clock.
Clock ==
    /\ now < MaxNow
    /\ \A d \in Deciders :
        /\ ask[d].at # "answered"
        /\ ask[d].at = "asking" => now < ask[d].due
    /\ now' = now + 1
    /\ UNCHANGED <<queue, fate, calls>>

-----------------------------------------------------------------------------
(* decide_held(approved = true) *)

\* The call ends: its identifier is given back.
End(d) ==
    /\ ask' = [ask EXCEPT ![d] = Idle]
    /\ tracked' = tracked \ {ask[d].id}

Decide(d, id) ==
    /\ ask[d].at = "idle" /\ id \notin tracked
    /\ ask' = [ask EXCEPT ![d] = [Idle EXCEPT !.at = "looking", !.id = id]]
    /\ tracked' = tracked \cup {id}
    /\ UNCHANGED <<registry, production, slot, screen>>

\* confirm_held: what is gone, an agent's, not mutating or off production is not
\* critical; a busy dialog leaves the decision untouched.
Critical(held) == held # NoRequest /\ held.what \in Mutating /\ production

Look(d) ==
    LET held == queue.pending[ask[d].id] IN
    /\ ask[d].at = "looking"
    /\ IF Critical(held) /\ slot
       THEN End(d) /\ UNCHANGED slot
       ELSE /\ ask' = [ask EXCEPT ![d] = [@ EXCEPT
                            !.at = IF Critical(held) THEN "reading" ELSE "granting",
                            !.held = held, !.marked = production]]
            /\ slot' = (slot \/ Critical(held))
            /\ UNCHANGED tracked
    /\ UNCHANGED <<registry, production, screen>>

\* read_config, then Slot::ask counts its deadline from now; a configuration
\* that cannot be read refuses, and drops the slot.
ReadConfig(d) ==
    /\ ask[d].at = "reading"
    /\ \/ /\ now + Deadline <= MaxNow
          /\ ask' = [ask EXCEPT ![d] = [@ EXCEPT !.at = "asking", !.due = now + Deadline]]
          /\ UNCHANGED slot
       \/ /\ ask' = [ask EXCEPT ![d] = Refused(d)]
          /\ slot' = FALSE
    /\ UNCHANGED <<registry, production, tracked, screen>>

\* confirm_marking and confirm_external_agent: the same slot and dialog, about
\* no request.
AskOther(d) ==
    /\ ask[d].at = "idle" /\ ~ slot
    /\ now + Deadline <= MaxNow
    /\ ask' = [ask EXCEPT ![d] = [Idle EXCEPT !.at = "asking", !.due = now + Deadline]]
    /\ slot' = TRUE
    /\ UNCHANGED <<registry, production, tracked, screen>>

\* Mutant: the delay is not checked.
mut_Passes(d) == ask[d].ok

\* Slot::ask after the host's reply, then peek: only a dialog confirmed slowly
\* enough, and the very request it showed, passes.  An edit it confirms may
\* change the marking.
Passes(d) == ask[d].ok /\ now - ask[d].shown >= MinDelay

Conclude(d) ==
    /\ ask[d].at = "answered"
    /\ slot' = FALSE
    /\ IF ask[d].id = Nobody
       THEN /\ ask' = [ask EXCEPT ![d] = Idle]
            /\ production' \in IF Passes(d) THEN BOOLEAN ELSE {production}
       ELSE /\ ask' = [ask EXCEPT ![d] =
                IF Passes(d) /\ queue.pending[ask[d].id] = ask[d].held
                THEN Passed(d) ELSE Refused(d)]
            /\ UNCHANGED production
    /\ UNCHANGED <<registry, tracked, screen>>

\* Refused: the decision is consumed.
Refuse(d) ==
    /\ ask[d].at = "refusing"
    /\ IF ask[d].id = Nobody THEN UNCHANGED <<queue, fate>> ELSE Remove({ask[d].id}, "ended")
    /\ End(d)
    /\ UNCHANGED <<now, production, slot, screen>>

\* run_on refuses while the console moves: the request is left waiting.
CannotRun(d) ==
    /\ ask[d].at = "granting" /\ queue.pending[ask[d].id] # NoRequest
    /\ End(d)
    /\ UNCHANGED <<registry, production, slot, screen>>

\* Executor::approve takes the request, stale or not.
Approve(d) ==
    /\ ask[d].at = "granting"
    /\ Remove({ask[d].id}, IF ask[d].id \in Stale(queue, now) THEN "ended" ELSE "granted")
    /\ ask' = [ask EXCEPT ![d] = [Idle EXCEPT !.at = "running", !.id = ask[d].id]]
    /\ UNCHANGED <<now, production, tracked, slot, screen>>

Finish(d) ==
    /\ ask[d].at = "running"
    /\ End(d)
    /\ UNCHANGED <<registry, production, slot, screen>>

-----------------------------------------------------------------------------
(* The native dialog *)

\* NativeDialog::confirm takes the screen and hands the dialog to the main thread.
TakeScreen(d) ==
    /\ ask[d].at = "asking" /\ screen.stage = "free"
    /\ screen' = [stage |-> "queued", by |-> d, at |-> 0]
    /\ UNCHANGED <<registry, production, tracked, slot, ask>>

\* No window yet, or a main thread that takes no more work: refused at once.
CannotOpen(d) ==
    /\ ask[d].at = "asking" /\ screen.by # d
    /\ ask' = [ask EXCEPT ![d] = [@ EXCEPT !.at = "answered", !.ok = FALSE]]
    /\ UNCHANGED <<registry, production, tracked, slot, screen>>

\* The main thread: a dialog nobody awaits, or past its deadline, is not drawn.
Draw ==
    /\ screen.stage = "queued"
    /\ IF screen.by # Nobody /\ now < ask[screen.by].due
       THEN /\ screen' = [screen EXCEPT !.stage = "shown", !.at = now]
            /\ UNCHANGED ask
       ELSE /\ screen' = Blank
            /\ ask' = [d \in Deciders |->
                IF d = screen.by THEN [ask[d] EXCEPT !.at = "answered", !.ok = FALSE]
                ELSE ask[d]]
    /\ UNCHANGED <<registry, production, tracked, slot>>

\* The user closes the dialog: it frees the screen whether anyone awaits or not.
Press(ok) ==
    /\ screen.stage = "shown"
    /\ screen' = Blank
    /\ ask' = [d \in Deciders |->
        IF d = screen.by
        THEN [ask[d] EXCEPT !.at = "answered", !.ok = ok, !.shown = screen.at,
                            !.read = ok /\ now - screen.at >= MinDelay /\ now <= ask[d].due]
        ELSE ask[d]]
    /\ UNCHANGED <<registry, production, tracked, slot>>

\* Mutant: the deadline does not give the slot back.
mut_TimeOut(d) ==
    /\ ask[d].at = "asking" /\ now >= ask[d].due
    /\ ask' = [ask EXCEPT ![d] = Refused(d)]
    /\ screen' = IF screen.by = d THEN [screen EXCEPT !.by = Nobody] ELSE screen
    /\ UNCHANGED <<registry, production, tracked, slot>>

\* Mutant: the deadline runs only once the dialog has the screen.
mut_TimeOut_shown(d) ==
    /\ ask[d].at = "asking" /\ now >= ask[d].due /\ screen.by = d
    /\ ask' = [ask EXCEPT ![d] = Refused(d)]
    /\ slot' = FALSE
    /\ screen' = [screen EXCEPT !.by = Nobody]
    /\ UNCHANGED <<registry, production, tracked>>

\* timeout_at drops the reply: the slot is free, the dialog stays where it is.
TimeOut(d) ==
    /\ ask[d].at = "asking" /\ now >= ask[d].due
    /\ ask' = [ask EXCEPT ![d] = Refused(d)]
    /\ slot' = FALSE
    /\ screen' = IF screen.by = d THEN [screen EXCEPT !.by = Nobody] ELSE screen
    /\ UNCHANGED <<registry, production, tracked>>

-----------------------------------------------------------------------------
Serve(d) ==
    \/ Look(d) \/ ReadConfig(d) \/ Conclude(d) \/ Refuse(d) \/ Approve(d) \/ Finish(d)
    \/ TakeScreen(d) \/ TimeOut(d)

Next ==
    \/ \E id \in Ids : (\E w \in Whats : Dispatch(id, w)) \/ Withdraw(id)
    \/ Sweep
    \/ \E d \in Deciders :
        \/ \E id \in Ids : Decide(d, id)
        \/ Serve(d) \/ AskOther(d) \/ CannotRun(d) \/ CannotOpen(d)
    \/ Draw
    \/ \E ok \in BOOLEAN : Press(ok)
    \/ Clock

Spec == Init /\ [][Next]_vars

\* Time passes, and a call wakes at its deadline or on an answer.  Nothing is
\* assumed of the user, of the main thread that draws the dialogs, of the store,
\* nor of the command once it is approved.
FairSpec ==
    /\ Spec
    /\ \A d \in Deciders : WF_vars(TimeOut(d)) /\ WF_vars(Conclude(d))
    /\ WF_vars(Clock)

-----------------------------------------------------------------------------
(* Properties *)

\* On a connection the call saw as production, a mutating request is granted
\* only to the call whose own dialog showed that very request, confirmed after
\* the minimum delay on screen and before the deadline, whatever was answered,
\* withdrawn, expired or submitted under the identifier meanwhile (confirm_held,
\* decide_held).
GrantedAsRead ==
    [][\A d \in Deciders, w \in Mutating :
         /\ ask[d].at = "granting" /\ ask'[d].at = "running" /\ ask[d].marked
         /\ fate[w] # "granted" /\ fate'[w] = "granted"
         => ask[d].read /\ ask[d].held.what = w]_vars

\* The slot is taken exactly while one call uses it: it is neither lost on a
\* failure or a deadline, nor given back twice (reserve, Drop for Slot).
SlotIsOwned ==
    Cardinality({d \in Deciders : ask[d].at \in {"reading", "asking", "answered"}})
        = IF slot THEN 1 ELSE 0

\* Every call that asks for a dialog stops waiting for it and gives the slot
\* back, even if the user never closes it nor the one before it, or the main
\* thread never draws it: the deadline counts from the request (Slot::ask).
AskEnds ==
    \A d \in Deciders :
        ask[d].at = "asking" ~> ask[d].at \notin {"asking", "answered"}

\* What each request is, for whoever reads the promise alone.
Verdict(w) ==
    LET granting == {d \in Deciders : ask[d].at = "granting"
                        /\ queue.pending[ask[d].id] # NoRequest
                        /\ queue.pending[ask[d].id].what = w}
        showing == {d \in Deciders : screen.stage = "shown" /\ screen.by = d
                        /\ ask[d].id # Nobody /\ ask[d].held.what = w}
        agreed == {d \in Deciders : ask[d].at \in {"answered", "granting"}
                        /\ ask[d].read /\ ask[d].held # NoRequest /\ ask[d].held.what = w}
    IN  CASE fate[w] = "unused" -> "absent"
          [] fate[w] = "granted" -> "granted"
          [] fate[w] = "ended" -> "ended"
          [] OTHER ->
               IF agreed # {} THEN "agreed"
               ELSE IF showing # {} THEN "shown"
               ELSE IF \E d \in granting : ~ ask[d].marked \/ w \notin Mutating THEN "exempt"
               ELSE "waiting"

Promise == INSTANCE ProductionConsent WITH verdict <- [w \in Whats |-> Verdict(w)]

\* The whole of the decisions implements the promise of the host's dialog.
KeepsPromise == Promise!Spec
=============================================================================

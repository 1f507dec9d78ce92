------------------------------ MODULE Statement ------------------------------
(* The statements of one session, from the driver's call to their announced     *)
(* end (oxyn-exec: executor.rs, sessions.rs, cancel.rs, abandon.rs; oxyn-data:  *)
(* sink.rs), against stops, timeouts, dropped futures and whatever closes the   *)
(* session.  The session is behind a fair asynchronous lock, read by what uses  *)
(* it and written by what takes it away.  A timer may fire at any time once     *)
(* armed; the server and the driver are taken at their contract.               *)
EXTENDS Naturals, FiniteSets

CONSTANTS
    Stmts,                  \* statements submitted to the session
    Kinds,                  \* what they may be
    Closers,                \* the calls that may close it
    User,                   \* who sends Command::Cancel
    SERVER_SIDE_CANCEL,     \* does the session declare the capability,
    TRANSACTIONS            \* and this one?

ASSUME ActorsAssumption ==
    User \notin Stmts \cup Closers /\ Stmts \cap Closers = {}
ASSUME KindsAssumption == Kinds \subseteq {"read", "preview", "write"}
ASSUME CapabilityAssumption == SERVER_SIDE_CANCEL \in BOOLEAN /\ TRANSACTIONS \in BOOLEAN

VARIABLES
    kind,       \* what each statement is: a read, a preview or a write
    pc,         \* where each statement's future is
    token,      \* statements whose own token is cancelled
    late,       \* statements whose deadline passed before they had a cursor
    server,     \* what became of each statement on the server
    run,        \* how each run ended, until it is announced
    registered, \* CancelRegistry.running
    buffer,     \* the result each statement drains into
    asking,     \* cancellations on their way to the server: who awaits which
    asked,      \* statements the server was asked to interrupt
    answer,     \* what each caller got back
    announced,  \* the terminal event of each statement
    ends,       \* how many terminal events it published
    listed,     \* the session is in the SessionRegistry
    closing,    \* SessionSlot.closing
    open,       \* SessionSlot.session still holds the driver's session
    closer      \* where each closing call is

slot == <<listed, closing, open, closer>>
effects == <<server, registered, buffer, asking, asked>>
reports == <<run, answer, announced, ends>>
vars == <<kind, pc, token, late, server, run, registered, buffer, asking, asked,
          answer, announced, ends, listed, closing, open, closer>>

Pcs == {"idle", "waiting", "preparing", "locking", "calling", "draining",
        "interrupting", "stating", "over", "gone"}

\* How a run ends: the sink's outcomes that count as done, its cancellation, and
\* the errors.  "Closed" is transient, the caller may try again.
Outcomes == {"Done", "Unverified", "Cancelled", "Timeout", "Unknown", "Failed", "Closed"}
Events == {"Completed", "Cancelled", "Failed", "Unknown"}

CloserPcs == {"idle", "cancelling", "asking", "closing", "closed"}
Hows == {"none", "disconnect", "close_session", "shutdown"}

TypeOK ==
    /\ kind \in [Stmts -> Kinds]
    /\ pc \in [Stmts -> Pcs]
    /\ token \subseteq Stmts /\ late \subseteq Stmts
    /\ server \in [Stmts -> {"none", "running", "applied", "undone"}]
    /\ run \in [Stmts -> Outcomes \cup {"none"}]
    /\ registered \subseteq Stmts
    /\ buffer \in [Stmts -> {"none", "filling", "whole", "truncated"}]
    /\ asking \subseteq ((Stmts \cup Closers \cup {User}) \X Stmts)
    /\ asked \subseteq Stmts
    /\ answer \in [Stmts -> Outcomes \cup {"none", "Denied"}]
    /\ announced \in [Stmts -> Events \cup {"none"}]
    /\ ends \in [Stmts -> Nat]
    /\ listed \in BOOLEAN /\ closing \in BOOLEAN /\ open \in BOOLEAN
    /\ closer \in [Closers -> [pc : CloserPcs, how : Hows, todo : SUBSET Stmts]]

Init ==
    /\ kind \in [Stmts -> Kinds]
    /\ pc = [e \in Stmts |-> "idle"]
    /\ token = {} /\ late = {}
    /\ server = [e \in Stmts |-> "none"]
    /\ run = [e \in Stmts |-> "none"]
    /\ registered = {} /\ buffer = [e \in Stmts |-> "none"]
    /\ asking = {} /\ asked = {}
    /\ answer = [e \in Stmts |-> "none"]
    /\ announced = [e \in Stmts |-> "none"] /\ ends = [e \in Stmts |-> 0]
    /\ listed = TRUE /\ closing = FALSE /\ open = TRUE
    /\ closer = [k \in Closers |-> [pc |-> "idle", how |-> "none", todo |-> {}]]

Live(e) == pc[e] \notin {"idle", "over", "gone"}
Over(e) == pc[e] \in {"over", "gone"}
mutating(e) == kind[e] = "write"

\* Who holds the session for reading, and whether a newcomer may: tokio's lock is
\* fair, a writer that waits goes before the readers that come.
Readers == {e \in Stmts : pc[e] \in {"preparing", "calling"}}
Readable == \A k \in Closers : closer[k].pc # "closing"

Goto(e, where) == pc' = [pc EXCEPT ![e] = where]

-----------------------------------------------------------------------------
(* Before the driver is called *)

\* An answer before anything ran: nothing is announced.
Early(e, result) ==
    /\ Goto(e, "over")
    /\ answer' = [answer EXCEPT ![e] = result]

\* execute_command and execute_statement, up to the first await: the last
\* barrier refuses a write bounded to read-only; a session nobody lists any
\* more is not open.
Begin(e) ==
    /\ pc[e] = "idle"
    /\ \/ mutating(e) /\ Early(e, "Denied")
       \/ ~ listed /\ Early(e, "Closed")
       \/ /\ listed
          /\ Goto(e, IF kind[e] = "preview" THEN "waiting" ELSE "locking")
          /\ UNCHANGED answer
    /\ UNCHANGED <<kind, token, late, effects, run, announced, ends, slot>>

\* SessionSlot::preview_request, under the same deadline as the execution.
Prepare(e) ==
    /\ pc[e] = "waiting"
    /\ \/ closing /\ Early(e, "Closed")
       \/ ~ closing /\ e \in token /\ Early(e, "Cancelled")
       \/ /\ ~ closing /\ e \notin token /\ Readable
          /\ open
          /\ Goto(e, "preparing") /\ UNCHANGED answer
       \/ ~ closing /\ e \notin token /\ Early(e, "Timeout")
    /\ UNCHANGED <<kind, token, late, effects, run, announced, ends, slot>>

\* The request composed, and refused if it is not a read; or the driver's
\* error, or the deadline.  Then execute_statement, from its beginning.
Prepared(e) ==
    /\ pc[e] = "preparing"
    /\ \/ \E result \in {"Failed", "Cancelled", "Timeout"} :
            /\ result = "Cancelled" => e \in token \/ closing
            /\ Early(e, result)
       \/ ~ listed /\ Early(e, "Closed")
       \/ listed /\ Goto(e, "locking") /\ UNCHANGED answer
    /\ UNCHANGED <<kind, token, late, effects, run, announced, ends, slot>>

\* From here an AbandonGuard is armed.  SessionSlot::execute: a session that
\* closes, a stop, then the lock.
Ended(e, result) ==
    /\ Goto(e, "stating")
    /\ run' = [run EXCEPT ![e] = IF e \in late THEN "Timeout" ELSE result]
    /\ late' = late \ {e}

Refused(e) ==
    /\ pc[e] = "locking"
    /\ closing \/ e \in token
    /\ Ended(e, IF closing THEN "Closed" ELSE "Cancelled")
    /\ UNCHANGED <<kind, token, effects, answer, announced, ends, slot>>

Acquire(e) ==
    /\ pc[e] = "locking"
    /\ ~ closing /\ e \notin token /\ Readable /\ open
    /\ Goto(e, "calling")
    /\ server' = [server EXCEPT ![e] = "running"]
    /\ UNCHANGED <<kind, token, late, run, registered, buffer, asking, asked, answer,
                   announced, ends, slot>>

\* execute_within: past the deadline the driver is interrupted, and awaited.
CallExpires(e) ==
    /\ pc[e] \in {"locking", "calling"}
    /\ pc[e] = "locking" => ~ closing /\ e \notin token
    /\ e \notin late
    /\ late' = late \cup {e} /\ token' = token \cup {e}
    /\ UNCHANGED <<kind, pc, effects, reports, slot>>

\* The cursor: registered and tracked, unless the deadline won.
Answered(e) ==
    /\ pc[e] = "calling"
    /\ IF e \in late
       THEN Ended(e, "Timeout") /\ UNCHANGED <<registered, buffer>>
       ELSE /\ Goto(e, "draining")
            /\ registered' = registered \cup {e}
            /\ buffer' = [buffer EXCEPT ![e] = "filling"]
            /\ UNCHANGED <<run, late>>
    /\ UNCHANGED <<kind, token, server, asking, asked, answer, announced, ends, slot>>

\* What the driver may say of a statement that failed.  Of a write, that it
\* failed or was cancelled only with the proof that nothing was applied.
DriverErrors(e) ==
    {"Unknown", "Timeout"}
    \cup {error \in {"Failed", "Cancelled"} :
            /\ mutating(e) => server[e] = "undone"
            /\ error = "Cancelled" => e \in token}

\* An early failure of slot.execute.
CallFails(e) ==
    /\ pc[e] = "calling"
    /\ \E error \in DriverErrors(e) : Ended(e, error)
    /\ UNCHANGED <<kind, token, effects, answer, announced, ends, slot>>

-----------------------------------------------------------------------------
(* drain: the cursor into the buffer *)

\* Mutant: a write whose outcome is unknown is taken for one that ended.
mut_interrupted(e, outcome) ==
    \/ outcome \in {"Cancelled", "Timeout"}
    \/ ~ mutating(e) /\ outcome = "Unverified"

\* The ends that leave the statement running: the server must be told.
interrupted(e, outcome) ==
    \/ outcome \in {"Cancelled", "Timeout", "Unknown"}
    \/ ~ mutating(e) /\ outcome = "Unverified"

\* The drain is over: the buffer is closed, and the cursor dropped.
Drained(e, outcome, state) ==
    /\ run' = [run EXCEPT ![e] = outcome]
    /\ buffer' = [buffer EXCEPT ![e] = state]
    /\ IF interrupted(e, outcome)
       THEN /\ Goto(e, "interrupting")
            /\ token' = token \cup {e}
            /\ asking' = asking \cup {<<e, e>>}
       ELSE Goto(e, "stating") /\ UNCHANGED <<token, asking>>
    /\ UNCHANGED <<kind, late, server, registered, asked, answer, announced, ends, slot>>

\* The stream came to its end: all the rows are there, or what the buffer took.
\* A write's buffer that could not store what it returned fails it.
Exhausted(e) ==
    /\ pc[e] = "draining"
    /\ server[e] = "applied"
    /\ \/ Drained(e, "Done", "whole")
       \/ Drained(e, "Done", "truncated")
       \/ mutating(e) /\ Drained(e, "Failed", "truncated")

\* A read stops at its limit, at a full buffer, or where it cannot store.
Limited(e) ==
    /\ pc[e] = "draining"
    /\ ~ mutating(e)
    /\ \E outcome \in {"Done", "Unverified", "Failed"} : Drained(e, outcome, "truncated")

SourceFails(e) ==
    /\ pc[e] = "draining"
    /\ \E error \in DriverErrors(e) : Drained(e, error, "truncated")

\* Mutant: a write hands back control as soon as it is stopped, like a read.
mut_Stopped(e) ==
    /\ pc[e] = "draining"
    /\ e \in token
    /\ Drained(e, "Cancelled", "truncated")

\* A read hands back control as soon as it is stopped.
Stopped(e) ==
    /\ pc[e] = "draining"
    /\ e \in token /\ ~ mutating(e)
    /\ Drained(e, "Cancelled", "truncated")

\* Mutant: a write that was at its row limit when its time came is done.
mut_DrainExpires(e) ==
    /\ pc[e] = "draining"
    /\ e \notin token \/ mutating(e)
    /\ Drained(e, "Timeout", "truncated") \/ Drained(e, "Unverified", "truncated")

\* The deadline.  A read that had all its rows only misses the proof of it.
DrainExpires(e) ==
    /\ pc[e] = "draining"
    /\ e \notin token \/ mutating(e)
    /\ \/ Drained(e, "Timeout", "truncated")
       \/ ~ mutating(e) /\ Drained(e, "Unverified", "truncated")

\* Mutant: reads are bounded past a stop, and writes are not.
mut_Unsettled(e) ==
    /\ pc[e] = "draining"
    /\ e \in token /\ ~ mutating(e)
    /\ Drained(e, "Unknown", "truncated")

\* WRITE_SETTLE_GRACE after a stop, the driver has not said how the write ended.
Unsettled(e) ==
    /\ pc[e] = "draining"
    /\ e \in token /\ mutating(e)
    /\ Drained(e, "Unknown", "truncated")

\* The server has been asked, or could not be.
Interrupted(e) ==
    /\ pc[e] = "interrupting"
    /\ <<e, e>> \notin asking
    /\ Goto(e, "stating")
    /\ UNCHANGED <<kind, token, late, effects, reports, slot>>

-----------------------------------------------------------------------------
(* The end *)

\* The transaction state is read once nothing submitted is still running, or
\* given up when the session closes.
StateIsKnown ==
    \/ ~ TRANSACTIONS \/ closing
    \/ Readable /\ \A e \in Stmts : server[e] # "running"

\* Mutant: the sink's own outcome is published as the event.
mut_Event(outcome) == outcome

Event(outcome) ==
    CASE outcome \in {"Done", "Unverified"} -> "Completed"
      [] outcome = "Cancelled" -> "Cancelled"
      [] outcome \in {"Timeout", "Unknown"} -> "Unknown"
      [] OTHER -> "Failed"

Announce(e, event) ==
    /\ announced' = [announced EXCEPT ![e] = event]
    /\ ends' = [ends EXCEPT ![e] = @ + 1]

\* Mutant: the statement is not unregistered.
mut_Conclude(e) ==
    /\ pc[e] = "stating"
    /\ StateIsKnown
    /\ Goto(e, "over")
    /\ answer' = [answer EXCEPT ![e] = run[e]]
    /\ run' = [run EXCEPT ![e] = "none"]
    /\ IF buffer[e] # "none" THEN Announce(e, Event(run[e])) ELSE UNCHANGED <<announced, ends>>
    /\ UNCHANGED <<kind, token, late, effects, slot>>

\* publish_transaction_state returns; settle and conclude follow with no await.
\* An early failure is answered, not announced.
Conclude(e) ==
    /\ pc[e] = "stating"
    /\ StateIsKnown
    /\ Goto(e, "over")
    /\ answer' = [answer EXCEPT ![e] = run[e]]
    /\ run' = [run EXCEPT ![e] = "none"]
    /\ registered' = registered \ {e}
    /\ IF buffer[e] # "none" THEN Announce(e, Event(run[e])) ELSE UNCHANGED <<announced, ends>>
    /\ UNCHANGED <<kind, token, late, server, buffer, asking, asked, slot>>

\* What a dropped future does not run any more.
Forget(e) ==
    /\ token' = token \cup {e}
    /\ asking' = asking \ {<<e, e>>}
    /\ registered' = registered \ {e}

\* Mutant: an abandoned execution leaves its result as it was.
mut_Drop(e) ==
    /\ Live(e)
    /\ Goto(e, "gone")
    /\ run' = [run EXCEPT ![e] = "none"]
    /\ IF pc[e] \in {"waiting", "preparing"}
       THEN UNCHANGED <<token, asking, registered, buffer, announced, ends>>
       ELSE /\ Forget(e)
            /\ UNCHANGED buffer
            /\ Announce(e, IF mutating(e) THEN "Unknown" ELSE "Cancelled")
    /\ UNCHANGED <<kind, late, server, asked, answer, slot>>

\* Mutant: an abandoned execution is announced only if it had a cursor.
mut_Drop_silent(e) ==
    /\ Live(e)
    /\ Goto(e, "gone")
    /\ run' = [run EXCEPT ![e] = "none"]
    /\ IF pc[e] \in {"waiting", "preparing"}
       THEN UNCHANGED <<token, asking, registered, buffer, announced, ends>>
       ELSE /\ Forget(e)
            /\ buffer' = [buffer EXCEPT ![e] = IF @ = "filling" THEN "truncated" ELSE @]
            /\ IF buffer[e] = "filling" THEN Announce(e, IF mutating(e) THEN "Unknown" ELSE "Cancelled")
               ELSE UNCHANGED <<announced, ends>>
    /\ UNCHANGED <<kind, late, server, asked, answer, slot>>

\* The future is dropped at an await.  AbandonGuard, once armed, cancels the
\* token, closes the result, unregisters and announces the end.
Drop(e) ==
    /\ Live(e)
    /\ Goto(e, "gone")
    /\ run' = [run EXCEPT ![e] = "none"]
    /\ IF pc[e] \in {"waiting", "preparing"}
       THEN UNCHANGED <<token, asking, registered, buffer, announced, ends>>
       ELSE /\ Forget(e)
            /\ buffer' = [buffer EXCEPT ![e] = IF @ = "filling" THEN "truncated" ELSE @]
            /\ Announce(e, IF mutating(e) THEN "Unknown" ELSE "Cancelled")
    /\ UNCHANGED <<kind, late, server, asked, answer, slot>>

-----------------------------------------------------------------------------
(* Cancellations *)

\* The tab's token is cancelled, and the statement's with it.
Stop(e) ==
    /\ Live(e) /\ e \notin token
    /\ token' = token \cup {e}
    /\ UNCHANGED <<kind, pc, late, effects, reports, slot>>

\* CancelRegistry::cancel: the client's token first, then the server, by who
\* awaits it.
Request(who, e) ==
    /\ e \in registered
    /\ token' = token \cup {e}
    /\ asking' = asking \cup {<<who, e>>}

Cancel(e) ==
    /\ <<User, e>> \notin asking
    /\ Request(User, e)
    /\ UNCHANGED <<kind, pc, late, server, registered, buffer, asked, reports, slot>>

\* SessionSlot::cancel_statement, where the session is listed and can do it:
\* behind a writer that waits, and to nobody once the session is taken.
Ask(who, e) ==
    /\ <<who, e>> \in asking
    /\ SERVER_SIDE_CANCEL /\ listed => Readable
    /\ asking' = asking \ {<<who, e>>}
    /\ asked' = IF SERVER_SIDE_CANCEL /\ listed /\ open THEN asked \cup {e} ELSE asked
    /\ UNCHANGED <<kind, pc, token, late, server, registered, buffer, reports, slot>>

\* Mutant: the closing of the session is left to the lock.
mut_SeeClosing(e) ==
    /\ pc[e] \in {"draining", "interrupting", "stating"}
    /\ closing /\ e \notin token
    /\ token' = token \cup {e}
    /\ UNCHANGED <<kind, pc, late, effects, reports, slot>>

\* The outer select of execute_statement, and preview_request's own.
SeeClosing(e) ==
    /\ Live(e) /\ closing /\ e \notin token
    /\ token' = token \cup {e}
    /\ UNCHANGED <<kind, pc, late, effects, reports, slot>>

\* The server ends the statement, in whichever way, whoever still listens.
ServerEnds(e) ==
    /\ server[e] = "running"
    /\ \E fate \in {"applied", "undone"} : server' = [server EXCEPT ![e] = fate]
    /\ UNCHANGED <<kind, pc, token, late, registered, buffer, asking, asked, reports, slot>>

-----------------------------------------------------------------------------
(* Closing the session *)

CloserBegins(k, how, where, todo) ==
    /\ closer[k].pc = "idle"
    /\ closer' = [closer EXCEPT ![k] = [pc |-> where, how |-> how, todo |-> todo]]
CloserAt(k, where, todo) ==
    closer' = [closer EXCEPT ![k] = [pc |-> where, how |-> closer[k].how, todo |-> todo]]
statements == <<kind, pc, late, server, registered, buffer, asked, reports>>

\* disconnect: cancels what it finds registered, one by one.
BeginDisconnect(k) ==
    /\ CloserBegins(k, "disconnect", "cancelling", registered)
    /\ UNCHANGED <<statements, token, asking, listed, closing, open>>

\* close_session: marks the session first.
BeginCloseSession(k) ==
    /\ IF listed
       THEN closing' = TRUE /\ CloserBegins(k, "close_session", "cancelling", registered)
       ELSE UNCHANGED closing /\ CloserBegins(k, "close_session", "closed", {})
    /\ UNCHANGED <<statements, token, asking, listed, open>>

\* shutdown: the tokens of what runs, without a word to the server.
BeginShutdown(k) ==
    /\ IF listed
       THEN /\ listed' = FALSE /\ closing' = TRUE
            /\ token' = token \cup registered
            /\ CloserBegins(k, "shutdown", "closing", {})
       ELSE UNCHANGED <<listed, closing, token>> /\ CloserBegins(k, "shutdown", "closed", {})
    /\ UNCHANGED <<statements, asking, open>>

CancelOne(k) ==
    /\ closer[k].pc = "cancelling"
    /\ \E e \in closer[k].todo :
        IF e \in registered
        THEN Request(k, e) /\ CloserAt(k, "asking", closer[k].todo \ {e})
        ELSE CloserAt(k, "cancelling", closer[k].todo \ {e}) /\ UNCHANGED <<token, asking>>
    /\ UNCHANGED <<statements, listed, closing, open>>

CancelledOne(k) ==
    /\ closer[k].pc = "asking"
    /\ \A e \in Stmts : <<k, e>> \notin asking
    /\ CloserAt(k, "cancelling", closer[k].todo)
    /\ UNCHANGED <<statements, token, asking, listed, closing, open>>

\* Removed from the registry before it is closed.  A disconnection that finds
\* it already removed has nothing to close.
Unlist(k) ==
    /\ closer[k].pc = "cancelling" /\ closer[k].todo = {}
    /\ listed' = FALSE
    /\ IF listed \/ closer[k].how = "close_session"
       THEN closing' = TRUE /\ CloserAt(k, "closing", {})
       ELSE UNCHANGED closing /\ CloserAt(k, "closed", {})
    /\ UNCHANGED <<statements, token, asking, open>>

\* Mutant: the session is taken from whoever uses it.
mut_TakeSession(k) ==
    /\ closer[k].pc = "closing"
    /\ open' = FALSE
    /\ CloserAt(k, "closed", {})
    /\ UNCHANGED <<statements, token, asking, listed, closing>>

\* SessionSlot::close: the write lock, then the session is the closer's alone.
TakeSession(k) ==
    /\ closer[k].pc = "closing"
    /\ Readers = {}
    /\ open' = FALSE
    /\ CloserAt(k, "closed", {})
    /\ UNCHANGED <<statements, token, asking, listed, closing>>

-----------------------------------------------------------------------------
StmtNext(e) ==
    \/ Begin(e) \/ Prepare(e) \/ Prepared(e) \/ Refused(e) \/ Acquire(e)
    \/ CallExpires(e) \/ Answered(e) \/ CallFails(e)
    \/ Exhausted(e) \/ Limited(e) \/ SourceFails(e) \/ Stopped(e)
    \/ DrainExpires(e) \/ Unsettled(e) \/ Interrupted(e)
    \/ Conclude(e) \/ Drop(e)
    \/ Stop(e) \/ Cancel(e) \/ SeeClosing(e) \/ ServerEnds(e)
    \/ \E who \in Stmts \cup Closers \cup {User} : Ask(who, e)

CloserNext(k) ==
    \/ BeginDisconnect(k) \/ BeginCloseSession(k) \/ BeginShutdown(k)
    \/ CancelOne(k) \/ CancelledOne(k) \/ Unlist(k) \/ TakeSession(k)

Next ==
    \/ \E e \in Stmts : StmtNext(e)
    \/ \E k \in Closers : CloserNext(k)

\* The runtime polls what is ready and the timer of a stopped write fires.  A
\* driver lets go of its call, and the server of the statement, once the token
\* is cancelled, and a request to the server is bounded: the driver contract.
\* No verdict of a cursor is assumed, no deadline, and nothing of the user.
Fairness ==
    /\ \A e \in Stmts :
        /\ WF_vars(Prepare(e) /\ e \in token) /\ WF_vars(Prepared(e) /\ e \in token)
        /\ WF_vars(Refused(e)) /\ WF_vars(Stopped(e)) /\ WF_vars(Unsettled(e))
        /\ WF_vars((Answered(e) \/ CallFails(e)) /\ e \in token)
        /\ WF_vars(Interrupted(e)) /\ WF_vars(Conclude(e))
        /\ WF_vars(SeeClosing(e)) /\ WF_vars(ServerEnds(e) /\ e \in token)
        /\ \A who \in Stmts \cup Closers \cup {User} : WF_vars(Ask(who, e))
    /\ \A k \in Closers :
        WF_vars(CancelOne(k) \/ CancelledOne(k) \/ Unlist(k) \/ TakeSession(k))

Spec == Init /\ [][Next]_vars /\ Fairness

-----------------------------------------------------------------------------
(* Properties *)

\* A write said cancelled, to its caller or in its event, changed nothing and
\* never will, though the server may end it after everyone stopped listening
\* (drain, AbandonGuard, I-13).
CancelledIsUndone ==
    \A e \in Stmts :
        /\ mutating(e) /\ Over(e)
        /\ answer[e] = "Cancelled" \/ announced[e] = "Cancelled"
        => server[e] \in {"none", "undone"}

\* What the caller may try again as it is was never sent, and a write said
\* completed was applied, its rows being cut or not (execute, drain_to_end).
DoneIsDone ==
    \A e \in Stmts :
        /\ answer[e] = "Closed" => server[e] = "none"
        /\ mutating(e) /\ (answer[e] \in {"Done", "Unverified"} \/ announced[e] = "Completed")
           => server[e] = "applied"

\* An execution that had a cursor, or was abandoned with its guard armed,
\* announces one end, when it is over; nothing else of it follows, and an early
\* failure announces none (conclude, settle, AbandonGuard).
OneEnd ==
    \A e \in Stmts :
        /\ ends[e] <= 1
        /\ ends[e] = 1 => Over(e)
        /\ Over(e) /\ buffer[e] # "none" => ends[e] = 1
        /\ pc[e] = "gone" => ends[e] = 1 \/ (kind[e] = "preview" /\ server[e] = "none")

\* A statement is reachable by its handle exactly while it drains and until its
\* end is announced: no entry outlives it, whatever the path (register, finish).
RegisteredIsRunning ==
    \A e \in Stmts :
        e \in registered <=> /\ pc[e] \in {"draining", "interrupting", "stating"}
                             /\ buffer[e] # "none"

\* Nobody waits for the rows of a statement that is over, and a result that
\* reads as whole came from a statement the server finished (seal, mark_complete).
ResultIsClosed ==
    \A e \in Stmts :
        /\ buffer[e] = "filling" <=> pc[e] = "draining"
        /\ buffer[e] = "whole" => server[e] = "applied"

\* A session is taken from its slot when nothing uses it, and nothing uses it
\* from then on (SessionSlot::close).
TakenIsUnused == ~ open => Readers = {} /\ closing /\ ~ listed

\* An execution its caller learns was interrupted had its server asked, unless
\* the session was closing or could not (running.cancel).
InterruptionIsSent ==
    \A e \in Stmts :
        /\ pc[e] = "over" /\ buffer[e] # "none"
        /\ answer[e] \in {"Cancelled", "Timeout", "Unknown"}
        => e \in asked \/ closing \/ ~ SERVER_SIDE_CANCEL

\* A statement that was stopped ends, though its driver may never say how, if
\* nothing else runs on its session.
StopEnds ==
    \A e \in Stmts : (Live(e) /\ e \in token) ~> Over(e)

\* A closing session gets closed: everything that holds it lets go.
CloseEnds ==
    \A k \in Closers : closer[k].pc # "idle" ~> closer[k].pc = "closed"
=============================================================================

-------------------------------- MODULE Exit --------------------------------
(* Leaving the application and closing one of its windows: backend/exit.rs,  *)
(* backend/windows/closing.rs, backend/recovery.rs and what                  *)
(* commands/recovery.rs makes of them.  A step (an exit or a close asked) is *)
(* a task of its own: it lists the transactions still open, asks the windows *)
(* that hold them, and goes on without those that do not answer.  An exit    *)
(* that proceeds flushes the drafts, waits for the local writes and records  *)
(* the close of the session, each wait bounded.  Not bounded are the store's *)
(* reads of a listing, its writes of the layouts and the update installed at *)
(* the end.  The user may cancel, confirm or ask again at any time, a webview *)
(* may never answer, a write or a server may hang, and the process may be    *)
(* ended or die under any of them.                                           *)
(*                                                                           *)
(* What a listing finds is any set of windows: consoles run statements while *)
(* an exit is under way.                                                     *)
(* A grace may elapse as soon as its wait begins.                            *)
EXTENDS FiniteSets

CONSTANTS
    Windows,    \* the windows open at first
    Steps,      \* exits and closes under way at once
    Writers,    \* the windows with a draft that is not written yet
    None        \* the step that is not about a window

VARIABLES
    hold,       \* Hold: where the exit stands before the ordered shutdown
    live,       \* the windows of the registry
    closing,    \* Closing: where the close of each window stands
    ack,        \* Answers::acknowledged, while a step waits for it
    step,       \* the tasks of begin_exit and close_requested
    draft,      \* the draft of each writer: in its webview, submitted, written
    begun,      \* LocalWork::closing, swapped once
    forced,     \* close_on_forced_exit holds the main thread
    recorder,   \* the close on the blocking pool
    recorded,   \* the close is on disk
    due,        \* history: the drafts the close had to wait for
    process     \* "alive" or "gone"

registry == <<live, closing, ack>>
local    == <<draft, begun, forced, recorder, recorded, due>>
exitVars == <<hold, registry, step, local, process>>

Holds    == {"Idle", "Listing", "Asking", "Deciding", "Proceeding"}
Closings == {"Open", "Listing", "Asking", "Deciding", "Closed"}
Pcs      == {"idle", "listing", "reading", "waiting", "proceeding", "layouts",
             "flushing", "writes", "recording", "leaving"}

\* "of" is the window a close is about; "list" the windows asked;
\* "abandoned", a history, that its exit was cancelled while it waited.
StepStates == [pc : Pcs, of : Windows \cup {None}, list : SUBSET Windows,
               abandoned : BOOLEAN]
NoStep == [pc |-> "idle", of |-> None, list |-> {}, abandoned |-> FALSE]

ExitTypeOK ==
    /\ hold \in Holds
    /\ live \subseteq Windows
    /\ closing \in [Windows -> Closings]
    /\ ack \in [Windows -> BOOLEAN]
    /\ step \in [Steps -> StepStates]
    /\ draft \in [Writers -> {"held", "submitted", "written"}]
    /\ begun \in BOOLEAN /\ forced \in BOOLEAN
    /\ recorder \in {"none", "queued", "ended"}
    /\ recorded \in BOOLEAN
    /\ due \subseteq Writers
    /\ process \in {"alive", "gone"}

ASSUME ExitAssumption == Writers \subseteq Windows /\ None \notin Windows

ExitInit ==
    /\ hold = "Idle"
    /\ live = Windows
    /\ closing = [w \in Windows |-> "Open"]
    /\ ack = [w \in Windows |-> FALSE]
    /\ step = [t \in Steps |-> NoStep]
    /\ draft = [w \in Writers |-> "held"]
    /\ begun = FALSE /\ forced = FALSE /\ recorder = "none"
    /\ recorded = FALSE /\ due = {}
    /\ process = "alive"

\* The end of the process: the disk is all that stays.
Gone ==
    /\ process' = "gone"
    /\ hold' = "Idle" /\ live' = {} /\ begun' = FALSE /\ forced' = FALSE
    /\ closing' = [w \in Windows |-> "Open"] /\ ack' = [w \in Windows |-> FALSE]
    /\ step' = [t \in Steps |-> NoStep]
    /\ recorder' = "none"
    /\ UNCHANGED <<draft, recorded, due>>

Goes(t, pc) == step' = [step EXCEPT ![t].pc = pc]
Ends(t) == step' = [step EXCEPT ![t] = NoStep]
At(t, pc) == process = "alive" /\ step[t].pc = pc

\* What the interface asks goes through the main thread: a forced exit holds it.
Interface == process = "alive" /\ ~ forced

\* WindowRegistry::expect_answers
Forgets(ws) == ack' = [w \in Windows |-> ack[w] /\ w \notin ws]

-----------------------------------------------------------------------------
(* Asking.  A refused request leaves no task behind.                          *)

\* exit_step: only from Idle, or again while the user decides.
AskExit(t) ==
    /\ At(t, "idle") /\ Interface
    /\ hold \in {"Idle", "Deciding"}
    /\ hold' = "Listing"
    /\ step' = [step EXCEPT ![t] = [NoStep EXCEPT !.pc = "listing"]]
    /\ UNCHANGED <<registry, local, process>>

is_last(w) == \A v \in live \ {w} : closing[v] = "Closed"

\* window_close_step: the close of the last window is AskExit instead.
AskClose(t, w) ==
    /\ At(t, "idle") /\ Interface /\ w \in live /\ ~ is_last(w)
    /\ closing[w] \in {"Open", "Deciding"}
    /\ closing' = [closing EXCEPT ![w] = "Listing"]
    /\ step' = [step EXCEPT ![t] = [NoStep EXCEPT !.pc = "listing", !.of = w]]
    /\ UNCHANGED <<hold, live, ack, local, process>>

-----------------------------------------------------------------------------
(* The exit's step, from its listing to its outcome.                          *)

IsExit(t) == step[t].of = None

\* proceed_from: the hold moves from "from", or the step is held.
Proceed(t, from) ==
    /\ hold' = IF hold = from THEN "Proceeding" ELSE hold
    /\ step' = [step EXCEPT ![t] =
                  IF hold = from THEN [NoStep EXCEPT !.pc = "proceeding"] ELSE NoStep]

\* open_transactions found none, once the executor's events are settled or the
\* grace elapsed.
NothingOpen(t) ==
    /\ At(t, "listing") /\ IsExit(t)
    /\ Proceed(t, "Listing")
    /\ UNCHANGED <<registry, local, process>>

\* It found some, of any window or of the one that closes, and reads the marking
\* of each connection in the store, which may never answer.
FindOpen(t) ==
    /\ At(t, "listing")
    /\ IF IsExit(t) THEN live # {} ELSE step[t].of \in live
    /\ Goes(t, "reading")
    /\ UNCHANGED <<hold, registry, local, process>>

\* The store answered.  The answers are forgotten whether or not the exit is
\* still there to ask.  A window found that no signal reaches is one that never
\* answers; one gone since is not waited for.
Ask(t) ==
    /\ At(t, "reading") /\ IsExit(t)
    /\ \E found \in SUBSET live :
          /\ Forgets(found)
          /\ \/ /\ hold = "Listing" /\ hold' = "Asking"
                /\ step' = [step EXCEPT ![t] = [@ EXCEPT !.pc = "waiting", !.list = found]]
             \/ /\ hold # "Listing" /\ hold' = hold
                /\ Ends(t)
    /\ UNCHANGED <<live, closing, local, process>>

\* WindowRegistry::answers: a window that went is no longer waited for.
Got(t) == {w \in step[t].list \cap live : ack[w]}

\* Everyone answered, or ACKNOWLEDGE_GRACE elapsed: at any time, here.  An answer
\* that no other step waits for is not read again: expect_answers forgets it.
Awaited(w, steps) == \E u \in steps : step[u].pc = "waiting" /\ w \in step[u].list
Answered(t) ==
    /\ At(t, "waiting")
    /\ ack' = [w \in Windows |-> ack[w] /\ Awaited(w, Steps \ {t})]

\* One window that answered is enough to wait for the user; none, and the exit
\* goes on.
Decide(t) ==
    /\ Answered(t) /\ IsExit(t)
    /\ \/ Got(t) = {} /\ Proceed(t, "Asking")
       \/ /\ Got(t) # {}
          /\ hold' = IF hold = "Asking" THEN "Deciding" ELSE hold
          /\ Ends(t)
    /\ UNCHANGED <<live, closing, local, process>>

-----------------------------------------------------------------------------
(* A window's step, its user and its end.                                     *)

\* Its consoles hold no transaction, or the store answered for each of them.
CloseAsk(t) ==
    /\ At(t, "listing") \/ At(t, "reading")
    /\ ~ IsExit(t)
    /\ LET w == step[t].of IN
       /\ Forgets({w} \cap live)
       /\ \/ /\ w \in live /\ closing[w] = "Listing"
             /\ closing' = [closing EXCEPT ![w] = "Asking"]
             /\ step' = [step EXCEPT ![t] = [@ EXCEPT !.pc = "waiting", !.list = {w}]]
          \/ /\ ~ (w \in live /\ closing[w] = "Listing") /\ closing' = closing
             /\ Ends(t)
    /\ UNCHANGED <<hold, live, local, process>>

\* Mutant: a window whose webview does not answer stays
mut_CloseDecide(t) ==
    /\ Answered(t) /\ ~ IsExit(t)
    /\ LET w == step[t].of IN
       closing' = IF w \in live /\ closing[w] = "Asking" /\ Got(t) # {}
                  THEN [closing EXCEPT ![w] = "Deciding"] ELSE closing
    /\ Ends(t)
    /\ UNCHANGED <<hold, live, local, process>>

\* Acknowledged, the user decides; unanswered, the window goes.
CloseDecide(t) ==
    /\ Answered(t) /\ ~ IsExit(t)
    /\ LET w == step[t].of IN
       closing' = IF w \in live /\ closing[w] = "Asking"
                  THEN [closing EXCEPT ![w] = IF Got(t) # {} THEN "Deciding" ELSE "Closed"]
                  ELSE closing
    /\ Ends(t)
    /\ UNCHANGED <<hold, live, local, process>>

\* The webview of a window that was sent a signal shows it.
Acknowledge(w) ==
    /\ Interface /\ w \in live /\ ~ ack[w]
    /\ Awaited(w, Steps)
    /\ ack' = [ack EXCEPT ![w] = TRUE]
    /\ UNCHANGED <<hold, live, closing, step, local, process>>

\* cancel_exit: the window's own close first, then the exit for every window.
Cancel(w) ==
    /\ Interface /\ w \in live
    /\ \/ /\ closing[w] \in {"Listing", "Asking", "Deciding"}
          /\ closing' = [closing EXCEPT ![w] = "Open"]
          /\ UNCHANGED <<hold, step>>
       \/ /\ closing[w] \notin {"Listing", "Asking", "Deciding"}
          /\ hold \in {"Listing", "Asking", "Deciding"}
          /\ hold' = "Idle" /\ closing' = closing
          /\ step' = [t \in Steps |->
                        [step[t] EXCEPT !.abandoned = IsExit(t) /\ step[t].pc = "waiting"]]
    /\ UNCHANGED <<live, ack, local, process>>

confirm_window_close(w) ==
    /\ Interface /\ w \in live
    /\ closing[w] = "Deciding"
    /\ closing' = [closing EXCEPT ![w] = "Closed"]
    /\ UNCHANGED <<hold, live, ack, step, local, process>>

\* close_now, or the system destroyed it: the registry forgets the window, and
\* a draft its webview held goes with it.
Destroyed(w) ==
    /\ Interface /\ w \in live
    /\ live' = live \ {w}
    /\ closing' = [closing EXCEPT ![w] = "Closed"]
    /\ ack' = [ack EXCEPT ![w] = FALSE]
    /\ UNCHANGED <<hold, step, local, process>>

-----------------------------------------------------------------------------
(* Drafts and the close record.                                               *)

Pending == {w \in Writers : draft[w] = "submitted"}
Submitted == {w \in Writers : draft[w] # "held"}

\* A draft is submitted under its guard (LocalWork::guard), on its own time or
\* because the webview was asked to flush.
Submit(w) ==
    /\ Interface /\ w \in live /\ draft[w] = "held"
    /\ draft' = [draft EXCEPT ![w] = "submitted"]
    /\ UNCHANGED <<hold, registry, step, begun, forced, recorder,
                   recorded, due, process>>

Written(w) ==
    /\ process = "alive" /\ draft[w] = "submitted"
    /\ draft' = [draft EXCEPT ![w] = "written"]
    /\ UNCHANGED <<hold, registry, step, begun, forced, recorder,
                   recorded, due, process>>

\* begin_shutdown: the second one lets the first finish.
BeginShutdown(t) ==
    /\ At(t, "proceeding")
    /\ begun' = TRUE
    /\ IF begun THEN Ends(t) ELSE Goes(t, "layouts")
    /\ UNCHANGED <<hold, registry, draft, forced, recorder, recorded,
                   due, process>>

\* save_layouts: the store may never answer.  Then shutdown_within forgets the
\* answers and asks every window to flush.
SaveLayouts(t) ==
    /\ At(t, "layouts")
    /\ Forgets(live)
    /\ Goes(t, "flushing")
    /\ UNCHANGED <<hold, live, closing, local, process>>

\* A webview confirms once it has submitted its drafts, and the exit goes on
\* when all have or FLUSH_GRACE elapsed.  The close waits from here.
Flushed(t) ==
    /\ At(t, "flushing")
    /\ Goes(t, "writes")
    /\ due' = Submitted
    /\ UNCHANGED <<hold, registry, draft, begun, forced, recorder,
                   recorded, process>>

\* close_session_after_local_writes: the count is zero.
WritesDone(t) ==
    /\ At(t, "writes")
    /\ Pending = {}
    /\ recorder' = "queued"
    /\ Goes(t, "recording")
    /\ UNCHANGED <<hold, registry, draft, begun, forced, recorded, due,
                   process>>

\* The blocking pool writes the close, or the store refuses it.
Record ==
    /\ process = "alive" /\ recorder = "queued"
    /\ recorder' = "ended"
    /\ \/ recorded' = TRUE
       \/ recorded' = recorded
    /\ UNCHANGED <<hold, registry, step, draft, begun, forced, due, process>>

\* The agents and the sessions follow, each within its grace, and end
\* shutdown_within.
RecordDone(t) ==
    /\ At(t, "recording") /\ recorder = "ended"
    /\ Goes(t, "leaving")
    /\ UNCHANGED <<hold, registry, local, process>>

\* Mutant: WRITES_GRACE is only read once the writes are done
mut_GiveUp(t) ==
    /\ At(t, "recording")
    /\ Goes(t, "leaving")
    /\ UNCHANGED <<hold, registry, local, process>>

\* WRITES_GRACE elapsed: the close is given up, unless the pool already has it.
\* The agents and the sessions follow here too.
GiveUp(t) ==
    /\ step[t].pc \in {"writes", "recording"} /\ process = "alive"
    /\ Goes(t, "leaving")
    /\ UNCHANGED <<hold, registry, local, process>>

\* The update is installed, "without a time limit", the journal flushed, then
\* app.exit.
Leave(t) ==
    /\ At(t, "leaving")
    /\ Gone

-----------------------------------------------------------------------------
(* Exits nothing holds.                                                        *)

\* The Dock's Quit, a logout: the main thread waits for the close at most
\* FORCED_EXIT_GRACE; once a shutdown has begun it waits for nothing (Crash).
Terminate ==
    /\ process = "alive" /\ ~ begun
    /\ forced' = TRUE /\ begun' = TRUE
    /\ due' = Submitted
    /\ UNCHANGED <<hold, registry, step, draft, recorder, recorded, process>>

\* Mutant: a forced exit writes its close at once
mut_ForcedWritesDone ==
    /\ process = "alive" /\ forced /\ recorder = "none"
    /\ recorder' = "queued"
    /\ UNCHANGED <<hold, registry, step, draft, begun, forced, recorded,
                   due, process>>

ForcedWritesDone ==
    /\ process = "alive" /\ forced /\ recorder = "none"
    /\ Pending = {}
    /\ recorder' = "queued"
    /\ UNCHANGED <<hold, registry, step, draft, begun, forced, recorded,
                   due, process>>

\* The close is recorded, or the grace elapsed: the main thread returns.
ForcedEnd ==
    /\ process = "alive" /\ forced
    /\ Gone

\* The process dies, or is ended while an ordered shutdown is under way.
Crash ==
    /\ process = "alive"
    /\ Gone

-----------------------------------------------------------------------------
ExitStep(t) ==
    \/ NothingOpen(t) \/ FindOpen(t) \/ Ask(t) \/ Decide(t)
    \/ CloseAsk(t) \/ CloseDecide(t)

ShutdownStep(t) ==
    \/ BeginShutdown(t) \/ SaveLayouts(t) \/ Flushed(t) \/ WritesDone(t)
    \/ RecordDone(t) \/ GiveUp(t) \/ Leave(t)

ExitNext ==
    \/ \E t \in Steps : \/ AskExit(t) \/ ExitStep(t) \/ ShutdownStep(t)
                        \/ \E w \in Windows : AskClose(t, w)
    \/ \E w \in Windows : \/ Acknowledge(w) \/ Cancel(w) \/ confirm_window_close(w)
                          \/ Destroyed(w)
    \/ \E w \in Writers : Submit(w) \/ Written(w)
    \/ Record \/ Terminate \/ ForcedWritesDone
    \/ ForcedEnd \/ Crash

\* Where a step waits for the store, or for the installer, and no grace bounds it.
Unbounded(t) == step[t].pc \in {"reading", "layouts", "leaving"}

\* The tasks run and their graces elapse.  Nothing is assumed of the user, of a
\* webview, of a write, of the store or of the installer.
ExitFairness ==
    /\ \A t \in Steps : WF_exitVars(~ Unbounded(t) /\ (ExitStep(t) \/ ShutdownStep(t)))
    /\ WF_exitVars(ForcedEnd)

ExitSpec == ExitInit /\ [][ExitNext]_exitVars /\ ExitFairness

-----------------------------------------------------------------------------
(* Properties *)

Lists(t) == step[t].pc \in {"listing", "reading"}
Leaves(t) ==
    step[t].pc \in {"proceeding", "layouts", "flushing", "writes", "recording", "leaving"}

\* A close on disk is never over unwritten work: every draft submitted when the
\* ordered exit or the forced one began to wait is written, those a webview
\* confirmed among them (close_session_after_local_writes, ADR-0021).
CloseOverNothing == recorded => \A w \in due : draft[w] = "written"

\* Neither an exit nor the close of a window is left asking, whatever the
\* webviews do and however many are asked at once: it comes to the user's
\* decision, to its end, or was cancelled.  Nor is it left listing by a task that
\* ended: whoever lists for it has yet to go on, and waits for the store alone
\* (exit_step, window_close_step).
NeverLeftAsking ==
    /\ hold = "Asking" ~> hold # "Asking"
    /\ \A w \in Windows : closing[w] = "Asking" ~> closing[w] # "Asking"
    /\ [](hold = "Listing" => \E t \in Steps : IsExit(t) /\ Lists(t))
    /\ [](\A w \in Windows : closing[w] = "Listing" =>
              \E t \in Steps : step[t].of = w /\ Lists(t))

\* The ordered shutdown comes to its end though no webview, no write and no
\* store answers any more (shutdown_within).  An exit that proceeds has a task
\* that is in that shutdown, or waits for the store before it or for the
\* installer after it, unless a forced exit took over (begin_exit).
ProceedingEnds ==
    /\ (\E t \in Steps : step[t].pc = "flushing")
          ~> process = "gone" \/ \E t \in Steps : step[t].pc = "leaving"
    /\ [](hold = "Proceeding" => forced \/ \E t \in Steps : Leaves(t))

\* cancel_exit: "during an exit held by a transaction, the exit is abandoned for
\* every window, before anything is flushed or recorded".  A step whose exit was
\* cancelled while it waited for an answer does not begin the shutdown.
AbandonedStays ==
    [][\A t \in Steps : step[t].abandoned => step'[t].pc # "proceeding"]_exitVars
=============================================================================

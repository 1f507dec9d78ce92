------------------------------- MODULE Windows -------------------------------
(* The windows of the process and the sessions each owns on one connection      *)
(* (oxyn-desktop: backend/windows.rs, windows/openings.rs, closing.rs,          *)
(* handoff.rs): openings, consoles, moves of a console to a new window, a       *)
(* window or its workspace let go, the connection deleted.  The registry is     *)
(* read and written under one lock that no await crosses: a step is what one    *)
(* call does between two awaits.                                                *)
EXTENDS FiniteSets

CONSTANTS
    Keys,       \* window keys; one is used once
    Tasks,      \* the calls; the session a call opens bears its name
    None        \* no window, no session

ASSUME NoneAssumption == None \notin Keys /\ None \notin Tasks

VARIABLES
    window,         \* "new", "reserved" until built, "live", then "gone"
    owner,          \* State.sessions: the window that owns each session
    held,           \* State.connections: the windows that hold the connection
    named,          \* State.openings that name the connection
    disconnecting,  \* State.disconnecting has the connection
    deleting,       \* State.deleting has the connection
    moving,         \* consoles marked as moving (exit.rs)
    open,           \* the sessions of the executor on the connection
    left,           \* those an error left open: only logged, or told to a window that is gone
    saved,          \* the connection is still in the store
    task,           \* where each call is
    stray           \* windows whose hold began, or lasted, after the connection was let go

registry == <<window, owner, held, named, disconnecting, deleting>>
vars == <<window, owner, held, named, disconnecting, deleting, moving, open, left, saved, task, stray>>

Steps ==
    {"idle", "binding", "waiting", "connecting", "opened", "adopting", "unclaimed", "unused",
     "catalog", "handing", "refused", "building", "forgetting", "cancelling", "closing",
     "releasing", "console", "disconnect", "unmark", "deleting", "undelete", "done"}

\* "from" and "session" are those of a move, "list" what is left to close,
\* "mark" whether a Disconnect follows.
Idle ==
    [at |-> "idle", of |-> None, from |-> None, session |-> None, list |-> {},
     mark |-> FALSE, cancelled |-> FALSE]

TypeOK ==
    /\ window \in [Keys -> {"new", "reserved", "live", "gone"}]
    /\ owner \in [Tasks -> Keys \cup {None}]
    /\ held \subseteq Keys
    /\ named \subseteq Tasks /\ moving \subseteq Tasks /\ stray \subseteq Keys
    /\ open \subseteq Tasks /\ left \subseteq Tasks
    /\ disconnecting \in BOOLEAN /\ deleting \in BOOLEAN /\ saved \in BOOLEAN
    /\ task \in [Tasks -> [at : Steps, of : Keys \cup {None}, from : Keys \cup {None},
                           session : Tasks \cup {None}, list : SUBSET Tasks,
                           mark : BOOLEAN, cancelled : BOOLEAN]]

\* Registered; only a window that is built has a webview that asks.
Live(w) == w \in Keys /\ window[w] \in {"reserved", "live"}

Init ==
    /\ \E w \in Keys : window = [k \in Keys |-> IF k = w THEN "live" ELSE "new"]
    /\ owner = [s \in Tasks |-> None]
    /\ held = {} /\ named = {} /\ moving = {} /\ open = {} /\ left = {} /\ stray = {}
    /\ disconnecting = FALSE /\ deleting = FALSE /\ saved = TRUE
    /\ task = [t \in Tasks |-> Idle]

-----------------------------------------------------------------------------
(* What the steps are made of *)

Start(t, at, w) ==
    /\ task[t].at = "idle" /\ window[w] = "live"
    /\ task' = [task EXCEPT ![t] = [Idle EXCEPT !.at = at, !.of = w]]

Go(t, at) == task' = [task EXCEPT ![t].at = at]

\* State::opened_live and State::in_use, for these records.
OpenedLive == \E t \in named : Live(task[t].of)
InUse(holders) == holders # {} \/ OpenedLive

\* Mutant: the opening of another window is not counted.
mut_MarkUnused(holders) == holders = {} /\ ~ disconnecting

\* mark_unused: may this release disconnect, nobody else using the connection?
MarkUnused(holders) == ~ InUse(holders) /\ ~ disconnecting

\* Mutant: what a window opened is recorded even if it closed meanwhile.
mut_Recorded(t) == TRUE

\* What a call opened is recorded for its window, unless it closed.
Recorded(t) == Live(task[t].of)

\* close_console, when its error is only logged: a close whose decision the
\* journal refused ran nothing (Executor::run).
CloseOrLeave(s) ==
    \/ open' = open \ {s} /\ left' = left \ {s}
    \/ s \in open /\ left' = left \cup {s} /\ UNCHANGED open

-----------------------------------------------------------------------------
(* An opening: connect, decide_connection, reconnect *)

\* New window: an empty one.
Reserve(w) ==
    /\ window[w] = "new"
    /\ window' = [window EXCEPT ![w] = "live"]
    /\ UNCHANGED <<owner, held, named, disconnecting, deleting, moving, open, left, saved, task, stray>>

BeginOpening(t, w) ==
    /\ Start(t, "binding", w)
    /\ UNCHANGED <<registry, moving, open, left, saved, stray>>

\* bind_opening: refused by a close or a deletion, made to wait by a Disconnect;
\* otherwise it counts from here.  It registers for the wake-up before it reads.
BindOpening(t) ==
    /\ task[t].at = "binding"
    /\ IF ~ Live(task[t].of) \/ deleting
       THEN Go(t, "done") /\ UNCHANGED named
       ELSE IF disconnecting
       THEN Go(t, "waiting") /\ UNCHANGED named
       ELSE Go(t, "connecting") /\ named' = named \cup {t}
    /\ UNCHANGED <<window, owner, held, disconnecting, deleting, moving, open, left, saved, stray>>

\* Cancelled while it waits, by its window's close or by the user.
CancelWait(t) ==
    /\ task[t].at = "waiting"
    /\ Go(t, "done")
    /\ UNCHANGED <<registry, moving, open, left, saved, stray>>

\* open_console: in a workspace of this window; nothing is recorded until the
\* session is open.
OpenConsole(t, w) ==
    /\ w \in held
    /\ Start(t, "connecting", w)
    /\ UNCHANGED <<registry, moving, open, left, saved, stray>>

\* Command::Connect opens a session, or fails, and the opening's guard drops.
Connect(t) ==
    /\ task[t].at = "connecting"
    /\ \/ /\ saved
          /\ open' = open \cup {t}
          /\ Go(t, "opened")
          /\ UNCHANGED named
       \/ /\ Go(t, "done")
          /\ named' = named \ {t}
          /\ UNCHANGED open
    /\ UNCHANGED <<window, owner, held, disconnecting, deleting, moving, left, saved, stray>>

\* What was opened is handed on, or closed: the call was cancelled while the
\* server answered, the first console of an opening was refused, or a Disconnect
\* came meanwhile.  An opening's two sessions, its catalog's and that console's,
\* bear its one name: when a Disconnect closed the first before the second was
\* opened, workspace_of fails and closes nothing.
Opened(t) ==
    /\ task[t].at = "opened"
    /\ \/ /\ ~ task[t].cancelled /\ t \in open
          /\ Go(t, "adopting")
          /\ UNCHANGED <<named, open, left>>
       \/ /\ task[t].cancelled \/ t \in named \/ t \notin open
          /\ CloseOrLeave(t)
          /\ Go(t, "done")
          /\ named' = named \ {t}
       \/ /\ t \in named \ open /\ saved
          /\ open' = open \cup {t} /\ left' = left \cup {t}
          /\ Go(t, "done")
          /\ named' = named \ {t}
    /\ UNCHANGED <<window, owner, held, disconnecting, deleting, moving, saved, stray>>

\* Opening::adopt and claim_session: refused to a window that closed.
Adopt(t) ==
    /\ task[t].at = "adopting"
    /\ named' = named \ {t}
    /\ IF Recorded(t)
       THEN /\ owner' = [owner EXCEPT ![t] = task[t].of]
            /\ held' = held \cup {task[t].of}
            /\ stray' = IF t \in named \/ task[t].of \in held THEN stray ELSE stray \cup {task[t].of}
            /\ Go(t, "done")
       ELSE /\ Go(t, "unclaimed")
            /\ UNCHANGED <<owner, held, stray>>
    /\ UNCHANGED <<window, disconnecting, deleting, moving, open, left, saved>>

\* Mutant: only the connection is let go, if unused.
mut_CloseUnclaimed(t) ==
    /\ task[t].at = "unclaimed"
    /\ Go(t, "unused")
    /\ UNCHANGED <<registry, moving, open, left, saved, stray>>

\* release_unclaimed: the session is closed, then the connection if unused.
CloseUnclaimed(t) ==
    /\ task[t].at = "unclaimed"
    /\ CloseOrLeave(t)
    /\ Go(t, "unused")
    /\ UNCHANGED <<registry, moving, saved, stray>>

DisconnectIfUnused(t) ==
    /\ task[t].at = "unused"
    /\ disconnecting' = (disconnecting \/ MarkUnused(held))
    /\ Go(t, IF MarkUnused(held) THEN "disconnect" ELSE "done")
    /\ UNCHANGED <<window, owner, held, named, deleting, moving, open, left, saved, stray>>

-----------------------------------------------------------------------------
(* Open in new window *)

\* hand_off: the console is idle and this window's; the target is reserved.
Move(t, w, to, s) ==
    /\ owner[s] = w /\ s \notin moving
    /\ task[t].at = "idle" /\ window[w] = "live" /\ window[to] = "new"
    /\ window' = [window EXCEPT ![to] = "reserved"]
    /\ moving' = moving \cup {s}
    /\ task' = [task EXCEPT ![t] = [Idle EXCEPT !.at = "catalog", !.of = to, !.from = w, !.session = s]]
    /\ UNCHANGED <<owner, held, named, disconnecting, deleting, open, left, saved, stray>>

\* The catalog session of the target; refused, the target is released.
OpenCatalog(t) ==
    /\ task[t].at = "catalog"
    /\ \/ /\ saved
          /\ open' = open \cup {t}
          /\ Go(t, "handing")
          /\ UNCHANGED moving
       \/ /\ Go(t, "forgetting")
          /\ moving' = moving \ {task[t].session}
          /\ UNCHANGED open
    /\ UNCHANGED <<registry, left, saved, stray>>

\* hand_over, under one lock: both windows and both sessions, or nothing.  It
\* looks neither at who still holds the connection nor at a deletion.
Transfer(sessions, from, to) ==
    /\ owner' = [s \in Tasks |-> IF s \in sessions THEN to ELSE owner[s]]
    /\ held' = held \cup {to}
    /\ stray' = IF from \in held \ stray /\ ~ deleting THEN stray ELSE stray \cup {to}

HandOver(t) ==
    LET move == task[t] IN
    /\ move.at = "handing"
    /\ moving' = moving \ {move.session}
    /\ IF Live(move.of) /\ owner[move.session] = move.from /\ {move.session, t} \subseteq open
       THEN /\ Transfer({move.session, t}, move.from, move.of)
            /\ Go(t, "building")
       ELSE /\ Go(t, "refused")
            /\ UNCHANGED <<owner, held, stray>>
    /\ UNCHANGED <<window, named, disconnecting, deleting, open, left, saved>>

CloseCatalog(t) ==
    /\ task[t].at = "refused"
    /\ CloseOrLeave(t)
    /\ Go(t, "forgetting")
    /\ UNCHANGED <<registry, moving, saved, stray>>

\* The window is built, or the console goes back, if it can, and the target is
\* released with what is left to it.
Build(t) ==
    LET move == task[t] IN
    /\ move.at = "building"
    /\ \/ /\ window' = [window EXCEPT ![move.of] = "live"]
          /\ Go(t, "done")
          /\ UNCHANGED <<owner, held, stray>>
       \/ /\ UNCHANGED window
          /\ Go(t, "forgetting")
          /\ IF Live(move.from) /\ owner[move.session] = move.of
             THEN Transfer({move.session}, move.of, move.from)
             ELSE UNCHANGED <<owner, held, stray>>
    /\ UNCHANGED <<named, disconnecting, deleting, moving, open, left, saved>>

-----------------------------------------------------------------------------
(* Letting go *)

\* A window that is not the last closes: release_window.
CloseWindow(t, w) ==
    /\ \E other \in Keys \ {w} : Live(other)
    /\ Start(t, "forgetting", w)
    /\ UNCHANGED <<registry, moving, open, left, saved, stray>>

\* forget: the window and all its records go under one lock; what it was the
\* last to hold is marked.
Forget(t) ==
    LET w == task[t].of
        marked == w \in held /\ MarkUnused(held \ {w})
    IN  /\ task[t].at = "forgetting"
        /\ window' = [window EXCEPT ![w] = "gone"]
        /\ owner' = [s \in Tasks |-> IF owner[s] = w THEN None ELSE owner[s]]
        /\ held' = held \ {w}
        /\ disconnecting' = (disconnecting \/ marked)
        /\ task' = [task EXCEPT ![t] = [@ EXCEPT !.at = "cancelling", !.mark = marked,
                                             !.list = {s \in Tasks : owner[s] = w}]]
        /\ UNCHANGED <<named, deleting, moving, open, left, saved, stray>>

\* drop_command: the window's openings and consoles under way are cancelled.
CancelCommands(t) ==
    /\ task[t].at = "cancelling"
    /\ task' = [u \in Tasks |->
        IF u = t THEN [task[u] EXCEPT !.at = "closing"]
        ELSE IF task[u].of = task[t].of /\ task[u].at \in {"binding", "waiting", "connecting", "opened"}
        THEN [task[u] EXCEPT !.cancelled = TRUE]
        ELSE task[u]]
    /\ UNCHANGED <<registry, moving, open, left, saved, stray>>

\* The sessions one after the other, then the Disconnect if it is marked.
CloseOwned(t) ==
    /\ task[t].at = "closing"
    /\ \/ \E s \in task[t].list :
            /\ CloseOrLeave(s)
            /\ task' = [task EXCEPT ![t].list = @ \ {s}]
       \/ /\ task[t].list = {}
          /\ Go(t, IF task[t].mark THEN "disconnect" ELSE "done")
          /\ UNCHANGED <<open, left>>
    /\ UNCHANGED <<registry, moving, saved, stray>>

\* release_connection: the window's sessions are listed once, and closed one
\* after the other without looking at their owner again.
ReleaseConnection(t, w) ==
    /\ task[t].at = "idle" /\ window[w] = "live"
    /\ task' = [task EXCEPT ![t] =
        [Idle EXCEPT !.at = "releasing", !.of = w, !.list = {s \in Tasks : owner[s] = w}]]
    /\ UNCHANGED <<registry, moving, open, left, saved, stray>>

ReleaseOne(t, s) ==
    /\ task[t].at = "releasing" /\ s \in task[t].list
    /\ owner' = [owner EXCEPT ![s] = None]
    /\ CloseOrLeave(s)
    /\ task' = [task EXCEPT ![t].list = @ \ {s}]
    /\ UNCHANGED <<window, held, named, disconnecting, deleting, moving, saved, stray>>

LetGo(t) ==
    LET w == task[t].of
        marked == MarkUnused(held \ {w})
    IN  /\ task[t].at = "releasing" /\ task[t].list = {}
        /\ held' = held \ {w}
        /\ disconnecting' = (disconnecting \/ marked)
        /\ stray' = IF \E s \in Tasks : owner[s] = w THEN stray \cup {w} ELSE stray
        /\ Go(t, IF marked THEN "disconnect" ELSE "done")
        /\ UNCHANGED <<window, owner, named, deleting, moving, open, left, saved>>

\* Command::Disconnect closes every session of the connection, or fails.
Disconnect(t) ==
    /\ task[t].at = "disconnect"
    /\ \/ open' = {} /\ left' = {}
       \/ UNCHANGED <<open, left>>
    /\ Go(t, "unmark")
    /\ UNCHANGED <<registry, moving, saved, stray>>

\* Mutant: the openings that wait are not woken.
mut_EndDisconnect(t) ==
    /\ task[t].at = "unmark"
    /\ disconnecting' = FALSE
    /\ Go(t, "done")
    /\ UNCHANGED <<window, owner, held, named, deleting, moving, open, left, saved, stray>>

\* Drop for Disconnecting.
EndDisconnect(t) ==
    /\ task[t].at = "unmark"
    /\ disconnecting' = FALSE
    /\ task' = [u \in Tasks |->
        IF u = t THEN [task[u] EXCEPT !.at = "done"]
        ELSE IF task[u].at = "waiting" THEN [task[u] EXCEPT !.at = "binding"]
        ELSE task[u]]
    /\ UNCHANGED <<window, owner, held, named, deleting, moving, open, left, saved, stray>>

\* close_console: checked, closed, then forgotten; an error goes to the front,
\* which keeps the console.
CloseConsole(t, w, s) ==
    /\ owner[s] = w /\ task[t].at = "idle" /\ window[w] = "live"
    /\ task' = [task EXCEPT ![t] = [Idle EXCEPT !.at = "console", !.of = w, !.session = s]]
    /\ UNCHANGED <<registry, moving, open, left, saved, stray>>

ConsoleClosed(t) ==
    LET s == task[t].session IN
    /\ task[t].at = "console"
    /\ \/ /\ s \in open
          /\ open' = open \ {s} /\ left' = left \ {s}
          /\ UNCHANGED <<owner, task>>
       \/ /\ s \notin open
          /\ owner' = [owner EXCEPT ![s] = None]
          /\ Go(t, "done")
          /\ UNCHANGED <<open, left>>
       \/ Go(t, "done") /\ UNCHANGED <<owner, open, left>>
    /\ UNCHANGED <<window, held, named, disconnecting, deleting, moving, saved, stray>>

\* begin_deletion, one at a time: nobody else holds or opens the connection.
BeginDeletion(t, w) ==
    /\ saved /\ ~ deleting /\ held \subseteq {w} /\ ~ OpenedLive
    /\ Start(t, "deleting", w)
    /\ deleting' = TRUE
    /\ UNCHANGED <<window, owner, held, named, disconnecting, moving, open, left, saved, stray>>

\* DeleteConnection runs, is held or refused, or fails in the store once the
\* sessions are closed.
Delete(t) ==
    /\ task[t].at = "deleting"
    /\ \/ saved' \in {FALSE, saved} /\ open' = {} /\ left' = {}
       \/ UNCHANGED <<saved, open, left>>
    /\ Go(t, "undelete")
    /\ UNCHANGED <<registry, moving, stray>>

EndDeletion(t) ==
    /\ task[t].at = "undelete"
    /\ deleting' = FALSE
    /\ Go(t, "done")
    /\ UNCHANGED <<window, owner, held, named, disconnecting, moving, open, left, saved, stray>>

-----------------------------------------------------------------------------
Ask(t, w) ==
    \/ BeginOpening(t, w) \/ OpenConsole(t, w)
    \/ CloseWindow(t, w) \/ ReleaseConnection(t, w) \/ BeginDeletion(t, w)
    \/ \E s \in Tasks : CloseConsole(t, w, s) \/ \E to \in Keys : Move(t, w, to, s)

Serve(t) ==
    \/ BindOpening(t) \/ Connect(t) \/ Opened(t) \/ Adopt(t)
    \/ CloseUnclaimed(t) \/ DisconnectIfUnused(t)
    \/ OpenCatalog(t) \/ HandOver(t) \/ CloseCatalog(t) \/ Build(t)
    \/ Forget(t) \/ CancelCommands(t) \/ CloseOwned(t)
    \/ (\E s \in Tasks : ReleaseOne(t, s)) \/ LetGo(t)
    \/ Disconnect(t) \/ EndDisconnect(t) \/ ConsoleClosed(t)
    \/ Delete(t) \/ EndDeletion(t)

Next ==
    \/ \E w \in Keys : Reserve(w)
    \/ \E t \in Tasks : (\E w \in Keys : Ask(t, w)) \/ Serve(t) \/ CancelWait(t)

\* Every call goes on until it ends.  Its task is polled; that the server and
\* the store it waits for answer or fail is assumed, nothing in the code bounds
\* it.  CancelWait is the user's, or the window's: assumed of nobody.
Spec == Init /\ [][Next]_vars /\ \A t \in Tasks : WF_vars(Serve(t))

-----------------------------------------------------------------------------
(* Properties *)

\* An open session is a live window's, or in the hands of a call that will
\* record it or close it: whatever closes while a connection opens, a console
\* moves or a workspace is released, none is left to nobody but by an error.  A
\* call lets go of the owner first and only logs a close that is refused, and an
\* opening whose catalog was disconnected under it closes nothing; what these
\* leave is closed with the connection (release_unclaimed, release_window,
\* release_connection, hand_off, workspace_of).
NoSessionIsLost ==
    \A s \in open \ left :
        \/ Live(owner[s])
        \/ task[s].at \in {"opened", "adopting", "unclaimed", "handing", "refused"}
        \/ \E t \in Tasks : task[t].at \in {"cancelling", "closing", "releasing"} /\ s \in task[t].list

\* Nothing names a window that is gone once it is forgotten, however late its
\* calls answer (adopt, claim_session, hand_over).
NothingNamesTheGone ==
    \A w \in Keys : window[w] = "gone" => w \notin held /\ \A s \in Tasks : owner[s] # w

\* The Disconnect of one window, or the deletion it asked, closes no session of
\* another live window and none that its opening is about to adopt.  Not spared
\* is a window that holds the connection by a console claimed or handed over
\* after it was let go, or while it was deleted (in_use, mark_unused,
\* held_elsewhere).
OthersAreSpared ==
    [][\A t \in Tasks, s \in open \ open' :
         task[t].at \in {"disconnect", "deleting"} /\ task'[t].at # task[t].at =>
            /\ Live(owner[s]) /\ owner[s] \notin stray => owner[s] = task[t].of
            /\ ~ (s \in named /\ Live(task[s].of))]_vars

\* An opening that waits has someone to wake it: the mark it waits for is
\* carried by one call, that has still to run its Disconnect or to drop it
\* (bind_opening, Drop for Disconnecting).
SomeoneWakesIt ==
    LET carriers == {t \in Tasks : \/ task[t].at \in {"disconnect", "unmark"}
                                   \/ task[t].at \in {"cancelling", "closing"} /\ task[t].mark}
    IN  /\ Cardinality(carriers) = IF disconnecting THEN 1 ELSE 0
        /\ \A t \in Tasks : task[t].at = "waiting" => disconnecting

\* An opening made to wait for a Disconnect goes on once it has ended, even if
\* nobody cancels it (bind_opening, Drop for Disconnecting).
WaitEnds == \A t \in Tasks : task[t].at = "waiting" ~> task[t].at # "waiting"

\* "Closes a window's workspace on `connection`: its own sessions [...] A window
\* never disconnects what another shows" (closing.rs, release_connection).  It
\* does not hold: a console that moves after the sessions are listed is closed
\* in the window that now shows it.
ReleasesItsOwn ==
    [][\A t \in Tasks, s \in open \ open' :
         task[t].at = "releasing" /\ s \in task[t].list \ task'[t].list
         => ~ Live(owner[s]) \/ owner[s] = task[t].of]_vars
=============================================================================

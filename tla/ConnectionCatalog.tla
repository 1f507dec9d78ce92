-------------------------- MODULE ConnectionCatalog --------------------------
(* The sessions and the catalog of one connection (oxyn-exec: executor.rs,      *)
(* sessions.rs, catalog.rs): openings, which share a catalog and reserve a      *)
(* session for it, refreshes, which read on that session and publish in that    *)
(* catalog, executions that change the schema, and whatever closes sessions.    *)
(* A catalog is named after the opening that created it, and a session after    *)
(* the one that opened it.  A cache is one level: when it was read, and whether *)
(* it says so.                                                                  *)
EXTENDS Naturals, FiniteSets

CONSTANTS
    Openings,       \* Command::Connect
    Refreshes,      \* Command::RefreshCatalog, of any scope
    Ddls,           \* executions that change the schema, on any session
    Closers,        \* calls that close sessions
    Hows,           \* which ones
    None            \* no session, no catalog

ASSUME NoneAssumption == None \notin Openings
ASSUME HowsAssumption == Hows \subseteq {"disconnect", "delete", "close_session"}

VARIABLES
    opening,    \* where each Connect is, and the catalog it got
    listed,     \* SessionRegistry.sessions
    closing,    \* the sessions that are closing, or closed
    setting,    \* the sessions a SetSessionContext is being applied to
    moved,      \* the sessions whose context was changed
    catalog,    \* Executor.catalogs: the connection's, if it has one
    closed,     \* ConnectionCatalog.closed
    preferred,  \* ConnectionCatalog.session
    cache,      \* ConnectionCatalog.cache
    refresh,    \* where each refresh is, its catalog, its session, what it read
    schema,     \* how many changes the server made to its schema
    ddl,        \* where each execution is, and its change
    closer      \* where each closing call is, and what it has left to close

sessions == <<opening, listed, closing, setting, moved>>
catalogs == <<catalog, closed, preferred, cache>>
server == <<schema, ddl>>
catalogVars ==
    <<opening, listed, closing, setting, moved, catalog, closed, preferred,
      cache, refresh, schema, ddl, closer>>

Catalogs == Openings
Levels == {"never", "fetched", "invalidated"}
Epochs == 0..Cardinality(Ddls)

CatalogTypeOK ==
    /\ opening \in [Openings -> [pc : {"idle", "opened", "attached", "over"},
                                 catalog : Catalogs \cup {None}]]
    /\ listed \subseteq Openings /\ closing \subseteq Openings
    /\ setting \subseteq Openings /\ moved \subseteq Openings
    /\ catalog \in Catalogs \cup {None}
    /\ closed \subseteq Catalogs
    /\ preferred \in [Catalogs -> Openings \cup {None}]
    /\ cache \in [Catalogs -> [level : Levels, at : Epochs]]
    /\ refresh \in [Refreshes -> [pc : {"idle", "locking", "waiting", "reading", "read", "over"},
                                  catalog : Catalogs \cup {None},
                                  session : Openings \cup {None}, at : Epochs]]
    /\ schema \in Epochs
    /\ ddl \in [Ddls -> [pc : {"idle", "applied", "said", "unsaid"}, at : Epochs]]
    /\ closer \in [Closers -> [pc : {"idle", "removed", "closing", "taking", "over"},
                               how : Hows \cup {"none"}, todo : SUBSET Openings]]

CatalogInit ==
    /\ opening = [o \in Openings |-> [pc |-> "idle", catalog |-> None]]
    /\ listed = {} /\ closing = {} /\ setting = {} /\ moved = {}
    /\ catalog = None /\ closed = {}
    /\ preferred = [c \in Catalogs |-> None]
    /\ cache = [c \in Catalogs |-> [level |-> "never", at |-> 0]]
    /\ refresh = [r \in Refreshes |-> [pc |-> "idle", catalog |-> None, session |-> None, at |-> 0]]
    /\ schema = 0
    /\ ddl = [d \in Ddls |-> [pc |-> "idle", at |-> 0]]
    /\ closer = [k \in Closers |-> [pc |-> "idle", how |-> "none", todo |-> {}]]

is_open(s) == s # None /\ s \in listed /\ s \notin closing

-----------------------------------------------------------------------------
(* Connect *)

\* The configuration, the credentials and the driver's session, or a failure;
\* then the session is registered.
Open(o) ==
    /\ opening[o].pc = "idle"
    /\ \/ /\ opening' = [opening EXCEPT ![o].pc = "opened"]
          /\ listed' = listed \cup {o}
       \/ opening' = [opening EXCEPT ![o].pc = "over"] /\ UNCHANGED listed
    /\ UNCHANGED <<closing, setting, moved, catalogs, refresh, server, closer>>

\* Once its transaction state is read: the connection's catalog, created if
\* there is none.
Attach(o) ==
    /\ opening[o].pc = "opened"
    /\ catalog' = IF catalog = None THEN o ELSE catalog
    /\ opening' = [opening EXCEPT ![o] = [pc |-> "attached", catalog |-> catalog']]
    /\ UNCHANGED <<listed, closing, setting, moved, closed, preferred, cache, refresh, server, closer>>

\* The session is reserved for the catalog, unless another one is and is open.
Prefer(o) ==
    /\ opening[o].pc = "attached"
    /\ LET c == opening[o].catalog IN
        preferred' = IF is_open(preferred[c]) THEN preferred ELSE [preferred EXCEPT ![c] = o]
    /\ opening' = [opening EXCEPT ![o].pc = "over"]
    /\ UNCHANGED <<listed, closing, setting, moved, catalog, closed, cache, refresh, server, closer>>

\* The opening is dropped as it reads the transaction state: nobody knows the
\* session it registered.
DropOpening(o) ==
    /\ opening[o].pc = "opened"
    /\ opening' = [opening EXCEPT ![o].pc = "over"]
    /\ UNCHANGED <<listed, closing, setting, moved, catalogs, refresh, server, closer>>

-----------------------------------------------------------------------------
(* SetSessionContext *)

\* Mutant: any session may change its context.
mut_SetContext(s) ==
    /\ opening[s].pc = "over" /\ opening[s].catalog # None
    /\ s \in listed /\ s \notin setting
    /\ setting' = setting \cup {s}
    /\ UNCHANGED <<opening, listed, closing, moved, catalogs, refresh, server, closer>>

\* Refused on the session the catalog reads through; then it awaits the server.
SetContext(s) ==
    /\ opening[s].pc = "over" /\ opening[s].catalog # None
    /\ s \in listed /\ s \notin setting
    /\ catalog # None => preferred[catalog] # s
    /\ setting' = setting \cup {s}
    /\ UNCHANGED <<opening, listed, closing, moved, catalogs, refresh, server, closer>>

\* The server accepted it, or did not; a session that closes is not asked.
ContextSet(s) ==
    /\ s \in setting
    /\ setting' = setting \ {s}
    /\ moved' \in {moved} \cup (IF s \in closing THEN {} ELSE {moved \cup {s}})
    /\ UNCHANGED <<opening, listed, closing, catalogs, refresh, server, closer>>

-----------------------------------------------------------------------------
(* RefreshCatalog *)

RefreshAt(r, where) == refresh' = [refresh EXCEPT ![r].pc = where]
RefreshOver(r) ==
    refresh' = [refresh EXCEPT ![r] = [pc |-> "over", catalog |-> None, session |-> None, at |-> 0]]

BeginRefresh(r) ==
    /\ refresh[r].pc = "idle"
    /\ IF catalog = None THEN RefreshOver(r)
       ELSE refresh' = [refresh EXCEPT ![r] = [@ EXCEPT !.pc = "locking", !.catalog = catalog]]
    /\ UNCHANGED <<sessions, catalogs, server, closer>>

\* Who holds ConnectionCatalog.refresh.
Holds(q, c) == refresh[q].catalog = c /\ refresh[q].pc \in {"waiting", "reading", "read"}

\* Mutant: refreshes of one catalog run side by side.
mut_LockRefresh(r) ==
    /\ refresh[r].pc = "locking"
    /\ LET c == refresh[r].catalog IN
        /\ c \notin closed
        /\ \E s \in IF preferred[c] = None THEN listed ELSE {preferred[c]} :
            /\ is_open(s)
            /\ refresh' = [refresh EXCEPT ![r] = [@ EXCEPT !.pc = "waiting", !.session = s]]
    /\ UNCHANGED <<sessions, catalogs, server, closer>>

\* The lock, then the reserved session, or any while none is.
LockRefresh(r) ==
    /\ refresh[r].pc = "locking"
    /\ LET c == refresh[r].catalog
           candidates == IF preferred[c] = None THEN listed ELSE {preferred[c]}
       IN
        /\ c \notin closed
        /\ \A q \in Refreshes : ~ Holds(q, c)
        /\ \/ \E s \in candidates :
                /\ is_open(s)
                /\ refresh' = [refresh EXCEPT ![r] = [@ EXCEPT !.pc = "waiting", !.session = s]]
           \/ /\ \A s \in candidates : ~ is_open(s)
              /\ RefreshOver(r)
    /\ UNCHANGED <<sessions, catalogs, server, closer>>

\* SessionSlot::read_catalog: the session's lock, unless the session closes.
BeginRead(r) ==
    /\ refresh[r].pc = "waiting"
    /\ IF refresh[r].session \in closing THEN RefreshOver(r) ELSE RefreshAt(r, "reading")
    /\ UNCHANGED <<sessions, catalogs, server, closer>>

\* The catalog was closed first: whatever is read is dropped.
Read(r) ==
    /\ refresh[r].pc = "reading"
    /\ refresh[r].catalog \notin closed
    /\ refresh' = [refresh EXCEPT ![r] = [@ EXCEPT !.pc = "read", !.at = schema]]
    /\ UNCHANGED <<sessions, catalogs, server, closer>>

\* The catalog is closed while the refresh waits or reads.
RefreshCancelled(r) ==
    /\ refresh[r].pc \in {"locking", "waiting", "reading"}
    /\ refresh[r].catalog \in closed
    /\ RefreshOver(r)
    /\ UNCHANGED <<sessions, catalogs, server, closer>>

\* A stop, the driver's error, or the future dropped.
RefreshFails(r) ==
    /\ refresh[r].pc \in {"locking", "waiting", "reading", "read"}
    /\ RefreshOver(r)
    /\ UNCHANGED <<sessions, catalogs, server, closer>>

\* Mutant: what was read is published in the catalog it was read for.
mut_Publish(r) ==
    /\ refresh[r].pc = "read"
    /\ cache' = [cache EXCEPT ![refresh[r].catalog] = [level |-> "fetched", at |-> refresh[r].at]]
    /\ RefreshOver(r)
    /\ UNCHANGED <<sessions, catalog, closed, preferred, server, closer>>

\* Under the registry's lock: published only in the connection's catalog.
Publish(r) ==
    /\ refresh[r].pc = "read"
    /\ LET c == refresh[r].catalog IN
        cache' = IF c \in closed \/ catalog # c THEN cache
                 ELSE [cache EXCEPT ![c] = [level |-> "fetched", at |-> refresh[r].at]]
    /\ RefreshOver(r)
    /\ UNCHANGED <<sessions, catalog, closed, preferred, server, closer>>

-----------------------------------------------------------------------------
(* Executions that change the schema *)

ApplyDdl(d) ==
    /\ ddl[d].pc = "idle"
    /\ listed # {}
    /\ schema' = schema + 1
    /\ ddl' = [ddl EXCEPT ![d] = [pc |-> "applied", at |-> schema']]
    /\ UNCHANGED <<sessions, catalogs, refresh, closer>>

\* conclude: a confirmed DDL invalidates what the cache has, a timeout or an
\* unknown outcome does not.
ConcludeDdl(d) ==
    /\ ddl[d].pc = "applied"
    /\ \/ /\ ddl' = [ddl EXCEPT ![d].pc = "said"]
          /\ cache' = IF catalog # None /\ cache[catalog].level = "fetched"
                      THEN [cache EXCEPT ![catalog].level = "invalidated"] ELSE cache
       \/ ddl' = [ddl EXCEPT ![d].pc = "unsaid"] /\ UNCHANGED cache
    /\ UNCHANGED <<sessions, catalog, closed, preferred, refresh, schema, closer>>

-----------------------------------------------------------------------------
(* What closes sessions *)

CloserAt(k, where, todo) ==
    closer' = [closer EXCEPT ![k] = [@ EXCEPT !.pc = where, !.todo = todo]]
CloserBegins(k, how, where, todo) ==
    /\ closer[k].pc = "idle" /\ how \in Hows
    /\ closer' = [closer EXCEPT ![k] = [pc |-> where, how |-> how, todo |-> todo]]

\* disconnect, and shutdown: the catalog goes first.
BeginDisconnect(k) ==
    /\ CloserBegins(k, "disconnect", "removed", {})
    /\ catalog' = None
    /\ closed' = IF catalog = None THEN closed ELSE closed \cup {catalog}
    /\ UNCHANGED <<sessions, preferred, cache, refresh, server>>

\* delete_connection closes the same sessions and leaves the catalog.
BeginDelete(k) ==
    /\ CloserBegins(k, "delete", "removed", {})
    /\ UNCHANGED <<sessions, catalogs, refresh, server>>

\* close_session marks the session, then removes it.
BeginCloseSession(k) ==
    /\ \E s \in listed :
        /\ CloserBegins(k, "close_session", "removed", {s})
        /\ closing' = closing \cup {s}
    /\ UNCHANGED <<opening, listed, setting, moved, catalogs, refresh, server>>

\* Mutant: the session reserved for the catalog is closed with the others.
mut_Drain(k) ==
    /\ closer[k].pc = "removed"
    /\ LET todo == listed \cup {preferred[c] : c \in closed} IN
        /\ listed' = listed \ todo
        /\ CloserAt(k, "closing", todo)
    /\ UNCHANGED <<opening, closing, setting, moved, catalogs, refresh, server>>

\* Removed from the registry before they are closed.
Drain(k) ==
    /\ closer[k].pc = "removed"
    /\ LET todo == IF closer[k].how = "close_session" THEN closer[k].todo ELSE listed IN
        /\ listed' = listed \ todo
        /\ CloserAt(k, "closing", todo)
    /\ UNCHANGED <<opening, closing, setting, moved, catalogs, refresh, server>>

\* Mutant: the lock is awaited before the session is marked.
mut_MarkOne(k) ==
    /\ closer[k].pc = "closing" /\ closer[k].todo # {}
    /\ CloserAt(k, "taking", closer[k].todo)
    /\ UNCHANGED <<sessions, catalogs, refresh, server>>

\* SessionSlot::close, one session after the other: marked, then taken when
\* nobody reads through it any more.
MarkOne(k) ==
    /\ closer[k].pc = "closing" /\ closer[k].todo # {}
    /\ \E s \in closer[k].todo : closing' = closing \cup {s}
    /\ CloserAt(k, "taking", closer[k].todo)
    /\ UNCHANGED <<opening, listed, setting, moved, catalogs, refresh, server>>

TakeOne(k) ==
    /\ closer[k].pc = "taking"
    /\ \E s \in closer[k].todo \cap closing :
        /\ \A r \in Refreshes : ~ (refresh[r].pc = "reading" /\ refresh[r].session = s)
        /\ CloserAt(k, "closing", closer[k].todo \ {s})
    /\ UNCHANGED <<sessions, catalogs, refresh, server>>

\* Mutant: the catalog is removed once the sessions are closed.
mut_ClosedAll(k) ==
    /\ closer[k].pc = "closing" /\ closer[k].todo = {}
    /\ closer' = [closer EXCEPT ![k] = [@ EXCEPT !.pc = "over", !.how = "none"]]
    /\ catalog' = IF closer[k].how = "disconnect" THEN None ELSE catalog
    /\ UNCHANGED <<sessions, closed, preferred, cache, refresh, server>>

ClosedAll(k) ==
    /\ closer[k].pc = "closing" /\ closer[k].todo = {}
    /\ closer' = [closer EXCEPT ![k] = [@ EXCEPT !.pc = "over", !.how = "none"]]
    /\ UNCHANGED <<sessions, catalogs, refresh, server>>

-----------------------------------------------------------------------------
CatalogNext ==
    \/ \E o \in Openings :
        \/ Open(o) \/ Attach(o) \/ Prefer(o) \/ DropOpening(o)
        \/ SetContext(o) \/ ContextSet(o)
    \/ \E r \in Refreshes :
        \/ BeginRefresh(r) \/ LockRefresh(r) \/ BeginRead(r) \/ Read(r)
        \/ RefreshCancelled(r) \/ RefreshFails(r) \/ Publish(r)
    \/ \E d \in Ddls : ApplyDdl(d) \/ ConcludeDdl(d)
    \/ \E k \in Closers :
        \/ BeginDisconnect(k) \/ BeginDelete(k) \/ BeginCloseSession(k)
        \/ Drain(k) \/ MarkOne(k) \/ TakeOne(k) \/ ClosedAll(k)

\* The runtime polls what is ready, and a provider lets go of a read that was
\* cancelled, by its catalog or by its session: the driver contract.  Nothing
\* says that a read ends otherwise.
CatalogFairness ==
    /\ \A r \in Refreshes :
        /\ WF_catalogVars(RefreshCancelled(r)) /\ WF_catalogVars(Publish(r))
        /\ WF_catalogVars(RefreshFails(r) /\ refresh[r].session \in closing)
    /\ \A k \in Closers :
        WF_catalogVars(Drain(k) \/ MarkOne(k) \/ TakeOne(k) \/ ClosedAll(k))

CatalogSpec == CatalogInit /\ [][CatalogNext]_catalogVars /\ CatalogFairness

-----------------------------------------------------------------------------
(* Properties *)

\* Once a disconnection removed a catalog nothing is published in it any more,
\* though a refresh that read before may come after (refresh_catalog).
ClosedIsFrozen == [][\A c \in closed : cache'[c] = cache[c]]_catalogVars

\* Of two refreshes of one catalog the later publication never carries the
\* older read: the lock is held from before the read (refresh_catalog).
PublishedInOrder == [][\A c \in Catalogs : cache'[c].at >= cache[c].at]_catalogVars

\* The session reserved for the connection's catalog never had its context
\* changed, whenever it became so (set_session_context, ADR-0019).
ReservedKeepsContext ==
    catalog # None /\ preferred[catalog] # None
    => preferred[catalog] \notin moved \cup setting

\* A session an opening returned, and that is still registered, has a catalog,
\* unless a disconnection is about to remove it too (connect, disconnect).
SessionHasCatalog ==
    (\A k \in Closers : closer[k].pc # "removed")
    => \A o \in listed : opening[o].pc = "over" /\ opening[o].catalog # None => catalog # None

\* What a confirmed DDL may have changed is not shown as read: the cache has
\* been read since, or is marked.  (ARCHITECTURE: « immediate invalidation
\* after any DDL issued from Oxyn ».)
InvalidatedByDdl ==
    \A d \in Ddls :
        /\ ddl[d].pc = "said" /\ catalog # None
        /\ cache[catalog].level = "fetched"
        => cache[catalog].at >= ddl[d].at

\* Executor::catalog: « None before Connect or after Disconnect ».
NoneAfterDisconnect ==
    /\ listed = {}
    /\ \A k \in Closers : closer[k].pc \in {"idle", "over"}
    /\ \A o \in Openings : opening[o].pc \in {"idle", "over"}
    => catalog = None

\* What closes sessions ends, though refreshes hold them.
ClosingEnds == \A k \in Closers : closer[k].pc # "idle" ~> closer[k].pc = "over"
=============================================================================

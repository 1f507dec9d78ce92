---------------------------- MODULE Windows_proofs ----------------------------
(* The sessions of the windows for every number of windows and of calls.        *)
EXTENDS Windows, FiniteSetTheorems, TLAPS

Calls == [at : Steps, of : Keys \cup {None}, from : Keys \cup {None},
          session : Tasks \cup {None}, list : SUBSET Tasks,
          mark : BOOLEAN, cancelled : BOOLEAN]

\* Who carries the mark of the connection being disconnected, who its deletion.
Carries(t) ==
    \/ task[t].at \in {"disconnect", "unmark"}
    \/ task[t].at \in {"cancelling", "closing"} /\ task[t].mark
Deletes(t) == task[t].at \in {"deleting", "undelete"}

\* Two of the three places an open session may be: in the hands of the call that
\* opened it, and on the list of a call that closes it.
InHands(s) == task[s].at \in {"opened", "adopting", "unclaimed", "handing", "refused"}
Listed(s) ==
    \E t \in Tasks : task[t].at \in {"cancelling", "closing", "releasing"} /\ s \in task[t].list

\* The mark and the deletion have one bearer each, and only while they last: an
\* opening that waits, waits for that one.
OneBearer ==
    /\ \A t, u \in Tasks : Carries(t) /\ Carries(u) => t = u
    /\ disconnecting <=> \E t \in Tasks : Carries(t)
    /\ \A t \in Tasks : task[t].at = "waiting" => disconnecting
    /\ \A t, u \in Tasks : Deletes(t) /\ Deletes(u) => t = u
    /\ deleting <=> \E t \in Tasks : Deletes(t)

\* An opening counts while its call connects and adopts; a call under way is of
\* a window, and none is of a window that is still to come.
CallsOfWindows ==
    /\ \A t \in named : task[t].at \in {"connecting", "opened", "adopting"}
    /\ \A t \in Tasks : /\ task[t].at # "idle" => task[t].of \in Keys
                        /\ task[t].of \in Keys => window[task[t].of] # "new"

\* The target of a move is reserved, and the move's alone, until it is built or
\* forgotten: no window that is gone comes back.
TargetIsReserved ==
    \A t \in Tasks : task[t].at \in {"catalog", "handing", "refused", "building"} =>
        /\ task[t].of \in Keys /\ window[task[t].of] = "reserved"
        /\ \A u \in Tasks \ {t} : task[u].of # task[t].of

\* Who owns a session holds the connection, or let it go with a session left.
OwnersHold == \A s \in Tasks : owner[s] # None => owner[s] \in held \cup stray

\* While the connection is disconnected or deleted it is nobody else's: no
\* opening of a live window counts, and who holds it is a stray.
NobodyElse ==
    /\ disconnecting => held \subseteq stray
    /\ \A t \in Tasks : Deletes(t) => held \subseteq stray \cup {task[t].of}
    /\ disconnecting \/ deleting => ~ OpenedLive

WindowsInv ==
    /\ TypeOK /\ OneBearer /\ CallsOfWindows /\ TargetIsReserved /\ OwnersHold /\ NobodyElse
    /\ NoSessionIsLost /\ NothingNamesTheGone

\* One live window, no call and no session.
LEMMA WindowsInit == Init => WindowsInv
<1> SUFFICES ASSUME Init PROVE WindowsInv
  OBVIOUS
<1> USE DEF Init
<1>1. \A t \in Tasks : task[t] = Idle
  OBVIOUS
<1>2. Idle.at = "idle" /\ Idle.of = None /\ Idle.mark = FALSE /\ Idle \in Calls
  BY DEF Idle, Calls, Steps
<1>3. TypeOK
  BY <1>2 DEF TypeOK, Calls
<1>4. OneBearer
  BY <1>1, <1>2 DEF OneBearer, Carries, Deletes
<1>5. CallsOfWindows /\ TargetIsReserved
  BY <1>1, <1>2, NoneAssumption DEF CallsOfWindows, TargetIsReserved
<1>6. OwnersHold /\ NobodyElse /\ NoSessionIsLost
  BY <1>1, <1>2 DEF OwnersHold, NobodyElse, Deletes, NoSessionIsLost
<1>7. NothingNamesTheGone
  BY DEF NothingNamesTheGone
<1> QED
  BY <1>3, <1>4, <1>5, <1>6, <1>7 DEF WindowsInv

-----------------------------------------------------------------------------
(* What the steps are made of *)

\* A call that goes on changes nothing but where it is.
LEMMA GoFacts ==
    ASSUME TypeOK, NEW t \in Tasks, NEW where \in Steps, Go(t, where)
    PROVE  /\ task' \in [Tasks -> Calls]
           /\ \A u \in Tasks \ {t} : task'[u] = task[u]
           /\ task'[t].at = where /\ task'[t].of = task[t].of /\ task'[t].from = task[t].from
           /\ task'[t].session = task[t].session /\ task'[t].list = task[t].list
           /\ task'[t].mark = task[t].mark
BY DEF TypeOK, Go, Calls

\* A call that begins was idle, and is of a window that is built.
LEMMA StartFacts ==
    ASSUME TypeOK, NEW t \in Tasks, NEW where \in Steps, NEW w \in Keys, Start(t, where, w)
    PROVE  /\ task' \in [Tasks -> Calls]
           /\ \A u \in Tasks \ {t} : task'[u] = task[u]
           /\ task'[t].at = where /\ task'[t].of = w /\ task'[t].mark = FALSE
           /\ task[t].at = "idle" /\ window[w] = "live"
<1>1. PICK m : m = [Idle EXCEPT !.at = where, !.of = w] /\ task' = [task EXCEPT ![t] = m]
  BY DEF Start
<1>2. m \in Calls /\ m.at = where /\ m.of = w /\ m.mark = FALSE
  BY <1>1 DEF Idle, Calls
<1> QED
  BY <1>1, <1>2 DEF TypeOK, Start, Calls

\* A session no error left stays a live window's, in the hands of its call or on a list.
LEMMA SessionsStep ==
    ASSUME NoSessionIsLost,
           \A s \in open' \ left' : s \in open \ left \/ InHands(s)',
           \A s \in open' \ left' : Live(owner[s]) => Live(owner[s])' \/ Listed(s)',
           \A s \in open' \ left' : InHands(s) => InHands(s)' \/ Live(owner[s])',
           \A s \in open' \ left' : Listed(s) => Listed(s)'
    PROVE  NoSessionIsLost'
BY DEF NoSessionIsLost, InHands, Listed

\* Most of what a call does: the windows, who holds the connection, its mark and
\* its deletion stay, and a session is freed at most.
Quiet(t) ==
    /\ UNCHANGED <<window, held, stray, disconnecting, deleting>>
    /\ task' \in [Tasks -> Calls] /\ \A u \in Tasks \ {t} : task'[u] = task[u]
    /\ named' \subseteq named /\ open' \subseteq Tasks /\ moving' \subseteq Tasks
    /\ left' \subseteq Tasks /\ saved' \in BOOLEAN
    /\ owner' \in [Tasks -> Keys \cup {None}] /\ \A s \in Tasks : owner'[s] \in {owner[s], None}
    /\ \/ task'[t].of = task[t].of /\ task[t].at # "idle"
       \/ task'[t].of \in Keys /\ window[task'[t].of] = "live" /\ ~ Deletes(t)
    /\ Carries(t)' <=> Carries(t)
    /\ Deletes(t)' <=> Deletes(t)
    /\ task'[t].at # "waiting"
    /\ t \in named' => /\ task'[t].at \in {"connecting", "opened", "adopting"}
                       /\ task'[t].of = task[t].of
    /\ task'[t].at \in {"catalog", "handing", "refused", "building"} =>
         task[t].at \in {"catalog", "handing", "refused"} /\ task'[t].of = task[t].of

\* Such a step keeps the invariant if it keeps the open sessions.
LEMMA QuietStep ==
    ASSUME WindowsInv, NEW t \in Tasks, Quiet(t), NoSessionIsLost'
    PROVE  WindowsInv'
<1> USE DEF WindowsInv, Quiet
<1>1. TypeOK'
  BY DEF TypeOK, Calls
<1>2. \A u \in Tasks : (Carries(u)' <=> Carries(u)) /\ (Deletes(u)' <=> Deletes(u))
  BY DEF Carries, Deletes
<1>3. OneBearer'
  BY <1>2 DEF OneBearer
<1>4. CallsOfWindows'
  BY DEF CallsOfWindows, TypeOK
<1>5. TargetIsReserved'
  BY DEF TargetIsReserved
<1>6. OwnersHold' /\ NothingNamesTheGone'
  BY NoneAssumption DEF OwnersHold, NothingNamesTheGone, TypeOK
<1>7. \A u \in named' : task'[u].of = task[u].of
  BY DEF TypeOK
<1>8. OpenedLive' => OpenedLive
  BY <1>7 DEF OpenedLive, Live
<1>9. NobodyElse'
  BY <1>2, <1>8 DEF NobodyElse
<1> QED
  BY <1>1, <1>3, <1>4, <1>5, <1>6, <1>9

-----------------------------------------------------------------------------
(* The steps that leave the windows and the marks alone *)

\* A request that begins: its call had opened nothing and listed nothing.
LEMMA AskKeeps ==
    ASSUME WindowsInv, NEW t \in Tasks, NEW w \in Keys,
           \/ BeginOpening(t, w) \/ OpenConsole(t, w) \/ CloseWindow(t, w) \/ ReleaseConnection(t, w)
           \/ \E s \in Tasks : CloseConsole(t, w, s)
    PROVE  WindowsInv'
<1> USE DEF WindowsInv, registry
<1>1. /\ UNCHANGED <<window, owner, held, named, disconnecting, deleting, moving, open, left, saved, stray>>
      /\ task[t].at = "idle" /\ window[w] = "live"
  BY DEF BeginOpening, OpenConsole, CloseWindow, ReleaseConnection, CloseConsole, Start
<1>2. PICK m \in Calls : /\ task' = [task EXCEPT ![t] = m] /\ m.of = w /\ m.mark = FALSE
                         /\ m.at \in {"binding", "connecting", "forgetting", "releasing", "console"}
  <2>1. ASSUME NEW where \in {"binding", "connecting", "forgetting"}, Start(t, where, w)
        PROVE  \E m \in Calls : /\ task' = [task EXCEPT ![t] = m] /\ m.of = w /\ m.mark = FALSE
                                /\ m.at \in {"binding", "connecting", "forgetting", "releasing", "console"}
    <3>1. PICK m : m = [Idle EXCEPT !.at = where, !.of = w] /\ task' = [task EXCEPT ![t] = m]
      BY <2>1 DEF Start
    <3>2. m \in Calls /\ m.of = w /\ m.mark = FALSE /\ m.at = where
      BY <3>1 DEF Idle, Calls, Steps
    <3> QED
      BY <3>1, <3>2
  <2>2. CASE BeginOpening(t, w) \/ OpenConsole(t, w) \/ CloseWindow(t, w)
    BY <2>1, <2>2 DEF BeginOpening, OpenConsole, CloseWindow
  <2>3. CASE ReleaseConnection(t, w)
    <3>0. PICK l \in SUBSET Tasks :
             task' = [task EXCEPT ![t] = [Idle EXCEPT !.at = "releasing", !.of = w, !.list = l]]
      BY <2>3 DEF ReleaseConnection
    <3>1. PICK m : /\ m = [Idle EXCEPT !.at = "releasing", !.of = w, !.list = l]
                   /\ task' = [task EXCEPT ![t] = m]
      BY <3>0
    <3>2. m \in Calls /\ m.of = w /\ m.mark = FALSE /\ m.at = "releasing"
      BY <3>1 DEF Idle, Calls, Steps
    <3> QED
      BY <3>1, <3>2
  <2>4. ASSUME NEW s \in Tasks, CloseConsole(t, w, s)
        PROVE  \E m \in Calls : /\ task' = [task EXCEPT ![t] = m] /\ m.of = w /\ m.mark = FALSE
                                /\ m.at \in {"binding", "connecting", "forgetting", "releasing", "console"}
    <3>1. PICK m : /\ m = [Idle EXCEPT !.at = "console", !.of = w, !.session = s]
                   /\ task' = [task EXCEPT ![t] = m]
      BY <2>4 DEF CloseConsole
    <3>2. m \in Calls /\ m.of = w /\ m.mark = FALSE /\ m.at = "console"
      BY <3>1 DEF Idle, Calls, Steps
    <3> QED
      BY <3>1, <3>2
  <2> QED
    BY <2>2, <2>3, <2>4
<1>3. task' \in [Tasks -> Calls] /\ task'[t] = m /\ \A u \in Tasks \ {t} : task'[u] = task[u]
  BY <1>2 DEF TypeOK, Calls
<1>4. t \notin named
  BY <1>1 DEF CallsOfWindows
<1>5. NoSessionIsLost'
  <2>1. \A s \in open' : /\ InHands(s) => InHands(s)'
                         /\ Listed(s) => Listed(s)'
                         /\ Live(owner[s]) => Live(owner[s])'
    BY <1>1, <1>3 DEF InHands, Listed, Live, TypeOK
  <2> QED
    BY <1>1, <2>1, SessionsStep
<1>6. ~ Carries(t) /\ ~ Carries(t)' /\ ~ Deletes(t) /\ ~ Deletes(t)'
  BY <1>1, <1>2, <1>3 DEF Carries, Deletes
<1>7. /\ open' \subseteq Tasks /\ moving' \subseteq Tasks /\ left' \subseteq Tasks /\ saved' \in BOOLEAN
      /\ owner' \in [Tasks -> Keys \cup {None}]
  BY <1>1 DEF TypeOK
<1>8. Quiet(t)
  BY <1>1, <1>2, <1>3, <1>4, <1>6, <1>7 DEF Quiet
<1> QED
  BY <1>5, <1>8, QuietStep

\* The steps of a call that only move it, open or close sessions and free them.
LEMMA ServeKeeps ==
    ASSUME WindowsInv, NEW t \in Tasks,
           \/ CancelWait(t) \/ Connect(t) \/ Opened(t) \/ CloseUnclaimed(t) \/ OpenCatalog(t)
           \/ CloseCatalog(t) \/ Disconnect(t) \/ ConsoleClosed(t) \/ Delete(t)
    PROVE  WindowsInv'
<1> USE DEF WindowsInv, registry
<1>1. /\ UNCHANGED <<window, held, disconnecting, deleting, stray>>
      /\ named' \subseteq named /\ open' \subseteq open \cup {t} /\ moving' \subseteq moving
      /\ left' \subseteq left \cup {t} /\ open' \ left' \subseteq (open \ left) \cup {t}
      /\ saved' \in BOOLEAN
  BY DEF CancelWait, Connect, Opened, CloseUnclaimed, OpenCatalog, CloseCatalog, Disconnect,
         ConsoleClosed, Delete, CloseOrLeave, TypeOK
<1>2. /\ owner' \in [Tasks -> Keys \cup {None}]
      /\ \A s \in Tasks : owner'[s] \in {owner[s], None}
      /\ \A s \in open' : owner'[s] = owner[s]
  <2>1. CASE owner' = owner
    BY <1>1, <2>1 DEF TypeOK
  <2>2. CASE ConsoleClosed(t)
    <3>1. CASE task[t].session \notin open /\ open' = open
               /\ owner' = [owner EXCEPT ![task[t].session] = None]
      BY <3>1 DEF TypeOK
    <3> QED
      BY <2>1, <2>2, <3>1 DEF ConsoleClosed
  <2> QED
    BY <2>1, <2>2 DEF CancelWait, Connect, Opened, CloseUnclaimed, OpenCatalog, CloseCatalog,
                      Disconnect, Delete
<1>3. /\ task' \in [Tasks -> Calls] /\ \A u \in Tasks \ {t} : task'[u] = task[u]
      /\ task'[t].of = task[t].of /\ task'[t].mark = task[t].mark /\ task'[t].list = task[t].list
      /\ task'[t].at \in Steps
      /\ \/ task'[t].at = task[t].at /\ task[t].at = "console" /\ open' \ left' \subseteq open \ left
         \/ task[t].at = "waiting" /\ task'[t].at = "done" /\ open' \ left' \subseteq open \ left
         \/ task[t].at = "connecting" /\ task'[t].at = "opened"
         \/ task[t].at = "connecting" /\ task'[t].at = "done" /\ t \notin named'
            /\ open' \ left' \subseteq open \ left
         \/ task[t].at = "opened" /\ task'[t].at = "done" /\ t \notin named' /\ t \notin open' \ left'
         \/ task[t].at = "opened" /\ task'[t].at = "adopting" /\ open' \ left' \subseteq open \ left
         \/ task[t].at = "unclaimed" /\ task'[t].at = "unused" /\ t \notin open' \ left'
         \/ task[t].at = "catalog" /\ task'[t].at = "handing"
         \/ task[t].at = "catalog" /\ task'[t].at = "forgetting" /\ open' \ left' \subseteq open \ left
         \/ task[t].at = "refused" /\ task'[t].at = "forgetting" /\ t \notin open' \ left'
         \/ task[t].at = "disconnect" /\ task'[t].at = "unmark" /\ open' \ left' \subseteq open \ left
         \/ task[t].at = "console" /\ task'[t].at = "done" /\ open' \ left' \subseteq open \ left
         \/ task[t].at = "deleting" /\ task'[t].at = "undelete" /\ open' \ left' \subseteq open \ left
  <2>1. CASE ConsoleClosed(t) /\ task' = task
    BY <2>1 DEF ConsoleClosed, TypeOK, Calls
  <2>2. ASSUME NEW where \in Steps, Go(t, where)
        PROVE  /\ task' \in [Tasks -> Calls] /\ \A u \in Tasks \ {t} : task'[u] = task[u]
               /\ task'[t].of = task[t].of /\ task'[t].mark = task[t].mark
               /\ task'[t].list = task[t].list /\ task'[t].at = where
    BY <2>2, GoFacts
  <2>3. CASE CancelWait(t) \/ Connect(t)
    BY <2>2, <2>3 DEF CancelWait, Connect, Steps
  <2>4. CASE Opened(t)
    BY <2>2, <2>4 DEF Opened, CloseOrLeave, Steps
  <2>5. CASE CloseUnclaimed(t) \/ CloseCatalog(t)
    BY <2>2, <2>5 DEF CloseUnclaimed, CloseCatalog, CloseOrLeave, Steps
  <2>6. CASE OpenCatalog(t)
    BY <2>2, <2>6 DEF OpenCatalog, Steps
  <2>7. CASE Disconnect(t) \/ Delete(t)
    BY <2>2, <2>7 DEF Disconnect, Delete, Steps
  <2>8. CASE ConsoleClosed(t)
    BY <2>1, <2>2, <2>8 DEF ConsoleClosed, Steps
  <2> QED
    BY <2>3, <2>4, <2>5, <2>6, <2>7, <2>8
<1>4. NoSessionIsLost'
  <2>1. \A s \in open' \ left' : s \in open \ left \/ InHands(s)'
    BY <1>1, <1>3 DEF InHands
  <2>2. \A s \in open' \ left' : Live(owner[s]) => Live(owner[s])'
    BY <1>1, <1>2 DEF Live
  <2>3. \A s \in open' \ left' : InHands(s) => InHands(s)'
    BY <1>1, <1>3 DEF InHands, TypeOK
  <2>4. \A s \in open' \ left' : Listed(s) => Listed(s)'
    BY <1>3 DEF Listed
  <2> QED
    BY <2>1, <2>2, <2>3, <2>4, SessionsStep
<1>5. (Carries(t)' <=> Carries(t)) /\ (Deletes(t)' <=> Deletes(t))
  BY <1>3 DEF Carries, Deletes
<1>6. t \in named' => task'[t].at \in {"connecting", "opened", "adopting"}
  BY <1>1, <1>3 DEF CallsOfWindows
<1>7. open' \subseteq Tasks /\ moving' \subseteq Tasks /\ left' \subseteq Tasks
  BY <1>1 DEF TypeOK
<1>8. /\ task'[t].at # "waiting"
      /\ task'[t].at \in {"catalog", "handing", "refused", "building"} =>
             task[t].at \in {"catalog", "handing", "refused"}
  BY <1>3
<1>9. Quiet(t)
  BY <1>1, <1>2, <1>3, <1>5, <1>6, <1>7, <1>8 DEF Quiet
<1> QED
  BY <1>4, <1>9, QuietStep

\* A call that closes what it listed.
LEMMA CloseKeeps ==
    ASSUME WindowsInv, NEW t \in Tasks, CloseOwned(t) \/ \E s \in Tasks : ReleaseOne(t, s)
    PROVE  WindowsInv'
<1> USE DEF WindowsInv, registry
<1>1. UNCHANGED <<window, held, disconnecting, deleting, stray, named, moving, saved>>
  BY DEF CloseOwned, ReleaseOne
<1>2. ASSUME NEW s \in task[t].list, task[t].at \in {"closing", "releasing"},
             CloseOrLeave(s), task' = [task EXCEPT ![t].list = task[t].list \ {s}],
             owner' = owner \/ owner' = [owner EXCEPT ![s] = None]
      PROVE  WindowsInv'
  <2>1. /\ task' \in [Tasks -> Calls] /\ \A u \in Tasks \ {t} : task'[u] = task[u]
        /\ task'[t].of = task[t].of /\ task'[t].mark = task[t].mark /\ task'[t].at = task[t].at
        /\ task'[t].list = task[t].list \ {s}
    BY <1>2 DEF TypeOK, Calls
  <2>2. /\ owner' \in [Tasks -> Keys \cup {None}]
        /\ \A r \in Tasks : owner'[r] \in {owner[r], None}
        /\ \A r \in open' \ left' : owner'[r] = owner[r]
    BY <1>2 DEF CloseOrLeave, TypeOK
  <2>3. /\ \A r \in open' \ left' : InHands(r) => InHands(r)'
        /\ \A r \in open' \ left' : Live(owner[r]) => Live(owner[r])'
    BY <1>1, <1>2, <2>1, <2>2 DEF InHands, Live, CloseOrLeave, TypeOK
  <2>4. \A r \in open' \ left' : Listed(r) => Listed(r)'
    BY <1>2, <2>1 DEF Listed, CloseOrLeave
  <2>5. NoSessionIsLost'
    <3>1. \A r \in open' \ left' : r \in open \ left
      BY <1>2 DEF CloseOrLeave
    <3> QED
      BY <2>3, <2>4, <3>1, SessionsStep
  <2>6. (Carries(t)' <=> Carries(t)) /\ ~ Deletes(t)' /\ ~ Deletes(t) /\ t \notin named
    BY <1>2, <2>1 DEF Carries, Deletes, CallsOfWindows
  <2>7. open' \subseteq Tasks /\ moving' \subseteq Tasks /\ left' \subseteq Tasks /\ saved' \in BOOLEAN
    BY <1>1, <1>2 DEF CloseOrLeave, TypeOK
  <2>8. Quiet(t)
    BY <1>1, <1>2, <2>1, <2>2, <2>6, <2>7 DEF Quiet
  <2> QED
    BY <2>5, <2>8, QuietStep
<1>3. ASSUME task[t].at = "closing", task[t].list = {}, open' = open, left' = left, owner' = owner,
             Go(t, IF task[t].mark THEN "disconnect" ELSE "done")
      PROVE  WindowsInv'
  <2>1. /\ task' \in [Tasks -> Calls] /\ \A u \in Tasks \ {t} : task'[u] = task[u]
        /\ task'[t].of = task[t].of /\ task'[t].at = IF task[t].mark THEN "disconnect" ELSE "done"
    <3>1. (IF task[t].mark THEN "disconnect" ELSE "done") \in Steps
      BY DEF Steps
    <3> QED
      BY <1>3, <3>1, GoFacts
  <2>2. /\ \A r \in open' \ left' : InHands(r) => InHands(r)'
        /\ \A r \in open' \ left' : Live(owner[r]) => Live(owner[r])'
    BY <1>1, <1>3, <2>1 DEF InHands, Live, TypeOK
  <2>3. \A r \in open' \ left' : Listed(r) => Listed(r)'
    BY <1>3, <2>1 DEF Listed
  <2>4. NoSessionIsLost'
    <3>1. \A r \in open' \ left' : r \in open \ left
      BY <1>3
    <3> QED
      BY <2>2, <2>3, <3>1, SessionsStep
  <2>5. (Carries(t)' <=> Carries(t)) /\ ~ Deletes(t)' /\ ~ Deletes(t) /\ t \notin named
    BY <1>3, <2>1 DEF Carries, Deletes, CallsOfWindows
  <2>6. /\ open' \subseteq Tasks /\ moving' \subseteq Tasks /\ left' \subseteq Tasks /\ saved' \in BOOLEAN
        /\ owner' \in [Tasks -> Keys \cup {None}]
    BY <1>1, <1>3 DEF TypeOK
  <2>7. Quiet(t)
    BY <1>1, <1>3, <2>1, <2>5, <2>6 DEF Quiet
  <2> QED
    BY <2>4, <2>7, QuietStep
<1>4. CASE CloseOwned(t)
  BY <1>2, <1>3, <1>4 DEF CloseOwned
<1>5. CASE \E s \in Tasks : ReleaseOne(t, s)
  BY <1>2, <1>5 DEF ReleaseOne
<1> QED
  BY <1>4, <1>5

-----------------------------------------------------------------------------
(* The steps that change the windows, who holds the connection or its marks *)

\* A window opens: nothing named it yet.
LEMMA ReserveKeeps ==
    ASSUME WindowsInv, NEW w \in Keys, Reserve(w)
    PROVE  WindowsInv'
<1> USE DEF WindowsInv
<1>1. /\ UNCHANGED <<owner, held, named, disconnecting, deleting, moving, open, left, saved, task, stray>>
      /\ window[w] = "new" /\ window' = [window EXCEPT ![w] = "live"]
  BY DEF Reserve
<1>2. TypeOK' /\ window'[w] = "live" /\ \A k \in Keys \ {w} : window'[k] = window[k]
  BY <1>1 DEF TypeOK
<1>3. \A k : Live(k) => Live(k)'
  BY <1>1, <1>2 DEF Live
<1>4. OneBearer' /\ OwnersHold'
  BY <1>1 DEF OneBearer, Carries, Deletes, OwnersHold
<1>5. CallsOfWindows' /\ TargetIsReserved' /\ NothingNamesTheGone'
  BY <1>1, <1>2 DEF CallsOfWindows, TargetIsReserved, NothingNamesTheGone
<1>6. ASSUME NEW t \in named PROVE Live(task[t].of)' => Live(task[t].of)
  BY <1>1, <1>2 DEF Live, CallsOfWindows, TypeOK
<1>7. NobodyElse'
  BY <1>1, <1>6 DEF NobodyElse, Deletes, OpenedLive
<1>8. NoSessionIsLost'
  BY <1>1, <1>3 DEF NoSessionIsLost, TypeOK
<1> QED
  BY <1>2, <1>4, <1>5, <1>7, <1>8

\* An opening counts from when nothing disconnects nor deletes the connection,
\* and waits only for a mark that somebody carries.
LEMMA BindKeeps ==
    ASSUME WindowsInv, NEW t \in Tasks, BindOpening(t)
    PROVE  WindowsInv'
<1> USE DEF WindowsInv
<1>1. /\ UNCHANGED <<window, owner, held, disconnecting, deleting, moving, open, left, saved, stray>>
      /\ task[t].at = "binding"
  BY DEF BindOpening
<1>2. PICK where \in {"done", "waiting", "connecting"} :
        /\ Go(t, where)
        /\ where = "waiting" => disconnecting
        /\ named' = IF where = "connecting" THEN named \cup {t} ELSE named
        /\ where = "connecting" => ~ disconnecting /\ ~ deleting
  BY DEF BindOpening
<1>3. /\ task' \in [Tasks -> Calls] /\ \A u \in Tasks \ {t} : task'[u] = task[u]
      /\ task'[t].at = where /\ task'[t].of = task[t].of
  <2>1. where \in Steps
    BY DEF Steps
  <2> QED
    BY <1>2, <2>1, GoFacts
<1>4. TypeOK'
  BY <1>1, <1>2, <1>3 DEF TypeOK, Calls
<1>5. \A u \in Tasks : (Carries(u)' <=> Carries(u)) /\ (Deletes(u)' <=> Deletes(u))
  BY <1>1, <1>2, <1>3 DEF Carries, Deletes
<1>6. OneBearer'
  BY <1>1, <1>2, <1>3, <1>5 DEF OneBearer
<1>7. CallsOfWindows' /\ TargetIsReserved'
  BY <1>1, <1>2, <1>3 DEF CallsOfWindows, TargetIsReserved, TypeOK
<1>8. OwnersHold' /\ NothingNamesTheGone'
  BY <1>1 DEF OwnersHold, NothingNamesTheGone
<1>9. \A u \in Tasks : task'[u].of = task[u].of
  BY <1>3
<1>10. NobodyElse'
  BY <1>1, <1>2, <1>5, <1>9 DEF NobodyElse, OpenedLive, Live, TypeOK
<1>11. NoSessionIsLost'
  <2>1. \A s \in open' : /\ InHands(s) => InHands(s)'
                         /\ Listed(s) => Listed(s)'
                         /\ Live(owner[s]) => Live(owner[s])'
    BY <1>1, <1>3 DEF InHands, Listed, Live, TypeOK
  <2> QED
    BY <1>1, <2>1, SessionsStep
<1> QED
  BY <1>4, <1>6, <1>7, <1>8, <1>10, <1>11

\* A window that is still there adopts its session; one that holds the
\* connection only from here, uncounted until now, is a stray.
LEMMA AdoptKeeps ==
    ASSUME WindowsInv, NEW t \in Tasks, Adopt(t)
    PROVE  WindowsInv'
<1> USE DEF WindowsInv
<1>1. /\ UNCHANGED <<window, disconnecting, deleting, moving, open, left, saved>>
      /\ task[t].at = "adopting" /\ named' = named \ {t}
  BY DEF Adopt
<1>2. CASE ~ Recorded(t)
  <2>1. /\ UNCHANGED <<owner, held, stray>> /\ Go(t, "unclaimed")
    BY <1>2 DEF Adopt
  <2>2. /\ task' \in [Tasks -> Calls] /\ \A u \in Tasks \ {t} : task'[u] = task[u]
        /\ task'[t].at = "unclaimed" /\ task'[t].of = task[t].of
    BY <2>1, GoFacts DEF Steps
  <2>3. \A s \in open' : /\ InHands(s) => InHands(s)'
                         /\ Listed(s) => Listed(s)'
                         /\ Live(owner[s]) => Live(owner[s])'
    BY <1>1, <2>1, <2>2 DEF InHands, Listed, Live, TypeOK
  <2>4. NoSessionIsLost'
    BY <1>1, <2>3, SessionsStep
  <2>5. /\ open' \subseteq Tasks /\ moving' \subseteq Tasks /\ left' \subseteq Tasks /\ saved' \in BOOLEAN
        /\ owner' \in [Tasks -> Keys \cup {None}]
    BY <1>1, <2>1 DEF TypeOK
  <2>6. Quiet(t)
    BY <1>1, <2>1, <2>2, <2>5 DEF Quiet, Carries, Deletes
  <2> QED
    BY <2>4, <2>6, QuietStep
<1>3. CASE Recorded(t)
  <2>1. PICK w \in Keys :
          /\ w = task[t].of /\ Live(w) /\ Go(t, "done")
          /\ owner' = [owner EXCEPT ![t] = w] /\ held' = held \cup {w}
          /\ stray' = IF t \in named \/ w \in held THEN stray ELSE stray \cup {w}
    BY <1>3 DEF Adopt, Recorded, Live
  <2>2. /\ task' \in [Tasks -> Calls] /\ \A u \in Tasks \ {t} : task'[u] = task[u]
        /\ task'[t].at = "done" /\ task'[t].of = w
    BY <2>1, GoFacts DEF Steps
  <2>3. /\ owner' \in [Tasks -> Keys \cup {None}]
        /\ owner'[t] = w /\ \A s \in Tasks \ {t} : owner'[s] = owner[s]
    BY <2>1 DEF TypeOK
  <2>4. TypeOK'
    BY <1>1, <2>1, <2>2, <2>3 DEF TypeOK, Calls
  <2>5. \A u \in Tasks : (Carries(u)' <=> Carries(u)) /\ (Deletes(u)' <=> Deletes(u))
    BY <1>1, <2>2 DEF Carries, Deletes
  <2>6. OneBearer'
    BY <1>1, <2>2, <2>5 DEF OneBearer
  <2>7. CallsOfWindows' /\ TargetIsReserved'
    BY <1>1, <2>1, <2>2 DEF CallsOfWindows, TargetIsReserved, TypeOK
  <2>8. OwnersHold'
    BY <2>1, <2>3 DEF OwnersHold
  <2>9. NothingNamesTheGone'
    BY <1>1, <2>1, <2>3 DEF NothingNamesTheGone, Live
  <2>10. OpenedLive' => OpenedLive
    BY <1>1, <2>1, <2>2 DEF OpenedLive, Live, TypeOK
  <2>11. t \in named => ~ disconnecting /\ ~ deleting
    BY <2>1 DEF NobodyElse, OpenedLive
  <2>12. \A u \in Tasks : Deletes(u) => deleting /\ task'[u].of = task[u].of
    BY <2>1, <2>2 DEF OneBearer
  <2>13. NobodyElse'
    BY <1>1, <2>1, <2>5, <2>10, <2>11, <2>12 DEF NobodyElse
  <2>14. NoSessionIsLost'
    <3>1. Live(owner[t])' /\ \A s \in Tasks \ {t} : Live(owner[s]) => Live(owner[s])'
      BY <1>1, <2>1, <2>3 DEF Live
    <3>2. \A s \in open' : /\ InHands(s) => InHands(s)' \/ Live(owner[s])'
                           /\ Listed(s) => Listed(s)'
      BY <1>1, <2>2, <3>1 DEF InHands, Listed, TypeOK
    <3> QED
      BY <1>1, <3>1, <3>2, SessionsStep DEF TypeOK
  <2> QED
    BY <2>4, <2>6, <2>7, <2>8, <2>9, <2>13, <2>14
<1> QED
  BY <1>2, <1>3

\* The calls whose step may mark the connection: nobody holds it any more, and
\* no opening of a live window counts.
LEMMA MarkKeeps ==
    ASSUME WindowsInv, NEW t \in Tasks, DisconnectIfUnused(t) \/ LetGo(t)
    PROVE  WindowsInv'
<1> USE DEF WindowsInv
<1>1. /\ UNCHANGED <<window, owner, named, deleting, moving, open, left, saved>>
      /\ task[t].at \in {"unused", "releasing"} /\ (task[t].at = "releasing" => task[t].list = {})
      /\ held' \subseteq held /\ stray' \subseteq Keys /\ stray \subseteq stray'
      /\ \A s \in Tasks : owner[s] \in held \ held' => owner[s] \in stray'
  <2>1. CASE DisconnectIfUnused(t)
    BY <2>1 DEF DisconnectIfUnused, TypeOK
  <2>2. CASE LetGo(t)
    <3>1. task[t].of \in Keys
      BY <2>2 DEF LetGo, CallsOfWindows
    <3>2. /\ UNCHANGED <<window, owner, named, deleting, moving, open, left, saved>>
          /\ task[t].at = "releasing" /\ task[t].list = {} /\ held' = held \ {task[t].of}
          /\ stray' = IF \E s \in Tasks : owner[s] = task[t].of THEN stray \cup {task[t].of} ELSE stray
      BY <2>2 DEF LetGo
    <3> QED
      BY <3>1, <3>2 DEF TypeOK
  <2> QED
    BY <2>1, <2>2
<1>2. PICK b \in BOOLEAN :
        /\ b => ~ disconnecting /\ held' = {} /\ ~ OpenedLive
        /\ disconnecting' = (disconnecting \/ b)
        /\ Go(t, IF b THEN "disconnect" ELSE "done")
  BY DEF DisconnectIfUnused, LetGo, MarkUnused, InUse
<1>3. /\ task' \in [Tasks -> Calls] /\ \A u \in Tasks \ {t} : task'[u] = task[u]
      /\ task'[t].at = (IF b THEN "disconnect" ELSE "done") /\ task'[t].of = task[t].of
  <2>1. (IF b THEN "disconnect" ELSE "done") \in Steps
    BY DEF Steps
  <2> QED
    BY <1>2, <2>1, GoFacts
<1>4. TypeOK'
  BY <1>1, <1>2, <1>3 DEF TypeOK, Calls
<1>5. /\ ~ Carries(t) /\ (Carries(t)' <=> b) /\ \A u \in Tasks \ {t} : Carries(u)' <=> Carries(u)
      /\ \A u \in Tasks : Deletes(u)' <=> Deletes(u)
  BY <1>1, <1>3 DEF Carries, Deletes
<1>6. OneBearer'
  BY <1>1, <1>2, <1>3, <1>5 DEF OneBearer
<1>7. \A u \in Tasks : task'[u].of = task[u].of
  BY <1>3
<1>8. CallsOfWindows' /\ TargetIsReserved'
  BY <1>1, <1>3, <1>7 DEF CallsOfWindows, TargetIsReserved, TypeOK
<1>9. OwnersHold' /\ NothingNamesTheGone'
  BY <1>1 DEF OwnersHold, NothingNamesTheGone, TypeOK
<1>10. OpenedLive' <=> OpenedLive
  BY <1>1, <1>7 DEF OpenedLive, Live, TypeOK
<1>11. NobodyElse'
  BY <1>1, <1>2, <1>5, <1>7, <1>10 DEF NobodyElse
<1>12. NoSessionIsLost'
  <2>1. \A s \in open' : /\ InHands(s) => InHands(s)'
                         /\ Listed(s) => Listed(s)'
                         /\ Live(owner[s]) => Live(owner[s])'
    BY <1>1, <1>3 DEF InHands, Listed, Live, TypeOK
  <2> QED
    BY <1>1, <2>1, SessionsStep
<1> QED
  BY <1>4, <1>6, <1>8, <1>9, <1>11, <1>12

\* A console begins to move: its target is a window that nothing named.
LEMMA MoveKeeps ==
    ASSUME WindowsInv, NEW t \in Tasks, NEW w \in Keys, NEW to \in Keys, NEW s \in Tasks,
           Move(t, w, to, s)
    PROVE  WindowsInv'
<1> USE DEF WindowsInv
<1>1. /\ UNCHANGED <<owner, held, named, disconnecting, deleting, open, left, saved, stray>>
      /\ task[t].at = "idle" /\ window[to] = "new" /\ moving' = moving \cup {s}
      /\ window' = [window EXCEPT ![to] = "reserved"]
  BY DEF Move
<1>2. PICK m : /\ m = [Idle EXCEPT !.at = "catalog", !.of = to, !.from = w, !.session = s]
               /\ task' = [task EXCEPT ![t] = m]
  BY DEF Move
<1>3. m \in Calls /\ m.at = "catalog" /\ m.of = to
  BY <1>2 DEF Idle, Calls, Steps
<1>4. task' \in [Tasks -> Calls] /\ task'[t] = m /\ \A u \in Tasks \ {t} : task'[u] = task[u]
  BY <1>2, <1>3 DEF TypeOK, Calls
<1>5. /\ window' \in [Keys -> {"new", "reserved", "live", "gone"}]
      /\ window'[to] = "reserved" /\ \A k \in Keys \ {to} : window'[k] = window[k]
  BY <1>1 DEF TypeOK
<1>6. TypeOK'
  BY <1>1, <1>4, <1>5 DEF TypeOK, Calls
<1>7. \A u \in Tasks : (Carries(u)' <=> Carries(u)) /\ (Deletes(u)' <=> Deletes(u))
  BY <1>1, <1>3, <1>4 DEF Carries, Deletes
<1>8. OneBearer'
  BY <1>1, <1>3, <1>4, <1>7 DEF OneBearer
<1>9. t \notin named /\ ~ Deletes(t) /\ \A u \in Tasks : task[u].of # to
  BY <1>1 DEF CallsOfWindows, Deletes
<1>10. CallsOfWindows'
  BY SMTT(30), <1>1, <1>3, <1>4, <1>5, <1>9 DEF CallsOfWindows, TypeOK
<1>11. TargetIsReserved'
  BY <1>3, <1>4, <1>5, <1>9 DEF TargetIsReserved
<1>12. OwnersHold' /\ NothingNamesTheGone'
  BY <1>1, <1>5 DEF OwnersHold, NothingNamesTheGone
<1>13. ASSUME NEW u \in named PROVE task'[u].of = task[u].of /\ (Live(task[u].of)' => Live(task[u].of))
  BY <1>4, <1>5, <1>9 DEF Live, TypeOK
<1>14. NobodyElse'
  BY <1>1, <1>4, <1>7, <1>9, <1>13 DEF NobodyElse, OpenedLive
<1>15. NoSessionIsLost'
  <2>1. \A r \in open' : /\ InHands(r) => InHands(r)'
                         /\ Listed(r) => Listed(r)'
                         /\ Live(owner[r]) => Live(owner[r])'
    BY <1>1, <1>4, <1>5 DEF InHands, Listed, Live, TypeOK
  <2> QED
    BY <1>1, <2>1, SessionsStep
<1> QED
  BY <1>6, <1>8, <1>10, <1>11, <1>12, <1>14, <1>15

\* Sessions change hands, to a window that is there: from one that let the
\* connection go, or while it is deleted, they make it a stray.
LEMMA TransferKeeps ==
    ASSUME WindowsInv, NEW t \in Tasks, NEW S \in SUBSET Tasks, NEW from, NEW to \in Keys, Live(to),
           Transfer(S, from, to), moving' \subseteq moving,
           UNCHANGED <<window, named, disconnecting, deleting, open, left, saved>>,
           NEW where \in {"building", "forgetting"}, Go(t, where),
           task[t].at \in {"handing", "building"}, task[t].at = "handing" => t \in S
    PROVE  WindowsInv'
<1> USE DEF WindowsInv
<1>1. /\ owner' \in [Tasks -> Keys \cup {None}]
      /\ \A s \in S : owner'[s] = to
      /\ \A s \in Tasks \ S : owner'[s] = owner[s]
      /\ held' = held \cup {to}
      /\ stray' = IF from \in held \ stray /\ ~ deleting THEN stray ELSE stray \cup {to}
  BY DEF Transfer, TypeOK
<1>2. /\ task' \in [Tasks -> Calls] /\ \A u \in Tasks \ {t} : task'[u] = task[u]
      /\ task'[t].at = where /\ task'[t].of = task[t].of
  <2>1. where \in Steps
    BY DEF Steps
  <2> QED
    BY <2>1, GoFacts
<1>3. TypeOK'
  BY <1>1, <1>2 DEF TypeOK, Calls
<1>4. /\ \A u \in Tasks : (Carries(u)' <=> Carries(u)) /\ (Deletes(u)' <=> Deletes(u))
      /\ \A u \in Tasks : task'[u].of = task[u].of
  BY <1>2 DEF Carries, Deletes
<1>5. OneBearer'
  BY <1>2, <1>4 DEF OneBearer
<1>6. CallsOfWindows' /\ TargetIsReserved'
  BY <1>2, <1>4 DEF CallsOfWindows, TargetIsReserved, TypeOK
<1>7. OwnersHold'
  BY <1>1 DEF OwnersHold
<1>8. NothingNamesTheGone'
  BY <1>1 DEF NothingNamesTheGone, Live
<1>9. OpenedLive' <=> OpenedLive
  BY <1>4 DEF OpenedLive, Live, TypeOK
<1>10. \A u \in Tasks : Deletes(u) => deleting
  BY DEF OneBearer
<1>11. NobodyElse'
  BY <1>1, <1>4, <1>9, <1>10 DEF NobodyElse
<1>12. NoSessionIsLost'
  <2>1. \A r \in open' : Live(owner[r]) => Live(owner[r])'
    BY <1>1 DEF Live, TypeOK
  <2>2. \A r \in open' : InHands(r) => InHands(r)' \/ Live(owner[r])'
    BY <1>1, <1>2 DEF InHands, Live, TypeOK
  <2>3. \A r \in open' : Listed(r) => Listed(r)'
    BY <1>2 DEF Listed
  <2> QED
    BY <2>1, <2>2, <2>3, SessionsStep
<1> QED
  BY <1>3, <1>5, <1>6, <1>7, <1>8, <1>11, <1>12

\* A console handed over, to its target or back.
LEMMA HandOverKeeps ==
    ASSUME WindowsInv, NEW t \in Tasks, HandOver(t) \/ Build(t)
    PROVE  WindowsInv'
<1> USE DEF WindowsInv
<1>1. /\ UNCHANGED <<named, disconnecting, deleting, open, left, saved>> /\ moving' \subseteq moving
      /\ task[t].at \in {"handing", "building"}
      /\ task[t].of \in Keys /\ window[task[t].of] = "reserved"
  BY DEF HandOver, Build, TargetIsReserved
<1>2. ASSUME NEW where \in {"refused", "forgetting"}, Go(t, where), UNCHANGED <<window, owner, held, stray>>,
             task[t].at = "handing" => where = "refused",
             task[t].at = "building" => where = "forgetting"
      PROVE  WindowsInv'
  <2>1. /\ task' \in [Tasks -> Calls] /\ \A u \in Tasks \ {t} : task'[u] = task[u]
        /\ task'[t].at = where /\ task'[t].of = task[t].of
    <3>1. where \in Steps
      BY DEF Steps
    <3> QED
      BY <1>2, <3>1, GoFacts
  <2>2. \A s \in open' : /\ InHands(s) => InHands(s)'
                         /\ Listed(s) => Listed(s)'
                         /\ Live(owner[s]) => Live(owner[s])'
    BY <1>1, <1>2, <2>1 DEF InHands, Listed, Live, TypeOK
  <2>3. NoSessionIsLost'
    BY <1>1, <2>2, SessionsStep
  <2>4. /\ open' \subseteq Tasks /\ moving' \subseteq Tasks /\ left' \subseteq Tasks /\ saved' \in BOOLEAN
        /\ owner' \in [Tasks -> Keys \cup {None}] /\ t \notin named
    BY <1>1, <1>2 DEF TypeOK, CallsOfWindows
  <2>5. Quiet(t)
    BY <1>1, <1>2, <2>1, <2>4 DEF Quiet, Carries, Deletes
  <2> QED
    BY <2>3, <2>5, QuietStep
<1>3. CASE HandOver(t)
  <2>1. CASE Go(t, "refused") /\ UNCHANGED <<window, owner, held, stray>>
    BY <1>2, <1>3, <2>1 DEF HandOver
  <2>2. CASE ~ (Go(t, "refused") /\ UNCHANGED <<window, owner, held, stray>>)
    <3>1. /\ task[t].at = "handing" /\ task[t].session \in open /\ Go(t, "building")
          /\ Transfer({task[t].session, t}, task[t].from, task[t].of) /\ UNCHANGED window
      BY <1>3, <2>2 DEF HandOver
    <3>2. {task[t].session, t} \in SUBSET Tasks /\ Live(task[t].of)
      BY <1>1, <3>1 DEF TypeOK, Live
    <3> QED
      BY <1>1, <3>1, <3>2, TransferKeeps
  <2> QED
    BY <2>1, <2>2
<1>4. CASE Build(t)
  <2>1. CASE Go(t, "forgetting") /\ UNCHANGED <<window, owner, held, stray>>
    BY <1>2, <1>4, <2>1 DEF Build
  <2>2. CASE Go(t, "done") /\ window' = [window EXCEPT ![task[t].of] = "live"]
             /\ UNCHANGED <<owner, held, stray>>
    <3>1. /\ task' \in [Tasks -> Calls] /\ \A u \in Tasks \ {t} : task'[u] = task[u]
          /\ task'[t].at = "done" /\ task'[t].of = task[t].of
      BY <2>2, GoFacts DEF Steps
    <3>2. /\ window' \in [Keys -> {"new", "reserved", "live", "gone"}]
          /\ window'[task[t].of] = "live" /\ \A k \in Keys \ {task[t].of} : window'[k] = window[k]
      BY <1>1, <2>2 DEF TypeOK
    <3>3. TypeOK'
      BY <1>1, <1>4, <2>2, <3>1, <3>2 DEF TypeOK, Calls, Build
    <3>4. /\ \A u \in Tasks : (Carries(u)' <=> Carries(u)) /\ (Deletes(u)' <=> Deletes(u))
          /\ \A u \in Tasks : task'[u].of = task[u].of
      BY <1>4, <3>1 DEF Build, Carries, Deletes
    <3>5. OneBearer'
      BY <1>1, <3>1, <3>4 DEF OneBearer
    <3>6. \A k : Live(k)' <=> Live(k)
      BY <1>1, <3>2 DEF Live
    <3>7. CallsOfWindows'
      BY SMTT(30), <1>1, <1>4, <3>1, <3>2, <3>4 DEF CallsOfWindows, TypeOK, Build
    <3>8. \A u \in Tasks \ {t} : task[u].of # task[t].of
      BY <1>4 DEF Build, TargetIsReserved
    <3>9. TargetIsReserved'
      BY <3>1, <3>2, <3>4, <3>8 DEF TargetIsReserved
    <3>10. OwnersHold' /\ NothingNamesTheGone'
      BY <1>1, <2>2, <3>2 DEF OwnersHold, NothingNamesTheGone
    <3>11. OpenedLive' <=> OpenedLive
      BY <1>1, <3>4, <3>6 DEF OpenedLive, TypeOK
    <3>12. NobodyElse'
      BY <1>1, <2>2, <3>4, <3>11 DEF NobodyElse
    <3>13. \A s \in open' : Live(owner[s]) => Live(owner[s])'
      BY <2>2, <3>2 DEF Live
    <3>14. \A s \in open' : InHands(s) => InHands(s)'
      BY <1>1, <1>4, <3>1 DEF InHands, TypeOK, Build
    <3>15. \A s \in open' : Listed(s) => Listed(s)'
      BY <1>4, <3>1 DEF Listed, Build
    <3>16. NoSessionIsLost'
      BY <1>1, <3>13, <3>14, <3>15, SessionsStep
    <3> QED
      BY <3>3, <3>5, <3>7, <3>9, <3>10, <3>12, <3>16
  <2>3. CASE Go(t, "forgetting") /\ UNCHANGED window /\ Live(task[t].from)
             /\ owner[task[t].session] = task[t].of
             /\ Transfer({task[t].session}, task[t].of, task[t].from)
    <3>1. task[t].from \in Keys
      BY <2>3 DEF Live
    <3>2. CASE task[t].session \in Tasks
      BY <1>1, <1>4, <2>3, <3>1, <3>2, TransferKeeps DEF Build
    <3>3. CASE task[t].session \notin Tasks
      <4>1. Transfer({}, task[t].of, task[t].from)
        BY <2>3, <3>3 DEF Transfer
      <4> QED
        BY <1>1, <1>4, <2>3, <3>1, <4>1, TransferKeeps DEF Build
    <3> QED
      BY <3>2, <3>3
  <2> QED
    BY <1>4, <2>1, <2>2, <2>3 DEF Build
<1> QED
  BY <1>3, <1>4

\* A window goes with its records, on one list; the last that held the
\* connection marks it.
LEMMA ForgetKeeps ==
    ASSUME WindowsInv, NEW t \in Tasks, Forget(t)
    PROVE  WindowsInv'
<1> USE DEF WindowsInv
<1>0. PICK w \in Keys, b \in BOOLEAN :
        w = task[t].of /\ b = (w \in held /\ MarkUnused(held \ {w}))
  <2>1. task[t].at = "forgetting" /\ task[t].of \in Keys
    BY DEF Forget, CallsOfWindows
  <2> QED
    BY <2>1
<1>1. PICK m :
        /\ w = task[t].of
        /\ b => ~ disconnecting /\ held \ {w} = {} /\ ~ OpenedLive
        /\ window' = [window EXCEPT ![w] = "gone"]
        /\ owner' = [s \in Tasks |-> IF owner[s] = w THEN None ELSE owner[s]]
        /\ held' = held \ {w} /\ disconnecting' = (disconnecting \/ b)
        /\ m = [task[t] EXCEPT !.at = "cancelling", !.mark = b, !.list = {s \in Tasks : owner[s] = w}]
        /\ task' = [task EXCEPT ![t] = m]
  BY <1>0 DEF Forget, MarkUnused, InUse
<1>2. /\ UNCHANGED <<named, deleting, moving, open, left, saved, stray>> /\ task[t].at = "forgetting"
  BY DEF Forget
<1>3. /\ m \in Calls /\ m.at = "cancelling" /\ m.mark = b /\ m.of = w
      /\ m.list = {s \in Tasks : owner[s] = w}
  <2>1. task[t] \in Calls
    BY DEF TypeOK, Calls
  <2>2. {s \in Tasks : owner[s] = w} \in SUBSET Tasks
    OBVIOUS
  <2> QED
    BY <1>1, <2>1, <2>2 DEF Calls, Steps
<1>4. task' \in [Tasks -> Calls] /\ task'[t] = m /\ \A u \in Tasks \ {t} : task'[u] = task[u]
  BY <1>1, <1>3 DEF TypeOK, Calls
<1>5. /\ window' \in [Keys -> {"new", "reserved", "live", "gone"}]
      /\ window'[w] = "gone" /\ \A k \in Keys \ {w} : window'[k] = window[k]
  BY <1>1 DEF TypeOK
<1>6. /\ owner' \in [Tasks -> Keys \cup {None}]
      /\ \A s \in Tasks : owner'[s] = IF owner[s] = w THEN None ELSE owner[s]
  BY <1>1 DEF TypeOK
<1>7. TypeOK'
  BY <1>1, <1>2, <1>4, <1>5, <1>6 DEF TypeOK, Calls
<1>8. /\ ~ Carries(t) /\ (Carries(t)' <=> b) /\ \A u \in Tasks \ {t} : Carries(u)' <=> Carries(u)
      /\ \A u \in Tasks : (Deletes(u)' <=> Deletes(u)) /\ task'[u].of = task[u].of
  BY <1>1, <1>2, <1>3, <1>4 DEF Carries, Deletes
<1>9. OneBearer'
  BY <1>1, <1>2, <1>3, <1>4, <1>8 DEF OneBearer
<1>10. CallsOfWindows'
  BY <1>2, <1>3, <1>4, <1>5, <1>8 DEF CallsOfWindows, TypeOK
<1>11. TargetIsReserved'
  BY <1>1, <1>3, <1>4, <1>5, <1>8 DEF TargetIsReserved
<1>12. OwnersHold'
  BY <1>1, <1>2, <1>6 DEF OwnersHold
<1>13. NothingNamesTheGone'
  BY <1>1, <1>5, <1>6, NoneAssumption DEF NothingNamesTheGone
<1>14. \A k : Live(k)' => Live(k)
  BY <1>5 DEF Live
<1>15. OpenedLive' => OpenedLive
  BY <1>2, <1>8, <1>14 DEF OpenedLive, TypeOK
<1>16. NobodyElse'
  BY <1>1, <1>2, <1>8, <1>15 DEF NobodyElse
<1>17. \A s \in open' : Live(owner[s]) => Live(owner[s])' \/ Listed(s)'
  <2> SUFFICES ASSUME NEW s \in open', Live(owner[s]) PROVE Live(owner[s])' \/ Listed(s)'
    OBVIOUS
  <2>1. s \in Tasks
    BY <1>2 DEF TypeOK
  <2>2. CASE owner[s] = w
    BY <1>3, <1>4, <2>1, <2>2 DEF Listed
  <2>3. CASE owner[s] # w
    BY <1>5, <1>6, <2>1, <2>3 DEF Live
  <2> QED
    BY <2>2, <2>3
<1>18. \A s \in open' : InHands(s) => InHands(s)'
  BY <1>2, <1>4 DEF InHands, TypeOK
<1>19. \A s \in open' : Listed(s) => Listed(s)'
  BY <1>2, <1>4 DEF Listed
<1>20. NoSessionIsLost'
  BY <1>2, <1>17, <1>18, <1>19, SessionsStep
<1> QED
  BY <1>7, <1>9, <1>10, <1>11, <1>12, <1>13, <1>16, <1>20

\* The commands of the window are cancelled where they are.
LEMMA CancelKeeps ==
    ASSUME WindowsInv, NEW t \in Tasks, CancelCommands(t)
    PROVE  WindowsInv'
<1> USE DEF WindowsInv, registry
<1>1. /\ UNCHANGED <<window, owner, held, named, disconnecting, deleting, moving, open, left, saved, stray>>
      /\ task[t].at = "cancelling"
  BY DEF CancelCommands
<1>2. ASSUME NEW u \in Tasks
      PROVE  /\ task'[u] \in Calls
             /\ task'[u].at = IF u = t THEN "closing" ELSE task[u].at
             /\ task'[u].of = task[u].of /\ task'[u].list = task[u].list /\ task'[u].mark = task[u].mark
  <2>1. task[u] \in Calls
    BY DEF TypeOK, Calls
  <2>2. CASE u = t
    <3>1. task'[u] = [task[u] EXCEPT !.at = "closing"]
      BY <2>2 DEF CancelCommands
    <3> QED
      BY <2>1, <2>2, <3>1 DEF Calls, Steps
  <2>3. CASE u # t /\ task'[u] = [task[u] EXCEPT !.cancelled = TRUE]
    BY <2>1, <2>3 DEF Calls
  <2>4. CASE u # t /\ task'[u] = task[u]
    BY <2>1, <2>4
  <2> QED
    BY <2>2, <2>3, <2>4 DEF CancelCommands
<1>3. task' \in [Tasks -> Calls]
  BY <1>2 DEF CancelCommands
<1>4. TypeOK'
  BY <1>1, <1>3 DEF TypeOK, Calls
<1>5. \A u \in Tasks : (Carries(u)' <=> Carries(u)) /\ (Deletes(u)' <=> Deletes(u))
  BY <1>1, <1>2 DEF Carries, Deletes
<1>6. OneBearer'
  BY <1>1, <1>2, <1>5 DEF OneBearer
<1>7. CallsOfWindows' /\ TargetIsReserved'
  BY <1>1, <1>2 DEF CallsOfWindows, TargetIsReserved, TypeOK
<1>8. OwnersHold' /\ NothingNamesTheGone'
  BY <1>1 DEF OwnersHold, NothingNamesTheGone
<1>9. OpenedLive' <=> OpenedLive
  BY <1>1, <1>2 DEF OpenedLive, Live, TypeOK
<1>10. NobodyElse'
  BY <1>1, <1>2, <1>5, <1>9 DEF NobodyElse
<1>11. NoSessionIsLost'
  <2>1. \A s \in open' : InHands(s) => InHands(s)'
    BY <1>1, <1>2 DEF InHands, TypeOK
  <2>2. \A s \in open' : Listed(s) => Listed(s)'
    BY <1>1, <1>2 DEF Listed
  <2>3. \A s \in open' : Live(owner[s]) => Live(owner[s])'
    BY <1>1 DEF Live
  <2> QED
    BY <1>1, <2>1, <2>2, <2>3, SessionsStep
<1> QED
  BY <1>4, <1>6, <1>7, <1>8, <1>10, <1>11

\* The mark goes with its only bearer, and who waited looks again.
LEMMA EndDisconnectKeeps ==
    ASSUME WindowsInv, NEW t \in Tasks, EndDisconnect(t)
    PROVE  WindowsInv'
<1> USE DEF WindowsInv
<1>1. /\ UNCHANGED <<window, owner, held, named, deleting, moving, open, left, saved, stray>>
      /\ task[t].at = "unmark" /\ disconnecting' = FALSE
  BY DEF EndDisconnect
<1>2. ASSUME NEW u \in Tasks
      PROVE  /\ task'[u] \in Calls
             /\ task'[u].at = IF u = t THEN "done"
                              ELSE IF task[u].at = "waiting" THEN "binding" ELSE task[u].at
             /\ task'[u].of = task[u].of /\ task'[u].list = task[u].list /\ task'[u].mark = task[u].mark
  <2>1. task[u] \in Calls
    BY DEF TypeOK, Calls
  <2>2. CASE u = t
    <3>1. task'[u] = [task[u] EXCEPT !.at = "done"]
      BY <2>2 DEF EndDisconnect
    <3> QED
      BY <2>1, <2>2, <3>1 DEF Calls, Steps
  <2>3. CASE u # t /\ task[u].at = "waiting" /\ task'[u] = [task[u] EXCEPT !.at = "binding"]
    BY <2>1, <2>3 DEF Calls, Steps
  <2>4. CASE u # t /\ task[u].at # "waiting" /\ task'[u] = task[u]
    BY <2>1, <2>4
  <2> QED
    BY <2>2, <2>3, <2>4 DEF EndDisconnect
<1>3. task' \in [Tasks -> Calls]
  BY <1>2 DEF EndDisconnect
<1>4. TypeOK'
  BY <1>1, <1>3 DEF TypeOK, Calls
<1>5. Carries(t) /\ \A u \in Tasks : Deletes(u)' <=> Deletes(u)
  BY <1>1, <1>2 DEF Carries, Deletes
<1>6. \A u \in Tasks : ~ Carries(u)'
  BY <1>2, <1>5 DEF Carries, OneBearer
<1>7. OneBearer'
  BY <1>1, <1>2, <1>5, <1>6 DEF OneBearer
<1>8. CallsOfWindows' /\ TargetIsReserved'
  BY <1>1, <1>2 DEF CallsOfWindows, TargetIsReserved, TypeOK
<1>9. OwnersHold' /\ NothingNamesTheGone'
  BY <1>1 DEF OwnersHold, NothingNamesTheGone
<1>10. OpenedLive' <=> OpenedLive
  BY <1>1, <1>2 DEF OpenedLive, Live, TypeOK
<1>11. NobodyElse'
  BY <1>1, <1>2, <1>5, <1>10 DEF NobodyElse
<1>12. NoSessionIsLost'
  <2>1. \A s \in open' : InHands(s) => InHands(s)'
    BY <1>1, <1>2 DEF InHands, TypeOK
  <2>2. \A s \in open' : Listed(s) => Listed(s)'
    BY <1>1, <1>2 DEF Listed
  <2>3. \A s \in open' : Live(owner[s]) => Live(owner[s])'
    BY <1>1 DEF Live
  <2> QED
    BY <1>1, <2>1, <2>2, <2>3, SessionsStep
<1> QED
  BY <1>4, <1>7, <1>8, <1>9, <1>11, <1>12

\* One deletion at a time begins, while nobody else uses the connection, and ends.
LEMMA DeletionKeeps ==
    ASSUME WindowsInv, NEW t \in Tasks, EndDeletion(t) \/ \E w \in Keys : BeginDeletion(t, w)
    PROVE  WindowsInv'
<1> USE DEF WindowsInv
<1>1. UNCHANGED <<window, owner, held, named, disconnecting, moving, open, left, saved, stray>>
  BY DEF EndDeletion, BeginDeletion
<1>2. PICK b \in BOOLEAN :
        /\ deleting' = b /\ deleting = ~ b
        /\ task' \in [Tasks -> Calls] /\ \A u \in Tasks \ {t} : task'[u] = task[u]
        /\ b => /\ task[t].at = "idle" /\ task'[t].at = "deleting" /\ ~ OpenedLive
                /\ task'[t].of \in Keys /\ window[task'[t].of] = "live" /\ held \subseteq {task'[t].of}
        /\ ~ b => /\ task[t].at = "undelete" /\ task'[t].at = "done"
                  /\ task'[t].of = task[t].of
  <2>1. ASSUME NEW w \in Keys, BeginDeletion(t, w)
        PROVE  /\ deleting' = TRUE /\ deleting = FALSE
               /\ task' \in [Tasks -> Calls] /\ \A u \in Tasks \ {t} : task'[u] = task[u]
               /\ task[t].at = "idle" /\ task'[t].at = "deleting" /\ ~ OpenedLive
               /\ task'[t].of \in Keys /\ window[task'[t].of] = "live" /\ held \subseteq {task'[t].of}
    <3>1. /\ deleting' = TRUE /\ ~ deleting /\ Start(t, "deleting", w) /\ held \subseteq {w}
          /\ ~ OpenedLive
      BY <2>1 DEF BeginDeletion
    <3>2. "deleting" \in Steps
      BY DEF Steps
    <3>3. /\ task' \in [Tasks -> Calls] /\ \A u \in Tasks \ {t} : task'[u] = task[u]
          /\ task'[t].at = "deleting" /\ task'[t].of = w /\ task[t].at = "idle" /\ window[w] = "live"
      BY <3>1, <3>2, StartFacts
    <3> QED
      BY <3>1, <3>3 DEF TypeOK
  <2>2. ASSUME EndDeletion(t)
        PROVE  /\ deleting' = FALSE /\ deleting = TRUE
               /\ task' \in [Tasks -> Calls] /\ \A u \in Tasks \ {t} : task'[u] = task[u]
               /\ task[t].at = "undelete" /\ task'[t].at = "done" /\ task'[t].of = task[t].of
    <3>1. deleting = TRUE
      BY <2>2 DEF EndDeletion, OneBearer, Deletes, TypeOK
    <3> QED
      BY <2>2, <3>1, GoFacts DEF EndDeletion, Steps
  <2> QED
    BY <2>1, <2>2
<1>3. TypeOK'
  BY <1>1, <1>2 DEF TypeOK, Calls
<1>4. /\ \A u \in Tasks : Carries(u)' <=> Carries(u)
      /\ Deletes(t)' <=> b
      /\ Deletes(t) <=> ~ b
      /\ \A u \in Tasks \ {t} : Deletes(u)' <=> Deletes(u)
  BY <1>2 DEF Carries, Deletes
<1>5. OneBearer'
  BY <1>1, <1>2, <1>4 DEF OneBearer
<1>6. t \notin named
  BY <1>2 DEF CallsOfWindows
<1>7. CallsOfWindows'
  BY <1>1, <1>2, <1>6 DEF CallsOfWindows, TypeOK
<1>8. TargetIsReserved'
  BY <1>1, <1>2 DEF TargetIsReserved
<1>9. OwnersHold' /\ NothingNamesTheGone'
  BY <1>1 DEF OwnersHold, NothingNamesTheGone
<1>10. OpenedLive' <=> OpenedLive
  BY <1>1, <1>2, <1>6 DEF OpenedLive, Live, TypeOK
<1>11. \A u \in Tasks \ {t} : ~ Deletes(u)'
  BY <1>2, <1>4 DEF OneBearer
<1>12. NobodyElse'
  BY <1>1, <1>2, <1>4, <1>10, <1>11 DEF NobodyElse
<1>13. NoSessionIsLost'
  <2>1. \A s \in open' : InHands(s) => InHands(s)'
    BY <1>1, <1>2 DEF InHands, TypeOK
  <2>2. \A s \in open' : Listed(s) => Listed(s)'
    BY <1>1, <1>2 DEF Listed
  <2>3. \A s \in open' : Live(owner[s]) => Live(owner[s])'
    BY <1>1 DEF Live
  <2> QED
    BY <1>1, <2>1, <2>2, <2>3, SessionsStep
<1> QED
  BY <1>3, <1>5, <1>7, <1>8, <1>9, <1>12, <1>13

\* Every step of the windows and of the calls keeps the invariant.
LEMMA WindowsStep == WindowsInv /\ [Next]_vars => WindowsInv'
<1> SUFFICES ASSUME WindowsInv, [Next]_vars PROVE WindowsInv'
  OBVIOUS
<1>1. CASE UNCHANGED vars
  BY <1>1 DEF vars, WindowsInv, TypeOK, OneBearer, Carries, Deletes, CallsOfWindows, TargetIsReserved,
              OwnersHold, NobodyElse, OpenedLive, Live, NoSessionIsLost, NothingNamesTheGone
<1>2. ASSUME NEW t \in Tasks, NEW w \in Keys, Ask(t, w) PROVE WindowsInv'
  BY <1>2, AskKeeps, DeletionKeeps, MoveKeeps DEF Ask
<1>3. ASSUME NEW t \in Tasks, Serve(t) \/ CancelWait(t) PROVE WindowsInv'
  BY <1>3, ServeKeeps, CloseKeeps, BindKeeps, AdoptKeeps, MarkKeeps, HandOverKeeps, ForgetKeeps,
     CancelKeeps, EndDisconnectKeeps, DeletionKeeps DEF Serve
<1> QED
  BY <1>1, <1>2, <1>3, ReserveKeeps DEF Next

-----------------------------------------------------------------------------
(* The theorems *)

\* The windows, their calls and the marks of the connection agree, however many
\* windows and calls there are (windows.rs, openings.rs, closing.rs, handoff.rs).
THEOREM WindowsInvariant == Spec => []WindowsInv
BY WindowsInit, WindowsStep, PTL DEF Spec

\* An open session that no error left open is a live window's, or in the hands of
\* a call that records or closes it (release_unclaimed, release_window, hand_off).
THEOREM NoSessionIsLostHolds == Spec => []NoSessionIsLost
<1>1. WindowsInv => NoSessionIsLost
  BY DEF WindowsInv
<1> QED
  BY WindowsInvariant, <1>1, PTL

\* Nothing names a window once it is forgotten, however late its calls answer
\* (adopt, claim_session, hand_over).
THEOREM NothingNamesTheGoneHolds == Spec => []NothingNamesTheGone
<1>1. WindowsInv => NothingNamesTheGone
  BY DEF WindowsInv
<1> QED
  BY WindowsInvariant, <1>1, PTL

\* The mark an opening waits for is carried by exactly one call, that has still
\* to run its Disconnect or to drop it (bind_opening, Drop for Disconnecting).
THEOREM SomeoneWakesItHolds == Spec => []SomeoneWakesIt
<1>1. WindowsInv => SomeoneWakesIt
  <2> SUFFICES ASSUME WindowsInv PROVE SomeoneWakesIt
    OBVIOUS
  <2> DEFINE carriers == {t \in Tasks : \/ task[t].at \in {"disconnect", "unmark"}
                                        \/ task[t].at \in {"cancelling", "closing"} /\ task[t].mark}
  <2>1. \A t \in Tasks : t \in carriers <=> Carries(t)
    BY DEF Carries
  <2>2. CASE disconnecting
    <3>1. PICK t \in Tasks : carriers = {t}
      BY <2>1, <2>2 DEF WindowsInv, OneBearer
    <3> QED
      BY <2>2, <3>1, FS_Singleton DEF SomeoneWakesIt
  <2>3. CASE ~ disconnecting
    <3>1. carriers = {}
      BY <2>1, <2>3 DEF WindowsInv, OneBearer
    <3>2. \A t \in Tasks : task[t].at # "waiting"
      BY <2>3 DEF WindowsInv, OneBearer
    <3> QED
      BY <2>3, <3>1, <3>2, FS_EmptySet DEF SomeoneWakesIt
  <2> QED
    BY <2>2, <2>3
<1> QED
  BY WindowsInvariant, <1>1, PTL

\* The Disconnect of one window, or the deletion it asked, closes no session of
\* another live window that holds the connection by its own opening, and none
\* that an opening is about to adopt (in_use, mark_unused, held_elsewhere).
THEOREM OthersAreSparedHolds == Spec => OthersAreSpared
<1> DEFINE Spares ==
      \A t \in Tasks, s \in open \ open' :
         task[t].at \in {"disconnect", "deleting"} /\ task'[t].at # task[t].at =>
            /\ Live(owner[s]) /\ owner[s] \notin stray => owner[s] = task[t].of
            /\ ~ (s \in named /\ Live(task[s].of))
<1>1. WindowsInv => [Spares]_vars
  <2> SUFFICES ASSUME WindowsInv, NEW t \in Tasks, NEW s \in open,
                      task[t].at \in {"disconnect", "deleting"}
               PROVE  /\ Live(owner[s]) /\ owner[s] \notin stray => owner[s] = task[t].of
                      /\ ~ (s \in named /\ Live(task[s].of))
    OBVIOUS
  <2> USE DEF WindowsInv
  <2>1. disconnecting \/ deleting
    BY DEF OneBearer, Carries, Deletes
  <2>2. ~ (s \in named /\ Live(task[s].of))
    BY <2>1 DEF NobodyElse, OpenedLive
  <2>3. task[t].at = "disconnect" => held \subseteq stray
    BY DEF OneBearer, Carries, NobodyElse
  <2>4. task[t].at = "deleting" => held \subseteq stray \cup {task[t].of}
    BY DEF Deletes, NobodyElse
  <2>5. Live(owner[s]) => owner[s] \in held \cup stray
    BY NoneAssumption DEF Live, OwnersHold, TypeOK
  <2> QED
    BY <2>2, <2>3, <2>4, <2>5
<1> QED
  BY WindowsInvariant, <1>1, PTL DEF Spec, OthersAreSpared
=============================================================================

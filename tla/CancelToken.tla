----------------------------- MODULE CancelToken -----------------------------
(* The hierarchical cancellation token (oxyn-core: cancel.rs): an atomic flag, *)
(* a Notify, and weak references to the children under a mutex.  One step is   *)
(* one access to shared state, so that cancellations, creations of children    *)
(* and waits of several threads interleave wherever they can.                  *)
EXTENDS Naturals, FiniteSets

CONSTANTS
    Tokens,     \* tokens that may be created
    Threads,    \* threads that use them
    None        \* no token, no thread

ASSUME NoneAssumption == None \notin Tokens \cup Threads

VARIABLES
    born,       \* the tokens that were created
    alive,      \* those something still holds: Arc::strong_count(inner) > 0
    parent,     \* the token each one is a child of
    cancelled,  \* Inner.cancelled
    children,   \* Inner.children
    lock,       \* who holds the mutex of the children
    thread,     \* what each thread does, on which token
    requested   \* the tokens cancel() was called on

tree == <<born, alive, parent>>
vars == <<born, alive, parent, cancelled, children, lock, thread, requested>>

\* Of child, `seen` is the flag of the parent; of a wait, the notification.
At(pc, t) == [pc |-> pc, at |-> t, new |-> None, seen |-> FALSE, todo |-> {}]
Idle == At("idle", None)

Cancelling == {"notifying", "taking", "descending"}
Waiting == {"enabling", "rechecking", "waiting"}
Pcs == {"idle", "pushing"} \cup Cancelling \cup Waiting

TypeOK ==
    /\ alive \subseteq born /\ born \subseteq Tokens
    /\ parent \in [Tokens -> Tokens \cup {None}]
    /\ cancelled \subseteq born /\ requested \subseteq cancelled
    /\ children \in [Tokens -> SUBSET Tokens]
    /\ lock \in [Tokens -> Threads \cup {None}]
    /\ thread \in [Threads -> [pc : Pcs, at : Tokens \cup {None}, new : Tokens \cup {None},
                              seen : BOOLEAN, todo : SUBSET Tokens]]
    /\ \A i \in Threads :
        /\ thread[i].pc = "idle" <=> thread[i].at = None
        /\ thread[i].pc = "pushing" <=> thread[i].new # None
        /\ thread[i].pc \notin Cancelling => thread[i].todo = {}

Init ==
    /\ born = {} /\ alive = {} /\ cancelled = {} /\ requested = {}
    /\ parent = [t \in Tokens |-> None]
    /\ children = [t \in Tokens |-> {}]
    /\ lock = [t \in Tokens |-> None]
    /\ thread = [i \in Threads |-> Idle]

Does(i, pc, t) == thread[i].pc = pc /\ thread[i].at = t
Return(i) == thread' = [thread EXCEPT ![i] = Idle]

-----------------------------------------------------------------------------
(* new, child, drop *)

New(t) ==
    /\ t \notin born
    /\ \A i \in Threads : thread[i].new # t
    /\ born' = born \cup {t} /\ alive' = alive \cup {t}
    /\ UNCHANGED <<parent, cancelled, children, lock, thread, requested>>

\* Mutant: the flag of the parent is read before its lock is taken.
mut_BeginChild(i, p, t) ==
    /\ thread[i].pc = "idle"
    /\ p \in alive /\ t \notin born
    /\ \A j \in Threads : thread[j].new # t
    /\ thread' = [thread EXCEPT ![i] = [pc |-> "pushing", at |-> p, new |-> t,
                                         seen |-> p \in cancelled, todo |-> {}]]
    /\ UNCHANGED <<tree, cancelled, children, lock, requested>>

\* child, up to the reading of the parent's flag: under the lock, the children
\* nobody holds any more are purged.
BeginChild(i, p, t) ==
    /\ thread[i].pc = "idle"
    /\ p \in alive /\ t \notin born
    /\ \A j \in Threads : thread[j].new # t
    /\ lock[p] = None
    /\ lock' = [lock EXCEPT ![p] = i]
    /\ children' = [children EXCEPT ![p] = @ \cap alive]
    /\ thread' = [thread EXCEPT ![i] = [pc |-> "pushing", at |-> p, new |-> t,
                                         seen |-> p \in cancelled, todo |-> {}]]
    /\ UNCHANGED <<tree, cancelled, requested>>

\* The child is born cancelled, or registered, and the lock released.
EndChild(i) ==
    /\ thread[i].pc = "pushing"
    /\ LET p == thread[i].at
           t == thread[i].new
       IN
        /\ born' = born \cup {t} /\ alive' = alive \cup {t}
        /\ parent' = [parent EXCEPT ![t] = p]
        /\ IF thread[i].seen
           THEN cancelled' = cancelled \cup {t} /\ UNCHANGED children
           ELSE children' = [children EXCEPT ![p] = @ \cup {t}] /\ UNCHANGED cancelled
        /\ lock' = [lock EXCEPT ![p] = None]
    /\ Return(i)
    /\ UNCHANGED requested

\* The last handle: not while a thread uses the token, or upgraded it.
DropToken(t) ==
    /\ t \in alive
    /\ \A i \in Threads : thread[i].at # t
    /\ alive' = alive \ {t}
    /\ UNCHANGED <<born, parent, cancelled, children, lock, thread, requested>>

-----------------------------------------------------------------------------
(* cancel *)

\* Mutant: the cancellation goes up too.
mut_Cancel(i, t) ==
    /\ thread[i].pc = "idle"
    /\ t \in alive /\ t \notin cancelled
    /\ cancelled' = cancelled \cup {t} \cup ({parent[t]} \cap Tokens)
    /\ requested' = requested \cup {t}
    /\ thread' = [thread EXCEPT ![i] = At("notifying", t)]
    /\ UNCHANGED <<tree, children, lock>>

\* The flag, swapped: only the first caller goes on.
Cancel(i, t) ==
    /\ thread[i].pc = "idle"
    /\ t \in alive /\ t \notin cancelled
    /\ cancelled' = cancelled \cup {t}
    /\ requested' = requested \cup {t}
    /\ thread' = [thread EXCEPT ![i] = At("notifying", t)]
    /\ UNCHANGED <<tree, children, lock>>

\* notify_waiters: those that registered.
Notify(i) ==
    /\ thread[i].pc = "notifying"
    /\ thread' = [j \in Threads |->
            IF j = i THEN [thread[i] EXCEPT !.pc = "taking"]
            ELSE IF thread[j].pc \in {"rechecking", "waiting"} /\ thread[j].at = thread[i].at
            THEN [thread[j] EXCEPT !.seen = TRUE]
            ELSE thread[j]]
    /\ UNCHANGED <<tree, cancelled, children, lock, requested>>

Take(i) ==
    /\ thread[i].pc = "taking"
    /\ LET t == thread[i].at IN
        /\ lock[t] = None
        /\ thread' = [thread EXCEPT ![i] =
                         [@ EXCEPT !.pc = "descending", !.todo = thread[i].todo \cup children[t]]]
        /\ children' = [children EXCEPT ![t] = {}]
    /\ UNCHANGED <<tree, cancelled, lock, requested>>

Descended(i) ==
    /\ thread[i].pc = "descending" /\ thread[i].todo = {}
    /\ Return(i)
    /\ UNCHANGED <<tree, cancelled, children, lock, requested>>

\* cancel_inner on one of the children taken, if it can be upgraded.
Descend(i) ==
    /\ thread[i].pc = "descending"
    /\ \E t \in thread[i].todo :
        IF t \in alive \ cancelled
        THEN /\ cancelled' = cancelled \cup {t}
             /\ thread' = [thread EXCEPT ![i] =
                    [@ EXCEPT !.pc = "notifying", !.at = t, !.todo = thread[i].todo \ {t}]]
        ELSE thread' = [thread EXCEPT ![i].todo = @ \ {t}] /\ UNCHANGED cancelled
    /\ UNCHANGED <<tree, children, lock, requested>>

-----------------------------------------------------------------------------
(* cancelled().await *)

\* A flag already set returns at once.
Wait(i, t) ==
    /\ thread[i].pc = "idle"
    /\ t \in alive \ cancelled
    /\ thread' = [thread EXCEPT ![i] = At("enabling", t)]
    /\ UNCHANGED <<tree, cancelled, children, lock, requested>>

Enable(i) ==
    /\ thread[i].pc = "enabling"
    /\ thread' = [thread EXCEPT ![i] = [@ EXCEPT !.pc = "rechecking", !.seen = FALSE]]
    /\ UNCHANGED <<tree, cancelled, children, lock, requested>>

\* Mutant: the flag is not read again once registered.
mut_Recheck(i) ==
    /\ thread[i].pc = "rechecking"
    /\ thread' = [thread EXCEPT ![i].pc = "waiting"]
    /\ UNCHANGED <<tree, cancelled, children, lock, requested>>

Recheck(i) ==
    /\ thread[i].pc = "rechecking"
    /\ IF thread[i].at \in cancelled THEN Return(i)
       ELSE thread' = [thread EXCEPT ![i].pc = "waiting"]
    /\ UNCHANGED <<tree, cancelled, children, lock, requested>>

\* Notified, and the flag read a last time; or the waiting future is dropped.
Wake(i) ==
    /\ thread[i].pc = "waiting"
    /\ thread[i].seen
    /\ IF thread[i].at \in cancelled THEN Return(i)
       ELSE thread' = [thread EXCEPT ![i].pc = "enabling"]
    /\ UNCHANGED <<tree, cancelled, children, lock, requested>>

GiveUp(i) ==
    /\ thread[i].pc = "waiting"
    /\ Return(i)
    /\ UNCHANGED <<tree, cancelled, children, lock, requested>>

-----------------------------------------------------------------------------
Next ==
    \/ \E t \in Tokens : New(t) \/ DropToken(t)
    \/ \E i \in Threads :
        \/ \E p, t \in Tokens : BeginChild(i, p, t)
        \/ \E t \in Tokens : Cancel(i, t) \/ Wait(i, t)
        \/ EndChild(i) \/ Notify(i) \/ Take(i) \/ Descended(i) \/ Descend(i)
        \/ Enable(i) \/ Recheck(i) \/ Wake(i) \/ GiveUp(i)

Spec == Init /\ [][Next]_vars

-----------------------------------------------------------------------------
(* Properties *)

Propagating == \E i \in Threads : thread[i].pc \in Cancelling

\* Once nothing propagates, no child of a cancelled token is left out, whenever
\* it was created: before, after or in the middle of the cancellation (child,
\* cancel_inner).
NoChildEscapes ==
    ~ Propagating
    => \A t \in alive : parent[t] \in cancelled => t \in cancelled

\* A token is cancelled because it was asked to be, or its parent was: never
\* because of a child or a sibling.
NeverUp == \A t \in cancelled : t \in requested \/ parent[t] \in cancelled

\* Whoever waits on a cancelled token was notified, or is about to be: the
\* cancellation between the reading of the flag and the wait is not missed.
NoLostWakeup ==
    \A i \in Threads :
        thread[i].pc = "waiting" /\ thread[i].at \in cancelled
        => thread[i].seen \/ \E j \in Threads : Does(j, "notifying", thread[i].at)

\* « Cancelling a parent cancels all its descendants »: of two generations,
\* whether or not something still holds the token in between.
DescendantsAreCancelled ==
    ~ Propagating
    => \A t \in alive :
        parent[t] # None /\ parent[parent[t]] \in cancelled => t \in cancelled
=============================================================================

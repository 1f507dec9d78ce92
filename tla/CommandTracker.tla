--------------------------- MODULE CommandTracker ---------------------------
(* oxyn-desktop/src/backend/tracking.rs: the cancellation tokens the front      *)
(* reaches by the command identifier it chose.  A command is invoked, reads     *)
(* what it needs, is tracked, and releases its entry when it ends; its          *)
(* approval then runs under the same identifier.  Cancellations come at any     *)
(* time.  Every operation holds the tracker's lock, under which it also reads   *)
(* the clock.                                                                   *)
EXTENDS Integers, Sequences, FiniteSetsExt

CONSTANTS
    Ids,                    \* command identifiers
    Guards,                 \* the commands invoked, an approval counting as one
    Nothing,                \* no identifier
    EARLY_CANCELS,          \* the early cancellations retained
    EARLY_CANCEL_WINDOW,    \* how long each is
    RELEASED,               \* the released identifiers remembered
    MaxNow                  \* bound of the clock, for model checking

ASSUME BoundsAssumption ==
    /\ EARLY_CANCELS \in Nat \ {0} /\ RELEASED \in Nat \ {0}
    /\ EARLY_CANCEL_WINDOW \in Nat /\ MaxNow \in Nat
ASSUME NothingAssumption == Nothing \notin Ids

VARIABLES
    now,                \* the monotonic clock
    running,            \* Tracker.running: the generation under each identifier, or 0
    early,              \* Tracker.early, the oldest first
    released,           \* Tracker.released, the oldest first
    next_generation,    \* Tracker.next_generation
    cancelled,          \* the generations whose token is cancelled
    guard,              \* each command: where it is, its identifier and generation
    ended,              \* identifiers a command has run under and released
    meant,              \* the generations, and identifiers, a cancellation was for
    forgotten           \* identifiers a bound pushed out of a memory

tracker == <<running, early, released, next_generation, cancelled>>
vars == <<now, running, early, released, next_generation, cancelled, guard, ended,
          meant, forgotten>>

Guard(pc, id, generation) == [pc |-> pc, id |-> id, generation |-> generation]

TypeOK ==
    /\ now \in 0 .. MaxNow
    /\ running \in [Ids -> Nat]
    /\ early \in Seq([id : Ids, at : 0 .. MaxNow]) /\ Len(early) <= EARLY_CANCELS
    /\ released \in Seq(Ids) /\ Len(released) <= RELEASED
    /\ next_generation \in Nat
    /\ cancelled \subseteq 1 .. next_generation
    /\ guard \in [Guards -> [pc : {"idle", "coming", "tracked", "ended"},
                             id : Ids \cup {Nothing}, generation : Nat]]
    /\ ended \subseteq Ids /\ forgotten \subseteq Ids
    /\ meant \in [generations : SUBSET Nat, ids : [Ids -> 0 .. MaxNow + 1]]

\* meant.ids: one more than when a cancellation was last sent for the command to
\* come under an identifier nothing ran under yet; 0 for none.
Init ==
    /\ now = 0
    /\ running = [i \in Ids |-> 0] /\ early = <<>> /\ released = <<>>
    /\ next_generation = 0 /\ cancelled = {}
    /\ guard = [g \in Guards |-> Guard("idle", Nothing, 0)]
    /\ ended = {} /\ forgotten = {}
    /\ meant = [generations |-> {}, ids |-> [i \in Ids |-> 0]]

-----------------------------------------------------------------------------
Has(queue, id) == \E k \in DOMAIN queue : queue[k].id = id

\* forget_expired: pops from the front, up to the first request still recent.
Recent(e) == now - e.at <= EARLY_CANCEL_WINDOW
forget_expired ==
    LET recent == {k \in DOMAIN early : Recent(early[k])}
    IN  IF recent = {} THEN <<>> ELSE SubSeq(early, Min(recent), Len(early))

\* take_early removes the first request for the identifier.
Without(queue, id) ==
    LET places == {k \in DOMAIN queue : queue[k].id = id}
        index == Min(places)
    IN  IF places = {} THEN queue
        ELSE SubSeq(queue, 1, index - 1) \o SubSeq(queue, index + 1, Len(queue))

\* A queue at its bound gives its oldest up for what is added.
Push(queue, bound, e) == Append(IF Len(queue) >= bound THEN Tail(queue) ELSE queue, e)

\* The front invokes a command, or the approval of one.
Invoke(g, id) ==
    /\ guard[g].pc = "idle"
    /\ guard' = [guard EXCEPT ![g] = Guard("coming", id, 0)]
    /\ UNCHANGED <<now, tracker, ended, meant, forgotten>>

\* Mutant: an identifier tracked twice replaces the first command's token.
mut_track(g) ==
    /\ guard[g].pc = "coming"
    /\ LET id == guard[g].id
           generation == next_generation + 1
       IN  /\ next_generation' = generation
           /\ running' = [running EXCEPT ![id] = generation]
           /\ cancelled' = IF Has(forget_expired, id) THEN cancelled \cup {generation} ELSE cancelled
           /\ early' = Without(forget_expired, id)
           /\ guard' = [guard EXCEPT ![g] = Guard("tracked", id, generation)]
           /\ meant' = [meant EXCEPT
                !.generations = IF meant.ids[id] > 0 THEN @ \cup {generation} ELSE @,
                !.ids[id] = 0]
    /\ UNCHANGED <<now, released, ended, forgotten>>

\* track, register and take_early: refused while a command runs under the
\* identifier, cancelled at once if a cancellation waited for it.
track(g) ==
    /\ guard[g].pc = "coming"
    /\ LET id == guard[g].id
           generation == next_generation + 1
       IN  IF running[id] # 0
           THEN /\ guard' = [guard EXCEPT ![g].pc = "ended"]
                /\ UNCHANGED <<tracker, meant>>
           ELSE /\ next_generation' = generation
                /\ running' = [running EXCEPT ![id] = generation]
                /\ cancelled' = IF Has(forget_expired, id) THEN cancelled \cup {generation}
                                ELSE cancelled
                /\ early' = Without(forget_expired, id)
                /\ guard' = [guard EXCEPT ![g] = Guard("tracked", id, generation)]
                /\ meant' = [meant EXCEPT
                     !.generations = IF /\ meant.ids[id] > 0
                                        /\ now - (meant.ids[id] - 1) <= EARLY_CANCEL_WINDOW
                                     THEN @ \cup {generation} ELSE @,
                     !.ids[id] = 0]
                /\ UNCHANGED released
    /\ UNCHANGED <<now, ended, forgotten>>

\* Mutant: a cancellation that comes after its command ended is retained.
mut_cancel(id) ==
    /\ IF running[id] # 0
       THEN /\ cancelled' = cancelled \cup {running[id]}
            /\ meant' = [meant EXCEPT !.generations = @ \cup {running[id]}]
            /\ UNCHANGED <<early, forgotten>>
       ELSE /\ early' = IF Has(forget_expired, id) THEN forget_expired
                        ELSE Push(forget_expired, EARLY_CANCELS, [id |-> id, at |-> now])
            /\ UNCHANGED <<cancelled, meant, forgotten>>
    /\ UNCHANGED <<now, running, released, next_generation, guard, ended>>

\* Mutant: a cancellation that comes before its command is forgotten.
mut_cancel_early(id) ==
    /\ IF running[id] # 0
       THEN /\ cancelled' = cancelled \cup {running[id]}
            /\ meant' = [meant EXCEPT !.generations = @ \cup {running[id]}]
       ELSE /\ meant' = IF id \in ended THEN meant ELSE [meant EXCEPT !.ids[id] = now + 1]
            /\ UNCHANGED cancelled
    /\ UNCHANGED <<now, running, early, released, next_generation, guard, ended, forgotten>>

\* cancel: reaches the command that runs, spares what ended, and waits for what
\* has not run yet.
cancel(id) ==
    /\ IF running[id] # 0
       THEN /\ cancelled' = cancelled \cup {running[id]}
            /\ meant' = [meant EXCEPT !.generations = @ \cup {running[id]}]
            /\ UNCHANGED <<early, forgotten>>
       ELSE /\ \/ /\ \E k \in DOMAIN released : released[k] = id
                  /\ UNCHANGED <<early, forgotten>>
               \/ /\ \A k \in DOMAIN released : released[k] # id
                  /\ IF Has(forget_expired, id)
                     THEN early' = forget_expired /\ UNCHANGED forgotten
                     ELSE /\ early' = Push(forget_expired, EARLY_CANCELS, [id |-> id, at |-> now])
                          /\ forgotten' = IF Len(forget_expired) >= EARLY_CANCELS
                                          THEN forgotten \cup {forget_expired[1].id}
                                          ELSE forgotten
            /\ meant' = IF id \in ended \/ Has(forget_expired, id) THEN meant
                        ELSE [meant EXCEPT !.ids[id] = now + 1]
            /\ UNCHANGED cancelled
    /\ UNCHANGED <<now, running, released, next_generation, guard, ended>>

\* Tracked dropped: release removes the entry if it is still its own.
release(g) ==
    /\ guard[g].pc = "tracked"
    /\ guard' = [guard EXCEPT ![g].pc = "ended"]
    /\ IF running[guard[g].id] = guard[g].generation
       THEN /\ running' = [running EXCEPT ![guard[g].id] = 0]
            /\ released' = Push(released, RELEASED, guard[g].id)
            /\ ended' = ended \cup {guard[g].id}
            /\ forgotten' = IF Len(released) >= RELEASED THEN forgotten \cup {released[1]}
                            ELSE forgotten
       ELSE UNCHANGED <<running, released, ended, forgotten>>
    /\ UNCHANGED <<now, early, next_generation, cancelled, meant>>

Tick ==
    /\ now < MaxNow
    /\ now' = now + 1
    /\ UNCHANGED <<tracker, guard, ended, meant, forgotten>>

Next ==
    \/ \E g \in Guards : (\E id \in Ids : Invoke(g, id)) \/ track(g) \/ release(g)
    \/ \E id \in Ids : cancel(id)
    \/ Tick

Spec == Init /\ [][Next]_vars

-----------------------------------------------------------------------------
(* Properties *)

\* A command that runs is the one a cancellation of its identifier reaches, for
\* as long as it runs: no other took its entry, nor removed it (register,
\* release).
RunningIsReachable ==
    \A g \in Guards :
        guard[g].pc = "tracked" => running[guard[g].id] = guard[g].generation

\* A cancellation sent for a command, while it runs or in the delay before it
\* is tracked, cancels it, unless a bound pushed the request out (cancel,
\* take_early).  The delay counts from the first request that waits: one sent
\* again while another waits does not extend it.
CancellationIsKept ==
    \A g \in Guards :
        /\ guard[g].pc = "tracked"
        /\ guard[g].generation \in meant.generations
        => guard[g].generation \in cancelled \/ guard[g].id \in forgotten

\* Nothing else cancels a command: a "Stop" that arrives as the command that
\* asked for an approval ends does not cancel the approval that follows under
\* its identifier, while that identifier is remembered (cancel, released).
OnlyMeantIsCancelled ==
    \A g \in Guards :
        /\ guard[g].pc = "tracked"
        /\ guard[g].generation \in cancelled
        => guard[g].generation \in meant.generations \/ guard[g].id \in forgotten
=============================================================================

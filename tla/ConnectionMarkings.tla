------------------------- MODULE ConnectionMarkings -------------------------
(* The markings of a connection (environment, read-only) live in three places: *)
(* the store on disk, the executor's cache and the policy's facts.  They are    *)
(* written by edits and deletions (settings/connections.rs), which hold the     *)
(* "decisions" lock while they check and save but not while a dialog is open,   *)
(* and by whatever opens a session (reconnect, open_console, an object          *)
(* operation), which reads the store, then registers with the policy what it    *)
(* read, under no lock.  Every await is a separate step.                        *)
EXTENDS PolicyGate

CONSTANTS
    Edits,      \* the edits and deletions the user may have under way
    Openings,   \* the openings of a session that may be under way
    Configs,    \* the markings the user chooses from
    None        \* nobody

VARIABLES
    store,      \* the configurations on disk, Unregistered when absent
    cache,      \* Executor.connections
    facts,      \* DefaultPolicy.connections
    lock,       \* settings.decisions: the edit that holds it, or None
    edit,       \* where each edit is
    opening     \* where each opening is

vars == <<store, cache, facts, lock, edit, opening>>

ASSUME NoneAssumption == None \notin Edits
ASSUME ConfigsAssumption == Configs \subseteq Facts

\* An edit: the connection, the configuration it was computed on ("origin"),
\* and the one it saves; Unregistered for a deletion.
EditPcs ==
    {"idle", "confirming", "locking", "checking", "closing", "saving", "registering",
     "held", "confirming_held", "locking_held", "checking_held"}
EditStates ==
    [pc : EditPcs, conn : Connections, origin : Knowledge, config : Knowledge]

OpeningStates ==
    [pc : {"idle", "registering", "connecting"}, conn : Connections,
     config : Knowledge]

\* The steps an edit makes with the lock in hand.
LockedPcs == {"checking", "checking_held", "closing", "saving", "registering"}

TypeOK ==
    /\ store \in [Connections -> Knowledge]
    /\ cache \in [Connections -> Knowledge]
    /\ facts \in [Connections -> Knowledge]
    /\ lock \in Edits \cup {None}
    /\ edit \in [Edits -> EditStates]
    /\ opening \in [Openings -> OpeningStates]

\* load_connections fills the cache from the disk at startup; the policy only
\* learns a connection when something opens it.
Init ==
    /\ store \in [Connections -> Configs \cup {Unregistered}]
    /\ cache = store
    /\ facts = [c \in Connections |-> Unregistered]
    /\ lock = None
    /\ \E c \in Connections :
        /\ edit = [w \in Edits |-> [pc |-> "idle", conn |-> c,
                                    origin |-> Unregistered, config |-> Unregistered]]
        /\ opening = [o \in Openings |-> [pc |-> "idle", conn |-> c,
                                          config |-> Unregistered]]

\* Executor::environment_of and marked_read_only, for what is not a
\* configuration command: an unknown connection counts as production.
environment_of(c) == IF cache[c] = Unregistered THEN Production ELSE cache[c].environment
marked_read_only(c) == cache[c] # Unregistered /\ cache[c].read_only

\* What the gate answers to the user for the command an edit dispatches.
EditDecision(e) ==
    IF e.config = Unregistered
    THEN authorize(facts, "human", Other("DeleteConnection", e.conn, Production),
                   environment_of(e.conn))
    ELSE authorize(facts, "human", Other("UpdateConnection", e.conn, e.config.environment),
                   e.config.environment)

-----------------------------------------------------------------------------
(* update_connection *)

\* Mutant: the lock is taken before the host's dialog instead of after it.
mut_BeginUpdate(w) ==
    /\ edit[w].pc = "idle"
    /\ lock = None
    /\ \E c \in Connections, config \in Configs :
        /\ store[c] # Unregistered
        /\ edit' = [edit EXCEPT ![w] =
             [pc |-> IF store[c].environment = config.environment
                     THEN "checking" ELSE "confirming",
              conn |-> c, origin |-> store[c], config |-> config]]
    /\ lock' = w
    /\ UNCHANGED <<store, cache, facts, opening>>

\* Reads the current configuration, computes the edited one, and asks the host
\* when the environment changes.
BeginUpdate(w) ==
    /\ edit[w].pc = "idle"
    /\ \E c \in Connections, config \in Configs :
        /\ store[c] # Unregistered
        /\ edit' = [edit EXCEPT ![w] =
             [pc |-> IF store[c].environment = config.environment
                     THEN "locking" ELSE "confirming",
              conn |-> c, origin |-> store[c], config |-> config]]
    /\ UNCHANGED <<store, cache, facts, lock, opening>>

\* The host's dialog, open for as long as the user leaves it.
Confirm(w) ==
    /\ edit[w].pc \in {"confirming", "confirming_held"}
    /\ edit' = [edit EXCEPT ![w].pc =
         IF @ = "confirming" THEN "locking" ELSE "locking_held"]
    /\ UNCHANGED <<store, cache, facts, lock, opening>>

Refuse(w) ==
    /\ edit[w].pc \in {"confirming", "confirming_held", "held"}
    /\ edit' = [edit EXCEPT ![w].pc = "idle"]
    /\ UNCHANGED <<store, cache, facts, lock, opening>>

TakeLock(w) ==
    /\ lock = None
    /\ edit[w].pc \in {"locking", "locking_held"}
    /\ lock' = w
    /\ edit' = [edit EXCEPT ![w].pc =
         IF @ = "locking" THEN "checking" ELSE "checking_held"]
    /\ UNCHANGED <<store, cache, facts, opening>>

\* The configuration is read again under the lock: one saved meanwhile refuses
\* what was confirmed.  Otherwise the command goes through the gate, and is
\* saved at once or held for an approval.
Check(w) ==
    /\ edit[w].pc = "checking"
    /\ LET e == edit[w]
           after == IF store[e.conn] # e.origin THEN "idle"
                    ELSE IF EditDecision(e) = "Allow" THEN "saving"
                    ELSE IF EditDecision(e) = "RequireApproval" THEN "held"
                    ELSE "idle"
       IN  /\ edit' = [edit EXCEPT ![w].pc = after]
           /\ lock' = IF after = "saving" THEN lock ELSE None
    /\ UNCHANGED <<store, cache, facts, opening>>

\* The save or the deletion, in the blocking task: disk and cache under
\* connection_writes.
Save(w) ==
    /\ edit[w].pc = "saving"
    /\ store' = [store EXCEPT ![edit[w].conn] = edit[w].config]
    /\ cache' = [cache EXCEPT ![edit[w].conn] = edit[w].config]
    /\ edit' = [edit EXCEPT ![w].pc = "registering"]
    /\ UNCHANGED <<facts, lock, opening>>

SaveFails(w) ==
    /\ edit[w].pc = "saving"
    /\ edit' = [edit EXCEPT ![w].pc = "idle"]
    /\ lock' = None
    /\ UNCHANGED <<store, cache, facts, opening>>

\* finish_update and finish_delete: the policy learns it, the lock goes.
Finish(w) ==
    /\ edit[w].pc = "registering"
    /\ facts' = [facts EXCEPT ![edit[w].conn] = edit[w].config]
    /\ edit' = [edit EXCEPT ![w].pc = "idle"]
    /\ lock' = None
    /\ UNCHANGED <<store, cache, opening>>

-----------------------------------------------------------------------------
(* delete_connection: the lock first, then the configuration, then the gate.   *)
BeginDelete(w) ==
    /\ edit[w].pc = "idle"
    /\ lock = None
    /\ \E c \in Connections :
        /\ store[c] # Unregistered
        /\ LET e == [pc |-> "closing", conn |-> c, origin |-> store[c],
                     config |-> Unregistered]
           IN  IF EditDecision(e) = "Allow"
               THEN edit' = [edit EXCEPT ![w] = e] /\ lock' = w
               ELSE edit' = [edit EXCEPT ![w] = [e EXCEPT !.pc = "held"]] /\ lock' = None
    /\ UNCHANGED <<store, cache, facts, opening>>

\* Executor::delete_connection, before its blocking task: the running statements
\* are cancelled, then each session closed, which waits for its lock and its
\* server without a limit; a refused close is only warned of.
CloseSessions(w) ==
    /\ edit[w].pc = "closing"
    /\ edit' = [edit EXCEPT ![w].pc = "saving"]
    /\ UNCHANGED <<store, cache, facts, lock, opening>>

-----------------------------------------------------------------------------
(* decide_connection_change: the approval of a held edit or deletion.           *)

\* confirm_held: the dialog opens when the gate retains production now.
Approve(w) ==
    /\ edit[w].pc = "held"
    /\ LET e == edit[w]
           announced == IF e.config = Unregistered THEN environment_of(e.conn)
                        ELSE e.config.environment
       IN  edit' = [edit EXCEPT ![w].pc =
             IF retain(announced, facts[e.conn]) = Production
             THEN "confirming_held" ELSE "locking_held"]
    /\ UNCHANGED <<store, cache, facts, lock, opening>>

\* What the approved command does first: a deletion closes its sessions.
Approved(w) == IF edit[w].config = Unregistered THEN "closing" ELSE "saving"

\* Mutant: the approved change is saved without reading the store again.
mut_CheckHeld(w) ==
    /\ edit[w].pc = "checking_held"
    /\ edit' = [edit EXCEPT ![w].pc =
         IF EditDecision(edit[w]) # "Deny" THEN Approved(w) ELSE "idle"]
    /\ lock' = IF edit'[w].pc = "idle" THEN None ELSE lock
    /\ UNCHANGED <<store, cache, facts, opening>>

\* Under the lock: a configuration saved since the request refuses the change;
\* otherwise Executor::approve goes through the gate again, and may also find
\* the request expired.
CheckHeld(w) ==
    /\ edit[w].pc = "checking_held"
    /\ \E after \in {Approved(w), "idle"} :
        /\ after # "idle" => /\ store[edit[w].conn] = edit[w].origin
                             /\ EditDecision(edit[w]) # "Deny"
        /\ edit' = [edit EXCEPT ![w].pc = after]
        /\ lock' = IF after = "idle" THEN None ELSE lock
    /\ UNCHANGED <<store, cache, facts, opening>>

-----------------------------------------------------------------------------
(* reconnect, open_console_under, run_object_operation *)

BeginOpening(o) ==
    /\ opening[o].pc = "idle"
    /\ \E c \in Connections :
        /\ store[c] # Unregistered
        /\ opening' = [opening EXCEPT ![o] =
             [pc |-> "registering", conn |-> c, config |-> store[c]]]
    /\ UNCHANGED <<store, cache, facts, lock, edit>>

\* Back from the blocking pool: the policy is told what was read.
RegisterOpening(o) ==
    /\ opening[o].pc = "registering"
    /\ facts' = [facts EXCEPT ![opening[o].conn] = opening[o].config]
    /\ opening' = [opening EXCEPT ![o].pc = "connecting"]
    /\ UNCHANGED <<store, cache, lock, edit>>

\* Mutant: the opening caches the configuration it read, not the saved one.
mut_Connect(o) ==
    /\ opening[o].pc = "connecting"
    /\ cache' = [cache EXCEPT ![opening[o].conn] =
         IF @ = Unregistered THEN opening[o].config ELSE @]
    /\ opening' = [opening EXCEPT ![o].pc = "idle"]
    /\ UNCHANGED <<store, facts, lock, edit>>

\* Command::Connect: connection_config reads and caches under connection_writes
\* what the cache does not hold.
Connect(o) ==
    /\ opening[o].pc = "connecting"
    /\ cache' = [cache EXCEPT ![opening[o].conn] =
         IF @ = Unregistered THEN store[opening[o].conn] ELSE @]
    /\ opening' = [opening EXCEPT ![o].pc = "idle"]
    /\ UNCHANGED <<store, facts, lock, edit>>

-----------------------------------------------------------------------------
EditNext(w) ==
    \/ BeginUpdate(w) \/ BeginDelete(w) \/ Confirm(w) \/ Refuse(w)
    \/ TakeLock(w) \/ Check(w) \/ CloseSessions(w) \/ Save(w) \/ SaveFails(w)
    \/ Finish(w) \/ Approve(w) \/ CheckHeld(w)

OpeningNext(o) == BeginOpening(o) \/ RegisterOpening(o) \/ Connect(o)

Next ==
    \/ \E w \in Edits : EditNext(w)
    \/ \E o \in Openings : OpeningNext(o)

\* The store and the keyring answer the blocking pool: the steps that wait for
\* them are taken.  Nothing is assumed of the user, nor of the server whose
\* sessions a deletion closes: CloseSessions may never be taken.
Fairness ==
    \A w \in Edits :
        /\ WF_vars(Check(w)) /\ WF_vars(CheckHeld(w))
        /\ WF_vars(Save(w) \/ SaveFails(w)) /\ WF_vars(Finish(w))

Spec == Init /\ [][Next]_vars /\ Fairness

-----------------------------------------------------------------------------
(* Properties *)

\* An edit has the lock exactly while it checks, closes, saves and registers, and what
\* it is about to save was computed on the configuration that is on disk:
\* decide_connection_change and update_connection read it again under the lock.
SavesOnOrigin ==
    \A w \in Edits :
        /\ (lock = w) <=> (edit[w].pc \in LockedPcs)
        /\ edit[w].pc \in {"closing", "saving"} => store[edit[w].conn] = edit[w].origin

\* No lost update: a configuration on disk is only ever replaced by an edit
\* computed on that very configuration, however long its dialog or its
\* approval took and whatever was saved meanwhile.
NoLostUpdate ==
    [][\A c \in Connections :
         store'[c] # store[c] =>
            \E w \in Edits : /\ edit[w].pc = "saving"
                             /\ edit[w].conn = c
                             /\ edit[w].origin = store[c]
                             /\ edit[w].config = store'[c]]_vars

\* The executor's cache never disagrees with the disk about a connection it
\* holds: a deletion is not undone by a concurrent opening that caches what it
\* read before it (connection_config, delete_connection).
CacheFollowsStore ==
    \A c \in Connections : cache[c] \in {store[c], Unregistered}

\* Whatever the policy was last told, a write on a connection the disk marks
\* production is never let through without an approval, and never to an agent:
\* the gate retains the more restrictive of the cache's and its own marking.
ProductionIsProtected ==
    \A c \in Connections, cmd \in Executes :
        /\ cmd.target = c
        /\ is_mutating(cmd)
        /\ store[c] # Unregistered /\ store[c].environment = Production
        => /\ authorize(facts, "human", cmd, environment_of(c)) # "Allow"
           /\ authorize(facts, "agent", cmd, environment_of(c)) = "Deny"

\* SECURITY.md, on a connection marked read-only: "The PolicyGate refuses every
\* command classified as mutating there, human included".  Stated once the edit
\* that marked it has finished.
ReadOnlyIsRefused ==
    \A c \in Connections, cmd \in Executes :
        /\ cmd.target = c
        /\ is_mutating(cmd)
        /\ store[c] # Unregistered /\ store[c].read_only
        /\ facts[c] # Unregistered
        /\ \A w \in Edits : ~ (edit[w].pc = "registering" /\ edit[w].conn = c)
        => authorize(facts, "human", cmd, environment_of(c)) = "Deny"

\* Whoever has the lock of the settings gives it back, whatever the user leaves
\* on screen: it is taken after the dialog, which may stay open minutes, never
\* across it.  Only a deletion may keep it, while it closes the sessions of its
\* connection; once they are closed, it gives it back too.
LockIsReleased ==
    \A w \in Edits : lock = w ~> lock # w \/ edit[w].pc = "closing"

\* An agent is never freer than the user on the same command (policy.rs,
\* Decision::restrictiveness), whatever the policy and the executor know.
AgentNeverFreer ==
    \A cmd \in Commands, env \in Environments :
        restrictiveness(authorize(facts, "agent", cmd, env))
            >= restrictiveness(authorize(facts, "human", cmd, env))

\* What the gate lets an agent run at once on a connection that the policy or
\* the executor marks production or read-only leaves bounded to read-only: what
\* the text hides is then the server's to refuse (bounded_to, issue #247).
AgentReadsAreBounded ==
    \A c \in Connections, cmd \in Executes :
        LET env == retained_environment(facts, cmd, environment_of(c))
            ro  == retained_read_only(facts, cmd, marked_read_only(c))
        IN  /\ cmd.target = c
            /\ env = Production \/ ro
            /\ authorize(facts, "agent", cmd, environment_of(c)) = "Allow"
            => bounded_to(cmd, env, ro).read_only
=============================================================================

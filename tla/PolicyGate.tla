----------------------------- MODULE PolicyGate -----------------------------
(* The PolicyGate of oxyn-core (policy.rs), the single passage point of every *)
(* command: what it knows of a connection, the environment it retains, the    *)
(* decision it returns, and the read-only bound oxyn-exec puts on what it lets *)
(* through.  Operators only; PolicyRegistry and Executor give them a state.   *)
EXTENDS Naturals

CONSTANTS
    Connections,    \* the connections of the workspace
    NoConnection,   \* the target of a command that has none
    Unregistered    \* what a registry holds of a connection it was not told about

(* connection.rs: the order of the variants is that of increasing restriction. *)
Local       == 0
Development == 1
Staging     == 2
Production  == 3
Environments == Local .. Production

Actors    == {"human", "agent"}
Decisions == {"Allow", "RequireApproval", "Deny"}
Facts     == [environment : Environments, read_only : BOOLEAN]
Knowledge == Facts \cup {Unregistered}

ASSUME UnregisteredAssumption == Unregistered \notin Facts
ASSUME NoConnectionAssumption == NoConnection \notin Connections

-----------------------------------------------------------------------------
(* Commands.  A command keeps its variant, its target, and of an Execute what  *)
(* the executor's reclassification found in the text; "environment" is the one *)
(* a configuration command carries.                                            *)

ConfigKinds == {"CreateConnection", "UpdateConnection", "TestConnection"}

\* Command::touches_database: what crosses the boundary to the server.
ServerKinds ==
    {"Connect", "Disconnect", "CloseSession", "SetSessionContext", "Execute",
     "Cancel", "RefreshCatalog", "RefreshCatalogScope", "PreviewRelation",
     "Export", "TestConnection"}

\* The commands of a connection that stay in the workspace, and those without
\* a target.
LocalKinds ==
    {"DescribeCatalog", "ReadResultPage", "OpenRetainedResult",
     "InspectResultValue", "CreateConnection", "UpdateConnection",
     "DeleteConnection", "ReadHistory"}
UntargetedKinds ==
    {"ListQueryDocuments", "SaveQueryDocument", "CloseQueryDocument",
     "DeleteQueryDocument", "ReadHistoryEntry", "ReconcileHistoryEntry",
     "ListHistoryConnections", "OpenDocument", "WriteDocument",
     "ReadWorkspacePreferences", "WriteWorkspacePreferences",
     "WriteWindowLayout", "ListAiProviders", "SaveAiProvider",
     "RemoveAiProvider", "ListExternalAgents", "SaveExternalAgent",
     "RemoveExternalAgent"}

Intents == {"Read", "Write", "Ddl", "Grant", "Unknown"}

\* An Execute as reclassified: intent and risk, whether the text steers a
\* transaction (and does nothing else), whether it types a context change, and
\* the read-only limit.
Executes ==
    [kind : {"Execute"}, target : Connections, environment : {Production},
     intent : Intents, risk : BOOLEAN,
     transaction_control : BOOLEAN, only_transactions : BOOLEAN,
     context_change : BOOLEAN, read_only : BOOLEAN]

\* Any other command: Command::intent is fixed by the variant, and there is no
\* request to carry the rest.
DeclaredIntent(kind) ==
    IF kind \in {"CreateConnection", "UpdateConnection", "DeleteConnection"}
    THEN "Ddl"
    ELSE "Read"

Other(kind, target, env) ==
    [kind |-> kind, target |-> target, environment |-> env,
     intent |-> DeclaredIntent(kind), risk |-> FALSE,
     transaction_control |-> FALSE, only_transactions |-> FALSE,
     context_change |-> FALSE, read_only |-> FALSE]

Commands ==
    Executes
    \cup {Other(k, t, Production) :
            k \in (ServerKinds \cup LocalKinds) \ ({"Execute"} \cup ConfigKinds),
            t \in Connections}
    \cup {Other(k, t, e) : k \in ConfigKinds, t \in Connections, e \in Environments}
    \cup {Other(k, NoConnection, Production) : k \in UntargetedKinds \cup {"ReadHistory"}}

is_mutating(cmd) == cmd.intent # "Read" \/ cmd.risk
touches_database(cmd) == cmd.kind \in ServerKinds

-----------------------------------------------------------------------------
(* The gate.  "facts" maps a connection to what the gate knows about it.       *)

known(facts, cmd) ==
    IF cmd.target = NoConnection THEN Unregistered ELSE facts[cmd.target]

Max2(a, b) == IF a < b THEN b ELSE a

\* Mutant of retain: the gate's own marking replaces the announced one.
mut_retain_own(announced, k) ==
    IF k = Unregistered THEN announced ELSE k.environment

\* DefaultPolicy::retain: the more restrictive of the two.
retain(announced, k) ==
    IF k = Unregistered THEN announced ELSE Max2(announced, k.environment)

retained_environment(facts, cmd, announced) == retain(announced, known(facts, cmd))

retained_read_only(facts, cmd, announced) ==
    \/ announced
    \/ known(facts, cmd) # Unregistered /\ known(facts, cmd).read_only

\* What an agent is refused whatever the connection is.
HumanOnlyKinds ==
    {"WriteWorkspacePreferences", "WriteWindowLayout", "SaveAiProvider",
     "RemoveAiProvider", "SaveExternalAgent", "RemoveExternalAgent",
     "TestConnection", "CreateConnection", "UpdateConnection",
     "ReconcileHistoryEntry", "SetSessionContext"}

refused_to_agent(cmd, env) ==
    \/ cmd.kind \in HumanOnlyKinds
    \/ cmd.intent = "Grant"
    \/ cmd.context_change
    \/ cmd.transaction_control
    \/ is_mutating(cmd) /\ env = Production

\* Refused to everyone: a write on a connection whose markings are unknown, or
\* that is marked read-only.
refused_on_connection(cmd, k) ==
    /\ is_mutating(cmd)
    /\ touches_database(cmd)
    /\ cmd.target # NoConnection
    /\ k = Unregistered \/ k.read_only

denied(facts, actor, cmd, env) ==
    \/ actor = "agent" /\ refused_to_agent(cmd, env)
    \/ refused_on_connection(cmd, known(facts, cmd))

\* Mutant: only the risk and production hold a command back
mut_held(actor, cmd, env) ==
    \/ cmd.risk /\ actor = "human"
    \/ is_mutating(cmd) /\ env = Production

held(actor, cmd, env) ==
    \/ cmd.risk
    \/ actor = "agent" /\ is_mutating(cmd)
    \/ is_mutating(cmd) /\ env = Production

\* DefaultPolicy::authorize: the refusals first, then the approvals.
authorize(facts, actor, cmd, announced) ==
    LET env == retained_environment(facts, cmd, announced) IN
    IF denied(facts, actor, cmd, env) THEN "Deny"
    ELSE IF held(actor, cmd, env) THEN "RequireApproval"
    ELSE "Allow"

restrictiveness(decision) ==
    CASE decision = "Allow" -> 0
      [] decision = "RequireApproval" -> 1
      [] decision = "Deny" -> 2

-----------------------------------------------------------------------------
\* Mutant: the bound follows the environment only, not the read-only marking
mut_bounded_to(cmd, env, read_only) ==
    IF /\ cmd.kind = "Execute"
       /\ env = Production
       /\ ~ is_mutating(cmd)
       /\ ~ (cmd.transaction_control /\ cmd.only_transactions)
    THEN [cmd EXCEPT !.read_only = TRUE]
    ELSE cmd

(* oxyn-exec: a read aimed at production or at a read-only connection leaves   *)
(* bounded to a read-only execution; a text made only of transaction verbs is  *)
(* not a read.                                                                 *)
bounded_to(cmd, env, read_only) ==
    IF /\ cmd.kind = "Execute"
       /\ env = Production \/ read_only
       /\ ~ is_mutating(cmd)
       /\ ~ (cmd.transaction_control /\ cmd.only_transactions)
    THEN [cmd EXCEPT !.read_only = TRUE]
    ELSE cmd
=============================================================================

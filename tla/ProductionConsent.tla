-------------------------- MODULE ProductionConsent --------------------------
(* What the application promises of a held command (docs/adr, ADR-0037): on a   *)
(* production connection it passes only from "agreed", which only follows       *)
(* "shown", and what has passed or ended stays so.  A dialog that leads to      *)
(* nothing, or an approval that could not start, leaves the request waiting.    *)
CONSTANT Whats      \* the requests

VARIABLE verdict    \* where each request stands

Verdicts == {"absent", "waiting", "exempt", "shown", "agreed", "granted", "ended"}
Open == {"waiting", "exempt", "shown", "agreed"}

\* The only changes of a request, in one step of the application.
Moves ==
    {<<"absent", "waiting">>, <<"waiting", "exempt">>, <<"waiting", "shown">>,
     <<"exempt", "waiting">>, <<"exempt", "granted">>,
     <<"shown", "waiting">>, <<"shown", "agreed">>,
     <<"agreed", "waiting">>, <<"agreed", "granted">>}
    \cup ({"absent"} \cup Open) \X {"ended"}

Init == verdict = [w \in Whats |-> "absent"]

\* One step may change several requests: a purge ends all the stale ones.
Next ==
    /\ verdict' \in [Whats -> Verdicts]
    /\ \A w \in Whats :
        verdict'[w] # verdict[w] => <<verdict[w], verdict'[w]>> \in Moves

Spec == Init /\ [][Next]_verdict
=============================================================================

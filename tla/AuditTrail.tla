----------------------------- MODULE AuditTrail -----------------------------
(* The audit trail around every command of the executor (oxyn-exec:             *)
(* executor.rs, abandon.rs).  A command's future submits each audit write to    *)
(* the blocking pool and awaits it; the future may be dropped at any await, but *)
(* a write once submitted belongs to the pool, whose threads run the writes in  *)
(* any order.  What a dropped future leaves is queued in memory for a periodic  *)
(* writer.  Any write may fail, and the process may die.                        *)
EXTENDS Integers, FiniteSets

CONSTANTS
    Ids,                    \* command identifiers, each given to one command
    MAX_PENDING_OUTCOMES    \* the abandoned outcomes that may wait

ASSUME IdsAssumption == IsFiniteSet(Ids)
ASSUME MaxAssumption == MAX_PENDING_OUTCOMES \in Nat

VARIABLES
    pc,         \* where each command's future is
    ready,      \* what the write it awaits answered
    jobs,       \* the writes of each command submitted to the blocking pool
    pending,    \* the approval registry
    driver,     \* how many times each command reached execute_command
    decisions,  \* the journal: the decisions on each command
    known,      \* the journal: how many outcomes of an execution that ended
    ambiguous,  \* the journal: how many outcomes "abandoned, unknown"
    history,    \* the query history's row of each command
    abandoned,  \* AbandonedOutcomes.queue
    lost,       \* the outcomes AbandonedOutcomes counted as lost
    unwritten,  \* commands whose outcome the store refused: said in a trace only
    alive       \* the process lives

journal == <<decisions, known, ambiguous>>
vars == <<pc, ready, jobs, pending, driver, decisions, known, ambiguous, history,
          abandoned, lost, unwritten, alive>>

\* "new" and "ended" aside, the awaits of dispatch_as, approve and run.
Waiting == {"denying", "holding", "starting", "finishing"}
Pcs == {"new", "held", "executing", "ended"} \cup Waiting

Verdicts == {"Allow", "RequireApproval", "Deny"}

\* What each write is for, and the await its future is then at.
Results == {"succeeded", "failed"}
OutcomeKinds == Results \cup {"abandoned"}
Kinds == {"deny", "hold", "start"} \cup OutcomeKinds
Awaits(kind) ==
    CASE kind = "deny" -> "denying"
      [] kind = "hold" -> "holding"
      [] kind = "start" -> "starting"
      [] kind \in Results -> "finishing"
      [] OTHER -> "none"

TypeOK ==
    /\ pc \in [Ids -> Pcs]
    /\ ready \in [Ids -> {"none", "ok", "err"}]
    /\ jobs \in [Ids -> SUBSET Kinds]
    /\ pending \subseteq Ids
    /\ driver \in [Ids -> Nat]
    /\ decisions \in [Ids -> SUBSET {"Deny", "RequireApproval", "Go"}]
    /\ known \in [Ids -> Nat] /\ ambiguous \in [Ids -> Nat]
    /\ history \in [Ids -> {"none", "denied", "running", "succeeded", "failed"}]
    /\ abandoned \subseteq Ids /\ Cardinality(abandoned) <= MAX_PENDING_OUTCOMES
    /\ lost \subseteq Ids /\ unwritten \subseteq Ids
    /\ alive \in BOOLEAN

Init ==
    /\ pc = [c \in Ids |-> "new"] /\ ready = [c \in Ids |-> "none"]
    /\ jobs = [c \in Ids |-> {}] /\ pending = {}
    /\ driver = [c \in Ids |-> 0]
    /\ decisions = [c \in Ids |-> {}]
    /\ known = [c \in Ids |-> 0] /\ ambiguous = [c \in Ids |-> 0]
    /\ history = [c \in Ids |-> "none"]
    /\ abandoned = {} /\ lost = {} /\ unwritten = {}
    /\ alive = TRUE

-----------------------------------------------------------------------------
(* The command's future *)

\* write_audit: the write is submitted before the future first waits for it.
Submit(c, kind) ==
    /\ jobs' = [jobs EXCEPT ![c] = @ \cup {kind}]
    /\ pc' = [pc EXCEPT ![c] = Awaits(kind)]
    /\ ready' = [ready EXCEPT ![c] = "none"]

\* Mutant: the request is set aside before its decision is written.
mut_dispatch_as(c, verdict) ==
    /\ pc[c] = "new"
    /\ Submit(c, CASE verdict = "Deny" -> "deny"
                   [] verdict = "RequireApproval" -> "hold"
                   [] OTHER -> "start")
    /\ pending' = IF verdict = "RequireApproval" THEN pending \cup {c} ELSE pending
    /\ UNCHANGED <<driver, journal, history, abandoned, lost, unwritten, alive>>

\* dispatch_as, whatever the gate answers: that is journaled first.
dispatch_as(c, verdict) ==
    /\ pc[c] = "new"
    /\ Submit(c, CASE verdict = "Deny" -> "deny"
                   [] verdict = "RequireApproval" -> "hold"
                   [] OTHER -> "start")
    /\ UNCHANGED <<pending, driver, journal, history, abandoned, lost, unwritten, alive>>

\* The denial is answered, however its two writes went.
Denied(c) ==
    /\ pc[c] = "denying" /\ ready[c] # "none"
    /\ pc' = [pc EXCEPT ![c] = "ended"]
    /\ UNCHANGED <<ready, jobs, pending, driver, journal, history, abandoned, lost,
                   unwritten, alive>>

\* A command is set aside once that decision is written, unless the registry
\* refuses it.
Hold(c) ==
    /\ pc[c] = "holding" /\ ready[c] # "none"
    /\ \/ /\ ready[c] = "ok"
          /\ pc' = [pc EXCEPT ![c] = "held"]
          /\ pending' = pending \cup {c}
       \/ /\ pc' = [pc EXCEPT ![c] = "ended"]
          /\ UNCHANGED pending
    /\ UNCHANGED <<ready, jobs, driver, journal, history, abandoned, lost, unwritten, alive>>

\* Mutant: the late denial is journaled, and the command runs all the same.
mut_approve(c, verdict) ==
    /\ c \in pending
    /\ pending' = pending \ {c}
    /\ jobs' = [jobs EXCEPT ![c] = @ \cup {"start", IF verdict = "Deny" THEN "deny" ELSE "start"}]
    /\ pc' = [pc EXCEPT ![c] = "starting"]
    /\ ready' = [ready EXCEPT ![c] = "none"]
    /\ UNCHANGED <<driver, journal, history, abandoned, lost, unwritten, alive>>

\* approve: takes the request, then asks the gate again.  A denial wins; the
\* rest of the verdicts run the command.
approve(c, verdict) ==
    /\ c \in pending
    /\ pending' = pending \ {c}
    /\ Submit(c, IF verdict = "Deny" THEN "deny" ELSE "start")
    /\ UNCHANGED <<driver, journal, history, abandoned, lost, unwritten, alive>>

\* reject, expire or sweep: the request is answered no, or not answered.
Forget(c) ==
    /\ c \in pending
    /\ pending' = pending \ {c}
    /\ pc' = [pc EXCEPT ![c] = "ended"]
    /\ UNCHANGED <<ready, jobs, driver, journal, history, abandoned, lost, unwritten, alive>>

\* Mutant: the command runs without waiting for its decision to be written.
mut_Execute(c) ==
    /\ pc[c] = "starting" /\ ready[c] # "err"
    /\ pc' = [pc EXCEPT ![c] = "executing"]
    /\ driver' = [driver EXCEPT ![c] = @ + 1]
    /\ UNCHANGED <<ready, jobs, pending, journal, history, abandoned, lost, unwritten, alive>>

\* run: a decision that could not be written settles the guard, runs nothing.
Execute(c) ==
    /\ pc[c] = "starting" /\ ready[c] # "none"
    /\ IF ready[c] = "ok"
       THEN /\ pc' = [pc EXCEPT ![c] = "executing"]
            /\ driver' = [driver EXCEPT ![c] = @ + 1]
       ELSE /\ pc' = [pc EXCEPT ![c] = "ended"]
            /\ UNCHANGED driver
    /\ UNCHANGED <<ready, jobs, pending, journal, history, abandoned, lost, unwritten, alive>>

\* The execution ends: the guard is settled and the outcome submitted, with no
\* await in between.
Settle(c, result) ==
    /\ pc[c] = "executing"
    /\ Submit(c, result)
    /\ UNCHANGED <<pending, driver, journal, history, abandoned, lost, unwritten, alive>>

Finished(c) ==
    /\ pc[c] = "finishing" /\ ready[c] # "none"
    /\ pc' = [pc EXCEPT ![c] = "ended"]
    /\ UNCHANGED <<ready, jobs, pending, driver, journal, history, abandoned, lost,
                   unwritten, alive>>

\* Mutant: the guard is armed once the decision is written.
mut_Armed(c) == pc[c] = "executing"

\* Mutant: the guard is settled once the outcome is written.
mut_Armed_late(c) == pc[c] \in {"starting", "executing", "finishing"}

\* Where OutcomeGuard is armed: from the verdict until the execution's end.
Armed(c) == pc[c] \in {"starting", "executing"}

\* The future is dropped at an await.  An armed guard queues an outcome without
\* waiting: a full queue, or its lock held at that instant, loses it.
Drop(c) ==
    /\ pc[c] \in Waiting \cup {"executing"}
    /\ pc' = [pc EXCEPT ![c] = "ended"]
    /\ \/ /\ Armed(c)
          /\ \/ /\ Cardinality(abandoned) < MAX_PENDING_OUTCOMES
                /\ abandoned' = abandoned \cup {c}
                /\ UNCHANGED lost
             \/ /\ lost' = lost \cup {c}
                /\ UNCHANGED abandoned
       \/ /\ ~ Armed(c)
          /\ UNCHANGED <<abandoned, lost>>
    /\ UNCHANGED <<ready, jobs, pending, driver, journal, history, unwritten, alive>>

-----------------------------------------------------------------------------
(* The blocking pool *)

\* The write is done, and answers the future if it is still there.
Done(c, kind, answer) ==
    /\ kind \in jobs[c]
    /\ jobs' = [jobs EXCEPT ![c] = @ \ {kind}]
    /\ ready' = IF pc[c] = Awaits(kind) THEN [ready EXCEPT ![c] = answer] ELSE ready
    /\ UNCHANGED <<pc, pending, driver, abandoned, lost, alive>>

Record(c, decision) == decisions' = [decisions EXCEPT ![c] = @ \cup {decision}]
Row(c, status) == history' = [history EXCEPT ![c] = status]

\* The denial and its row are attempted independently.
WriteDenial(c) ==
    /\ Done(c, "deny", "ok")
    /\ Record(c, "Deny") \/ UNCHANGED decisions
    /\ Row(c, "denied") \/ UNCHANGED history
    /\ UNCHANGED <<known, ambiguous, unwritten>>

WriteHold(c) ==
    /\ \/ Done(c, "hold", "ok") /\ Record(c, "RequireApproval")
       \/ Done(c, "hold", "err") /\ UNCHANGED decisions
    /\ UNCHANGED <<known, ambiguous, history, unwritten>>

\* The decision, then, only if it was written, the row "running".  A command
\* without a row, or whose row could not be written, goes on.
WriteStart(c) ==
    /\ \/ /\ Done(c, "start", "ok")
          /\ Record(c, "Go")
          /\ Row(c, "running") \/ UNCHANGED history
       \/ Done(c, "start", "err") /\ UNCHANGED <<decisions, history>>
    /\ UNCHANGED <<known, ambiguous, unwritten>>

\* The outcome, and the row if there is one, each attempted.
WriteOutcome(c, result) ==
    /\ Done(c, result, "ok")
    /\ \/ known' = [known EXCEPT ![c] = @ + 1] /\ UNCHANGED unwritten
       \/ unwritten' = unwritten \cup {c} /\ UNCHANGED known
    /\ (history[c] = "running" /\ Row(c, result)) \/ UNCHANGED history
    /\ UNCHANGED <<decisions, ambiguous>>

\* append_outcomes, on one of the records taken.
WriteAbandoned(c) ==
    /\ Done(c, "abandoned", "ok")
    /\ \/ ambiguous' = [ambiguous EXCEPT ![c] = @ + 1] /\ UNCHANGED unwritten
       \/ unwritten' = unwritten \cup {c} /\ UNCHANGED ambiguous
    /\ UNCHANGED <<decisions, known, history>>

\* Mutant: the queue is only taken while nothing executes.
mut_journal_abandoned ==
    /\ abandoned # {}
    /\ \A c \in Ids : pc[c] # "executing"
    /\ jobs' = [c \in Ids |-> IF c \in abandoned THEN jobs[c] \cup {"abandoned"} ELSE jobs[c]]
    /\ abandoned' = {}
    /\ UNCHANGED <<pc, ready, pending, driver, journal, history, lost, unwritten, alive>>

\* journal_abandoned: every second, and twice in shutdown.  What is taken from
\* the queue belongs to the pool from then on.
journal_abandoned ==
    /\ abandoned # {}
    /\ jobs' = [c \in Ids |-> IF c \in abandoned THEN jobs[c] \cup {"abandoned"} ELSE jobs[c]]
    /\ abandoned' = {}
    /\ UNCHANGED <<pc, ready, pending, driver, journal, history, lost, unwritten, alive>>

\* The process dies: only what the store holds is left.
Crash ==
    /\ alive' = FALSE
    /\ pc' = [c \in Ids |-> "ended"]
    /\ jobs' = [c \in Ids |-> {}] /\ pending' = {} /\ abandoned' = {}
    /\ UNCHANGED <<ready, driver, journal, history, lost, unwritten>>

-----------------------------------------------------------------------------
FutureNext(c) ==
    \/ \E verdict \in Verdicts : dispatch_as(c, verdict) \/ approve(c, verdict)
    \/ Denied(c) \/ Hold(c) \/ Forget(c) \/ Execute(c)
    \/ \E result \in Results : Settle(c, result)
    \/ Finished(c) \/ Drop(c)

PoolNext(c) ==
    \/ WriteDenial(c) \/ WriteHold(c) \/ WriteStart(c) \/ WriteAbandoned(c)
    \/ \E result \in Results : WriteOutcome(c, result)

Next ==
    /\ alive
    /\ \/ \E c \in Ids : FutureNext(c) \/ PoolNext(c)
       \/ journal_abandoned
       \/ Crash

\* The pool runs what is submitted to it, and the periodic writer runs.
Fairness ==
    /\ \A c \in Ids : WF_vars(alive /\ PoolNext(c))
    /\ WF_vars(alive /\ journal_abandoned)

Spec == Init /\ [][Next]_vars /\ Fairness

-----------------------------------------------------------------------------
(* Properties *)

\* Nothing reaches a driver before its authorisation is in the journal, though
\* the write is another thread's, may fail, and the process may die (run).
DecidedBeforeRun ==
    \A c \in Ids : driver[c] > 0 => "Go" \in decisions[c]

\* What the user is asked to approve is in the journal: an approval, however
\* early, never runs a command whose first decision was not written
\* (dispatch_as).
HeldIsJournaled ==
    \A c \in Ids : c \in pending => "RequireApproval" \in decisions[c]

\* A command reaches its driver at most once, and never once the gate has
\* denied it, before or after the user approved (approve).
RunsOnceUndenied ==
    \A c \in Ids :
        /\ driver[c] <= 1
        /\ "Deny" \in decisions[c] \/ history[c] = "denied" => driver[c] = 0

OutcomeComing(c) ==
    c \in abandoned \/ \E kind \in OutcomeKinds : kind \in jobs[c]

\* A command has one outcome in the journal at most, never one that says how it
\* ended and one that says nobody knows; and an abandoned command's history row
\* is not concluded either (run, OutcomeGuard).
OneOutcome ==
    \A c \in Ids :
        /\ known[c] + ambiguous[c] <= 1
        /\ known[c] + ambiguous[c] = 1 => ~ OutcomeComing(c)
        /\ ambiguous[c] = 1 => history[c] \notin {"succeeded", "failed", "denied"}

\* No authorised command is without an outcome once its future is gone: it is
\* in the journal, on its way there, or reported as lost or refused by the store
\* (OutcomeGuard, write_audit).
TrailIsWhole ==
    \A c \in Ids :
        alive /\ pc[c] = "ended" /\ "Go" \in decisions[c] =>
            \/ known[c] + ambiguous[c] = 1
            \/ OutcomeComing(c)
            \/ c \in lost \cup unwritten

\* Whatever its future became, the outcome of a command that left its driver
\* gets to the journal, or its loss is reported.
OutcomeIsWritten ==
    \A c \in Ids :
        (driver[c] > 0 /\ pc[c] # "executing") ~>
            \/ known[c] + ambiguous[c] = 1
            \/ c \in lost \cup unwritten
            \/ ~ alive
=============================================================================

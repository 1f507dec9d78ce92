------------------------- MODULE AuditTrail_proofs -------------------------
(* The audit trail holds for any number of commands, any bound of the queue of  *)
(* abandoned outcomes and any order of the pool's writes.  The inductive        *)
(* invariant follows one command: what its future knows, what its writes may    *)
(* still do, and where its one outcome is.                                      *)
EXTENDS AuditTrail, FiniteSetTheorems, TLAPS

\* The outcome of a command nobody followed to its end, wherever it is.
Unfollowed(c) == c \in abandoned \/ "abandoned" \in jobs[c] \/ ambiguous[c] > 0

\* The outcome of a command followed to its end, wherever it is.
Followed(c) == known[c] > 0 \/ "succeeded" \in jobs[c] \/ "failed" \in jobs[c]

DenialMade(c) == "Deny" \in decisions[c] \/ history[c] = "denied" \/ "deny" \in jobs[c]

\* The gate and the registry: what is set aside was journaled, what was denied
\* did not run.
Gated(c) ==
    /\ c \in pending => pc[c] = "held" /\ "RequireApproval" \in decisions[c]
    /\ pc[c] = "holding" /\ ready[c] = "ok" => "RequireApproval" \in decisions[c]
    /\ DenialMade(c) => /\ driver[c] = 0 /\ pc[c] \in {"denying", "ended"}
                        /\ ~ Followed(c) /\ ~ Unfollowed(c)

\* The execution: it starts on a written decision, once.
Run(c) ==
    /\ driver[c] <= 1
    /\ driver[c] > 0 => "Go" \in decisions[c] /\ pc[c] \in {"executing", "finishing", "ended"}
    /\ pc[c] = "starting" /\ ready[c] = "ok" => "Go" \in decisions[c]
    /\ pc[c] = "starting" /\ ready[c] = "err" => "Go" \notin decisions[c] /\ "start" \notin jobs[c]
    /\ pc[c] \in {"new", "denying", "holding", "held"} =>
         "Go" \notin decisions[c] /\ "start" \notin jobs[c]
    /\ "start" \in jobs[c] => "Go" \notin decisions[c]

\* The outcome: one at most, in one place, and one for every authorised command.
Concluded(c) ==
    /\ Followed(c) \/ Unfollowed(c) => pc[c] \in {"finishing", "ended"}
    /\ Followed(c) => ~ Unfollowed(c)
    /\ known[c] <= 1 /\ ambiguous[c] <= 1
    /\ known[c] > 0 => "succeeded" \notin jobs[c] /\ "failed" \notin jobs[c]
    /\ "succeeded" \in jobs[c] => "failed" \notin jobs[c]
    /\ ambiguous[c] > 0 => c \notin abandoned /\ "abandoned" \notin jobs[c]
    /\ c \in abandoned => "abandoned" \notin jobs[c]
    /\ Unfollowed(c) => pc[c] = "ended" /\ history[c] \notin {"succeeded", "failed"}
    /\ history[c] \in {"succeeded", "failed"} => pc[c] \in {"finishing", "ended"}
    /\ alive /\ pc[c] \in {"finishing", "ended"} /\ ("Go" \in decisions[c] \/ "start" \in jobs[c]) =>
         Followed(c) \/ Unfollowed(c) \/ c \in lost \cup unwritten

Trail(c) == Gated(c) /\ Run(c) /\ Concluded(c)

AuditInv == TypeOK /\ \A c \in Ids : Trail(c)

-----------------------------------------------------------------------------
\* A queue below its bound stays within it when one is added.
LEMMA OneMore ==
    ASSUME NEW S \in SUBSET Ids, Cardinality(S) < MAX_PENDING_OUTCOMES, NEW c \in Ids
    PROVE  Cardinality(S \cup {c}) <= MAX_PENDING_OUTCOMES
<1>1. IsFiniteSet(S)
  BY IdsAssumption, FS_Subset
<1>2. Cardinality(S) \in Nat /\ Cardinality(S \cup {c}) \in Nat
  BY <1>1, FS_AddElement, FS_CardinalityType
<1>3. Cardinality(S \cup {c}) = Cardinality(S) \/ Cardinality(S \cup {c}) = Cardinality(S) + 1
  BY <1>1, FS_AddElement
<1> QED
  BY <1>2, <1>3, MaxAssumption

\* A step that leaves everything of a command alone keeps what is said of it.
LEMMA Frame ==
    ASSUME NEW i \in Ids, Trail(i),
           pc'[i] = pc[i], ready'[i] = ready[i], jobs'[i] = jobs[i], driver'[i] = driver[i],
           decisions'[i] = decisions[i], known'[i] = known[i], ambiguous'[i] = ambiguous[i],
           history'[i] = history[i], i \in pending' <=> i \in pending,
           i \in abandoned' <=> i \in abandoned, i \in lost' <=> i \in lost,
           i \in unwritten' <=> i \in unwritten, alive' = alive
    PROVE  Trail(i)'
BY DEF Trail, Gated, Run, Concluded, Followed, Unfollowed, DenialMade

\* Nothing at the start.
LEMMA InitAuditInv == Init => AuditInv
<1> SUFFICES ASSUME Init PROVE AuditInv
  OBVIOUS
<1>1. TypeOK
  BY FS_EmptySet, MaxAssumption DEF Init, TypeOK, Pcs
<1>2. ASSUME NEW c \in Ids PROVE Trail(c)
  BY DEF Init, Trail, Gated, Run, Concluded, Followed, Unfollowed, DenialMade
<1> QED
  BY <1>1, <1>2 DEF AuditInv

\* One command's future or write: the others are left alone.
LEMMA CommandKeepsInv ==
    ASSUME AuditInv, alive, NEW c \in Ids, FutureNext(c) \/ PoolNext(c)
    PROVE  AuditInv'
<1> USE DEF Pcs, Waiting, Kinds, OutcomeKinds, Results, Awaits, journal
<1>0. TypeOK /\ Trail(c) /\ \A i \in Ids : Trail(i)
  BY DEF AuditInv
<1>1. ASSUME NEW v \in Verdicts, dispatch_as(c, v) PROVE AuditInv'
  <2>1. TypeOK'
    BY <1>0, <1>1 DEF TypeOK, dispatch_as, Submit, Verdicts
  <2>2. Trail(c)'
    <3>1. Gated(c)'
      BY <1>0, <1>1 DEF TypeOK, dispatch_as, Submit, Verdicts, Trail, Gated, Run, Concluded, Followed, Unfollowed, DenialMade
    <3>2. Run(c)'
      BY <1>0, <1>1 DEF TypeOK, dispatch_as, Submit, Verdicts, Trail, Gated, Run, Concluded, Followed, Unfollowed, DenialMade
    <3>3. Concluded(c)'
      BY <1>0, <1>1 DEF TypeOK, dispatch_as, Submit, Verdicts, Trail, Gated, Run, Concluded, Followed, Unfollowed, DenialMade
    <3> QED
      BY <3>1, <3>2, <3>3 DEF Trail
  <2>3. ASSUME NEW i \in Ids, i # c PROVE Trail(i)'
    BY <1>0, <1>1, <2>3, Frame DEF TypeOK, dispatch_as, Submit, Verdicts
  <2> QED
    BY <2>1, <2>2, <2>3 DEF AuditInv
<1>2. ASSUME NEW v \in Verdicts, approve(c, v) PROVE AuditInv'
  <2>1. TypeOK'
    BY <1>0, <1>2 DEF TypeOK, approve, Submit
  <2>2. Trail(c)'
    <3>1. Gated(c)'
      BY <1>0, <1>2 DEF TypeOK, approve, Submit, Trail, Gated, Run, Concluded, Followed, Unfollowed, DenialMade
    <3>2. Run(c)'
      BY <1>0, <1>2 DEF TypeOK, approve, Submit, Trail, Gated, Run, Concluded, Followed, Unfollowed, DenialMade
    <3>3. Concluded(c)'
      BY <1>0, <1>2 DEF TypeOK, approve, Submit, Trail, Gated, Run, Concluded, Followed, Unfollowed, DenialMade
    <3> QED
      BY <3>1, <3>2, <3>3 DEF Trail
  <2>3. ASSUME NEW i \in Ids, i # c PROVE Trail(i)'
    BY <1>0, <1>2, <2>3, Frame DEF TypeOK, approve, Submit
  <2> QED
    BY <2>1, <2>2, <2>3 DEF AuditInv
<1>3. ASSUME Denied(c) PROVE AuditInv'
  <2>1. TypeOK'
    BY <1>0, <1>3 DEF TypeOK, Denied
  <2>2. Trail(c)'
    <3>1. Gated(c)'
      BY <1>0, <1>3 DEF TypeOK, Denied, Trail, Gated, Run, Concluded, Followed, Unfollowed, DenialMade
    <3>2. Run(c)'
      BY <1>0, <1>3 DEF TypeOK, Denied, Trail, Gated, Run, Concluded, Followed, Unfollowed, DenialMade
    <3>3. Concluded(c)'
      BY <1>0, <1>3 DEF TypeOK, Denied, Trail, Gated, Run, Concluded, Followed, Unfollowed, DenialMade
    <3> QED
      BY <3>1, <3>2, <3>3 DEF Trail
  <2>3. ASSUME NEW i \in Ids, i # c PROVE Trail(i)'
    BY <1>0, <1>3, <2>3, Frame DEF TypeOK, Denied
  <2> QED
    BY <2>1, <2>2, <2>3 DEF AuditInv
<1>4. ASSUME Hold(c) PROVE AuditInv'
  <2>1. TypeOK'
    BY <1>0, <1>4 DEF TypeOK, Hold
  <2>2. Trail(c)'
    <3>1. Gated(c)'
      BY <1>0, <1>4 DEF TypeOK, Hold, Trail, Gated, Run, Concluded, Followed, Unfollowed, DenialMade
    <3>2. Run(c)'
      BY <1>0, <1>4 DEF TypeOK, Hold, Trail, Gated, Run, Concluded, Followed, Unfollowed, DenialMade
    <3>3. Concluded(c)'
      BY <1>0, <1>4 DEF TypeOK, Hold, Trail, Gated, Run, Concluded, Followed, Unfollowed, DenialMade
    <3> QED
      BY <3>1, <3>2, <3>3 DEF Trail
  <2>3. ASSUME NEW i \in Ids, i # c PROVE Trail(i)'
    BY <1>0, <1>4, <2>3, Frame DEF TypeOK, Hold
  <2> QED
    BY <2>1, <2>2, <2>3 DEF AuditInv
<1>5. ASSUME Forget(c) PROVE AuditInv'
  <2>1. TypeOK'
    BY <1>0, <1>5 DEF TypeOK, Forget
  <2>2. Trail(c)'
    <3>1. Gated(c)'
      BY <1>0, <1>5 DEF TypeOK, Forget, Trail, Gated, Run, Concluded, Followed, Unfollowed, DenialMade
    <3>2. Run(c)'
      BY <1>0, <1>5 DEF TypeOK, Forget, Trail, Gated, Run, Concluded, Followed, Unfollowed, DenialMade
    <3>3. Concluded(c)'
      BY <1>0, <1>5 DEF TypeOK, Forget, Trail, Gated, Run, Concluded, Followed, Unfollowed, DenialMade
    <3> QED
      BY <3>1, <3>2, <3>3 DEF Trail
  <2>3. ASSUME NEW i \in Ids, i # c PROVE Trail(i)'
    BY <1>0, <1>5, <2>3, Frame DEF TypeOK, Forget
  <2> QED
    BY <2>1, <2>2, <2>3 DEF AuditInv
<1>6. ASSUME Execute(c) PROVE AuditInv'
  <2>1. TypeOK'
    BY <1>0, <1>6 DEF TypeOK, Execute
  <2>2. Trail(c)'
    <3>1. Gated(c)'
      BY <1>0, <1>6 DEF TypeOK, Execute, Trail, Gated, Run, Concluded, Followed, Unfollowed, DenialMade
    <3>2. Run(c)'
      BY <1>0, <1>6 DEF TypeOK, Execute, Trail, Gated, Run, Concluded, Followed, Unfollowed, DenialMade
    <3>3. Concluded(c)'
      BY <1>0, <1>6 DEF TypeOK, Execute, Trail, Gated, Run, Concluded, Followed, Unfollowed, DenialMade
    <3> QED
      BY <3>1, <3>2, <3>3 DEF Trail
  <2>3. ASSUME NEW i \in Ids, i # c PROVE Trail(i)'
    BY <1>0, <1>6, <2>3, Frame DEF TypeOK, Execute
  <2> QED
    BY <2>1, <2>2, <2>3 DEF AuditInv
<1>7. ASSUME NEW r \in Results, Settle(c, r) PROVE AuditInv'
  <2>1. TypeOK'
    BY <1>0, <1>7 DEF TypeOK, Settle, Submit
  <2>2. Trail(c)'
    <3>1. Gated(c)'
      BY <1>0, <1>7 DEF TypeOK, Settle, Submit, Trail, Gated, Run, Concluded, Followed, Unfollowed, DenialMade
    <3>2. Run(c)'
      BY <1>0, <1>7 DEF TypeOK, Settle, Submit, Trail, Gated, Run, Concluded, Followed, Unfollowed, DenialMade
    <3>3. Concluded(c)'
      BY <1>0, <1>7 DEF TypeOK, Settle, Submit, Trail, Gated, Run, Concluded, Followed, Unfollowed, DenialMade
    <3> QED
      BY <3>1, <3>2, <3>3 DEF Trail
  <2>3. ASSUME NEW i \in Ids, i # c PROVE Trail(i)'
    BY <1>0, <1>7, <2>3, Frame DEF TypeOK, Settle, Submit
  <2> QED
    BY <2>1, <2>2, <2>3 DEF AuditInv
<1>8. ASSUME Finished(c) PROVE AuditInv'
  <2>1. TypeOK'
    BY <1>0, <1>8 DEF TypeOK, Finished
  <2>2. Trail(c)'
    <3>1. Gated(c)'
      BY <1>0, <1>8 DEF TypeOK, Finished, Trail, Gated, Run, Concluded, Followed, Unfollowed, DenialMade
    <3>2. Run(c)'
      BY <1>0, <1>8 DEF TypeOK, Finished, Trail, Gated, Run, Concluded, Followed, Unfollowed, DenialMade
    <3>3. Concluded(c)'
      BY <1>0, <1>8 DEF TypeOK, Finished, Trail, Gated, Run, Concluded, Followed, Unfollowed, DenialMade
    <3> QED
      BY <3>1, <3>2, <3>3 DEF Trail
  <2>3. ASSUME NEW i \in Ids, i # c PROVE Trail(i)'
    BY <1>0, <1>8, <2>3, Frame DEF TypeOK, Finished
  <2> QED
    BY <2>1, <2>2, <2>3 DEF AuditInv
<1>9. ASSUME Drop(c) PROVE AuditInv'
  <2>1. TypeOK'
    BY <1>0, <1>9, OneMore DEF TypeOK, Drop, Armed, Waiting
  <2>2. Trail(c)'
    <3>1. Gated(c)'
      BY <1>0, <1>9 DEF TypeOK, Drop, Armed, Waiting, Trail, Gated, Run, Concluded, Followed, Unfollowed, DenialMade
    <3>2. Run(c)'
      BY <1>0, <1>9 DEF TypeOK, Drop, Armed, Waiting, Trail, Gated, Run, Concluded, Followed, Unfollowed, DenialMade
    <3>3. Concluded(c)'
      BY <1>0, <1>9 DEF TypeOK, Drop, Armed, Waiting, Trail, Gated, Run, Concluded, Followed, Unfollowed, DenialMade
    <3> QED
      BY <3>1, <3>2, <3>3 DEF Trail
  <2>3. ASSUME NEW i \in Ids, i # c PROVE Trail(i)'
    BY <1>0, <1>9, <2>3, Frame DEF TypeOK, Drop, Armed, Waiting
  <2> QED
    BY <2>1, <2>2, <2>3 DEF AuditInv
<1>10. ASSUME WriteDenial(c) PROVE AuditInv'
  <2>1. TypeOK'
    BY <1>0, <1>10 DEF TypeOK, WriteDenial, Done, Record, Row
  <2>2. Trail(c)'
    <3>1. Gated(c)'
      BY <1>0, <1>10 DEF TypeOK, WriteDenial, Done, Record, Row, Trail, Gated, Run, Concluded, Followed, Unfollowed, DenialMade
    <3>2. Run(c)'
      BY <1>0, <1>10 DEF TypeOK, WriteDenial, Done, Record, Row, Trail, Gated, Run, Concluded, Followed, Unfollowed, DenialMade
    <3>3. Concluded(c)'
      BY <1>0, <1>10 DEF TypeOK, WriteDenial, Done, Record, Row, Trail, Gated, Run, Concluded, Followed, Unfollowed, DenialMade
    <3> QED
      BY <3>1, <3>2, <3>3 DEF Trail
  <2>3. ASSUME NEW i \in Ids, i # c PROVE Trail(i)'
    BY <1>0, <1>10, <2>3, Frame DEF TypeOK, WriteDenial, Done, Record, Row
  <2> QED
    BY <2>1, <2>2, <2>3 DEF AuditInv
<1>11. ASSUME WriteHold(c) PROVE AuditInv'
  <2>1. PICK a \in {"ok", "err"} :
        /\ "hold" \in jobs[c] /\ jobs' = [jobs EXCEPT ![c] = @ \ {"hold"}]
        /\ ready' = IF pc[c] = "holding" THEN [ready EXCEPT ![c] = a] ELSE ready
        /\ decisions' = IF a = "ok" THEN [decisions EXCEPT ![c] = @ \cup {"RequireApproval"}] ELSE decisions
    BY <1>11 DEF WriteHold, Done, Record, Row
  <2>2. UNCHANGED <<pc, pending, driver, abandoned, lost, alive, known, ambiguous, unwritten, history>>
    BY <1>11 DEF WriteHold, Done
  <2>3. TypeOK'
    BY <1>0, <2>1, <2>2 DEF TypeOK
  <2>4. Gated(c)'
    BY <1>0, <2>1, <2>2 DEF TypeOK, Trail, Gated, Run, Concluded, Followed, Unfollowed, DenialMade
  <2>5. Run(c)'
    BY <1>0, <2>1, <2>2 DEF TypeOK, Trail, Gated, Run, Concluded, Followed, Unfollowed, DenialMade
  <2>6. Concluded(c)'
    BY <1>0, <2>1, <2>2 DEF TypeOK, Trail, Gated, Run, Concluded, Followed, Unfollowed, DenialMade
  <2>7. ASSUME NEW i \in Ids, i # c PROVE Trail(i)'
    BY <1>0, <2>1, <2>2, <2>7, Frame DEF TypeOK
  <2> QED
    BY <2>3, <2>4, <2>5, <2>6, <2>7 DEF AuditInv, Trail
<1>12. ASSUME WriteStart(c) PROVE AuditInv'
  <2>1. PICK a \in {"ok", "err"} :
        /\ "start" \in jobs[c] /\ jobs' = [jobs EXCEPT ![c] = @ \ {"start"}]
        /\ ready' = IF pc[c] = "starting" THEN [ready EXCEPT ![c] = a] ELSE ready
        /\ decisions' = IF a = "ok" THEN [decisions EXCEPT ![c] = @ \cup {"Go"}] ELSE decisions
        /\ history' = history \/ (a = "ok" /\ history' = [history EXCEPT ![c] = "running"])
    BY <1>12 DEF WriteStart, Done, Record, Row
  <2>2. UNCHANGED <<pc, pending, driver, abandoned, lost, alive, known, ambiguous, unwritten>>
    BY <1>12 DEF WriteStart, Done
  <2>3. TypeOK'
    BY <1>0, <2>1, <2>2 DEF TypeOK
  <2>4. Gated(c)'
    BY <1>0, <2>1, <2>2 DEF TypeOK, Trail, Gated, Run, Concluded, Followed, Unfollowed, DenialMade
  <2>5. Run(c)'
    BY <1>0, <2>1, <2>2 DEF TypeOK, Trail, Gated, Run, Concluded, Followed, Unfollowed, DenialMade
  <2>6. Concluded(c)'
    BY <1>0, <2>1, <2>2 DEF TypeOK, Trail, Gated, Run, Concluded, Followed, Unfollowed, DenialMade
  <2>7. ASSUME NEW i \in Ids, i # c PROVE Trail(i)'
    BY <1>0, <2>1, <2>2, <2>7, Frame DEF TypeOK
  <2> QED
    BY <2>3, <2>4, <2>5, <2>6, <2>7 DEF AuditInv, Trail
<1>13. ASSUME NEW r \in Results, WriteOutcome(c, r) PROVE AuditInv'
  <2>1. r \in jobs[c] /\ jobs' = [jobs EXCEPT ![c] = @ \ {r}]
    BY <1>13 DEF WriteOutcome, Done
  <2>2. /\ ready' \in [Ids -> {"none", "ok", "err"}]
        /\ \A i \in Ids : i # c => ready'[i] = ready[i]
    BY <1>0, <1>13 DEF WriteOutcome, Done, TypeOK
  <2>3. UNCHANGED <<pc, pending, driver, abandoned, lost, alive, decisions, ambiguous>>
    BY <1>13 DEF WriteOutcome, Done
  <2>4. \/ known' = [known EXCEPT ![c] = known[c] + 1] /\ unwritten' = unwritten
        \/ unwritten' = unwritten \cup {c} /\ known' = known
    BY <1>13 DEF WriteOutcome
  <2>5. history' = history \/ history' = [history EXCEPT ![c] = r]
    BY <1>13 DEF WriteOutcome, Row
  <2>6. pc[c] \in {"finishing", "ended"} /\ known[c] = 0 /\ known[c] \in Nat
    BY <1>0, <2>1 DEF TypeOK, Trail, Gated, Run, Concluded, Followed, Unfollowed, DenialMade
  <2>7. TypeOK'
    <3>1. known' \in [Ids -> Nat] /\ unwritten' \subseteq Ids
      BY <1>0, <2>4, <2>6 DEF TypeOK
    <3>2. /\ jobs' \in [Ids -> SUBSET Kinds]
          /\ history' \in [Ids -> {"none", "denied", "running", "succeeded", "failed"}]
      BY <1>0, <2>1, <2>5 DEF TypeOK
    <3> QED
      BY <1>0, <2>2, <2>3, <3>1, <3>2 DEF TypeOK
  <2>8. Gated(c)' /\ Run(c)'
    BY <1>0, <2>1, <2>3, <2>4, <2>5, <2>6 DEF TypeOK, Trail, Gated, Run, Concluded, Followed, Unfollowed, DenialMade
  <2>9. Concluded(c)'
    BY <1>0, <2>1, <2>3, <2>4, <2>5, <2>6 DEF TypeOK, Trail, Gated, Run, Concluded, Followed, Unfollowed, DenialMade
  <2>10. ASSUME NEW i \in Ids, i # c PROVE Trail(i)'
    BY <1>0, <2>1, <2>2, <2>3, <2>4, <2>5, <2>10, Frame DEF TypeOK
  <2> QED
    BY <2>7, <2>8, <2>9, <2>10 DEF AuditInv, Trail
<1>14. ASSUME WriteAbandoned(c) PROVE AuditInv'
  <2>1. "abandoned" \in jobs[c] /\ jobs' = [jobs EXCEPT ![c] = @ \ {"abandoned"}]
    BY <1>14 DEF WriteAbandoned, Done
  <2>2. /\ ready' \in [Ids -> {"none", "ok", "err"}]
        /\ \A i \in Ids : i # c => ready'[i] = ready[i]
    BY <1>0, <1>14 DEF WriteAbandoned, Done, TypeOK
  <2>3. UNCHANGED <<pc, pending, driver, abandoned, lost, alive, decisions, known, history>>
    BY <1>14 DEF WriteAbandoned, Done
  <2>4. \/ ambiguous' = [ambiguous EXCEPT ![c] = ambiguous[c] + 1] /\ unwritten' = unwritten
        \/ unwritten' = unwritten \cup {c} /\ ambiguous' = ambiguous
    BY <1>14 DEF WriteAbandoned
  <2>5. pc[c] = "ended" /\ ambiguous[c] = 0 /\ ambiguous[c] \in Nat
    BY <1>0, <2>1 DEF TypeOK, Trail, Gated, Run, Concluded, Followed, Unfollowed, DenialMade
  <2>6. TypeOK'
    <3>1. ambiguous' \in [Ids -> Nat] /\ unwritten' \subseteq Ids
      BY <1>0, <2>4, <2>5 DEF TypeOK
    <3>2. jobs' \in [Ids -> SUBSET Kinds]
      BY <1>0, <2>1 DEF TypeOK
    <3> QED
      BY <1>0, <2>2, <2>3, <3>1, <3>2 DEF TypeOK
  <2>7. Gated(c)' /\ Run(c)'
    BY <1>0, <2>1, <2>3, <2>4, <2>5 DEF TypeOK, Trail, Gated, Run, Concluded, Followed, Unfollowed, DenialMade
  <2>8. Concluded(c)'
    BY <1>0, <2>1, <2>3, <2>4, <2>5 DEF TypeOK, Trail, Gated, Run, Concluded, Followed, Unfollowed, DenialMade
  <2>9. ASSUME NEW i \in Ids, i # c PROVE Trail(i)'
    BY <1>0, <2>1, <2>2, <2>3, <2>4, <2>9, Frame DEF TypeOK
  <2> QED
    BY <2>6, <2>7, <2>8, <2>9 DEF AuditInv, Trail
<1> QED
  BY <1>1, <1>2, <1>3, <1>4, <1>5, <1>6, <1>7, <1>8, <1>9, <1>10, <1>11, <1>12, <1>13, <1>14 DEF FutureNext, PoolNext

\* The periodic writer, the death of the process, and steps of others.
LEMMA OthersKeepInv ==
    ASSUME AuditInv, journal_abandoned \/ Crash \/ UNCHANGED vars
    PROVE  AuditInv'
<1> USE DEF Kinds, OutcomeKinds, Results, journal
<1>0. TypeOK /\ \A i \in Ids : Trail(i)
  BY DEF AuditInv
<1>1. CASE journal_abandoned
  <2>1. TypeOK'
    BY <1>0, <1>1, FS_EmptySet, MaxAssumption DEF TypeOK, journal_abandoned
  <2>2. ASSUME NEW i \in Ids PROVE Trail(i)'
    BY <1>0, <1>1 DEF TypeOK, journal_abandoned, Trail, Gated, Run, Concluded, Followed,
                      Unfollowed, DenialMade
  <2> QED
    BY <2>1, <2>2 DEF AuditInv
<1>2. CASE Crash
  <2>1. TypeOK'
    <3>1. pc' \in [Ids -> Pcs] /\ jobs' \in [Ids -> SUBSET Kinds]
      BY <1>2 DEF Crash, Pcs
    <3>2. /\ pending' \subseteq Ids /\ abandoned' \subseteq Ids
          /\ Cardinality(abandoned') <= MAX_PENDING_OUTCOMES
      BY <1>2, FS_EmptySet, MaxAssumption DEF Crash
    <3>3. alive' \in BOOLEAN
      BY <1>2 DEF Crash
    <3>4. UNCHANGED <<ready, driver, decisions, known, ambiguous, history, lost, unwritten>>
      BY <1>2 DEF Crash
    <3> QED
      BY <1>0, <3>1, <3>2, <3>3, <3>4 DEF TypeOK
  <2>2. ASSUME NEW i \in Ids PROVE Trail(i)'
    BY <1>0, <1>2 DEF TypeOK, Crash, Trail, Gated, Run, Concluded, Followed, Unfollowed, DenialMade
  <2> QED
    BY <2>1, <2>2 DEF AuditInv
<1>3. CASE UNCHANGED vars
  <2>1. TypeOK'
    BY <1>0, <1>3 DEF TypeOK, vars
  <2>2. ASSUME NEW i \in Ids PROVE Trail(i)'
    BY <1>0, <1>3, Frame DEF vars
  <2> QED
    BY <2>1, <2>2 DEF AuditInv
<1> QED
  BY <1>1, <1>2, <1>3

-----------------------------------------------------------------------------
\* What is said of a command holds in every state of every execution.
THEOREM AuditInvariant == Spec => []AuditInv
<1>1. AuditInv /\ [Next]_vars => AuditInv'
  BY CommandKeepsInv, OthersKeepInv DEF Next
<1> QED
  BY <1>1, InitAuditInv, PTL DEF Spec

\* The types hold, the bound of the queue of abandoned outcomes included.
THEOREM AuditTypeCorrect == Spec => []TypeOK
<1>1. AuditInv => TypeOK
  BY DEF AuditInv
<1> QED
  BY <1>1, AuditInvariant, PTL

\* Nothing runs before its authorisation is journaled.
THEOREM DecidedBeforeRunHolds == Spec => []DecidedBeforeRun
<1>1. AuditInv => DecidedBeforeRun
  BY DEF AuditInv, Trail, Run, DecidedBeforeRun
<1> QED
  BY <1>1, AuditInvariant, PTL

\* Nothing waits for the user before that decision is journaled.
THEOREM HeldIsJournaledHolds == Spec => []HeldIsJournaled
<1>1. AuditInv => HeldIsJournaled
  BY DEF AuditInv, Trail, Gated, HeldIsJournaled
<1> QED
  BY <1>1, AuditInvariant, PTL

\* A command runs at most once, and not at all once denied.
THEOREM RunsOnceUndeniedHolds == Spec => []RunsOnceUndenied
<1>1. AuditInv => RunsOnceUndenied
  BY DEF AuditInv, Trail, Gated, Run, RunsOnceUndenied, DenialMade
<1> QED
  BY <1>1, AuditInvariant, PTL

\* A command has one outcome at most, never both kinds.
THEOREM OneOutcomeHolds == Spec => []OneOutcome
<1>1. AuditInv => OneOutcome
  <2> SUFFICES ASSUME AuditInv, NEW c \in Ids
               PROVE  /\ known[c] + ambiguous[c] <= 1
                      /\ known[c] + ambiguous[c] = 1 => ~ OutcomeComing(c)
                      /\ ambiguous[c] = 1 => history[c] \notin {"succeeded", "failed", "denied"}
    BY DEF OneOutcome
  <2>1. Gated(c) /\ Concluded(c) /\ known[c] \in Nat /\ ambiguous[c] \in Nat
    BY DEF AuditInv, Trail, TypeOK
  <2> QED
    BY <2>1 DEF Gated, Concluded, Followed, Unfollowed, DenialMade, OutcomeComing, OutcomeKinds, Results
<1> QED
  BY <1>1, AuditInvariant, PTL

\* No authorised command whose future is gone is without an outcome.
THEOREM TrailIsWholeHolds == Spec => []TrailIsWhole
<1>1. AuditInv => TrailIsWhole
  <2> SUFFICES ASSUME AuditInv, NEW c \in Ids, alive, pc[c] = "ended", "Go" \in decisions[c]
               PROVE  known[c] + ambiguous[c] = 1 \/ OutcomeComing(c) \/ c \in lost \cup unwritten
    BY DEF TrailIsWhole
  <2>1. Concluded(c) /\ known[c] \in Nat /\ ambiguous[c] \in Nat
    BY DEF AuditInv, Trail, TypeOK
  <2> QED
    BY <2>1 DEF Concluded, Followed, Unfollowed, OutcomeComing, OutcomeKinds, Results
<1> QED
  BY <1>1, AuditInvariant, PTL
=============================================================================

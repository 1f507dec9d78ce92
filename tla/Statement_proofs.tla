--------------------------- MODULE Statement_proofs ---------------------------
(* What a statement is said to have done is what it did, whatever the number of *)
(* statements and of closing calls, and whatever stops, expires or is dropped   *)
(* on the way.                                                                  *)
EXTENDS Statement, TLAPS

\* The server was asked to interrupt the statement, unless the session closes or
\* cannot.
Sent(e) == e \in asked \/ closing \/ ~ SERVER_SIDE_CANCEL

\* An outcome that may be told of a statement: one to try again was not sent, a
\* write that is done is applied, one that is cancelled never will be.
Honest(e, outcome) ==
    /\ outcome = "Closed" => server[e] = "none"
    /\ mutating(e) /\ outcome \in {"Done", "Unverified"} => server[e] = "applied"
    /\ mutating(e) /\ outcome = "Cancelled" => server[e] \in {"none", "undone"}

\* Before the driver answers there is nothing to drain, and before it is called
\* nothing on the server.
BeforeTheCursor(e) ==
    /\ pc[e] \in {"idle", "waiting", "preparing", "locking"} => server[e] = "none"
    /\ pc[e] \in {"waiting", "preparing"} => kind[e] = "preview"
    /\ pc[e] \in {"idle", "waiting", "preparing", "locking", "calling"} => buffer[e] = "none"

\* Until it is over, a statement has answered and announced nothing.
Silent(e) ==
    pc[e] \notin {"over", "gone"} =>
        answer[e] = "none" /\ announced[e] = "none" /\ ends[e] = 0

\* The registry of cancellations and the result follow the drain.
Draining(e) ==
    /\ e \in registered <=> /\ pc[e] \in {"draining", "interrupting", "stating"}
                            /\ buffer[e] # "none"
    /\ buffer[e] = "filling" <=> pc[e] = "draining"
    /\ buffer[e] = "whole" => server[e] = "applied"

\* A run that has ended, until it is announced.
Ending(e) ==
    /\ pc[e] \in {"interrupting", "stating"} => run[e] \in Outcomes /\ Honest(e, run[e])
    /\ pc[e] = "interrupting" => <<e, e>> \in asking \/ Sent(e)
    /\ pc[e] = "stating" /\ buffer[e] # "none" /\ run[e] \in {"Cancelled", "Timeout", "Unknown"}
         => Sent(e)

\* An execution that answered its caller.
Told(e) ==
    pc[e] = "over" =>
        /\ Honest(e, answer[e])
        /\ IF buffer[e] = "none"
           THEN ends[e] = 0 /\ announced[e] = "none"
           ELSE /\ ends[e] = 1 /\ announced[e] = Event(answer[e]) /\ answer[e] \in Outcomes
                /\ answer[e] \in {"Cancelled", "Timeout", "Unknown"} => Sent(e)

\* One that was abandoned.
Abandoned(e) ==
    pc[e] = "gone" =>
        /\ answer[e] = "none" /\ ends[e] \in {0, 1}
        /\ announced[e] \in {"none", IF mutating(e) THEN "Unknown" ELSE "Cancelled"}
        /\ ends[e] = 0 => kind[e] = "preview" /\ server[e] = "none" /\ buffer[e] = "none"

StmtInv(e) ==
    BeforeTheCursor(e) /\ Silent(e) /\ Draining(e) /\ Ending(e) /\ Told(e) /\ Abandoned(e)

\* The session leaves the registry closing, and its slot once nobody uses it.
SlotInv ==
    /\ ~ listed => closing
    /\ \A k \in Closers : closer[k].pc = "closing" => closing /\ ~ listed
    /\ TakenIsUnused

SessionInv == TypeOK /\ SlotInv /\ \A e \in Stmts : StmtInv(e)

-----------------------------------------------------------------------------
(* Type correctness *)

\* Every step keeps the types, and the kind of the statements.
LEMMA TypeKept == TypeOK /\ [Next]_vars => TypeOK' /\ kind' = kind
<1> SUFFICES ASSUME TypeOK, [Next]_vars
             PROVE  TypeOK' /\ kind' = kind
    OBVIOUS
<1> USE DEF TypeOK, Pcs, Outcomes, Events, CloserPcs, Hows
<1> DEFINE Who == Stmts \cup Closers \cup {User}
<1>1. ASSUME NEW e \in Stmts, Begin(e) \/ Prepare(e) \/ Prepared(e)
      PROVE  TypeOK' /\ kind' = kind
  <2>1. pc' \in [Stmts -> Pcs]
        BY <1>1 DEF Begin, Prepare, Prepared, Early, Goto
  <2>2. answer' \in [Stmts -> Outcomes \cup {"none", "Denied"}]
        BY <1>1 DEF Begin, Prepare, Prepared, Early
  <2> QED BY <1>1, <2>1, <2>2 DEF Begin, Prepare, Prepared, effects, slot
<1>2. ASSUME NEW e \in Stmts, Refused(e) \/ Acquire(e) \/ CallExpires(e) \/ CallFails(e)
      PROVE  TypeOK' /\ kind' = kind
      BY <1>2 DEF Refused, Acquire, CallExpires, CallFails, DriverErrors, Ended, Goto,
                  effects, reports, slot
<1>3. ASSUME NEW e \in Stmts, Answered(e)
      PROVE  TypeOK' /\ kind' = kind
      BY <1>3 DEF Answered, Ended, Goto, slot
<1>4. ASSUME NEW e \in Stmts, NEW outcome \in Outcomes, NEW state \in {"whole", "truncated"},
             Drained(e, outcome, state)
      PROVE  TypeOK' /\ kind' = kind
  <2>1. /\ pc' \in [Stmts -> Pcs] /\ token' \subseteq Stmts /\ asking' \subseteq (Who \X Stmts)
        BY <1>4 DEF Drained, Goto
  <2>2. run' \in [Stmts -> Outcomes \cup {"none"}]
        BY <1>4 DEF Drained
  <2>3. buffer' \in [Stmts -> {"none", "filling", "whole", "truncated"}]
        BY <1>4 DEF Drained
  <2> QED BY <1>4, <2>1, <2>2, <2>3 DEF Drained, slot
<1>5. ASSUME NEW e \in Stmts,
             Exhausted(e) \/ Limited(e) \/ SourceFails(e) \/ Stopped(e) \/ DrainExpires(e) \/ Unsettled(e)
      PROVE  TypeOK' /\ kind' = kind
  <2>1. PICK outcome \in Outcomes, state \in {"whole", "truncated"} : Drained(e, outcome, state)
        BY <1>5 DEF Exhausted, Limited, SourceFails, Stopped, DrainExpires, Unsettled, DriverErrors
  <2> QED BY <1>4, <2>1
<1>6. ASSUME NEW e \in Stmts, Interrupted(e) \/ Stop(e) \/ SeeClosing(e) \/ ServerEnds(e)
      PROVE  TypeOK' /\ kind' = kind
      BY <1>6 DEF Interrupted, Stop, SeeClosing, ServerEnds, Goto, effects, reports, slot
<1>7. ASSUME NEW e \in Stmts, Conclude(e)
      PROVE  TypeOK' /\ kind' = kind
  <2>1. announced' \in [Stmts -> Events \cup {"none"}]
        BY <1>7 DEF Conclude, Announce, Event
  <2>2. ends' \in [Stmts -> Nat]
        BY <1>7 DEF Conclude, Announce
  <2>3. pc' \in [Stmts -> Pcs] /\ answer' \in [Stmts -> Outcomes \cup {"none", "Denied"}]
        BY <1>7 DEF Conclude, Goto
  <2>4. run' \in [Stmts -> Outcomes \cup {"none"}] /\ registered' \subseteq Stmts
        BY <1>7 DEF Conclude
  <2> QED BY <1>7, <2>1, <2>2, <2>3, <2>4 DEF Conclude, slot
<1>8. ASSUME NEW e \in Stmts, Drop(e)
      PROVE  TypeOK' /\ kind' = kind
  <2>1. announced' \in [Stmts -> Events \cup {"none"}]
        BY <1>8 DEF Drop, Announce
  <2>2. ends' \in [Stmts -> Nat]
        BY <1>8 DEF Drop, Announce
  <2>3. pc' \in [Stmts -> Pcs] /\ run' \in [Stmts -> Outcomes \cup {"none"}]
        BY <1>8 DEF Drop, Goto
  <2>4. buffer' \in [Stmts -> {"none", "filling", "whole", "truncated"}]
        BY <1>8 DEF Drop
  <2>5. token' \subseteq Stmts /\ registered' \subseteq Stmts /\ asking' \subseteq (Who \X Stmts)
        BY <1>8 DEF Drop, Forget
  <2> QED BY <1>8, <2>1, <2>2, <2>3, <2>4, <2>5 DEF Drop, slot
<1>9. ASSUME NEW e \in Stmts, Cancel(e) \/ \E who \in Stmts \cup Closers \cup {User} : Ask(who, e)
      PROVE  TypeOK' /\ kind' = kind
  <2>1. token' \subseteq Stmts /\ asking' \subseteq (Who \X Stmts) /\ asked' \subseteq Stmts
    <3>1. CASE Cancel(e)
      <4>1. <<User, e>> \in Who \X Stmts
            OBVIOUS
      <4>2. token' = token \cup {e} /\ asking' = asking \cup {<<User, e>>} /\ asked' = asked
            BY <3>1 DEF Cancel, Request
      <4> HIDE DEF Who
      <4> QED BY <4>1, <4>2 DEF Who
    <3>2. CASE \E who \in Stmts \cup Closers \cup {User} : Ask(who, e)
      <4>1. token' = token /\ asking' \subseteq asking /\ asked' \subseteq asked \cup {e}
            BY <3>2 DEF Ask
      <4> QED BY <4>1
    <3> QED BY <1>9, <3>1, <3>2
  <2> QED BY ZenonT(30), <1>9, <2>1 DEF Cancel, Ask, reports, slot
<1>10. ASSUME NEW k \in Closers, CloserNext(k)
       PROVE  TypeOK' /\ kind' = kind
  <2> USE DEF CloserBegins, CloserAt, statements, reports
  <2>1. /\ closer[k].how \in Hows /\ closer[k].todo \in SUBSET Stmts
        OBVIOUS
  <2>2. CASE BeginDisconnect(k) \/ BeginCloseSession(k) \/ BeginShutdown(k)
    <3>1. closer' \in [Closers -> [pc : CloserPcs, how : Hows, todo : SUBSET Stmts]]
          BY <2>2 DEF BeginDisconnect, BeginCloseSession, BeginShutdown
    <3>2. token' \subseteq Stmts /\ listed' \in BOOLEAN /\ closing' \in BOOLEAN
          BY <2>2 DEF BeginDisconnect, BeginCloseSession, BeginShutdown
    <3> QED BY <2>2, <3>1, <3>2 DEF BeginDisconnect, BeginCloseSession, BeginShutdown
  <2>3. CASE CancelOne(k)
    <3>1. PICK e \in closer[k].todo :
            IF e \in registered
            THEN Request(k, e) /\ CloserAt(k, "asking", closer[k].todo \ {e})
            ELSE CloserAt(k, "cancelling", closer[k].todo \ {e}) /\ UNCHANGED <<token, asking>>
          BY <2>3 DEF CancelOne
    <3>2. e \in Stmts /\ closer[k].todo \ {e} \in SUBSET Stmts
          BY <2>1
    <3>3. closer' \in [Closers -> [pc : CloserPcs, how : Hows, todo : SUBSET Stmts]]
          BY <2>1, <3>1, <3>2
    <3>4. token' \subseteq Stmts /\ asking' \subseteq (Who \X Stmts)
          BY <3>1, <3>2 DEF Request
    <3> QED BY <2>3, <3>3, <3>4 DEF CancelOne
  <2>4. CASE CancelledOne(k) \/ Unlist(k) \/ TakeSession(k)
    <3>1. closer' \in [Closers -> [pc : CloserPcs, how : Hows, todo : SUBSET Stmts]]
          BY <2>1, <2>4 DEF CancelledOne, Unlist, TakeSession
    <3>2. listed' \in BOOLEAN /\ closing' \in BOOLEAN /\ open' \in BOOLEAN
          BY <2>4 DEF CancelledOne, Unlist, TakeSession
    <3> QED BY <2>4, <3>1, <3>2 DEF CancelledOne, Unlist, TakeSession
  <2> QED BY <1>10, <2>2, <2>3, <2>4 DEF CloserNext
<1>11. CASE UNCHANGED vars
       BY <1>11 DEF vars
<1> QED BY <1>1, <1>2, <1>3, <1>5, <1>6, <1>7, <1>8, <1>9, <1>10, <1>11 DEF Next, StmtNext

-----------------------------------------------------------------------------
(* What a step leaves alone *)

\* A step of another statement, or of a call that closes the session.
Untouched(g) ==
    /\ pc'[g] = pc[g] /\ kind'[g] = kind[g] /\ server'[g] = server[g] /\ run'[g] = run[g]
    /\ buffer'[g] = buffer[g] /\ answer'[g] = answer[g] /\ announced'[g] = announced[g]
    /\ ends'[g] = ends[g] /\ (g \in registered' <=> g \in registered)
    /\ g \in asked => g \in asked'
    /\ <<g, g>> \in asking => <<g, g>> \in asking'
    /\ closing => closing'

\* A statement no step touched is as it was.
LEMMA UntouchedKeepsInv ==
    ASSUME NEW g \in Stmts, StmtInv(g), Untouched(g)
    PROVE  StmtInv(g)'
<1> USE DEF StmtInv, Untouched
<1>1. Sent(g) => Sent(g)'
      BY DEF Sent
<1>2. \A outcome : Honest(g, outcome) => Honest(g, outcome)'
      BY DEF Honest, mutating
<1>3. BeforeTheCursor(g)' /\ Silent(g)' /\ Draining(g)' /\ Abandoned(g)'
      BY DEF BeforeTheCursor, Silent, Draining, Abandoned, mutating
<1>4. Ending(g)'
      BY <1>1, <1>2 DEF Ending
<1>5. Told(g)'
      BY <1>1, <1>2 DEF Told, Event
<1> QED BY <1>3, <1>4, <1>5

\* The step of one statement: the others are untouched.
Alone(e) == \A g \in Stmts \ {e} : Untouched(g)

\* A step of a statement cannot give it a session that was taken.
LEMMA SlotKept ==
    ASSUME TypeOK, TypeOK', SlotInv, UNCHANGED slot,
           \A g \in Stmts : pc'[g] \in {"preparing", "calling"} =>
             pc[g] \in {"preparing", "calling"} \/ open
    PROVE  SlotInv'
BY DEF SlotInv, TakenIsUnused, Readers, slot

-----------------------------------------------------------------------------
(* Each step of a statement *)

\* An answer before anything ran.
LEMMA EarlyKeepsInv ==
    ASSUME TypeOK, NEW e \in Stmts, StmtInv(e), NEW result \in {"Denied", "Closed", "Cancelled", "Timeout", "Failed"},
           pc[e] \in {"idle", "waiting", "preparing"}, Early(e, result),
           UNCHANGED <<kind, token, late, effects, run, announced, ends, slot>>
    PROVE  StmtInv(e)'
<1> USE DEF TypeOK, StmtInv
<1>1. /\ pc'[e] = "over" /\ answer'[e] = result /\ server'[e] = "none" /\ buffer'[e] = "none"
      /\ ends'[e] = 0 /\ announced'[e] = "none" /\ e \notin registered'
      BY DEF Early, Goto, BeforeTheCursor, Silent, Draining, effects
<1>2. Honest(e, result)'
      BY <1>1 DEF Honest
<1>3. BeforeTheCursor(e)' /\ Silent(e)' /\ Draining(e)' /\ Ending(e)' /\ Abandoned(e)'
      BY <1>1 DEF BeforeTheCursor, Silent, Draining, Ending, Abandoned
<1>4. Told(e)'
      BY <1>1, <1>2 DEF Told, Honest
<1> QED BY <1>3, <1>4

\* Before the driver is called: execute_command, then preview_request.
LEMMA StartKeepsInv ==
    ASSUME TypeOK, NEW e \in Stmts, StmtInv(e), Begin(e) \/ Prepare(e) \/ Prepared(e)
    PROVE  StmtInv(e)' /\ Alone(e)
<1> USE DEF TypeOK
<1>1. /\ pc[e] \in {"idle", "waiting", "preparing"}
      /\ UNCHANGED <<kind, token, late, effects, run, announced, ends, slot>>
      BY DEF Begin, Prepare, Prepared
<1>2. Alone(e)
      BY <1>1 DEF Alone, Untouched, Begin, Prepare, Prepared, Early, Goto, effects, slot
<1>3. ASSUME NEW result \in {"Denied", "Closed", "Cancelled", "Timeout", "Failed"}, Early(e, result)
      PROVE  StmtInv(e)'
      BY <1>1, <1>3, EarlyKeepsInv
<1>4. ASSUME pc'[e] \in {"waiting", "preparing", "locking"}, UNCHANGED answer,
             pc'[e] \in {"waiting", "preparing"} => kind[e] = "preview"
      PROVE  StmtInv(e)'
      BY <1>1, <1>4 DEF StmtInv, BeforeTheCursor, Silent, Draining, Ending, Told, Abandoned, effects
<1>5. CASE Begin(e)
  <2>1. \/ Early(e, "Denied") \/ Early(e, "Closed")
        \/ Goto(e, IF kind[e] = "preview" THEN "waiting" ELSE "locking") /\ UNCHANGED answer
        BY <1>5 DEF Begin
  <2>2. CASE Goto(e, IF kind[e] = "preview" THEN "waiting" ELSE "locking") /\ UNCHANGED answer
    <3>1. pc'[e] = IF kind[e] = "preview" THEN "waiting" ELSE "locking"
          BY <2>2 DEF Goto
    <3> QED BY <1>2, <1>4, <2>2, <3>1
  <2> QED BY <1>2, <1>3, <2>1, <2>2
<1>6. CASE Prepare(e)
  <2>1. kind[e] = "preview"
        BY <1>6 DEF Prepare, StmtInv, BeforeTheCursor
  <2>2. \/ Early(e, "Closed") \/ Early(e, "Cancelled") \/ Early(e, "Timeout")
        \/ Goto(e, "preparing") /\ UNCHANGED answer
        BY <1>6 DEF Prepare
  <2>3. CASE Goto(e, "preparing") /\ UNCHANGED answer
    <3>1. pc'[e] = "preparing"
          BY <2>3 DEF Goto
    <3> QED BY <1>2, <1>4, <2>1, <2>3, <3>1
  <2> QED BY <1>2, <1>3, <2>2, <2>3
<1>7. CASE Prepared(e)
  <2>1. \/ \E result \in {"Failed", "Cancelled", "Timeout", "Closed"} : Early(e, result)
        \/ Goto(e, "locking") /\ UNCHANGED answer
        BY <1>7 DEF Prepared
  <2>2. CASE Goto(e, "locking") /\ UNCHANGED answer
    <3>1. pc'[e] = "locking"
          BY <2>2 DEF Goto
    <3> QED BY <1>2, <1>4, <2>2, <3>1
  <2> QED BY <1>2, <1>3, <2>1, <2>2
<1> QED BY <1>5, <1>6, <1>7

\* A run that ends with no cursor, in an error that may be told.
LEMMA EndedKeepsInv ==
    ASSUME TypeOK, NEW e \in Stmts, StmtInv(e), pc[e] \in {"locking", "calling"},
           NEW result \in Outcomes, Ended(e, result), Honest(e, result),
           UNCHANGED <<kind, token, effects, answer, announced, ends, slot>>
    PROVE  StmtInv(e)' /\ Alone(e)
<1> USE DEF TypeOK
<1>1. /\ pc'[e] = "stating" /\ buffer'[e] = "none" /\ run'[e] \in {result, "Timeout"}
      /\ server'[e] = server[e] /\ kind'[e] = kind[e]
      BY DEF Ended, Goto, StmtInv, BeforeTheCursor, effects
<1>2. Honest(e, "Timeout") /\ "Timeout" \in Outcomes
      BY DEF Honest, Outcomes
<1>3. Honest(e, run'[e]) /\ run'[e] \in Outcomes
      BY <1>1, <1>2
<1>4. Honest(e, run[e])'
      BY <1>1, <1>3 DEF Honest, mutating
<1>5. StmtInv(e)'
      BY <1>1, <1>3, <1>4 DEF StmtInv, BeforeTheCursor, Silent, Draining, Ending, Told, Abandoned, effects
<1>6. Alone(e)
      BY DEF Alone, Untouched, Ended, Goto, effects, slot
<1> QED BY <1>5, <1>6

\* The call of the driver: refused, taken, expired, answered or failed.
LEMMA CallKeepsInv ==
    ASSUME TypeOK, NEW e \in Stmts, StmtInv(e),
           Refused(e) \/ Acquire(e) \/ CallExpires(e) \/ Answered(e) \/ CallFails(e)
    PROVE  StmtInv(e)' /\ Alone(e)
<1> USE DEF TypeOK
<1>1. CASE Refused(e)
  <2>1. PICK result \in {"Closed", "Cancelled"} : Ended(e, result)
        BY <1>1 DEF Refused
  <2>2. Honest(e, result) /\ result \in Outcomes /\ pc[e] \in {"locking", "calling"}
        BY <1>1, <2>1 DEF Refused, Honest, StmtInv, BeforeTheCursor, Outcomes
  <2> HIDE DEF TypeOK
  <2> QED BY <1>1, <2>1, <2>2, EndedKeepsInv DEF Refused
<1>2. CASE Acquire(e)
  <2>1. StmtInv(e)'
        BY <1>2 DEF Acquire, Goto, StmtInv, BeforeTheCursor, Silent, Draining, Ending, Told, Abandoned
  <2>2. Alone(e)
        BY <1>2 DEF Acquire, Goto, Alone, Untouched, slot
  <2> QED BY <2>1, <2>2
<1>3. CASE CallExpires(e)
  <2>1. \A g \in Stmts : Untouched(g)
        BY <1>3 DEF CallExpires, Untouched, effects, reports, slot
  <2> QED BY <2>1, UntouchedKeepsInv DEF Alone
<1>4. CASE Answered(e) /\ e \in late
  <2>1. Ended(e, "Timeout") /\ UNCHANGED <<kind, token, effects, answer, announced, ends, slot>>
        BY <1>4 DEF Answered, effects
  <2>2. Honest(e, "Timeout") /\ "Timeout" \in Outcomes /\ pc[e] \in {"locking", "calling"}
        BY <1>4 DEF Answered, Honest, Outcomes
  <2> HIDE DEF TypeOK
  <2> QED BY <2>1, <2>2, EndedKeepsInv
<1>5. CASE Answered(e) /\ e \notin late
  <2>1. /\ pc'[e] = "draining" /\ buffer'[e] = "filling" /\ e \in registered'
        /\ UNCHANGED <<kind, server, answer, announced, ends>>
        BY <1>5 DEF Answered, Goto
  <2>2. pc[e] = "calling"
        BY <1>5 DEF Answered
  <2>3. StmtInv(e)'
        BY <2>1, <2>2 DEF StmtInv, BeforeTheCursor, Silent, Draining, Ending, Told, Abandoned
  <2>4. Alone(e)
        BY <1>5 DEF Answered, Goto, Alone, Untouched, slot
  <2> QED BY <2>3, <2>4
<1>6. CASE CallFails(e)
  <2>1. PICK error \in DriverErrors(e) : Ended(e, error)
        BY <1>6 DEF CallFails
  <2>2. Honest(e, error) /\ error \in Outcomes /\ pc[e] \in {"locking", "calling"}
        BY <1>6 DEF CallFails, DriverErrors, Honest, Outcomes
  <2> HIDE DEF TypeOK
  <2> QED BY <1>6, <2>1, <2>2, EndedKeepsInv DEF CallFails
<1> QED BY <1>1, <1>2, <1>3, <1>4, <1>5, <1>6

\* The drain is over: the result is closed, and what may still run on the server
\* is asked to stop before anything is said of it.
LEMMA DrainedKeepsInv ==
    ASSUME TypeOK, NEW e \in Stmts, StmtInv(e), pc[e] = "draining",
           NEW outcome \in Outcomes, NEW state \in {"whole", "truncated"},
           Drained(e, outcome, state), Honest(e, outcome),
           state = "whole" => server[e] = "applied"
    PROVE  StmtInv(e)' /\ Alone(e)
<1> USE DEF TypeOK
<1>1. /\ run'[e] = outcome /\ buffer'[e] = state
      /\ UNCHANGED <<kind, late, server, registered, asked, answer, announced, ends, slot>>
      BY DEF Drained
<1>2. e \in registered /\ Silent(e) /\ (state = "whole" => server'[e] = "applied")
      BY <1>1 DEF StmtInv, Draining
<1>3. Honest(e, run[e])'
      BY <1>1 DEF Honest, mutating
<1>4. CASE interrupted(e, outcome)
  <2>1. pc'[e] = "interrupting" /\ <<e, e>> \in asking'
        BY <1>4 DEF Drained, Goto
  <2> QED BY <1>1, <1>2, <1>3, <2>1 DEF StmtInv, BeforeTheCursor, Silent, Draining, Ending, Told,
                                        Abandoned, Alone, Untouched, Drained, Goto, slot
<1>5. CASE ~ interrupted(e, outcome)
  <2>1. pc'[e] = "stating" /\ outcome \notin {"Cancelled", "Timeout", "Unknown"}
        BY <1>5 DEF Drained, Goto, interrupted
  <2> QED BY <1>1, <1>2, <1>3, <2>1 DEF StmtInv, BeforeTheCursor, Silent, Draining, Ending, Told,
                                        Abandoned, Alone, Untouched, Drained, Goto, slot
<1> QED BY <1>4, <1>5

\* Every way for a drain to end says no more than what the server did.
LEMMA DrainKeepsInv ==
    ASSUME TypeOK, NEW e \in Stmts, StmtInv(e),
           Exhausted(e) \/ Limited(e) \/ SourceFails(e) \/ Stopped(e) \/ DrainExpires(e) \/ Unsettled(e)
    PROVE  StmtInv(e)' /\ Alone(e)
<1>1. pc[e] = "draining"
      BY DEF Exhausted, Limited, SourceFails, Stopped, DrainExpires, Unsettled
<1>2. Honest(e, "Timeout") /\ Honest(e, "Unknown") /\ Honest(e, "Failed")
      BY DEF Honest
<1>3. /\ mutating(e) /\ server[e] = "applied" => Honest(e, "Done")
      /\ ~ mutating(e) => Honest(e, "Done") /\ Honest(e, "Unverified") /\ Honest(e, "Cancelled")
      BY DEF Honest
<1>4. \A error \in DriverErrors(e) : Honest(e, error) /\ error \in Outcomes
      BY DEF DriverErrors, Honest, Outcomes
<1>5. {"Done", "Unverified", "Failed", "Cancelled", "Timeout", "Unknown"} \subseteq Outcomes
      BY DEF Outcomes
<1>6. PICK outcome \in Outcomes, state \in {"whole", "truncated"} :
        /\ Drained(e, outcome, state) /\ Honest(e, outcome)
        /\ state = "whole" => server[e] = "applied"
  <2>1. CASE Exhausted(e)
        BY <1>2, <1>3, <1>5, <2>1 DEF Exhausted
  <2>2. CASE Limited(e)
        BY <1>2, <1>3, <1>5, <2>2 DEF Limited
  <2>3. CASE SourceFails(e)
        BY <1>4, <2>3 DEF SourceFails
  <2>4. CASE Stopped(e)
        BY <1>3, <1>5, <2>4 DEF Stopped
  <2>5. CASE DrainExpires(e)
        BY <1>2, <1>3, <1>5, <2>5 DEF DrainExpires
  <2>6. CASE Unsettled(e)
        BY <1>2, <1>5, <2>6 DEF Unsettled
  <2> QED BY <2>1, <2>2, <2>3, <2>4, <2>5, <2>6
<1> QED BY <1>1, <1>6, DrainedKeepsInv

\* The server has been asked, or the session is gone.
LEMMA InterruptedKeepsInv ==
    ASSUME TypeOK, NEW e \in Stmts, StmtInv(e), Interrupted(e)
    PROVE  StmtInv(e)' /\ Alone(e)
<1> USE DEF TypeOK
<1>1. /\ pc[e] = "interrupting" /\ pc'[e] = "stating" /\ Sent(e)
      /\ UNCHANGED <<kind, token, late, effects, reports, slot>>
      BY DEF Interrupted, Goto, StmtInv, Ending
<1>2. Sent(e)' /\ Honest(e, run[e])'
      BY <1>1 DEF Sent, Honest, mutating, StmtInv, Ending, effects, reports, slot
<1>3. StmtInv(e)'
      BY <1>1, <1>2 DEF StmtInv, BeforeTheCursor, Silent, Draining, Ending, Told, Abandoned,
                        effects, reports
<1>4. Alone(e)
      BY DEF Interrupted, Goto, Alone, Untouched, effects, reports, slot
<1> QED BY <1>3, <1>4

\* The end is announced once, and is the one the caller is told.
LEMMA ConcludeKeepsInv ==
    ASSUME TypeOK, NEW e \in Stmts, StmtInv(e), Conclude(e)
    PROVE  StmtInv(e)' /\ Alone(e)
<1> USE DEF TypeOK
<1>1. /\ pc[e] = "stating" /\ pc'[e] = "over" /\ answer'[e] = run[e] /\ e \notin registered'
      /\ UNCHANGED <<kind, token, late, server, buffer, asking, asked, slot>>
      BY DEF Conclude, Goto
<1>2. run[e] \in Outcomes /\ Honest(e, run[e]) /\ ends[e] = 0 /\ announced[e] = "none"
      BY <1>1 DEF StmtInv, Ending, Silent
<1>3. buffer[e] # "filling" /\ (buffer[e] = "whole" => server[e] = "applied")
      BY <1>1 DEF StmtInv, Draining
<1>4. Honest(e, answer[e])'
      BY <1>1, <1>2 DEF Honest, mutating
<1>5. /\ buffer[e] = "none" => ends'[e] = 0 /\ announced'[e] = "none"
      /\ buffer[e] # "none" => ends'[e] = 1 /\ announced'[e] = Event(answer'[e])
      BY <1>1, <1>2 DEF Conclude, Announce
<1>6. /\ buffer[e] # "none" /\ run[e] \in {"Cancelled", "Timeout", "Unknown"} => Sent(e)'
      BY <1>1 DEF StmtInv, Ending, Sent, slot
<1>7. Told(e)'
      BY <1>1, <1>2, <1>4, <1>5, <1>6 DEF Told, Event
<1>8. BeforeTheCursor(e)' /\ Silent(e)' /\ Draining(e)' /\ Ending(e)' /\ Abandoned(e)'
      BY <1>1, <1>3 DEF BeforeTheCursor, Silent, Draining, Ending, Abandoned
<1>9. Alone(e)
      BY DEF Conclude, Announce, Goto, Alone, Untouched, slot
<1> QED BY <1>7, <1>8, <1>9 DEF StmtInv

\* The future is dropped: the guard closes the result and announces the end.
LEMMA DropKeepsInv ==
    ASSUME TypeOK, NEW e \in Stmts, StmtInv(e), Drop(e)
    PROVE  StmtInv(e)' /\ Alone(e)
<1> USE DEF TypeOK
<1>1. /\ pc[e] \notin {"idle", "over", "gone"} /\ pc'[e] = "gone"
      /\ UNCHANGED <<kind, late, server, asked, answer, slot>>
      BY DEF Drop, Live, Goto
<1>2. ends[e] = 0 /\ announced[e] = "none" /\ answer'[e] = "none"
      BY <1>1 DEF StmtInv, Silent
<1>3. Alone(e)
      BY DEF Drop, Forget, Announce, Goto, Alone, Untouched, slot
<1>4. CASE pc[e] \in {"waiting", "preparing"}
  <2>1. /\ kind[e] = "preview" /\ server[e] = "none" /\ buffer[e] = "none" /\ e \notin registered
        /\ UNCHANGED <<token, asking, registered, buffer, announced, ends>>
        BY <1>4 DEF Drop, StmtInv, BeforeTheCursor, Draining
  <2> QED BY <1>1, <1>2, <1>3, <2>1 DEF StmtInv, BeforeTheCursor, Silent, Draining, Ending, Told,
                                        Abandoned, mutating
<1>5. CASE pc[e] \notin {"waiting", "preparing"}
  <2>1. /\ ends'[e] = 1 /\ announced'[e] = (IF mutating(e) THEN "Unknown" ELSE "Cancelled")
        /\ e \notin registered'
        /\ buffer'[e] = IF buffer[e] = "filling" THEN "truncated" ELSE buffer[e]
        BY <1>2, <1>5 DEF Drop, Forget, Announce
  <2>2. buffer[e] = "whole" => server[e] = "applied"
        BY DEF StmtInv, Draining
  <2> QED BY <1>1, <1>2, <1>3, <2>1, <2>2 DEF StmtInv, BeforeTheCursor, Silent, Draining, Ending,
                                              Told, Abandoned, mutating
<1> QED BY <1>4, <1>5

\* Stops, which only cancel a token or ask for the server to be told.
LEMMA StopKeepsInv ==
    ASSUME TypeOK, NEW e \in Stmts, StmtInv(e), Stop(e) \/ Cancel(e) \/ SeeClosing(e)
    PROVE  StmtInv(e)' /\ Alone(e)
<1>1. \A g \in Stmts : Untouched(g)
      BY DEF Stop, Cancel, SeeClosing, Request, Untouched, effects, reports, slot
<1> QED BY <1>1, UntouchedKeepsInv DEF Alone

\* A request to the server reaches it, or finds the session closing.
LEMMA AskKeepsInv ==
    ASSUME TypeOK, SlotInv, NEW e \in Stmts, StmtInv(e), NEW who, Ask(who, e)
    PROVE  StmtInv(e)' /\ Alone(e)
<1> USE DEF TypeOK
<1>1. /\ UNCHANGED <<kind, pc, token, late, server, registered, buffer, reports, slot>>
      /\ asking' = asking \ {<<who, e>>}
      /\ asked' = IF SERVER_SIDE_CANCEL /\ listed /\ open THEN asked \cup {e} ELSE asked
      BY DEF Ask
<1>2. Sent(e)'
      BY <1>1, CapabilityAssumption DEF Sent, SlotInv, TakenIsUnused, slot
<1>3. \A outcome : Honest(e, outcome) => Honest(e, outcome)'
      BY <1>1 DEF Honest, mutating
<1>4. BeforeTheCursor(e)' /\ Silent(e)' /\ Draining(e)' /\ Abandoned(e)'
      BY <1>1 DEF StmtInv, BeforeTheCursor, Silent, Draining, Abandoned, mutating, reports
<1>5. Ending(e)' /\ Told(e)'
      BY <1>1, <1>2, <1>3 DEF StmtInv, Ending, Told, Event, reports
<1>6. Alone(e)
      BY <1>1 DEF Alone, Untouched, reports, slot
<1> QED BY <1>4, <1>5, <1>6 DEF StmtInv

\* The server ends a statement that runs: nothing said of it depended on that.
LEMMA ServerKeepsInv ==
    ASSUME TypeOK, NEW e \in Stmts, StmtInv(e), ServerEnds(e)
    PROVE  StmtInv(e)' /\ Alone(e)
<1> USE DEF TypeOK
<1>1. /\ server[e] = "running" /\ server'[e] \in {"applied", "undone"}
      /\ UNCHANGED <<kind, pc, token, late, registered, buffer, asking, asked, reports, slot>>
      BY DEF ServerEnds
<1>2. \A outcome : Honest(e, outcome) => Honest(e, outcome)'
      BY <1>1 DEF Honest, mutating
<1>3. Sent(e)' <=> Sent(e)
      BY <1>1 DEF Sent, slot
<1>4. BeforeTheCursor(e)' /\ Silent(e)' /\ Draining(e)' /\ Abandoned(e)'
      BY <1>1 DEF StmtInv, BeforeTheCursor, Silent, Draining, Abandoned, mutating, reports
<1>5. Ending(e)' /\ Told(e)'
      BY <1>1, <1>2, <1>3 DEF StmtInv, Ending, Told, Event, reports
<1>6. Alone(e)
      BY DEF ServerEnds, Alone, Untouched, reports, slot
<1> QED BY <1>4, <1>5, <1>6 DEF StmtInv

-----------------------------------------------------------------------------
(* The session *)

\* Every step of a statement, for it and for the others.
LEMMA StmtNextKeepsInv ==
    ASSUME SessionInv, NEW e \in Stmts, StmtNext(e)
    PROVE  \A g \in Stmts : StmtInv(g)'
<1>1. TypeOK /\ SlotInv /\ StmtInv(e)
      BY DEF SessionInv
<1>2. CASE \E who \in Stmts \cup Closers \cup {User} : Ask(who, e)
  <2>1. StmtInv(e)' /\ Alone(e)
        BY <1>1, <1>2, AskKeepsInv
  <2> QED BY <2>1, UntouchedKeepsInv DEF Alone, SessionInv
<1>3. CASE ~ \E who \in Stmts \cup Closers \cup {User} : Ask(who, e)
  <2>1. StmtInv(e)' /\ Alone(e)
        BY <1>1, <1>3, StartKeepsInv, CallKeepsInv, DrainKeepsInv, InterruptedKeepsInv,
           ConcludeKeepsInv, DropKeepsInv, StopKeepsInv, ServerKeepsInv DEF StmtNext
  <2> QED BY <2>1, UntouchedKeepsInv DEF Alone, SessionInv
<1> QED BY <1>2, <1>3

\* Only a slot that has its session lets a statement use it.
LEMMA StmtNextKeepsSlot ==
    ASSUME TypeOK, TypeOK', SlotInv, NEW e \in Stmts, StmtNext(e)
    PROVE  SlotInv'
<1> USE DEF TypeOK
<1>1. CASE Prepare(e) \/ Acquire(e)
  <2>1. UNCHANGED slot /\ \A g \in Stmts : pc'[g] = pc[g] \/ open \/ pc'[g] = "over"
        BY <1>1 DEF Prepare, Acquire, Early, Goto
  <2> HIDE DEF TypeOK
  <2> QED BY <2>1, SlotKept
<1>2. CASE ~ (Prepare(e) \/ Acquire(e))
  <2>1. UNCHANGED slot
        BY <1>2 DEF StmtNext, Begin, Prepared, Refused, CallExpires, Answered, CallFails,
             Exhausted, Limited, SourceFails, Stopped, DrainExpires, Unsettled, Drained,
             Interrupted, Conclude, Drop, Stop, Cancel, SeeClosing, ServerEnds, Ask
  <2>2. \A g \in Stmts : pc'[g] = pc[g] \/ pc'[g] \notin {"preparing", "calling"}
    <3>1. CASE Begin(e) \/ Prepared(e) \/ Refused(e) \/ CallExpires(e) \/ Answered(e) \/ CallFails(e)
          BY <3>1 DEF Begin, Prepared, Refused, CallExpires, Answered, CallFails, Early, Ended, Goto
    <3>2. CASE Exhausted(e) \/ Limited(e) \/ SourceFails(e) \/ Stopped(e) \/ DrainExpires(e) \/ Unsettled(e)
          BY <3>2 DEF Exhausted, Limited, SourceFails, Stopped, DrainExpires, Unsettled, Drained, Goto
    <3>3. CASE Interrupted(e) \/ Conclude(e) \/ Drop(e)
          BY <3>3 DEF Interrupted, Conclude, Drop, Goto
    <3>4. CASE Stop(e) \/ Cancel(e) \/ SeeClosing(e) \/ ServerEnds(e)
               \/ \E who \in Stmts \cup Closers \cup {User} : Ask(who, e)
          BY <3>4 DEF Stop, Cancel, SeeClosing, ServerEnds, Ask
    <3> QED BY <1>2, <3>1, <3>2, <3>3, <3>4 DEF StmtNext
  <2> HIDE DEF TypeOK
  <2> QED BY <2>1, <2>2, SlotKept
<1> QED BY <1>1, <1>2

\* The calls that close the session touch no statement.
LEMMA CloserKeepsInv ==
    ASSUME SessionInv, NEW k \in Closers, CloserNext(k)
    PROVE  SlotInv' /\ \A g \in Stmts : StmtInv(g)'
<1> USE DEF SessionInv, TypeOK
<1>1. UNCHANGED statements /\ asking \subseteq asking' /\ (closing => closing')
  <2>1. UNCHANGED statements
        BY DEF CloserNext, BeginDisconnect, BeginCloseSession, BeginShutdown, CancelOne,
               CancelledOne, Unlist, TakeSession
  <2>2. asking \subseteq asking'
        BY DEF CloserNext, BeginDisconnect, BeginCloseSession, BeginShutdown, CancelOne,
               CancelledOne, Unlist, TakeSession, Request
  <2>3. closing => closing'
        BY DEF CloserNext, BeginDisconnect, BeginCloseSession, BeginShutdown, CancelOne,
               CancelledOne, Unlist, TakeSession
  <2> QED BY <2>1, <2>2, <2>3
<1>2. ASSUME NEW g \in Stmts
      PROVE  StmtInv(g)'
  <2>1. Untouched(g)
        BY <1>1 DEF Untouched, statements, reports
  <2> QED BY <2>1, UntouchedKeepsInv
<1>3. \A j \in Closers : j # k => closer'[j] = closer[j]
      BY DEF CloserNext, BeginDisconnect, BeginCloseSession, BeginShutdown, CancelOne,
             CancelledOne, Unlist, TakeSession, CloserBegins, CloserAt
<1>4. pc' = pc
      BY <1>1 DEF statements
<1>5. SlotInv'
  <2> USE DEF SlotInv, TakenIsUnused, Readers, CloserBegins, CloserAt
  <2>1. CASE BeginDisconnect(k) \/ CancelOne(k) \/ CancelledOne(k)
    <3>1. closer'[k].pc \in {"cancelling", "asking"} /\ UNCHANGED <<listed, closing, open>>
          BY <2>1 DEF BeginDisconnect, CancelOne, CancelledOne
    <3> QED BY <1>3, <1>4, <3>1
  <2>2. CASE BeginCloseSession(k)
    <3>1. closer'[k].pc \in {"cancelling", "closed"} /\ UNCHANGED <<listed, open>>
          BY <2>2 DEF BeginCloseSession
    <3> QED BY <1>1, <1>3, <1>4, <3>1
  <2>3. CASE BeginShutdown(k)
    <3>1. /\ UNCHANGED open /\ ~ listed'
          /\ closer'[k].pc = "closing" => closing'
          BY <2>3 DEF BeginShutdown
    <3>2. closing'
          BY <2>3 DEF BeginShutdown
    <3> QED BY <1>3, <1>4, <3>1, <3>2
  <2>4. CASE Unlist(k)
    <3>1. UNCHANGED open /\ ~ listed' /\ closing'
          BY <2>4 DEF Unlist
    <3> QED BY <1>3, <1>4, <3>1
  <2>5. CASE TakeSession(k)
    <3>1. /\ closer[k].pc = "closing" /\ Readers = {} /\ ~ open' /\ UNCHANGED <<listed, closing>>
          /\ closer'[k].pc = "closed"
          BY <2>5 DEF TakeSession
    <3> QED BY <1>3, <1>4, <3>1
  <2> QED BY <2>1, <2>2, <2>3, <2>4, <2>5 DEF CloserNext
<1> QED BY <1>2, <1>5

\* Nothing has begun.
LEMMA InitSession == Init => SessionInv
<1> SUFFICES ASSUME Init
             PROVE  SessionInv
    OBVIOUS
<1>1. TypeOK
      BY DEF Init, TypeOK, Pcs, Outcomes, Events, CloserPcs, Hows
<1>2. SlotInv
      BY DEF Init, SlotInv, TakenIsUnused
<1>3. ASSUME NEW e \in Stmts
      PROVE  StmtInv(e)
      BY DEF Init, StmtInv, BeforeTheCursor, Silent, Draining, Ending, Told, Abandoned
<1> QED BY <1>1, <1>2, <1>3 DEF SessionInv

\* Every step keeps the invariant.
LEMMA NextKeepsSession == SessionInv /\ [Next]_vars => SessionInv'
<1> SUFFICES ASSUME SessionInv, [Next]_vars
             PROVE  SessionInv'
    OBVIOUS
<1>1. TypeOK /\ TypeOK' /\ SlotInv
      BY TypeKept DEF SessionInv
<1>2. ASSUME NEW e \in Stmts, StmtNext(e)
      PROVE  SessionInv'
      BY <1>1, <1>2, StmtNextKeepsInv, StmtNextKeepsSlot DEF SessionInv
<1>3. ASSUME NEW k \in Closers, CloserNext(k)
      PROVE  SessionInv'
      BY <1>1, <1>3, CloserKeepsInv DEF SessionInv
<1>4. CASE UNCHANGED vars
  <2>1. \A g \in Stmts : Untouched(g)
        BY <1>4 DEF vars, Untouched
  <2>2. SlotInv'
        BY <1>1, <1>4 DEF vars, SlotInv, TakenIsUnused, Readers
  <2> QED BY <1>1, <2>1, <2>2, UntouchedKeepsInv DEF SessionInv
<1> QED BY <1>2, <1>3, <1>4 DEF Next

\* The statements, the registry of cancellations, the results and the slot of the
\* session agree at every step of execute_statement, drain and conclude, and of
\* the calls that close the session.
THEOREM SessionInvariant == Spec => []SessionInv
<1>1. Init => SessionInv
      BY InitSession
<1>2. SessionInv /\ [Next]_vars => SessionInv'
      BY NextKeepsSession
<1> QED BY <1>1, <1>2, PTL DEF Spec

\* The state of every statement, of its session and of the calls that close it
\* keeps its type.
THEOREM StatementTypeCorrect == Spec => []TypeOK
<1>1. SessionInv => TypeOK
      BY DEF SessionInv
<1> QED BY <1>1, SessionInvariant, PTL

\* A write said cancelled, to its caller or in its event, changed nothing and
\* never will (drain, AbandonGuard).
THEOREM CancelledIsUndoneHolds == Spec => []CancelledIsUndone
<1>1. SessionInv => CancelledIsUndone
  <2> SUFFICES ASSUME SessionInv, NEW e \in Stmts, mutating(e), Over(e),
                      answer[e] = "Cancelled" \/ announced[e] = "Cancelled"
               PROVE  server[e] \in {"none", "undone"}
      BY DEF CancelledIsUndone
  <2>1. Told(e) /\ Abandoned(e)
        BY DEF SessionInv, StmtInv
  <2> QED BY <2>1 DEF Told, Abandoned, Honest, Event, Over, Outcomes
<1> QED BY <1>1, SessionInvariant, PTL

\* What the caller may try again was never sent, and a write said completed was
\* applied (SessionSlot::execute, drain_to_end).
THEOREM DoneIsDoneHolds == Spec => []DoneIsDone
<1>1. SessionInv => DoneIsDone
  <2> SUFFICES ASSUME SessionInv, NEW e \in Stmts
               PROVE  /\ answer[e] = "Closed" => server[e] = "none"
                      /\ mutating(e) /\ (answer[e] \in {"Done", "Unverified"} \/ announced[e] = "Completed")
                         => server[e] = "applied"
      BY DEF DoneIsDone
  <2>1. Told(e) /\ Abandoned(e) /\ Silent(e)
        BY DEF SessionInv, StmtInv
  <2> QED BY <2>1 DEF Told, Abandoned, Silent, Honest, Event, Outcomes
<1> QED BY <1>1, SessionInvariant, PTL

\* An execution that had a cursor, or was abandoned with its guard armed,
\* announces exactly one end, once it is over (conclude, AbandonGuard).
THEOREM OneEndHolds == Spec => []OneEnd
<1>1. SessionInv => OneEnd
  <2> SUFFICES ASSUME SessionInv, NEW e \in Stmts
               PROVE  /\ ends[e] <= 1
                      /\ ends[e] = 1 => Over(e)
                      /\ Over(e) /\ buffer[e] # "none" => ends[e] = 1
                      /\ pc[e] = "gone" => ends[e] = 1 \/ (kind[e] = "preview" /\ server[e] = "none")
      BY DEF OneEnd
  <2>1. Told(e) /\ Abandoned(e) /\ Silent(e)
        BY DEF SessionInv, StmtInv
  <2> QED BY <2>1 DEF Told, Abandoned, Silent, Over
<1> QED BY <1>1, SessionInvariant, PTL

\* A statement is reachable by its handle exactly while it drains and until its
\* end is announced (CancelRegistry::register, finish).
THEOREM RegisteredIsRunningHolds == Spec => []RegisteredIsRunning
<1>1. SessionInv => RegisteredIsRunning
      BY DEF SessionInv, StmtInv, Draining, RegisteredIsRunning
<1> QED BY <1>1, SessionInvariant, PTL

\* Nobody waits for the rows of a statement that is over, and a result that reads
\* as whole came from a statement the server finished (seal, mark_complete).
THEOREM ResultIsClosedHolds == Spec => []ResultIsClosed
<1>1. SessionInv => ResultIsClosed
      BY DEF SessionInv, StmtInv, Draining, ResultIsClosed
<1> QED BY <1>1, SessionInvariant, PTL

\* A session is taken from its slot when nothing uses it, and nothing uses it
\* from then on (SessionSlot::close).
THEOREM TakenIsUnusedHolds == Spec => []TakenIsUnused
<1>1. SessionInv => TakenIsUnused
      BY DEF SessionInv, SlotInv
<1> QED BY <1>1, SessionInvariant, PTL

\* An execution its caller learns was interrupted had its server asked, unless
\* the session was closing or could not (drain, CancelRegistry::cancel).
THEOREM InterruptionIsSentHolds == Spec => []InterruptionIsSent
<1>1. SessionInv => InterruptionIsSent
  <2> SUFFICES ASSUME SessionInv, NEW e \in Stmts, pc[e] = "over", buffer[e] # "none",
                      answer[e] \in {"Cancelled", "Timeout", "Unknown"}
               PROVE  e \in asked \/ closing \/ ~ SERVER_SIDE_CANCEL
      BY DEF InterruptionIsSent
  <2>1. Told(e)
        BY DEF SessionInv, StmtInv
  <2> QED BY <2>1 DEF Told, Sent
<1> QED BY <1>1, SessionInvariant, PTL
=============================================================================

-------------------------- MODULE CancelToken_proofs --------------------------
(* No child escapes, whatever threads create, cancel, drop and await at once.  *)
EXTENDS CancelToken, TLAPS

-----------------------------------------------------------------------------
(* The inductive invariant *)

\* A token that is used, awaited or the parent of another was created, and the
\* one a thread is creating was not.
Created ==
    /\ \A t \in Tokens : parent[t] \in born \cup {None}
    /\ \A t \in Tokens \ born : parent[t] = None
    /\ \A i \in Threads : thread[i].at \in born \cup {None}
    /\ \A i \in Threads : thread[i].new \notin born
    /\ \A i, j \in Threads : thread[i].new = thread[j].new => i = j \/ thread[i].new = None

\* The references of a token are to its own children, and those a thread still
\* has to visit are children of a cancelled token.
Family ==
    /\ \A p \in Tokens : \A t \in children[p] : t \in born /\ parent[t] = p
    /\ \A i \in Threads : \A t \in thread[i].todo : t \in born /\ parent[t] \in cancelled

\* Who creates a child holds the lock of its parent.
Locked == \A i \in Threads : thread[i].pc = "pushing" => lock[thread[i].at] = i

\* Thread j is about to take the children of p.
WillTake(j, p) == thread[j].pc \in {"notifying", "taking"} /\ thread[j].at = p

\* What a creation saw of its parent's flag; if it is set since, whoever set it
\* still waits for the lock.
Seen ==
    \A i \in Threads :
        thread[i].pc = "pushing" =>
            IF thread[i].seen THEN thread[i].at \in cancelled
            ELSE thread[i].at \in cancelled => \E j \in Threads : WillTake(j, thread[i].at)

Propagates == \A j \in Threads : thread[j].pc \in {"notifying", "taking"} => thread[j].at \in cancelled

\* A live token that is not cancelled is known to its parent, or on its way to
\* be cancelled if its parent is.
Registered ==
    \A t \in alive : t \notin cancelled /\ parent[t] # None =>
        IF parent[t] \in cancelled
        THEN \E j \in Threads : \/ t \in thread[j].todo
                                \/ WillTake(j, parent[t]) /\ t \in children[parent[t]]
        ELSE t \in children[parent[t]]

TokenInv ==
    /\ TypeOK /\ Created /\ Family /\ Locked /\ Seen /\ Propagates /\ Registered
    /\ NeverUp /\ NoLostWakeup
-----------------------------------------------------------------------------
(* One lemma per action *)

\* What a thread does, whatever the step replaces in its record.
Records == [pc : Pcs, at : Tokens \cup {None}, new : Tokens \cup {None},
            seen : BOOLEAN, todo : SUBSET Tokens]

LEMMA Replaced ==
    ASSUME NEW r \in Records, NEW c \in Pcs, NEW b \in BOOLEAN, NEW s \in SUBSET Tokens
    PROVE  /\ [r EXCEPT !.seen = b] \in Records
           /\ [r EXCEPT !.pc = c] \in Records
           /\ [r EXCEPT !.pc = c, !.seen = b] \in Records
           /\ [r EXCEPT !.pc = c, !.todo = @ \cup s] \in Records
<1>1. r.todo \cup s \in SUBSET Tokens
  BY DEF Records
<1>2. [r EXCEPT !.seen = b] \in Records
  BY DEF Records
<1>3. [r EXCEPT !.pc = c] \in Records
  BY DEF Records
<1>4. [r EXCEPT !.pc = c, !.seen = b] \in Records
  BY DEF Records
<1>5. [r EXCEPT !.pc = c, !.todo = @ \cup s] \in Records
  BY <1>1 DEF Records
<1> QED  BY <1>2, <1>3, <1>4, <1>5

\* What every thread still has to do keeps a live token registered.
LEMMA RegisteredFrame ==
    ASSUME TypeOK, Registered,
           parent' = parent, cancelled' = cancelled, alive' \subseteq alive,
           \A p \in Tokens : \A t \in children[p] \cap alive : t \in children'[p],
           \A j \in Threads :
            /\ thread[j].todo \subseteq thread'[j].todo
            /\ \A p \in Tokens : WillTake(j, p) => WillTake(j, p)'
    PROVE  Registered'
<1> SUFFICES ASSUME NEW t \in alive', (t \notin cancelled /\ parent[t] # None)'
             PROVE  (IF parent[t] \in cancelled
                     THEN \E j \in Threads : \/ t \in thread[j].todo
                                             \/ WillTake(j, parent[t]) /\ t \in children[parent[t]]
                     ELSE t \in children[parent[t]])'
  BY DEF Registered
<1>1. t \in alive /\ t \in Tokens /\ parent[t] \in Tokens
  BY DEF TypeOK
<1>2. t \in children[parent[t]] => t \in children'[parent[t]]
  BY <1>1
<1>3. CASE parent[t] \in cancelled
  <2>1. PICK j \in Threads : \/ t \in thread[j].todo
                             \/ WillTake(j, parent[t]) /\ t \in children[parent[t]]
    BY <1>1, <1>3 DEF Registered
  <2>2. t \in thread'[j].todo \/ (WillTake(j, parent[t])' /\ t \in children'[parent[t]])
    BY <2>1, <1>1, <1>2
  <2> QED  BY <1>3, <2>2
<1>4. CASE parent[t] \notin cancelled
  BY <1>1, <1>2, <1>4 DEF Registered
<1> QED  BY <1>3, <1>4

LEMMA NewStep ==
    ASSUME TokenInv, NEW t \in Tokens, New(t)
    PROVE  TokenInv'
<1> USE NoneAssumption DEF TokenInv, New, tree, At, Idle, Return
<1>1. TypeOK'
  BY DEF TypeOK, Pcs, Cancelling, Waiting
<1>2. Created'
  BY DEF TypeOK, Created, Pcs, Cancelling, Waiting
<1>3. Family'
  BY DEF TypeOK, Created, Family, Propagates
<1>4. Locked'
  BY DEF TypeOK, Locked
<1>5. Seen'
  BY DEF TypeOK, Created, Locked, Seen, WillTake
<1>6. Propagates'
  BY DEF TypeOK, Propagates
<1>7. Registered'
  BY DEF TypeOK, Created, Locked, Seen, Registered, WillTake, Propagates
<1>8. NeverUp'
  BY DEF TypeOK, Created, Family, Seen, NeverUp
<1>9. NoLostWakeup'
  BY DEF TypeOK, Created, NoLostWakeup, Does
<1> QED  BY <1>1, <1>2, <1>3, <1>4, <1>5, <1>6, <1>7, <1>8, <1>9

LEMMA BeginChildStep ==
    ASSUME TokenInv, NEW i \in Threads, NEW p \in Tokens, NEW t \in Tokens, BeginChild(i, p, t)
    PROVE  TokenInv'
<1> USE NoneAssumption DEF TokenInv, BeginChild, tree, At, Idle, Return
<1>1. TypeOK'
  BY DEF TypeOK, Pcs, Cancelling, Waiting
<1>2. Created'
  BY DEF TypeOK, Created, Pcs, Cancelling, Waiting
<1>3. Family'
  BY DEF TypeOK, Created, Family, Propagates
<1>4. Locked'
  BY DEF TypeOK, Locked
<1>5. Seen'
  BY ZenonT(30) DEF TypeOK, Created, Locked, Seen, WillTake
<1>6. Propagates'
  BY DEF TypeOK, Propagates
<1>7. Registered'
  <2>1. \A j \in Threads : /\ thread[j].todo \subseteq thread'[j].todo
                           /\ \A q \in Tokens : WillTake(j, q) => WillTake(j, q)'
    BY DEF TypeOK, WillTake, Cancelling
  <2>2. \A q \in Tokens : \A u \in children[q] \cap alive : u \in children'[q]
    BY DEF TypeOK
  <2> QED  BY <2>1, <2>2, RegisteredFrame
<1>8. NeverUp'
  BY DEF TypeOK, Created, Family, Seen, NeverUp
<1>9. NoLostWakeup'
  BY DEF TypeOK, Created, NoLostWakeup, Does
<1> QED  BY <1>1, <1>2, <1>3, <1>4, <1>5, <1>6, <1>7, <1>8, <1>9

LEMMA EndChildStep ==
    ASSUME TokenInv, NEW i \in Threads, EndChild(i)
    PROVE  TokenInv'
<1> USE NoneAssumption DEF TokenInv, EndChild, tree, At, Idle, Return
<1>1. TypeOK'
  BY DEF TypeOK, Pcs, Cancelling, Waiting
<1>2. Created'
  BY DEF TypeOK, Created, Pcs, Cancelling, Waiting
<1>3. Family'
  BY DEF TypeOK, Created, Family, Propagates
<1>4. Locked'
  BY DEF TypeOK, Locked
<1>5. Seen'
  BY DEF TypeOK, Created, Locked, Seen, WillTake
<1>6. Propagates'
  BY DEF TypeOK, Propagates
<1>7. Registered'
  <2> DEFINE p == thread[i].at
             n == thread[i].new
  <2>1. /\ p \in born /\ p \in Tokens /\ n \in Tokens \ born
        /\ thread[i].todo = {}
        /\ \A j \in Threads \ {i} : thread'[j] = thread[j]
    BY DEF TypeOK, Created, Cancelling
  <2>2. /\ alive' = alive \cup {n}
        /\ parent'[n] = p /\ \A u \in Tokens \ {n} : parent'[u] = parent[u]
        /\ \A q \in Tokens : children[q] \subseteq children'[q]
        /\ cancelled \subseteq cancelled' /\ cancelled' \subseteq cancelled \cup {n}
        /\ n \in cancelled' \/ (n \in children'[p] /\ ~ thread[i].seen /\ cancelled' = cancelled)
    BY <2>1 DEF TypeOK
  <2>3. ASSUME NEW u \in alive', u \notin cancelled', parent'[u] # None
        PROVE  IF parent'[u] \in cancelled'
               THEN \E j \in Threads : \/ u \in thread'[j].todo
                                       \/ /\ thread'[j].pc \in {"notifying", "taking"}
                                          /\ thread'[j].at = parent'[u] /\ u \in children'[parent'[u]]
               ELSE u \in children'[parent'[u]]
    <3>1. CASE u = n
      <4>1. n \in children'[p] /\ ~ thread[i].seen /\ cancelled' = cancelled
        BY <2>2, <2>3, <3>1
      <4>2. CASE p \in cancelled
        <5>1. PICK j \in Threads : WillTake(j, p)
          BY <4>1, <4>2 DEF Seen
        <5>2. j # i
          BY <5>1 DEF WillTake
        <5>3. thread'[j].pc \in {"notifying", "taking"} /\ thread'[j].at = p
          BY <5>1, <5>2, <2>1 DEF WillTake
        <5> QED  BY <5>3, <4>1, <4>2, <2>2, <3>1
      <4>3. CASE p \notin cancelled
        BY <4>1, <4>3, <2>2, <3>1
      <4> QED  BY <4>2, <4>3
    <3>2. CASE u # n
      <4>1. u \in alive /\ u \in Tokens /\ parent'[u] = parent[u] /\ u \notin cancelled
        BY <2>2, <2>3, <3>2 DEF TypeOK
      <4>2. parent[u] \in Tokens /\ parent[u] # n
        BY <4>1, <2>1, <2>3 DEF Created, TypeOK
      <4>3. parent[u] \in cancelled' <=> parent[u] \in cancelled
        BY <4>2, <2>2
      <4>4. CASE parent[u] \in cancelled
        <5>1. PICK j \in Threads : \/ u \in thread[j].todo
                                   \/ WillTake(j, parent[u]) /\ u \in children[parent[u]]
          BY <4>1, <4>2, <4>4 DEF Registered
        <5>2. j # i
          BY <5>1, <2>1 DEF WillTake
        <5> QED  BY <5>1, <5>2, <2>1, <2>2, <4>1, <4>2, <4>3, <4>4 DEF WillTake
      <4>5. CASE parent[u] \notin cancelled
        BY <4>1, <4>2, <4>3, <4>5, <2>2 DEF Registered
      <4> QED  BY <4>4, <4>5
    <3> QED  BY <3>1, <3>2
  <2> HIDE DEF p, n
  <2> QED  BY ONLY <2>3 DEF Registered, WillTake
<1>8. NeverUp'
  BY DEF TypeOK, Created, Family, Seen, NeverUp
<1>9. NoLostWakeup'
  BY DEF TypeOK, Created, NoLostWakeup, Does
<1> QED  BY <1>1, <1>2, <1>3, <1>4, <1>5, <1>6, <1>7, <1>8, <1>9

LEMMA DropTokenStep ==
    ASSUME TokenInv, NEW t \in Tokens, DropToken(t)
    PROVE  TokenInv'
<1> USE NoneAssumption DEF TokenInv, DropToken, tree, At, Idle, Return
<1>1. TypeOK'
  BY DEF TypeOK, Pcs, Cancelling, Waiting
<1>2. Created'
  BY DEF TypeOK, Created, Pcs, Cancelling, Waiting
<1>3. Family'
  BY DEF TypeOK, Created, Family, Propagates
<1>4. Locked'
  BY DEF TypeOK, Locked
<1>5. Seen'
  BY DEF TypeOK, Created, Locked, Seen, WillTake
<1>6. Propagates'
  BY DEF TypeOK, Propagates
<1>7. Registered'
  BY DEF TypeOK, Created, Locked, Seen, Registered, WillTake, Propagates
<1>8. NeverUp'
  BY DEF TypeOK, Created, Family, Seen, NeverUp
<1>9. NoLostWakeup'
  BY DEF TypeOK, Created, NoLostWakeup, Does
<1> QED  BY <1>1, <1>2, <1>3, <1>4, <1>5, <1>6, <1>7, <1>8, <1>9

LEMMA CancelStep ==
    ASSUME TokenInv, NEW i \in Threads, NEW t \in Tokens, Cancel(i, t)
    PROVE  TokenInv'
<1> USE NoneAssumption DEF TokenInv, Cancel, tree, At, Idle, Return
<1>1. TypeOK'
  BY DEF TypeOK, Pcs, Cancelling, Waiting
<1>2. Created'
  BY DEF TypeOK, Created, Pcs, Cancelling, Waiting
<1>3. Family'
  BY DEF TypeOK, Created, Family, Propagates
<1>4. Locked'
  BY DEF TypeOK, Locked
<1>5. Seen'
  BY DEF TypeOK, Created, Locked, Seen, WillTake
<1>6. Propagates'
  BY DEF TypeOK, Propagates
<1>7. Registered'
  <2>1. /\ thread[i].todo = {} /\ t \in Tokens
        /\ thread'[i].pc = "notifying" /\ thread'[i].at = t
        /\ \A j \in Threads \ {i} : thread'[j] = thread[j]
    BY DEF TypeOK, Cancelling
  <2>2. ASSUME NEW u \in alive, u \notin cancelled', parent[u] # None
        PROVE  IF parent[u] \in cancelled'
               THEN \E j \in Threads : \/ u \in thread'[j].todo
                                       \/ WillTake(j, parent[u])' /\ u \in children[parent[u]]
               ELSE u \in children[parent[u]]
    <3>1. CASE parent[u] = t
      <4>1. u \in children[t]
        BY <2>2, <3>1 DEF Registered
      <4>2. WillTake(i, t)'
        BY <2>1 DEF WillTake
      <4> QED  BY <4>1, <4>2, <3>1
    <3>2. CASE parent[u] # t /\ parent[u] \in cancelled
      <4>1. PICK j \in Threads : \/ u \in thread[j].todo
                                 \/ WillTake(j, parent[u]) /\ u \in children[parent[u]]
        BY <2>2, <3>2 DEF Registered
      <4>2. j # i
        BY <4>1, <2>1 DEF WillTake
      <4> QED  BY <4>1, <4>2, <2>1, <3>2 DEF WillTake
    <3>3. CASE parent[u] # t /\ parent[u] \notin cancelled
      BY <2>2, <3>3 DEF Registered
    <3> QED  BY <3>1, <3>2, <3>3
  <2> QED  BY <2>2 DEF Registered
<1>8. NeverUp'
  BY DEF TypeOK, Created, Family, Seen, NeverUp
<1>9. NoLostWakeup'
  BY DEF TypeOK, Created, NoLostWakeup, Does
<1> QED  BY <1>1, <1>2, <1>3, <1>4, <1>5, <1>6, <1>7, <1>8, <1>9

LEMMA NotifyStep ==
    ASSUME TokenInv, NEW i \in Threads, Notify(i)
    PROVE  TokenInv'
<1> USE NoneAssumption DEF TokenInv, Notify, tree, At, Idle, Return
<1>1. TypeOK'
  <2>1. thread' \in [Threads -> [pc : Pcs, at : Tokens \cup {None}, new : Tokens \cup {None},
                                seen : BOOLEAN, todo : SUBSET Tokens]]
    <3> DEFINE R == Records
    <3>1. thread \in [Threads -> R]
      BY DEF TypeOK, Records
    <3>2. \A j \in Threads : [thread[j] EXCEPT !.pc = "taking"] \in R /\ [thread[j] EXCEPT !.seen = TRUE] \in R
      BY ONLY <3>1, Replaced DEF Pcs, Cancelling
    <3> HIDE DEF R
    <3>3. ASSUME NEW j \in Threads  PROVE thread'[j] \in R
      BY <3>1, <3>2
    <3>4. thread' \in [Threads -> R]
      BY <3>3
    <3> QED  BY <3>4 DEF R, Records
  <2>2. ASSUME NEW j \in Threads
        PROVE  /\ thread'[j].pc = "idle" <=> thread'[j].at = None
               /\ thread'[j].pc = "pushing" <=> thread'[j].new # None
               /\ thread'[j].pc \notin Cancelling => thread'[j].todo = {}
    BY DEF TypeOK, Pcs, Cancelling, Waiting
  <2>3. (/\ alive \subseteq born /\ born \subseteq Tokens
         /\ parent \in [Tokens -> Tokens \cup {None}]
         /\ cancelled \subseteq born /\ requested \subseteq cancelled
         /\ children \in [Tokens -> SUBSET Tokens]
         /\ lock \in [Tokens -> Threads \cup {None}])'
    BY DEF TypeOK
  <2> QED  BY <2>1, <2>2, <2>3 DEF TypeOK
<1>2. Created'
  BY DEF TypeOK, Created, Pcs, Cancelling, Waiting
<1>3. Family'
  BY DEF TypeOK, Created, Family, Propagates
<1>4. Locked'
  BY DEF TypeOK, Locked
<1>5. Seen'
  BY DEF TypeOK, Created, Locked, Seen, WillTake
<1>6. Propagates'
  BY DEF TypeOK, Propagates
<1>7. Registered'
  BY DEF TypeOK, Created, Locked, Seen, Registered, WillTake, Propagates
<1>8. NeverUp'
  BY DEF TypeOK, Created, Family, Seen, NeverUp
<1>9. NoLostWakeup'
  BY DEF TypeOK, Created, NoLostWakeup, Does
<1> QED  BY <1>1, <1>2, <1>3, <1>4, <1>5, <1>6, <1>7, <1>8, <1>9

\* The children of a cancelled token pass from its list to whoever took them.
LEMMA TakeStep ==
    ASSUME TokenInv, NEW i \in Threads, Take(i)
    PROVE  TokenInv'
<1> USE NoneAssumption DEF TokenInv
<1> DEFINE p == thread[i].at
<1>1. /\ thread[i].pc = "taking" /\ lock[p] = None
      /\ thread' = [thread EXCEPT ![i] = 
                                [@ EXCEPT !.pc = "descending", !.todo = thread[i].todo \cup children[p]]]
      /\ children' = [children EXCEPT ![p] = {}]
      /\ UNCHANGED <<born, alive, parent, cancelled, lock, requested>>
  BY DEF Take, tree
<1>2. p \in Tokens /\ p \in cancelled /\ children[p] \in SUBSET Tokens /\ thread[i] \in Records
  BY <1>1 DEF TypeOK, Propagates, Records
<1>3. /\ \A j \in Threads \ {i} : thread'[j] = thread[j]
      /\ thread'[i] = [thread[i] EXCEPT !.pc = "descending", !.todo = thread[i].todo \cup children[p]]
      /\ thread' = [j \in Threads |-> thread'[j]]
  BY <1>1 DEF TypeOK
<1>4. /\ thread'[i].pc = "descending" /\ thread'[i].at = p /\ thread'[i].new = thread[i].new
      /\ thread'[i].seen = thread[i].seen /\ thread'[i].todo = thread[i].todo \cup children[p]
      /\ thread'[i] \in Records
  BY <1>2, <1>3 DEF Records, Pcs, Cancelling
<1>5. /\ \A c \in Tokens \ {p} : children'[c] = children[c]
      /\ children'[p] = {} /\ children' \in [Tokens -> SUBSET Tokens]
  BY <1>1, <1>2 DEF TypeOK
<1> HIDE DEF p
<1>6. TypeOK'
  <2>1. thread' \in [Threads -> Records]
    <3>2. \A j \in Threads : thread[j] \in Records
      BY DEF TypeOK, Records
    <3> HIDE DEF TokenInv
    <3>1. \A j \in Threads : thread'[j] \in Records
      BY <1>3, <1>4, <3>2
    <3> QED
      BY <1>3, <3>1
  <2>2. ASSUME NEW j \in Threads
        PROVE  /\ thread'[j].pc = "idle" <=> thread'[j].at = None
               /\ thread'[j].pc = "pushing" <=> thread'[j].new # None
               /\ thread'[j].pc \notin Cancelling => thread'[j].todo = {}
    BY <1>1, <1>2, <1>3, <1>4 DEF TypeOK, Cancelling
  <2> QED
    BY <1>1, <1>5, <2>1, <2>2 DEF TypeOK, Records
<1>7. Created'
  BY <1>1, <1>2, <1>3, <1>4 DEF TypeOK, Created, p
<1>8. Family'
  <2>1. ASSUME NEW c \in Tokens, NEW t \in children'[c] PROVE t \in born' /\ parent'[t] = c
    BY <1>1, <1>5, <2>1 DEF Family
  <2>2. ASSUME NEW j \in Threads, NEW t \in thread'[j].todo
        PROVE  t \in born' /\ parent'[t] \in cancelled'
    BY <1>1, <1>2, <1>3, <1>4, <2>2 DEF Family
  <2> QED
    BY <2>1, <2>2 DEF Family
<1>9. Locked'
  BY <1>1, <1>3, <1>4 DEF Locked
<1>10. Seen'
  <2> DEFINE Takes(k, c) == thread'[k].pc \in {"notifying", "taking"} /\ thread'[k].at = c
  <2>1. ASSUME NEW j \in Threads, thread'[j].pc = "pushing"
        PROVE  IF thread'[j].seen THEN thread'[j].at \in cancelled'
               ELSE thread'[j].at \in cancelled' => \E k \in Threads : Takes(k, thread'[j].at)
    <3>1. j # i /\ thread'[j] = thread[j] /\ thread[j].at # p
      BY <1>1, <1>3, <1>4, <2>1 DEF Locked, TypeOK
    <3>2. \A k \in Threads : WillTake(k, thread[j].at) => Takes(k, thread[j].at)
      BY <1>1, <1>3, <3>1 DEF WillTake, p
    <3> QED
      BY <1>1, <2>1, <3>1, <3>2 DEF Seen
  <2> QED
    BY <2>1 DEF Seen, WillTake
<1>11. Propagates'
  BY <1>1, <1>3, <1>4 DEF Propagates
<1>12. Registered'
  <2> DEFINE Takes(k, c) == thread'[k].pc \in {"notifying", "taking"} /\ thread'[k].at = c
  <2> SUFFICES ASSUME NEW t \in alive, t \notin cancelled, parent[t] # None
               PROVE  IF parent[t] \in cancelled
                      THEN \E j \in Threads :
                            \/ t \in thread'[j].todo
                            \/ Takes(j, parent[t]) /\ t \in children'[parent[t]]
                      ELSE t \in children'[parent[t]]
    BY <1>1 DEF Registered, WillTake
  <2>1. parent[t] \in Tokens
    BY DEF TypeOK
  <2>2. CASE parent[t] \notin cancelled
    BY <1>2, <1>5, <2>1, <2>2 DEF Registered
  <2>3. CASE parent[t] \in cancelled
    <3>1. PICK j \in Threads : \/ t \in thread[j].todo
                               \/ WillTake(j, parent[t]) /\ t \in children[parent[t]]
      BY <2>3 DEF Registered
    <3>2. CASE t \in thread[j].todo
      BY <1>3, <1>4, <2>3, <3>2
    <3>3. CASE parent[t] = p /\ t \in children[p]
      BY <1>4, <2>3, <3>3
    <3>4. CASE parent[t] # p /\ WillTake(j, parent[t]) /\ t \in children[parent[t]]
      <4>1. Takes(j, parent[t]) /\ t \in children'[parent[t]]
        BY <1>1, <1>3, <1>5, <2>1, <3>4 DEF WillTake, p
      <4> QED
        BY <2>3, <4>1
    <3> QED
      BY <3>1, <3>2, <3>3, <3>4
  <2> QED
    BY <2>2, <2>3
<1>13. NeverUp'
  BY <1>1 DEF NeverUp
<1>14. NoLostWakeup'
  <2> SUFFICES ASSUME NEW j \in Threads, thread'[j].pc = "waiting", thread'[j].at \in cancelled
               PROVE  \/ thread'[j].seen
                      \/ \E k \in Threads : thread'[k].pc = "notifying" /\ thread'[k].at = thread'[j].at
    BY <1>1 DEF NoLostWakeup, Does
  <2>1. thread'[j] = thread[j]
    BY <1>3, <1>4
  <2>2. \A k \in Threads : Does(k, "notifying", thread[j].at) =>
                thread'[k].pc = "notifying" /\ thread'[k].at = thread[j].at
    BY <1>1, <1>3 DEF Does
  <2> QED
    BY <2>1, <2>2 DEF NoLostWakeup
<1> QED  BY <1>6, <1>7, <1>8, <1>9, <1>10, <1>11, <1>12, <1>13, <1>14

LEMMA DescendedStep ==
    ASSUME TokenInv, NEW i \in Threads, Descended(i)
    PROVE  TokenInv'
<1> USE NoneAssumption DEF TokenInv, Descended, tree, At, Idle, Return
<1>1. TypeOK'
  BY DEF TypeOK, Pcs, Cancelling, Waiting
<1>2. Created'
  BY DEF TypeOK, Created, Pcs, Cancelling, Waiting
<1>3. Family'
  BY DEF TypeOK, Created, Family, Propagates
<1>4. Locked'
  BY DEF TypeOK, Locked
<1>5. Seen'
  BY DEF TypeOK, Created, Locked, Seen, WillTake
<1>6. Propagates'
  BY DEF TypeOK, Propagates
<1>7. Registered'
  BY DEF TypeOK, Created, Locked, Seen, Registered, WillTake, Propagates
<1>8. NeverUp'
  BY DEF TypeOK, Created, Family, Seen, NeverUp
<1>9. NoLostWakeup'
  BY DEF TypeOK, Created, NoLostWakeup, Does
<1> QED  BY <1>1, <1>2, <1>3, <1>4, <1>5, <1>6, <1>7, <1>8, <1>9

\* A child whose flag is set is visited next, with its own children still in its
\* list; one that is gone or already cancelled needs no visit.
LEMMA DescendStep ==
    ASSUME TokenInv, NEW i \in Threads, Descend(i)
    PROVE  TokenInv'
<1> USE NoneAssumption DEF TokenInv
<1>1. /\ thread[i].pc = "descending"
      /\ UNCHANGED <<born, alive, parent, children, lock, requested>>
  BY DEF Descend, tree
<1>2. PICK t \in thread[i].todo :
        IF t \in alive \ cancelled
        THEN /\ cancelled' = cancelled \cup {t}
             /\ thread' = [thread EXCEPT ![i] = 
                                  [@ EXCEPT !.pc = "notifying", !.at = t, !.todo = thread[i].todo \ {t}]]
        ELSE thread' = [thread EXCEPT ![i].todo = @ \ {t}] /\ UNCHANGED cancelled
  BY DEF Descend
<1>3. t \in Tokens /\ t \in born /\ parent[t] \in cancelled /\ t # None /\ thread[i] \in Records
  BY <1>2 DEF TypeOK, Family, Records
<1>4. /\ \A j \in Threads \ {i} : thread'[j] = thread[j]
      /\ thread' = [j \in Threads |-> thread'[j]]
      /\ thread'[i] = IF t \in alive \ cancelled
                      THEN [thread[i] EXCEPT !.pc = "notifying", !.at = t, !.todo = thread[i].todo \ {t}]
                      ELSE [thread[i] EXCEPT !.todo = @ \ {t}]
  <2>1. CASE t \in alive \ cancelled
    <3>1. thread' = [thread EXCEPT ![i] =
                       [@ EXCEPT !.pc = "notifying", !.at = t, !.todo = thread[i].todo \ {t}]]
      BY <1>2, <2>1
    <3> QED
      BY <2>1, <3>1 DEF TypeOK
  <2>2. CASE t \notin alive \ cancelled
    <3>1. thread' = [thread EXCEPT ![i].todo = @ \ {t}]
      BY <1>2, <2>2
    <3> QED
      BY <2>2, <3>1 DEF TypeOK
  <2> QED
    BY <2>1, <2>2
<1>5. /\ thread'[i].pc \in {"notifying", "descending"} /\ thread'[i].at \in born
      /\ thread'[i].new = thread[i].new /\ thread'[i].seen = thread[i].seen
      /\ thread'[i].todo = thread[i].todo \ {t} /\ thread'[i] \in Records
      /\ IF t \in alive \ cancelled
         THEN thread'[i].pc = "notifying" /\ thread'[i].at = t
         ELSE thread'[i].pc = "descending" /\ thread'[i].at = thread[i].at
  <2>1. thread[i].at \in born /\ thread[i].at \in Tokens
    BY <1>1 DEF TypeOK, Created
  <2>2. CASE t \in alive \ cancelled
    BY ZenonT(30), <1>3, <1>4, <2>2 DEF Records, Pcs, Cancelling
  <2>3. CASE t \notin alive \ cancelled
    BY <1>1, <1>3, <1>4, <2>1, <2>3 DEF Records, Pcs, Cancelling
  <2> QED
    BY <2>2, <2>3
<1>6. cancelled' = IF t \in alive \ cancelled THEN cancelled \cup {t} ELSE cancelled
  BY <1>2
<1>7. TypeOK'
  <2>1. thread' \in [Threads -> Records]
    <3>2. \A j \in Threads : thread[j] \in Records
      BY DEF TypeOK, Records
    <3> HIDE DEF TokenInv
    <3>1. \A j \in Threads : thread'[j] \in Records
      BY <1>4, <1>5, <3>2
    <3> QED
      BY <1>4, <3>1
  <2>2. ASSUME NEW j \in Threads
        PROVE  /\ thread'[j].pc = "idle" <=> thread'[j].at = None
               /\ thread'[j].pc = "pushing" <=> thread'[j].new # None
               /\ thread'[j].pc \notin Cancelling => thread'[j].todo = {}
    <3>1. CASE j = i
      BY <1>1, <1>5, <3>1 DEF TypeOK, Cancelling
    <3>2. CASE j # i
      BY <1>4, <3>2 DEF TypeOK
    <3> QED
      BY <3>1, <3>2
  <2>3. cancelled' \subseteq born' /\ requested' \subseteq cancelled'
    BY <1>1, <1>3, <1>6 DEF TypeOK
  <2> QED
    BY <1>1, <2>1, <2>2, <2>3 DEF TypeOK, Records
<1>8. Created'
  <2>1. \A j \in Threads : thread'[j].at \in born' \cup {None} /\ thread'[j].new = thread[j].new
    BY <1>1, <1>4, <1>5 DEF Created
  <2> QED
    BY <1>1, <2>1 DEF Created
<1>9. Family'
  <2>1. ASSUME NEW j \in Threads, NEW u \in thread'[j].todo
        PROVE  u \in born' /\ parent'[u] \in cancelled'
    <3>1. u \in thread[j].todo
      BY <1>4, <1>5, <2>1
    <3> QED
      BY <1>1, <1>6, <3>1 DEF Family
  <2> QED
    BY <1>1, <2>1 DEF Family
<1>10. Locked'
  BY <1>1, <1>4, <1>5 DEF Locked
\* Whoever is about to take the children of a token still is.
<1> DEFINE Takes(j, q) == thread'[j].pc \in {"notifying", "taking"} /\ thread'[j].at = q
<1>11. \A j \in Threads : \A q : WillTake(j, q) => Takes(j, q)
  BY <1>1, <1>4 DEF WillTake
<1>12. t \in alive \ cancelled => Takes(i, t)
  BY <1>5
<1>13. Seen'
  <2>1. ASSUME NEW j \in Threads, thread'[j].pc = "pushing"
        PROVE  IF thread'[j].seen THEN thread'[j].at \in cancelled'
               ELSE thread'[j].at \in cancelled' => \E k \in Threads : Takes(k, thread'[j].at)
    <3>1. thread'[j] = thread[j]
      BY <1>4, <1>5, <2>1
    <3>2. CASE thread[j].seen
      BY <1>6, <2>1, <3>1, <3>2 DEF Seen
    <3>3. CASE ~ thread[j].seen /\ thread[j].at \in cancelled
      <4>1. PICK k \in Threads : WillTake(k, thread[j].at)
        BY <2>1, <3>1, <3>3 DEF Seen
      <4> QED
        BY <1>11, <3>1, <3>3, <4>1
    <3>4. CASE ~ thread[j].seen /\ thread[j].at \notin cancelled
      BY <1>6, <1>12, <3>1, <3>4
    <3> QED
      BY <3>2, <3>3, <3>4
  <2> QED
    BY <2>1 DEF Seen, WillTake
<1>14. Propagates'
  <2>1. ASSUME NEW j \in Threads, thread'[j].pc \in {"notifying", "taking"}
        PROVE  thread'[j].at \in cancelled'
    <3>1. CASE j = i
      BY <1>5, <1>6, <2>1, <3>1
    <3>2. CASE j # i
      BY <1>4, <1>6, <2>1, <3>2 DEF Propagates
    <3> QED
      BY <3>1, <3>2
  <2> QED
    BY <2>1 DEF Propagates
<1>15. Registered'
  <2> SUFFICES ASSUME NEW u \in alive, u \notin cancelled', parent[u] # None
               PROVE  IF parent[u] \in cancelled'
                      THEN \E j \in Threads :
                            \/ u \in thread'[j].todo
                            \/ Takes(j, parent[u]) /\ u \in children[parent[u]]
                      ELSE u \in children[parent[u]]
    BY <1>1 DEF Registered, WillTake
  <2>1. u \notin cancelled /\ u # t
    BY <1>6
  <2>2. CASE parent[u] \in cancelled
    <3>1. PICK j \in Threads : \/ u \in thread[j].todo
                               \/ WillTake(j, parent[u]) /\ u \in children[parent[u]]
      BY <2>1, <2>2 DEF Registered
    <3>2. u \in thread'[j].todo \/ (Takes(j, parent[u]) /\ u \in children[parent[u]])
      BY <1>4, <1>5, <1>11, <2>1, <3>1
    <3> QED
      BY <1>6, <2>2, <3>2
  <2>3. CASE parent[u] \notin cancelled
    <3>1. u \in children[parent[u]]
      BY <2>1, <2>3 DEF Registered
    <3> QED
      BY <1>6, <1>12, <2>3, <3>1
  <2> QED
    BY <2>2, <2>3
<1>16. NeverUp'
  BY <1>1, <1>3, <1>6 DEF NeverUp
<1>17. NoLostWakeup'
  <2> SUFFICES ASSUME NEW j \in Threads, thread'[j].pc = "waiting", thread'[j].at \in cancelled'
               PROVE  \/ thread'[j].seen
                      \/ \E k \in Threads : thread'[k].pc = "notifying" /\ thread'[k].at = thread'[j].at
    BY DEF NoLostWakeup, Does
  <2>1. thread'[j] = thread[j]
    BY <1>4, <1>5
  <2>2. CASE thread[j].at \in cancelled
    <3>1. \A k \in Threads : Does(k, "notifying", thread[j].at) =>
                  thread'[k].pc = "notifying" /\ thread'[k].at = thread[j].at
      BY <1>1, <1>4 DEF Does
    <3> QED
      BY <2>1, <2>2, <3>1 DEF NoLostWakeup
  <2>3. CASE thread[j].at \notin cancelled
    BY <1>5, <1>6, <2>1, <2>3 DEF Does
  <2> QED
    BY <2>2, <2>3
<1> QED  BY <1>7, <1>8, <1>9, <1>10, <1>13, <1>14, <1>15, <1>16, <1>17

LEMMA WaitStep ==
    ASSUME TokenInv, NEW i \in Threads, NEW t \in Tokens, Wait(i, t)
    PROVE  TokenInv'
<1> USE NoneAssumption DEF TokenInv, Wait, tree, At, Idle, Return
<1>1. TypeOK'
  BY DEF TypeOK, Pcs, Cancelling, Waiting
<1>2. Created'
  BY DEF TypeOK, Created, Pcs, Cancelling, Waiting
<1>3. Family'
  BY DEF TypeOK, Created, Family, Propagates
<1>4. Locked'
  BY DEF TypeOK, Locked
<1>5. Seen'
  BY DEF TypeOK, Created, Locked, Seen, WillTake
<1>6. Propagates'
  BY DEF TypeOK, Propagates
<1>7. Registered'
  <2>1. \A j \in Threads : /\ thread[j].todo \subseteq thread'[j].todo
                           /\ \A q \in Tokens : WillTake(j, q) => WillTake(j, q)'
    BY DEF TypeOK, WillTake, Cancelling
  <2>2. \A q \in Tokens : \A u \in children[q] \cap alive : u \in children'[q]
    BY DEF TypeOK
  <2> QED  BY <2>1, <2>2, RegisteredFrame
<1>8. NeverUp'
  BY DEF TypeOK, Created, Family, Seen, NeverUp
<1>9. NoLostWakeup'
  BY DEF TypeOK, Created, NoLostWakeup, Does
<1> QED  BY <1>1, <1>2, <1>3, <1>4, <1>5, <1>6, <1>7, <1>8, <1>9

LEMMA EnableStep ==
    ASSUME TokenInv, NEW i \in Threads, Enable(i)
    PROVE  TokenInv'
<1> USE NoneAssumption DEF TokenInv, Enable, tree, At, Idle, Return
<1>1. TypeOK'
  <2>1. thread' \in [Threads -> [pc : Pcs, at : Tokens \cup {None}, new : Tokens \cup {None},
                                seen : BOOLEAN, todo : SUBSET Tokens]]
    <3> DEFINE R == Records
    <3>1. thread \in [Threads -> R]
      BY DEF TypeOK, Records
    <3>2. [thread[i] EXCEPT !.pc = "rechecking", !.seen = FALSE] \in R
      BY ONLY <3>1, i \in Threads, Replaced DEF Pcs, Waiting
    <3>3. thread' = [thread EXCEPT ![i] = [thread[i] EXCEPT !.pc = "rechecking", !.seen = FALSE]]
      BY <3>1
    <3> HIDE DEF R
    <3>4. thread' \in [Threads -> R]
      BY ONLY <3>1, <3>2, <3>3
    <3> QED  BY <3>4 DEF R, Records
  <2>2. ASSUME NEW j \in Threads
        PROVE  /\ thread'[j].pc = "idle" <=> thread'[j].at = None
               /\ thread'[j].pc = "pushing" <=> thread'[j].new # None
               /\ thread'[j].pc \notin Cancelling => thread'[j].todo = {}
    <3>1. CASE j # i
      <4>1. thread'[j] = thread[j]
        BY <3>1 DEF TypeOK
      <4> QED
        BY <4>1 DEF TypeOK
    <3>2. CASE j = i
      BY <3>2 DEF TypeOK, Pcs, Cancelling, Waiting
    <3> QED
      BY <3>1, <3>2
  <2>3. (/\ alive \subseteq born /\ born \subseteq Tokens
         /\ parent \in [Tokens -> Tokens \cup {None}]
         /\ cancelled \subseteq born /\ requested \subseteq cancelled
         /\ children \in [Tokens -> SUBSET Tokens]
         /\ lock \in [Tokens -> Threads \cup {None}])'
    BY DEF TypeOK
  <2> QED  BY <2>1, <2>2, <2>3 DEF TypeOK
<1>2. Created'
  BY DEF TypeOK, Created, Pcs, Cancelling, Waiting
<1>3. Family'
  BY DEF TypeOK, Created, Family, Propagates
<1>4. Locked'
  BY DEF TypeOK, Locked
<1>5. Seen'
  BY DEF TypeOK, Created, Locked, Seen, WillTake
<1>6. Propagates'
  BY DEF TypeOK, Propagates
<1>7. Registered'
  BY DEF TypeOK, Created, Locked, Seen, Registered, WillTake, Propagates
<1>8. NeverUp'
  BY DEF TypeOK, Created, Family, Seen, NeverUp
<1>9. NoLostWakeup'
  BY DEF TypeOK, Created, NoLostWakeup, Does
<1> QED  BY <1>1, <1>2, <1>3, <1>4, <1>5, <1>6, <1>7, <1>8, <1>9

LEMMA RecheckStep ==
    ASSUME TokenInv, NEW i \in Threads, Recheck(i)
    PROVE  TokenInv'
<1> USE NoneAssumption DEF TokenInv, Recheck, tree, At, Idle, Return
<1>1. TypeOK'
  <2>1. thread' \in [Threads -> [pc : Pcs, at : Tokens \cup {None}, new : Tokens \cup {None},
                                seen : BOOLEAN, todo : SUBSET Tokens]]
    <3> DEFINE R == [pc : Pcs, at : Tokens \cup {None}, new : Tokens \cup {None},
                     seen : BOOLEAN, todo : SUBSET Tokens]
    <3>1. thread \in [Threads -> R]
      BY DEF TypeOK
    <3>2. Idle \in R /\ [thread[i] EXCEPT !.pc = "waiting"] \in R
      BY <3>1 DEF TypeOK, Pcs, Cancelling, Waiting
    <3>3. \/ thread' = [thread EXCEPT ![i] = Idle]
          \/ thread' = [thread EXCEPT ![i] = [thread[i] EXCEPT !.pc = "waiting"]]
      BY <3>1
    <3> HIDE DEF R, Idle
    <3>4. thread' \in [Threads -> R]
      BY ONLY <3>1, <3>2, <3>3
    <3> QED  BY <3>4 DEF R
  <2>2. ASSUME NEW j \in Threads
        PROVE  /\ thread'[j].pc = "idle" <=> thread'[j].at = None
               /\ thread'[j].pc = "pushing" <=> thread'[j].new # None
               /\ thread'[j].pc \notin Cancelling => thread'[j].todo = {}
    <3>1. CASE j # i
      <4>1. thread'[j] = thread[j]
        BY <3>1 DEF TypeOK
      <4> QED
        BY <4>1 DEF TypeOK
    <3>2. CASE j = i
      BY <3>2 DEF TypeOK, Pcs, Cancelling, Waiting
    <3> QED
      BY <3>1, <3>2
  <2>3. (/\ alive \subseteq born /\ born \subseteq Tokens
         /\ parent \in [Tokens -> Tokens \cup {None}]
         /\ cancelled \subseteq born /\ requested \subseteq cancelled
         /\ children \in [Tokens -> SUBSET Tokens]
         /\ lock \in [Tokens -> Threads \cup {None}])'
    BY DEF TypeOK
  <2> QED  BY <2>1, <2>2, <2>3 DEF TypeOK
<1>2. Created'
  BY DEF TypeOK, Created, Pcs, Cancelling, Waiting
<1>3. Family'
  BY DEF TypeOK, Created, Family, Propagates
<1>4. Locked'
  BY SMTT(30) DEF TypeOK, Locked
<1>5. Seen'
  BY DEF TypeOK, Created, Locked, Seen, WillTake
<1>6. Propagates'
  BY DEF TypeOK, Propagates
<1>7. Registered'
  <2>1. \A j \in Threads : /\ thread[j].todo \subseteq thread'[j].todo
                           /\ \A q \in Tokens : WillTake(j, q) => WillTake(j, q)'
    BY DEF TypeOK, WillTake, Cancelling
  <2>2. \A q \in Tokens : \A u \in children[q] \cap alive : u \in children'[q]
    BY DEF TypeOK
  <2> QED  BY <2>1, <2>2, RegisteredFrame
<1>8. NeverUp'
  BY DEF TypeOK, Created, Family, Seen, NeverUp
<1>9. NoLostWakeup'
  BY DEF TypeOK, Created, NoLostWakeup, Does
<1> QED  BY <1>1, <1>2, <1>3, <1>4, <1>5, <1>6, <1>7, <1>8, <1>9

LEMMA WakeStep ==
    ASSUME TokenInv, NEW i \in Threads, Wake(i)
    PROVE  TokenInv'
<1>0. /\ thread[i].pc = "waiting"
      /\ \/ thread' = [thread EXCEPT ![i] = Idle]
         \/ thread' = [thread EXCEPT ![i].pc = "enabling"]
      /\ UNCHANGED <<tree, cancelled, children, lock, requested>>
  BY DEF Wake, Return
<1> USE <1>0, NoneAssumption DEF TokenInv, tree, At, Idle
<1>1. TypeOK'
  <2>1. thread' \in [Threads -> [pc : Pcs, at : Tokens \cup {None}, new : Tokens \cup {None},
                                seen : BOOLEAN, todo : SUBSET Tokens]]
    <3> DEFINE R == [pc : Pcs, at : Tokens \cup {None}, new : Tokens \cup {None},
                     seen : BOOLEAN, todo : SUBSET Tokens]
    <3>1. thread \in [Threads -> R]
      BY DEF TypeOK
    <3>2. Idle \in R /\ [thread[i] EXCEPT !.pc = "enabling"] \in R
      BY <3>1 DEF TypeOK, Pcs, Cancelling, Waiting
    <3>3. \/ thread' = [thread EXCEPT ![i] = Idle]
          \/ thread' = [thread EXCEPT ![i] = [thread[i] EXCEPT !.pc = "enabling"]]
      BY <3>1
    <3> HIDE DEF R, Idle
    <3>4. thread' \in [Threads -> R]
      BY ONLY <3>1, <3>2, <3>3
    <3> QED  BY <3>4 DEF R
  <2>2. ASSUME NEW j \in Threads
        PROVE  /\ thread'[j].pc = "idle" <=> thread'[j].at = None
               /\ thread'[j].pc = "pushing" <=> thread'[j].new # None
               /\ thread'[j].pc \notin Cancelling => thread'[j].todo = {}
    <3>1. CASE j # i
      <4>1. thread'[j] = thread[j]
        BY <3>1 DEF TypeOK
      <4> QED
        BY <4>1 DEF TypeOK
    <3>2. CASE j = i
      <4>1. CASE thread' = [thread EXCEPT ![i] = Idle]
        BY <3>2, <4>1 DEF TypeOK
      <4>2. CASE thread' = [thread EXCEPT ![i].pc = "enabling"]
        BY <3>2, <4>2 DEF TypeOK, Cancelling
      <4> QED
        BY <4>1, <4>2
    <3> QED
      BY <3>1, <3>2
  <2>3. (/\ alive \subseteq born /\ born \subseteq Tokens
         /\ parent \in [Tokens -> Tokens \cup {None}]
         /\ cancelled \subseteq born /\ requested \subseteq cancelled
         /\ children \in [Tokens -> SUBSET Tokens]
         /\ lock \in [Tokens -> Threads \cup {None}])'
    BY DEF TypeOK
  <2> QED  BY <2>1, <2>2, <2>3 DEF TypeOK
<1>2. Created'
  <2>1. CASE thread' = [thread EXCEPT ![i] = Idle]
    BY <2>1 DEF TypeOK, Created, Pcs, Cancelling, Waiting
  <2>2. CASE thread' = [thread EXCEPT ![i].pc = "enabling"]
    BY <2>2 DEF TypeOK, Created, Pcs, Cancelling, Waiting
  <2> QED  BY <2>1, <2>2
<1>3. Family'
  BY DEF TypeOK, Created, Family, Propagates
<1>4. Locked'
  BY DEF TypeOK, Locked
<1>5. Seen'
  <2>1. CASE thread' = [thread EXCEPT ![i] = Idle]
    BY <2>1 DEF TypeOK, Created, Locked, Seen, WillTake
  <2>2. CASE thread' = [thread EXCEPT ![i].pc = "enabling"]
    BY <2>2 DEF TypeOK, Created, Locked, Seen, WillTake
  <2> QED  BY <2>1, <2>2
<1>6. Propagates'
  BY DEF TypeOK, Propagates
<1>7. Registered'
  <2>1. \A j \in Threads : /\ thread[j].todo \subseteq thread'[j].todo
                           /\ \A q \in Tokens : WillTake(j, q) => WillTake(j, q)'
    BY DEF TypeOK, WillTake, Cancelling
  <2>2. \A q \in Tokens : \A u \in children[q] \cap alive : u \in children'[q]
    BY DEF TypeOK
  <2> QED  BY <2>1, <2>2, RegisteredFrame
<1>8. NeverUp'
  BY DEF TypeOK, Created, Family, Seen, NeverUp
<1>9. NoLostWakeup'
  BY DEF TypeOK, Created, NoLostWakeup, Does
<1> QED  BY <1>1, <1>2, <1>3, <1>4, <1>5, <1>6, <1>7, <1>8, <1>9

LEMMA GiveUpStep ==
    ASSUME TokenInv, NEW i \in Threads, GiveUp(i)
    PROVE  TokenInv'
<1> USE NoneAssumption DEF TokenInv, GiveUp, tree, At, Idle, Return
<1>1. TypeOK'
  BY DEF TypeOK, Pcs, Cancelling, Waiting
<1>2. Created'
  BY DEF TypeOK, Created, Pcs, Cancelling, Waiting
<1>3. Family'
  BY DEF TypeOK, Created, Family, Propagates
<1>4. Locked'
  BY DEF TypeOK, Locked
<1>5. Seen'
  BY DEF TypeOK, Created, Locked, Seen, WillTake
<1>6. Propagates'
  BY DEF TypeOK, Propagates
<1>7. Registered'
  <2>1. \A j \in Threads : /\ thread[j].todo \subseteq thread'[j].todo
                           /\ \A q \in Tokens : WillTake(j, q) => WillTake(j, q)'
    BY DEF TypeOK, WillTake, Cancelling
  <2>2. \A q \in Tokens : \A u \in children[q] \cap alive : u \in children'[q]
    BY DEF TypeOK
  <2> QED  BY <2>1, <2>2, RegisteredFrame
<1>8. NeverUp'
  BY DEF TypeOK, Created, Family, Seen, NeverUp
<1>9. NoLostWakeup'
  BY DEF TypeOK, Created, NoLostWakeup, Does
<1> QED  BY <1>1, <1>2, <1>3, <1>4, <1>5, <1>6, <1>7, <1>8, <1>9

-----------------------------------------------------------------------------
(* The theorems *)

\* TokenInv holds for any number of tokens and threads: what is created, held,
\* registered and visited agree at every access to the shared state.
THEOREM TokenInvariant == Spec => []TokenInv
<1>1. Init => TokenInv
  BY NoneAssumption DEF Init, TokenInv, TypeOK, Created, Family, Locked, Seen, WillTake, Propagates,
     Registered, NeverUp, NoLostWakeup, At, Idle, Pcs, Cancelling, Waiting
<1>2. TokenInv /\ [Next]_vars => TokenInv'
  <2> SUFFICES ASSUME TokenInv, [Next]_vars  PROVE TokenInv'
    OBVIOUS
  <2>1. CASE UNCHANGED vars
    BY <2>1 DEF vars, TokenInv, TypeOK, Created, Family, Locked, Seen, WillTake, Propagates,
       Registered, NeverUp, NoLostWakeup, Does
  <2>2. CASE \E t \in Tokens : New(t) \/ DropToken(t)
    BY <2>2, NewStep, DropTokenStep
  <2>3. CASE \E i \in Threads : \E p, t \in Tokens : BeginChild(i, p, t)
    BY <2>3, BeginChildStep
  <2>4. CASE \E i \in Threads : \E t \in Tokens : Cancel(i, t) \/ Wait(i, t)
    BY <2>4, CancelStep, WaitStep
  <2>5. CASE \E i \in Threads : EndChild(i) \/ Notify(i) \/ Take(i) \/ Descended(i) \/ Descend(i)
    BY <2>5, EndChildStep, NotifyStep, TakeStep, DescendedStep, DescendStep
  <2>6. CASE \E i \in Threads : Enable(i) \/ Recheck(i) \/ Wake(i) \/ GiveUp(i)
    BY <2>6, EnableStep, RecheckStep, WakeStep, GiveUpStep
  <2> QED  BY <2>1, <2>2, <2>3, <2>4, <2>5, <2>6 DEF Next
<1> QED  BY <1>1, <1>2, PTL DEF Spec

\* Once nothing propagates, every live child of a cancelled token is cancelled
\* (child against cancel_inner, whatever the interleaving).
THEOREM NoChildEscapesHolds == Spec => []NoChildEscapes
<1>1. TokenInv => NoChildEscapes
  BY NoneAssumption DEF TokenInv, TypeOK, NoChildEscapes, Registered, WillTake, Propagating, Cancelling
<1> QED  BY <1>1, TokenInvariant, PTL

\* A token is cancelled only if it or its parent was (cancel never goes up).
THEOREM NeverUpHolds == Spec => []NeverUp
<1>1. TokenInv => NeverUp
  BY DEF TokenInv
<1> QED  BY <1>1, TokenInvariant, PTL

\* No wait misses the cancellation it waits for (cancelled against notify).
THEOREM NoLostWakeupHolds == Spec => []NoLostWakeup
<1>1. TokenInv => NoLostWakeup
  BY DEF TokenInv
<1> QED  BY <1>1, TokenInvariant, PTL

=============================================================================

# Oxyn: a verification project

TLA+ models of the parts of Oxyn that decide what may run, run it, stop it and
say what became of it; TLC configurations that check them on small instances;
and proofs, checked by TLAPS, that their main properties hold whatever the
number of connections, requests, commands, tokens and threads.

Oxyn is a desktop database client (Rust, Tauri, React). A person, or an AI agent
on their behalf, sends commands to servers through one executor. Three promises
make it trustworthy: nothing runs that the policy did not allow or the user did
not approve; everything that ran leaves a trace; and what is reported of a write
(done, undone, unknown) is true. All three have to survive futures dropped at any
await, timeouts, several windows, and servers that answer late or never.

Source paths below are relative to `src/crates/`; an entry in `PROJECT.json`
`map` gives the lines behind every definition.

## 1. Inventory

| Component | State | Operations | Hard behaviour | What makes it right |
|---|---|---|---|---|
| Policy gate (`oxyn-core/src/policy.rs`, facts in `command.rs`, `connection.rs`, `query.rs`) | markings registered per connection | `authorize`, `register`, `retained_*`; `bounded_to` in the executor | rules combine over kinds, intents, markings and actors; two sources of markings | an agent is never freer than a person; production is never written unasked |
| Connection markings (`oxyn-desktop/src/backend/settings/connections.rs`, `consoles.rs`, `backend.rs`, `oxyn-exec/src/executor.rs`) | store on disk, executor cache, policy facts, a lock | edit, delete, approve, open | three copies written by different tasks; dialogs open for minutes | no lost update; the cache follows the disk |
| Approval registry (`oxyn-exec/src/approval.rs`) | pending requests, remembered expiries | `submit`, `take`, `reject`, `sweep`, `expire` | capacity, expiry racing approval | granted at most once and in time, none lost or replaced |
| Agent approvals (`oxyn-desktop/src/backend/ai/conversation.rs`, `conversation/decisions.rs`, `threads.rs`) | waiting calls, channels, cards, a question | `await_user`, `wait`, `decide`, stop, close, release, hang-up | five ways to end a wait, racing two decisions | « nothing ran » is true; nothing approvable is left behind; the wait ends |
| Decision and audit (`executor.rs`, `abandon.rs`) | journal, history, queue of abandoned outcomes | `dispatch_as`, `approve`, `run`, `write_audit`, `journal_abandoned` | writes on another thread, dropped futures, failing store, crash | decided before run; one outcome each |
| Command tracking (`oxyn-desktop/src/backend/tracking.rs`) | tokens by identifier, early cancellations, released identifiers | `register`, `cancel`, `release` | a stop that arrives before or after its command | the right command is cancelled, no other |
| Statements and sessions (`executor.rs`, `sessions.rs`, `cancel.rs`, `abandon.rs`, `oxyn-data/src/sink.rs`) | running registry, session slot and its lock, result buffer, server | execute, preview, drain, cancel, abandon, disconnect, close, shutdown | stop, timeout, drop and close race the server | what is reported is what the server did; everything ends |
| Catalog (`executor.rs`, `catalog.rs`, `sessions.rs`) | catalog and reserved session per connection, cache | connect, set context, refresh, invalidate, disconnect | refresh against DDL, disconnection, reconnection | published in order, never in a closed catalog |
| Cancellation tokens (`oxyn-core/src/cancel.rs`) | flag, waiters, weak children under a mutex | `new`, `child`, `cancel`, `cancelled`, drop | lock-free flag against a locked list | no child escapes, no wakeup is lost |
| Host dialog (`oxyn-desktop/src/backend/confirm.rs`, `confirm/native.rs`, `backend.rs`) | one slot, one screen, the requests and the identifiers in use | `decide_held`, `confirm_held`, `reserve`, `ask`, the native dialog | a dialog nobody can close, a late answer, a request replaced under its identifier | only what was shown, long enough, is granted; every dialog asked gives its slot back |
| Retained results, buffers (`oxyn-exec/src/retained.rs`, `oxyn-data`) | results, memory and disk bounds | insert, read, prune, spill | eviction under a reader | bounded, and pinned while read |
| Windows (`oxyn-desktop/src/backend/windows.rs`, `windows/openings.rs`, `closing.rs`, `handoff.rs`) | windows, the sessions and connections each holds, openings, marks | open, open a console, move it, release, close, delete | a window closes while a server answers; one window's cleanup against another's opening | no session left to nobody but by an error, none taken from another window, no opening left waiting |
| Exit and recovery (`oxyn-desktop/src/backend/exit.rs`, `recovery.rs`, `windows/closing.rs`, `commands/recovery.rs`) | where the exit and each close stand, answers, local writes, the close on disk | exit, close, acknowledge, cancel, confirm, flush, record, forced exit | webviews that never answer, two requests at once, a forced exit, a crash | no close recorded over unwritten work; nothing left asking; the ordered shutdown ends |
| Local store (`oxyn-store`) | SQLite tables | append, record, save | crash | what was acknowledged is there |
| Query text, catalog model, drivers, language models, embeddings, plugins, secrets, updates, interface | | | character-level, wire-level, numeric or visual | |

How they interact. The interface calls the backend, which *tracks* the command
under an identifier and gives it a *token*; the executor asks the *gate* with the
*markings*, and journals the decision. Held, the command waits in the *approval
registry* until a person decides, for an agent through the call that waits for
them. Allowed or approved, it runs: a *statement* takes its *session*, drains into
a buffer, and is concluded, which journals its outcome, publishes its end and, for
a DDL, invalidates the *catalog*. A decision on a production connection first goes
through the *host's dialog*, which the webview can neither draw nor answer. The
*windows* share the executor's sessions: each owns its own, and the last to hold a
connection disconnects it. The *exit* asks every window, waits for the local
writes, records that it ended well, and ends the process.

## 2. Modules

| Module | Models | Run |
|---|---|---|
| `PolicyGate` | the gate as operators over every kind of command | (used by the next) |
| `ConnectionMarkings` | edits, deletions and openings against store, cache and policy | `markings` |
| `ApprovalQueue` | the registry's data and operations, as operators | (used by the registry, the agent and the dialog) |
| `ApprovalRegistry` | every sequence of calls on it, with the fate of each request | `approvals` |
| `AgentApproval` | an agent's held call and everything that may end its wait | `agent_approval` |
| `AuditTrail` | the audit writes around every command, dropped futures, crash | `audit_trail` |
| `CommandTracker` | tracking and early cancellation | `tracker` |
| `Statement` | statements of a session, their cancellation, its closing | `statements`, `statement_ends` |
| `ConnectionCatalog` | sessions and catalog of a connection | `catalog` |
| `CancelToken` | the token at the granularity of memory accesses | `cancel_tokens` |
| `ProductionConsent` | abstract: what the user is promised of a held command | (implemented by the next) |
| `HostDecision` | a decision and its dialog, on the registry | `host_decision` |
| `Windows` | the windows of the process and their sessions on one connection | `windows` |
| `Exit` | the exit, the close of a window, the drafts and the close record | `exit` |
| `X_proofs` | the theorems about `X`; three hold those of a second component: `ConnectionMarkings_proofs` of `AgentApproval`, `ApprovalRegistry_proofs` of `ConnectionCatalog`, `CommandTracker_proofs` of `Exit` | |
| `MCX` | definitions only TLC needs (markings to choose from, symmetry) | |

In those three, `AgentApproval`, `ConnectionCatalog` and `Exit`, the parts of the
specification bear a prefix (`AgentSpec`, `CatalogNext`, `exitVars`), so that one
proof module can extend two components; they share no variable and no constant,
and no theorem speaks of both.

Several fields of one element are updated by replacing its record
(`[f EXCEPT ![x] = [f[x] EXCEPT !.a = ..., !.b = ...]]`), never by several updates
under the same index: the SMT translation of the installed prover (tlapm 1.4.5)
misreads the latter, and every proof rests on the former.

`ConnectionMarkings` composes the gate with the three copies of the markings,
`AgentApproval` composes the registry with the calls that wait on it, and
`HostDecision` composes it with the dialog: they reuse the operators (`authorize`,
`take`, `purge`, `admit`, ...) rather than restate them.

`HostDecision` implements `ProductionConsent`. There a request is absent, waiting,
exempt (seen on a connection that is not production, or not mutating), shown,
agreed, granted or ended; a mutating one on production is granted only from agreed,
and agreed only from shown. The refinement mapping `Verdict` reads it off the
registry, the calls and the screen; `KeepsPromise` is the abstract specification
under that mapping.

How state and actions correspond to the code, module by module:

* **PolicyGate.** A command is a record of what the gate reads of it: kind,
  target, classified intent, risk, transaction control, context change, read-only
  limit. `authorize` has the order of `DefaultPolicy::authorize`: refusals to an
  agent, refusals on the connection, holds. The lexing of query texts is left out:
  every classification is possible for every text.
* **ConnectionMarkings.** One action per stretch of code between two awaits. The
  dialog and the approval are states an edit rests in without the lock; `TakeLock`
  to `Finish` are the section under `settings.decisions`. A deletion closes the
  sessions of its connection there (`CloseSessions`), before its save.
* **ApprovalQueue, ApprovalRegistry.** Every public call holds the registry's
  lock, so a call is a step. `fate`, `submitted` and `lapsed` only record history.
* **AgentApproval.** The two `select!`s of `wait` are the alternatives of a call
  in its two waits; `decide` is a second actor with a step per lock it takes; a
  card is what the panel shows for the call.
* **AuditTrail.** A future submits a write to the blocking pool and awaits it.
  Dropping the future does not take the write back: it stays in `jobs` and may
  run at any later time. Any write may fail. `Crash` keeps what is on disk.
* **CommandTracker.** Operations under the tracker's lock, with its two bounded
  memories at their bounds. Early cancellations wait in the order they were sent,
  and those older than their window are dropped from the front.
* **Statement.** A statement's future from the driver's call to its announced
  end, a fair read-write lock around the session, and a server that applies,
  undoes or never answers. A timer may fire at any time once armed, which covers
  every duration. A preview's path contains a read's. `TRANSACTIONS` says
  whether the driver reports a transaction state; without it the state is never
  known, which is the more permissive choice for the safety run. Reading the
  transaction state and asking the server for an interruption hold the lock for a
  bounded time, and are one step.
* **ConnectionCatalog.** One connection. A catalog is named after the opening
  that created it, so a catalog recreated by a reconnection is another one. The
  cache is one level: when it was read, and whether it says so.
* **CancelToken.** One step per access to the flag, the waiters, or the locked
  list of children; a token is dropped when nothing holds it.
* **HostDecision.** One step per stretch of `decide_held`, `confirm_held` and
  `Slot::ask` between two awaits; the screen is the mutex of `NativeDialog`, which
  the dialog itself holds until the user closes it, whether or not anyone still
  awaits the answer. `Dispatch` and `Decide` share `tracked`, the identifiers the
  tracker has given out. The other dialogs (a marking, an external agent) take the
  same slot and screen (`AskOther`); one that confirms may change the marking.
  `Clock` waits for the tasks a timer has woken, that is, a ready task is polled
  within one unit of time, which is seconds in the code. The memory of what
  expired, which only words an answer, stays with `ApprovalRegistry`.
* **Windows.** One connection: the registry keys everything by connection. A call
  is a task; the session it opens bears its name, and the two sessions of an
  opening (catalog and first console) are one, opened and closed together. A close
  may fail, its decision not journaled, which is only logged: the session is then
  in `left`, a history of what errors left open (`CloseOrLeave`). So is the console
  of an opening whose catalog another window disconnected before it was returned:
  `workspace_of` fails and closes nothing (`backend.rs:818`). The
  move of an object (`HandoffRequest::Object`) is an opening in the new window. A
  window that holds the connection by a console claimed or handed over after it
  was let go, or while it was deleted, is in `stray`: `claim_session` and
  `hand_over` look neither at `deleting` nor at `disconnecting`, and
  `OthersAreSpared` does not speak of such a window.
* **Exit.** `begin_exit` and `window_close_step` are tasks that go through the
  same places, listing, reading the store for what was found, waiting, proceeding; a
  listing may find transactions in any set of windows; a grace may elapse at once,
  which covers every duration. What no grace bounds is a place of its own: the
  reads of a listing, the layouts saved before the shutdown, the update installed
  after it. The agents and the sessions, each within its grace, end the shutdown
  with the record of the close. No await separates the answers from the move that follows them, hence one step.
  A forced exit blocks the main thread, so that nothing of the interface moves
  meanwhile. The end of the process keeps what is on disk. A draft is what one
  webview has to write; the confirmations of the flush are not counted, the flush
  may end at any time.

## 3. Runs

Every passing run ends with no error; the counts are distinct states.

| Run | Instance | What it shows |
|---|---|---|
| `markings` | 1 connection, 2 edits, 1 opening, 3 markings (216 000) | `NoLostUpdate`, `CacheFollowsStore`, `ProductionIsProtected`, and under fairness `LockIsReleased` |
| `approvals` | 3 identifiers, 4 requests, capacity 2, delay 2 | `NoneLostNoneReplaced`, `ExpiredIsSaid`, `GrantedOnceInTime` |
| `agent_approval` | 1 call, 2 decisions at once, other submissions, capacity 1 (29 000) | `NothingRanIsTrue`, `NoOrphanRequest`, `WaitEnds` |
| `audit_trail` | 2 commands, room for 1 abandoned outcome (51 000) | `DecidedBeforeRun`, `HeldIsJournaled`, `RunsOnceUndenied`, `OneOutcome`, `TrailIsWhole`, `OutcomeIsWritten` |
| `tracker` | 3 identifiers, 3 commands, 2 early cancellations and 1 released identifier remembered (78 000) | `RunningIsReachable`, `CancellationIsKept`, `OnlyMeantIsCancelled` |
| `statements` | 2 statements, 1 closing call (2.9 million) | `CancelledIsUndone`, `DoneIsDone`, `OneEnd`, `ResultIsClosed`, `InterruptionIsSent` |
| `statement_ends` | 1 statement of each kind, 2 closing calls (168 000) | `StopEnds`, `CloseEnds` |
| `catalog` | 2 openings, 2 refreshes, 1 DDL, 1 closing call (314 000) | `ClosedIsFrozen`, `PublishedInOrder`, `ReservedKeepsContext` |
| `cancel_tokens` | 3 tokens, 3 threads (43 000) | `NoChildEscapes`, `NoLostWakeup` |
| `host_decision` | 2 requests, 2 identifiers, 2 decisions at once, a delay of 1 and a deadline of 2 (497 000) | `KeepsPromise`, the refinement; `GrantedAsRead`; under fairness `AskEnds` |
| `windows` | 3 windows, 4 calls, closes that may fail (191 000 up to symmetry) | `NoSessionIsLost`, `OthersAreSpared`, `SomeoneWakesIt` |
| `exit` | 2 windows, 2 requests, 1 draft (245 000) | `CloseOverNothing`; under fairness `NeverLeftAsking`, `ProceedingEnds` |

Why the bounds are enough to be interesting:

* Markings: a lost update needs two edits; a stale marking one edit and one
  opening. Connections do not interact, so one is kept.
* Approvals: a capacity of 2 with 3 identifiers makes the queue full with a third
  asking, and a fourth request reuses an identifier after it lapsed. The clock
  goes to twice the delay.
* Agent approval: calls interact only through the registry, whose other users are
  `OtherSubmit`; two decisions on one request are what races. `AgentInv` is
  proved for any number of calls.
* Audit: two commands and room for one abandoned outcome fill the queue; more
  commands only repeat it, and the safety properties are proved for any number.
* Tracker: three identifiers overflow both memories, the first of which keeps an
  order only from two on; an approval runs under the identifier of the command
  that asked for it, hence three commands.
* Statements: two statements share the session's lock with a closing call.
  Liveness is checked with one statement and two closing calls, the
  smallest instance where a writer of the lock waits behind another and a reader
  behind both.
* Catalog: two openings make a catalog be shared and be recreated; two refreshes
  overtake each other unless serialised.
* Tokens: parent, child and grandchild, with three threads: one cancels, one
  creates, one waits or drops.
* Host dialog: a request replaced under its identifier needs two requests; an
  orphan dialog that holds the screen needs a second decision; the clock leaves
  room for one deadline to pass and another dialog to be shown and confirmed, and
  for a request (delay 3) to expire under its dialog.
* Windows: a cleanup against another window's opening needs two windows and
  three calls; the third window receives a console that moves, and the fourth call
  closes or releases meanwhile.
* Exit: two windows so that one can close, two requests so that one overtakes the
  other, one draft submitted before, during or after the flush.

Symmetry is used in the runs without liveness only, over sets whose members are
not told apart. Deadlock is not checked where the system really may stop: every
edit, call, statement or token of the instance may be over.

**Fairness.** Only what the code's scheduling gives, or what is named here.

* `ConnectionMarkings`: an edit that holds the lock goes on, the blocking pool
  (store and keyring) saves or fails; nothing of dialogs, and nothing of the server
  whose sessions a deletion closes under the lock, a wait without a limit in the
  code. `LockIsReleased` says that nothing else keeps the lock.
* `AgentApproval`: the clock runs and the runtime polls a call whose timer or
  channel is ready; nothing of the user, of `decide` or of the agent.
* `AuditTrail`: the pool runs what it was given and the periodic writer runs.
* `Statement`: the driver lets go of a call, and the server of a statement, once
  the token is cancelled, and a request to the server is bounded, which is the
  driver contract (`docs/DRIVER-CONTRACT.md`); no verdict of a cursor, no deadline
  and nothing of the user. `StopEnds` holds if nothing else runs on the session: a
  statement queued behind another one waits for it. A closing call ends
  here once it took the session out of its slot: the server's answer to the close,
  awaited after that, is not modelled.
* `HostDecision`: time passes, and a call wakes at its deadline or on an answer;
  nothing of the user, who may leave a dialog open for ever, of the main thread that
  draws it, of the store, nor of the approved command. `AskEnds` says that the
  dialog stops waiting and gives its slot back, not that the command ends.
* `Exit`: the tasks run and their graces elapse; nothing of a user, a webview, a
  write, the store or the installer. `NeverLeftAsking` therefore speaks of what
  asks, and says of what lists only that a task is still at it; `ProceedingEnds`
  speaks of the shutdown from its flush to its end, and says of an exit that
  proceeds that a task is in it, before it (the layouts) or after it (the update).
* `Windows` (by hand, `WaitEnds`): a call goes on, and the server and the store it
  waits for answer or fail, which nothing in the code bounds.

Each property has a mutant: the model with one plausible mistake (a dropped
guard, a reset forgotten, two steps swapped), on which TLC finds it violated.
They are the `mut_` definitions, next to what they mutate.

## 4. Proofs

All for any value of the constants, from the assumptions each module names
(`ASSUME`), which TLC evaluates in the runs.

* **ConnectionMarkings_proofs.** `MarkingsInv` is `TypeOK`, `SavesOnOrigin` and
  `CacheFollowsStore`. `NoLostUpdate` is an action property that follows from
  `SavesOnOrigin`: the lock is held from the comparison with the disk to the
  save, while a deletion closes sessions too, so what is about to be saved was
  computed on what is there.
  `ProductionIsProtected` uses `CacheFollowsStore`: the gate retains the stricter
  of the cache's marking and its own, so a policy told late only errs on the
  strict side. `AgentNeverFreer` and `AgentReadsAreBounded` need no invariant but
  types: they are case analyses of `authorize`.
* **ApprovalRegistry_proofs.** `ApprovalInv` is the typing of what waits,
  `NoneLostNoneReplaced` and the fact that a waiting request's deadline is its
  submission plus the delay. One lemma says what removing any set of requests
  does; `take`, `reject`, `expire`, `purge` and `sweep` are instances of it.
  `GrantedOnceInTime` and `QueueBounded` follow. `ExpiredIsSaid` and
  `ExpiriesBounded` are about the memory of what expired, which keeps the
  `Capacity` latest: `ExpiriesRemembered` gives each expiry a rank of its own and
  says that fewer than `Capacity` later ones leave it there. That the latest
  `Capacity` ones are at most `Capacity` is a count: the least rank kept (a
  least-element principle, from the well-foundedness of the naturals) has all the
  others above it.
* **AgentApproval** (in `ConnectionMarkings_proofs`). `AgentInv`: for each call,
  where it is determines whether its request waits, is remembered as expired, was
  withdrawn or was taken, and these exclude one another (`Where`); a decision under
  way concerns a shown request (`DecidesShown`). `NothingRanIsTrue` and
  `NoOrphanRequest` follow.
* **AuditTrail_proofs.** `AuditInv` says of each command what its writes in the
  pool, its journal entries and the place of its future may be together
  (`Gated`, `Run`, `Concluded`). A frame lemma carries it over steps of the other
  commands. The bound of the queue needs the finiteness of the identifiers.
* **CommandTracker_proofs.** `TrackerInv`: an entry has a generation given out
  before, a tracked command has its own, and it is the entry's. It gives
  `RunningIsReachable`: releasing compares generations, so an earlier command
  cannot remove a later one's entry. `CancelInv` adds what the two memories hold:
  requests wait in the order they were sent, one for an identifier, so that what
  expires is in front (`EarlyInOrder`); what ended is remembered as far as the
  bound allows (`EndedIsRemembered`); and a request waits exactly when it was sent
  for a command to come, its window is not over and no bound pushed it out
  (`WaitsAsMeant`). `CancellationIsKept` and `OnlyMeantIsCancelled` are the two
  directions of that equivalence.
* **CancelToken_proofs.** `TokenInv`: who creates a child holds its parent's lock
  (`Locked`); if the flag was read unset and is set since, whoever set it has not
  taken the children yet (`Seen`); a live token that is not cancelled is in its
  parent's list, or a thread will visit it if its parent is cancelled
  (`Registered`). This is the argument the comments of `cancel_inner` and `child`
  make: the flag before the lock on one side, the lock before the flag on the
  other. `NoChildEscapes`, `NeverUp` and `NoLostWakeup` follow.
* **HostDecision_proofs.** `HostInv`: a request waits exactly while it is in the
  registry (`WaitsInRegistry`); one call uses the slot (`OneUser`) and one has an
  identifier (`OwnIdentifier`), so that nothing is submitted under it and what
  waits there is what the call looked at (`CallsBacked`); an answer that passes was
  read long enough and in time (`CallsShaped`); the screen belongs to a call that
  awaits it, or to an orphan dialog (`ScreenOwned`). `GrantedAsRead` and
  `SlotIsOwned` follow. `KeepsPromise`, that `HostDecision` implements
  `ProductionConsent`, is proved step by step: at most one call holds a request
  that waits (`Stands`), so its place gives the verdict, and a step moves one
  request along one edge of the promise, or none.
* **Statement_proofs.** `SessionInv`: the session leaves the registry closing, and
  its slot once nobody uses it (`SlotInv`); and for each statement, by the place of
  its future: nothing is on the server before the driver is called
  (`BeforeTheCursor`), nothing is answered or announced until it is over
  (`Silent`), registry and result follow the drain (`Draining`), and an outcome is
  fit to be told from the moment it is chosen (`Ending`, `Told`, `Abandoned`, all
  by `Honest`). Each statement touches its own record only (`Alone`). The outcome
  is chosen several steps before it is reported, while the server moves: this is
  why `CancelledIsUndone` and `DoneIsDone` are not inductive as they stand.
  `OneEnd`, `RegisteredIsRunning`, `ResultIsClosed`, `TakenIsUnused` and
  `InterruptionIsSent` follow too.
* **ConnectionCatalog** (in `ApprovalRegistry_proofs`). `CatalogInv`: a catalog
  that something refers to was created by an opening that cannot create it again
  (`CreatedOnce`), so a catalog taken out never comes back (`CurrentIsOpen`); the
  refresh lock has one holder per catalog (`OneReader`), and what is about to be
  published was read after what is (`ReadAfter`); only a session its opening
  returned changes its context (`ContextOfReturned`), by which time nobody is about
  to reserve it. `ClosedIsFrozen`, `PublishedInOrder` and `ReservedKeepsContext`
  follow.
* **Windows_proofs.** `WindowsInv`: the mark and the deletion have one bearer each
  (`OneBearer`); a call under way is of a window that was opened
  (`CallsOfWindows`), and the target of a move is reserved for it alone, so no
  window that is gone comes back (`TargetIsReserved`); who owns a session holds the
  connection, or is a stray (`OwnersHold`); while the connection is disconnected or
  deleted, it is nobody else's (`NobodyElse`). The last two are what spares the
  others: the look at who uses the connection and the closing of its sessions are
  far apart, and only the mark in between keeps a new holder out. `NoSessionIsLost`
  (what no error left open has an owner, or a call that will record or close it),
  `NothingNamesTheGone`, `SomeoneWakesIt` and `OthersAreSpared` follow.
* **Exit** (in `CommandTracker_proofs`). `ExitInv`: one exit, or a forced one,
  saves the layouts, flushes and records (`OneShutdown`), and what its close waits
  for is fixed before the close is queued, of drafts already submitted, and written once it is
  (`WaitsForDrafts`). `CloseOverNothing` follows.

The assumptions are those of the code: an identifier that means nothing is none of
the others (`None`, `Nobody`, `NoRequest`), bounds and delays are naturals, some at
least 1 as the constants of the code are, and the sets that a bound counts are
finite.

Only model-checked: liveness (`LockIsReleased`, `WaitEnds`, `OutcomeIsWritten`,
`StopEnds`, `CloseEnds`, `AskEnds`, `NeverLeftAsking`, `ProceedingEnds`,
`ClosingEnds`), which the prover does not do under fairness; and two facts that only
configurations of § 6 check, `WithdrawalIsSaid` and `SessionHasCatalog`. Every other
invariant and action property of a run is a theorem.

## 5. Not modelled

Query lexing and classification (character-level), drivers and wire protocols,
language models and streaming, embeddings, plugins, the keychain, updates, the
React interface; secrets, privacy tiers and screen state in the edits of
connections; what a catalog patch contains and the budget that evicts from the
cache; the content of results. `PROJECT.json` lists each with its reason.

Of the windows: results, documents and assistants, whose records follow the same
rules as the sessions' except that `claim_document` and `claim_assistant` do not
look whether the window is still registered; layouts, focus and the routing of
events. Of the exit: how the open transactions are known (`ConsoleTransactions`),
the heartbeat and the reading of the previous session at the next launch. Reading
them left three remarks that no model here checks: `follow` lets go of the event
stream before it applies the event it took, so that `settled` may return without
it; `expect_answers` for a window's own close also clears what that window answered
to the exit; and two windows whose closes are both confirmed leave none, which ends
the application by Tauri's own `ExitRequested`.

Retained results (`retained.rs`) are a bounded map; what makes an eviction right is
who still reads a result, which the interface decides.

## 6. Where the code and its documentation disagree, and other configurations

These properties state what a comment or a document says, and TLC finds each
violated (`tlc -config X.cfg M`):

| Configuration, module | Property | What happens |
|---|---|---|
| `ReadOnlyMarking.cfg` (`MCConnectionMarkings`) | `ReadOnlyIsRefused` | an opening reads a configuration, awaits, and registers it with the policy under no lock: an edit that marked the connection read-only in between is overwritten, and writes pass (`consoles.rs:137`). `docs/SECURITY.md:318`: "The `PolicyGate` refuses every command classified as mutating there, human included" |
| `StaleCatalog.cfg` (`MCConnectionCatalog`) | `InvalidatedByDdl` | a refresh that read before a DDL and publishes after its invalidation marks the old content as fetched (`executor.rs:1661`). `docs/ARCHITECTURE.md:654`: "immediate invalidation after any DDL issued from Oxyn" |
| `ReleasedElsewhere.cfg` (`MCWindows`) | `ReleasesItsOwn` | a workspace's sessions are listed once and closed one after the other: a console that moves meanwhile is closed in the window that now shows it (`windows/closing.rs:243`). Its comment: "A window never disconnects what another shows" |
| `AbandonedExit.cfg` (`Exit`) | `AbandonedStays` | an exit is cancelled while it waits for an acknowledgement, and asked again; the first one's grace elapses, it finds the hold asking, takes it for its own and proceeds (`exit.rs:430`). `cancel_exit`: "the exit is abandoned for every window, before anything is flushed or recorded" |
| `DoubleDecision.cfg` (`MCAgentApproval`) | `RejectedDidNotRun` | a refusal that arrives after an approval took the request tells the model « rejected » of a command that runs (`backend.rs:922`) |
| `StoppedAndReleased.cfg` | `LostTrackWasDecided` | a stop and a release ready at once: the model is told of an approval nobody gave (`decisions.rs:248`) |
| `HungUp.cfg` | `CardIsTakenBack` | a call dropped after a release withdrew its request leaves its card offering the review (`conversation.rs:545`) |
| `CatalogAfterDisconnect.cfg` (`MCConnectionCatalog`) | `NoneAfterDisconnect` | a Connect overtaken by a Disconnect leaves a catalog with no session (`executor.rs:1411`) |
| `Descendants.cfg` (`MCCancelToken`) | `DescendantsAreCancelled` | once a token in between is dropped, its children are not reached (`cancel.rs:90`) |

Others ask a smaller question, or add a supporting fact, and hold:

| Configuration, module | Holds |
|---|---|
| `Gate.cfg` (`MCConnectionMarkings`) | `AgentNeverFreer` and `AgentReadsAreBounded`, over every command and marking; both are proved (§ 4) |
| `StatementMore.cfg` (`MCStatement`) | the types, `RegisteredIsRunning`, `TakenIsUnused`; all proved |
| `AgentApprovalMore.cfg` (`MCAgentApproval`) | `WithdrawalIsSaid` |
| `CatalogEnds.cfg` (`MCConnectionCatalog`) | the types, `SessionHasCatalog`, and `ClosingEnds`: what closes sessions ends, though refreshes hold them |
| `HostSlot.cfg` (`HostDecision`) | the types, and `SlotIsOwned`, which is proved |
| `WindowsEnd.cfg` (`MCWindows`) | the types, `NothingNamesTheGone`, which is proved, and `WaitEnds` under fairness |

## 7. Plan

Done, in this order: the gate and the markings it reads; the approval registry;
the agent's wait on it; the audit trail; command tracking; statements and
sessions; the catalog; the cancellation token; the host's dialog and the promise it
implements; the windows; the exit; the proofs of § 4, of every component.

Next: `SessionHasCatalog`, which needs where every closing call is between the
session it removed and the catalog; `WithdrawalIsSaid`.

Then, more of the system: how the exit knows the open transactions; the next
launch and the history's reconciliation after a crash (`oxyn-store`); persistence
and release of threads (`threads.rs`); the budgets of results and of the catalog
cache; the SQLite driver's worker.

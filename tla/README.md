# SessionPlane in TLA+

SessionPlane is a local daemon ("the core") that drives provider chat pages (ChatGPT mainly) in
one owned Chrome profile on behalf of CLI and MCP clients. Clients create teams, roles and
sessions, send messages, wait for answers, stop generations and collect artifacts. The core must
never click Send or Stop twice, never say "not sent" of something that may have been sent, survive
its own crashes through a SQLite database, and let many sessions share one browser and one account.

This directory models that core logic, checks it with TLC on small instances and proves most of its
safety with TLAPS for every instance. Paths are relative to the repository; line numbers are in the
`map` of `PROJECT.json`.

## 1. Inventory

### Components

| Component (code) | State it keeps | Operations | Hard behaviour | What makes it correct |
|---|---|---|---|---|
| Submission (`core/submission-service.ts`, `storage/outbox-repository.ts`, `domain/generation.ts`) | durable outbox and generation rows, resend reservations | send, continue, resend, resume, inspect, decide, refresh, recover acknowledgement, reconcile, boot recovery | crash around the click, timeouts whose browser command goes on, replay of a request, role retired during an await | a request is clicked at most once; "failed before submission" is only said of an untouched request; a delivered message belongs to one request; every attempt gets an outcome |
| Keyed mutex (`scheduler/keyed-mutex.ts`, `browser/page-mutex.ts`) | one promise chain per key | runExclusive, retainUntil, isBusy | abandoned work keeps the key, deletion of the map entry races a newcomer | a FIFO lock per key: exclusion, order, no leak |
| Session actors (`scheduler/session-actor.ts`, `actor-scheduler.ts`) | snapshot, revision, waiters, collectors, queue | enqueue, publish, wait, refresh, retire | retirement while somebody holds the actor, changes made outside the queue | whoever waits at an actor sees the committed row; nobody sleeps over a change |
| Waits (`rpc/methods/wait.ts`, `core/team-directory.ts`) | open calls, cursors of clients | session.wait, team.wait, role retirement and session replacement | wake-up, re-read, re-attach; numbers from three sources | no change is slept over or missed |
| Core handover (`core/maintenance.ts`, `rpc/router.ts`, `main.ts`) | lease, phase, admitted work | prepare, renew, release, commit, admission, abort of waits | evidence after readiness, lapsed leases, lost updater | exit leaves nothing half done; a pause ends |
| Probe coordinator (`scheduler/probe-coordinator.ts`, `storage/probe-budget-repository.ts`) | durable budgets, turn queues, loops | ask, launch, settle, back off, defer, withdraw | evidence during a flight, observers replaced, conversation ids replaced, restart | rate limits are never shortened, turns come |
| Backend reader (`providers/chatgpt/backend-recovery.ts`) | one reader per account, a line before it, `Retry-After` | read a conversation, final and acknowledgement of a message | places that expire, selections that overtake, 429 during a read, edited and regenerated branches | selections go first, the line moves on, an answer belongs to the message it is given for |
| Stop (`core/stop-service.ts`, `storage/receipt-repository.ts`) | receipts | stop, replay | crash around the press, two requests, generation moved on | pressed once for a generation, for the generation named; the recorded outcome stays true |
| Generation observation, exact final (`core/observation-service.ts`, `providers/chatgpt/exact-final.ts`) | loop per session, quiet window | observe, decide, persist | readings that time out and come late, observers replaced with a write in the queue | a quiet answer has stood for the whole window; an ended turn keeps its end; a finished answer is collected |
| Conversation load recovery (`core/conversation-load-recovery.ts`) | durable attempts, holds | owner-wide sweep | attempt persisted before the click, user hold between two queues, clicks that land late | every click is counted, an error that stays is reported |
| Page registry (`browser/page-registry.ts`, `page-binding.ts`) | bindings per page and session | reserve, bind, redirect, conflict, close | duplicate tabs, redirects, restarts | an owned page shows its session's conversation, and shows it alone |
| Page recovery (`core/recovery-service.ts`) | serialised restores, acknowledgement watchers | restore, ensurePage, reconcile duplicates | snapshots that are stale when written, tabs opened for a session that is settled meanwhile | acknowledged only where delivered, no tab left behind |
| Browser owner (`browser/browser-owner.ts`) | profile lock, process record | start, adopt, close, disconnect, manual login | crash with a live browser, two cores | one owner per profile, no browser lost |
| Conversation cleanup (`core/conversation-cleanup-service.ts`) | delete and replace receipts | delete, replace, deleteTeam | lost outcome of a deletion, nested receipts and queues | a deletion of unknown outcome is not repeated, one successor |
| Artifacts (`core/artifact-service.ts`, `cli/remote-artifacts.ts`) | rows, content-addressed files, copies | discover, capture, export, transfer | crash between file and row, files damaged during a transfer | a row names stored bytes, a published copy is exact |
| Thinking-failure recovery (`core/thinking-failure-recovery.ts`) | durable backoff | continue a failed turn | the person acts meanwhile, restart in the pause, two triggers | one continuation per failure, after its pause, never over a person |
| RPC transport (`rpc/server.ts`, `rpc/router.ts`, `cli/client.ts`, `cli/remote.ts`) | socket, calls | call, retry, defer | restart or handover in the middle of a call, kept relays | a mutation is started once, "not dispatched" is true |
| Team workflow, storage, composition, adapters, CLI, MCP, metrics | - | - | - | not modelled: section 9 |

### How they interact

* A mutating call takes the mutex of its request (`clientId`, `requestId`), then a place in the
  session actor's serial queue, then the lock of the session's page. Conversation deletion goes
  from the actor to a `delete-conversation:` key and then to page locks. Only page recovery holds
  several page locks. The order capture, recovery, actor, page was read in the code; no module
  states it, since a module of locks alone would hold whatever the services do.
* Every durable change is one SQLite transaction followed by `SessionActor.publish`, which wakes
  waiters. The team directory (retire a role, replace its session) writes **outside** the queue and
  calls `refreshSession`.
* Observers run beside the queue and write through it. They share the account's rate limits through
  the probe coordinator, and the reader of the provider's server through its line.
* `main.ts` computes from all of these whether the core is idle, which the handover asks for before
  it lets the process exit.

### Hard behaviours

The `hazards` of `PROJECT.json` list them at their lines: crashes between a durable write and a
click; timeouts that do not cancel the browser command; values read before an await and written
after it; writers outside the actor queue; retirement of an actor while a caller holds it; evidence
during a probe; leases that lapse; queue entries that outlive their owner. Two of them have no
property: the receipt of `prepareAuthorizedResend`, whose outer transaction may fail after the actor
has published the inner one (`src/core/submission-service.ts:1010`), and the lock order of
artifact capture (`src/core/artifact-service.ts:395`).

## 2. Modules

| Module | Models | Proofs in |
|---|---|---|
| `AtMostOnceSend` | what `session.send` promises, with no mechanism | - |
| `Submission` | the pipeline of one session with crashes and late commands; implements `AtMostOnceSend` | `SubmissionProofs`, `PipelineProofs` |
| `Handover` | maintenance lease and admission | `ControlProofs` |
| `StopRequest` | stop receipts and the press of Stop | `ControlProofs` |
| `FifoLock` | an abstract FIFO lock per key | - |
| `KeyedMutex` | the chain of promises; implements `FifoLock` | `SchedulerProofs` |
| `SessionWait` | actors, publication, session.wait and team.wait, the directory's writes | `SchedulerProofs` |
| `ServerReads` | the line before the account's one backend reader | `SchedulerProofs` |
| `ServerAnswer` | what a conversation read from the server says of a message | `OperationsProofs` |
| `BackendProbes` | probe coordinator and the observer loops that call it | `ObserverProofs` |
| `AnswerObservation` | what an observer reads, judges and writes | `ObserverProofs` |
| `PageRegistry` | the bindings of tabs to sessions, as operators and actions on tabs | `PageProofs` |
| `PageRecovery` | restores, watchers and submissions over `PageRegistry`, which it extends | `PageProofs` |
| `LoadRecovery` | the sweep that presses Retry | `CareProofs` |
| `ConversationCleanup` | delete, replace, deleteTeam and their receipts | `CareProofs` |
| `FailureChain` | continuations of failed turns | `OperationsProofs` |
| `ArtifactCapture` | rows, files and copies of artifacts | `OperationsProofs` |
| `BrowserOwner` | profile lock, browsers, cores | `OperationsProofs` |
| `RpcDelivery` | one call through retries, handovers and lost connections | `OperationsProofs` |
| `MC*` | constants, fairness and symmetry of the runs; sums of components that share no state | - |

Every module keeps durable state apart from the memory of the core, and an action is what
the code does between two awaits. A definition under a `Mutant:` comment is no part of a
specification: it is a plausible mistake in the definition that follows it, kept to show that the
properties notice it.

### Submission

The outbox row and the generation row of a request are always written in one transaction and are
one record `outbox[r]` (`state`, `message`, `inspect`, ...). `job` is the operation the actor runs
and `job.pc` the await it stands at: `open` (page of the session), `prepare` (fill the composer),
`verify` (the second check of continuations and resends), `filled`, `click`, `clicked`
(acknowledgement), `page` (inspect, refresh, recover, reconcile). What may interleave there is
exactly what the code does outside the queue: `RetireRole`, `ReplaceSession`, `BeginTeamDeletion`,
`ObserveUpdate`, late browser commands, `Crash`. The session's `role` is `current`, `gone` (retired
or replaced: an unsubmitted session is cancelled in the same step and its actor told) or `deleted`
(`team.delete` retires all roles at once and tells nobody; the session is retired later, by
`RetireDeletedConversation` in the actor's queue). `draining` is an abandoned prepare that retains the page lock,
`late` the requests whose timed-out `submitOnce` is still in flight. `clicks` and `delivered` are
the provider's view. After a crash `boot` runs `recoverInterruptedPreSubmissions` and then
`recoverInterruptedSubmissions`.

| Code | Actions |
|---|---|
| `send`, `#sendLocked`, `#replay` | `Send`, `ReplayAttempted`, `ReplayUnattempted` |
| `#runPreparedSubmission` | `OpenOk`, `OpenNeedsDecision`, `OpenFails`, `EnterPrepare`, `PrepareOk`, `PrepareThenVerify`, `VerifyOk`, `PreparationNeedsDecision`, `PreparationFails`, `PrepareTimesOut`, `DrainSettles`, `RecordAttempt`, `Click`, `SubmitReturns`, `SubmitTimesOut`, `LateClick`, `LateCommandFails`, `AckCaptured`, `AckMissing` |
| `resumePreparation`, `inspectSubmission`, `decidePreparation`, `refreshPage` | `ResumePreparation`, `BeginInspect`, `FinishInspect*`, `BeginDecision`, `FinishChoose`, `FinishCancel`, `BeginRefresh`, `EnterRefresh`, `FinishRefreshReopening` |
| `recoverAcknowledgement`, `reconcileFollowup`, `prepareAuthorizedResend`, `prepareContinuation` | `*RecoverAcknowledgement`, `*Reconcile`, `*AuthorizedResend`, `*ReopenResend`, `*Continuation` |
| boot recovery | `KeepPreparation`, `FailInterrupted`, `PreSubmissionsRecovered`, `RecoverAttempted`, `SubmissionsRecovered` |
| `retireRole`, `createSession` | `LeaveRole`, `RetireRole`, `ReplaceSession` |
| `deleteTeam` | `BeginTeamDeletion`, `RetireDeletedConversation` |

`composer_filled` and `submit_attempted` are two commits in one synchronous block: only a crash can
come between them, and the model lets nothing else in. A message that recovery can claim is
over-approximated by any delivered message nobody owns. Stopping is one step here and is modelled
in full by `StopRequest`.

### KeyedMutex

`tails[k]` is the newest promise of a key, `previous[c]` the one call `c` awaits, `pending[c]` what
its operation handed to `retainUntil`. `Finish` opens the gate and deletes the key only when `c` is
still its tail. The refinement maps the calls of a key, in the order of their arrival numbers, to
`FifoLock`'s queue; the head owns the key until its last retained command has settled. That every
call enters in the end is stated as safety, `NoGateIsLost`: whoever waits awaits an older call of
its key that has not finished, so waiting neither goes round in a circle nor ends at nobody.

### SessionWait

`rowOf`, `lastEvent`, `sequence`, `current`, `retired` are tables; `actor` is the scheduler's map. Clients
learn cursors from `seen`. Numbers come from three places in the code, and in the model: the actor's
own commits, the team's latest event (`RefreshSession`) and the session's latest event (`ActorFor`,
`Restart`). Writers are `updateGeneration`-style commits through the queue and the directory's
direct ones; the deletion of conversations is not included. Deadlines, aborts and timers are
nondeterministic (`Expire`).

### Handover

Time is abstract: `Lapse` sets `overdue`, `Timer` runs the timer. `Quiet` is the idle test of
`main.ts`: browser ready, no page lock retained by abandoned work, no row in `composer_filled` or
`submit_attempted`. Refused callers ask again (`deferred`), as `cli/client.ts` does. The queue
depth of actors is part of the admitted work. `RecoverBrowser` is one step. The click of finding 3
holds no page lock, so the idle test, and with it this model, cannot see it.

### StopRequest

`row` is the generation of the session, `receipt` what is stored under a request, `call` where a
request stands, `holder` whose operation the actor runs: a request's or, `PageRefresh`, that of
`refreshPage`. A role that goes cancels an unsubmitted generation outside the queue, and a refresh of
a preparation that a lost page had failed (`refused`), having read the row before its reload, writes
the generation open again (`RefreshBegins`, `RefreshEnds`). That is finding 1, kept in this model too,
and `OutcomeIsFinal` names it as the one way in which an end is rewritten. `Resumes` is the other way
to reopen a failed preparation, an inspection of the page that finds it in order; between its check of
the owner and its write nothing is awaited.

### BackendProbes

Deadlines are ticks still to go (0 when past), so that time needs no bound; jitter is one tick either
way. A loop is started, replaced, redirected to its lasting conversation id and aborted as
`observation-service.ts` does; an aborted loop may still ask once, because the signal is not looked
at between its last write and `#recover`. Yields to a displaced or collecting observer are one
action, `GiveUpTurn`. `minimumIntervalMs` has its default, 0.

### AnswerObservation

One submitted turn. A reading takes time: `Reads` sees the messages, `Judges` takes the activity and
decides by `Evaluate` (`ExactFinalTracker.evaluate`); a reading may come after its time-out
(`LateReading`) or to an aborted loop (`ReadingEnds`). Texts are the lengths of the answer; `since` is
the age of the quiet window, counted up to the window. `answer.stood` is how long the text has
stood on the page, and a reading keeps what it was when the messages were read (`ev.stood`), whatever
the page does afterwards, and how long it takes to come back (`ev.took`, up to `ReadLimit`): the
code looks at the clock after the reading (`observation-service.ts:223`). Decisions wait in the actor's queue (`pending`) while other operations run (`busy`);
`Refused` and `Written` are what `updateGeneration` does with them. `StartsByForce`, `Stops` and
`SeeCrash` replace, stop and lose observers at any step.

### ServerReads, ServerAnswer

`ServerReads` is `ChatGptBackendRecovery.#conversation`: one read in flight for the account, five
seconds apart (one tick) and not before `Retry-After`; those who come too early hold a place for as
long as they come back within the grace. The JavaScript `Map` of places is a function `place` and its
insertion order a relation `before`. Each conversation has two readers, one that recurs and a
person's selection. A 429 that the collection of an answer runs into is not restored by a restart,
only that of acknowledgement recovery is (`src/storage/event-repository.ts:145`), and the model keeps
the difference (`recorded`). `ServerAnswer` is the pure part: `recoverExactServerFinal` and
`recoverExactServerAcknowledgement` over every document of a few nodes that the provider's steps
(a message after another, an edit or a repetition beside it, a turn to another branch) lead to.
Texts are kinds: asked, another user message, a public final, a hidden one, anything unfinished.
`ReadsItsOwnTurn` says whose answer a message may be given and demands one only for the message that
no later user message follows (section 6 on the others).

### PageRegistry, PageRecovery

`registry` is the core's map from tabs to bindings, `stored` the table `page_bindings`, `url` what the
browser shows. `Reconcile` is the rule for two tabs on one conversation. People open, move, crash
and close tabs; the provider redirects a conversation to its lasting identity. `PageRecovery` adds the
rows of the sessions, the job of each actor (open, ready, click, acknowledgement) and the flows: the
one queue of restores and `ensurePage` (`Tail`), and a watcher per session. A flow decides on a
snapshot of the row and writes when the session's queue lets it; between the two stand its
awaits: validation of duplicates, navigation, opening. A message is known by session and generation,
and `delivered` records the conversation it went into.

### LoadRecovery, ConversationCleanup

`LoadRecovery`: `sweep` looks at every owned page, gives one conversation the turn and enters its
actor and page; `sweep.local` is the copy of the record the turn works on, `late` the evaluations whose
caller gave up and which may still press. `ConversationCleanup`: a call stands at the awaits of
`delete` (queued, checking, patching, landed or unknown, confirming), and receipts are nested as in
the code: a replacement and a team deletion derive the identities of their deletions
(`replacement-delete:`, `team-delete:`), which are assumed different from those of callers.

### FailureChain, ArtifactCapture, BrowserOwner, RpcDelivery

`FailureChain`: generations of one session, the operation the chain runs (`chain`), what is on the page
and what a person has done to it (`trouble`). A recovery sweep that aborts the observer in the pause
ends the chain silently, `AbortError` is swallowed at `src/core/thinking-failure-recovery.ts:39`; the
next sweep or restart reconciles it. `ArtifactCapture`: files by content, rows, captures that stand at
their awaits, transfers piece by piece. A file that is damaged in the store is noticed and makes each
capture of it fail (`src/core/artifact-service.ts:357`); a local export does not verify the hash
(`:291`) and removes what it overwrites before the rename (`:294`): both are in the model, neither
breaks a property. `BrowserOwner`: cores as processes that may die between any two steps, the lock
file, browsers that stay. `Overlap` says whether a core may start while another lives. One
lifecycle operation runs in a core at a time, and spawning a browser and naming it in the lock are
one step, as they are without an await in the code. `RpcDelivery`: the client's call, the lines it
has written, cores one after the other. A deferred mutation over a kept ssh stream that died
unnoticed may end as `connection-lost` although nothing ran; it is not sent again.

## 3. Runs

Every run sets `CHECK_DEADLOCK FALSE`: bounded counters stop the models, and the core itself may be
idle for ever (nobody sends, the process exits after a commit). Several runs check components that
share no state in one state space: the variable `part` says of which component a behaviour is, and
each fairness condition and property is about the steps of its own part.

| Run | Instance | Checks |
|---|---|---|
| `submission` | pipeline: 2 requests, 2 crashes; handover: 2 operations, 1 wait, 2 updaters, 2 leases, 1 renewal | `AtMostOneClick`, `OlderGenerationsSettled`, `RetiredRoleNeverClicks`, refinement of `AtMostOnceSend`, `ActorIsFreed`, `AttemptIsResolved`; `ReadinessLasts`, `ReadinessCoversEvidence`, `DeferredWorkRuns` |
| `submission_retire` | 2 requests, no crash | violation of `TerminalStaysTerminal`: finding 1 |
| `submission_delete` | 2 requests, no crash | violation of `NewClicksNeedTheRole`: finding 2 |
| `submission_late` | 2 requests, no crash | violation of `AbandonedCommandKeepsThePage`: finding 3 |
| `probes` | 2 sessions on one scope, or one whose scope is replaced; 2 loops, delays of 2 ticks, 1 cooldown | `ProbesStayAway`, `EveryTurnComes` |
| `probes_redirect` | the same | violation of `StoppedObserversReleaseTheirTurn`: finding 4 |
| `operations` | stop: 2 requests, 2 generations; chain: 3 generations, 2 acts; files: 2 of two sessions, 2 captures, 1 transfer of 2 pieces, 2 contents; browser: 3 cores, 3 browsers, 5 moves, no overlap; delivery: a mutation and a wait, 3 tries, 2 cores; answer: every document of up to 5 nodes; 1.37 million states | `StopPressedOnce`, `ConfirmedStopIsTrue`; `BackoffIsKept`, `PausedIsForGood`, `NotOverAPerson`; `DownloadedIsStored`, `PublishedIsExact`; `BrowserIsFound`; `StartedOnce`, `UndispatchedNeverRuns`; `ReadsItsOwnTurn` |
| `sessions` | pages: 2 sessions (one with a finished turn), 2 lives of the core, 2 generations, 1 act of a person; either 2 tabs, or 3 tabs while recovery leaves the finished session alone. Actors: 3 sessions (interchangeable), 2 roles, 1 client, 2 events, 1 operation queued behind a running one. Server: 2 conversations with 2 readers each, grace 2, Retry-After up to 2; 886 thousand states | `AcknowledgedWhereDelivered`, `NoStrayTab`, `NoClickIntoSharedConversation`; `FollowerMissesNothing`, `SleepingTeamWaitIsRight`; `TheLineMovesOn`, `SelectedGoesFirst` |
| `care` | load: 2 sessions, 2 attempts, 2 acts; cleanup: 1 role, a deletion, a replacement and a team deletion, 2 acts; mutex: 3 callers, 2 keys, 4 calls, 2 retained commands | `ClicksAreCounted`, `PersistentErrorIsReported`; `UnknownDeletionIsNotRepeated`, `OneSuccessor`, `SettledBeforeDeleted`, `EveryCleanupReturns`; `NoGateIsLost`, refinement of `FifoLock` |
| `answers` | 2 observers, an answer that grows twice, a window of 1 tick, a reading of up to 1 tick, 1 act of others; 782 thousand states | `QuietFinalStood`, `EndedStaysEnded`, `FinishedAnswerIsCollected` |
| `answers_stay` | the same | violation of `CompletedResultStays`: finding 5 |
| `profile_race` | 3 cores that may overlap, 2 browsers | violation of `OneOwner`: finding 6 |

**Why the bounds are enough.** Two requests are the least for every relation between requests
(resend, continuation, ownership of a message, older and current generation) and the second crash
falls into the recovery after the first. Two leases make an old lease meet a new one. Three
sessions let both roles of a team have one and one of them be replaced. Two conversations with both
kinds of readers make every order of the line; a grace of 2 is the code's, in ticks. One imposed
cooldown tells "ours" from "theirs"; that back-off doubles is not told apart in the run
(`MaxLevel = 0`), only in the proof. Two stop requests give one that is uncertain and one of another
client. Three failed generations make a second continuation of a chain. Two captures meet in one
session, two contents in one store. Three cores are a dead one and two that follow. Five nodes hold
a question, an answer, an edit beside it and an answer of that. Three tabs are a pair of duplicates
and the one recovery opens for a session; two are enough for two sessions that recovery binds one
after the other; two lives of the core put stored bindings to use. A deletion, a replacement
and a team deletion on one role make every nesting of receipts. Three callers are needed for a newcomer
behind a queued call of a key that is being deleted. Two observers are one and the one that replaces
it; two growths change the text inside a window and after it, and a reading
of one tick is as long as the window it may be counted into. Where a theorem exists (section 5) the
bound does not matter at all.

**What the stronger-looking properties say.**

* `ImplementsPromise`: for a caller, the whole pipeline with its crashes behaves as
  `AtMostOnceSend`: accepted, perhaps refused and re-opened while untouched, attempted once,
  then doubtful or confirmed for ever.
* `OlderGenerationsSettled`: only the current generation may be unfinished. The code has no way to
  settle another one, and its boot recovery would throw on it.
* `FollowerMissesNothing`: a client that keeps calling session.wait with the number of its last
  answer is either asleep on an actor that shows the same snapshot, or will be answered at once.
* `ReadinessLasts`: once the updater was told that the core is ready, nothing is admitted, being
  dispatched or left behind by an abandoned command until the lease is over, although leases are renewed,
  run out and replaced, callers ask again and drain loops of older leases come back.
* `ReadinessCoversEvidence`: what a browser event wrote after readiness was reported is never
  dropped by the exit, because writing it revokes the lease.
* `ProbesStayAway`: a probe is launched only when every deadline that the provider or an operator
  gave has passed, over restarts and flights that end later than the evidence.
* `EveryTurnComes` is claimed for scopes that keep their name. Where the identity of a conversation is
  replaced, finding 4 also keeps later observers waiting.
* `TheLineMovesOn` states progress as safety: `idle` counts the ticks in which somebody waits, nobody
  reads and nothing is limited, and never exceeds the grace of a place that was given up and the
  tick in which it is found lost.
* `AcknowledgedWhereDelivered`: a row says "submitted" only with the conversation that has the
  message of that generation, although identities are copied between tabs, table, rows and snapshots.
* `QuietFinalStood`: a final without the page's marker is of a text that had stood unchanged on the
  page, when it was last read, for the window less the time that this reading took, whatever came in
  between. The text may have changed since it was read; the code takes no more care than that.
* `RetiredRoleNeverClicks` is about roles that are retired or replaced by themselves; that it does not
  hold of the roles which `team.delete` retires is finding 2. `AttemptIsResolved` leaves out attempts of
  a session whose role is gone: those stay `submit_attempted` until they are replayed or the core starts
  anew. It does include the attempts that `team.delete` lets through.
* `BrowserIsFound`: a living browser of the profile is named by the lock, so the next core adopts it
  instead of failing on its profile. It holds while cores do not overlap; `profile_race` shows
  what happens when they do.

Type invariants are not run: those of `Submission`, `KeyedMutex`, `StopRequest` and `Handover` are
proved, and the other modules' types are the first conjunct of their proved invariants.

## 4. Fairness

Fairness is stated only where a run checks liveness.

* `Submission`: awaits settle. The provider stages have timeouts (`withProviderStageTimeout`), the
  abandoned command of a prepare settles or the page dies with it, and the boot recovery runs to its
  end. Opening the page has no stage timeout of its own: that the browser answers is an assumption.
  Nothing is assumed of callers, crashes or late commands.
* `Handover`: time passes, the timer runs, an aborted wait returns, the drain loop polls, refused
  callers ask again. Nothing is assumed of the updater or of admitted work.
* `BackendProbes`: the clock advances, a probe returns, a queued microtask runs, an aborted loop
  ends, a loop whose next check is due asks or gives up its turn.
* `AnswerObservation`: a loop that can go on does (weak); a reading that keeps being aborted and
  begun comes back in the end (strong, per loop); the core's event loop gets to what it has to do:
  the queue, the end of an operation, or observing the turn again after a stop, which the restart
  of the core or of the page brings.
* `LoadRecovery`: the sweep is repeated and gets on, the interval passes, a turn settles, an
  evaluation that was given up lands.
* `ConversationCleanup`: a call inside the core gets on whenever it repeatedly can (strong: the actor
  it needs is taken and freed by others).
* The other modules have none: `openStop`, `prepare` and `stopOnce` have no timeout, so the code
  promises no termination and none is claimed; the rest checks safety only.

## 5. Theorems

All are proved for any values of the constants, from the assumptions named in the modules (the absent
value is none of the real ones, bounds are natural numbers, sets of identities are disjoint where the
code gives them prefixes of their own). Each says `Spec => []Inv` or `Spec => [][A]_vars`; the
inductive invariant is a definition of the proof module, with one lemma per action.

* `SubmissionProofs`: `TypeInvariant`, `TypeCorrect`, `ClickInvariant`, `ClickedOnce`,
  `UnattemptedUntouched`. The properties on clicks are not inductive: a state in which an operation
  stands before the click of a row that was already clicked satisfies them. `SubmitShape` adds what
  the place of an operation says of its row, and `ClickHistory` that a row that was never attempted has
  no click and no late command and that a late command has not clicked yet.
* `PipelineProofs`: the rest of the safety of the submission pipeline, on top of `ClickInvariant`.
  `GenerationInvariant` consists of `GenerationShape` (what the session's state says of its current
  row, and that only a submitted row has a message or a reason), `RunNeeds` (what an operation found
  when it began still holds) and `RetiredRun` (a role that is retired or replaced during the last
  verification leaves a terminal session and an actor that knows). Without the first, nothing says that the row a new
  request is accepted on top of is settled; without the last, the actor would publish the attempt.
  From it follow `OlderSettled`, `OneOwner`, `RetiredNeverClicks`. `BootInvariant` (past the
  preparations, all of them ask for an inspection) gives `PreparationsSurvive`. `PromiseKept` is the
  refinement: every action is mapped to the step of `AtMostOnceSend` it is, with `DeliveredInvariant`
  (what was delivered was clicked) for recovered messages. `OwnershipInvariant` is the safety that
  `AttemptIsResolved` rests on. While the role is current, the actor shows what the rows say
  (`ActorNeverStale`: no publication is refused), a running submission never finds its session ended, a
  refused row leaves the session ready, and an attempt is driven by the operation that recorded it
  or the core is still starting (`AttemptsAreOwned`). The first is needed for the last: an actor that
  showed an end would refuse the attempt's publication, and the operation would stop with the attempt on
  record. What fairness adds for `AttemptIsResolved` is that the owner goes on.
* `SchedulerProofs`, the mutex: `QueueInvariant` says that the calls of a key form one line, each
  behind the call that was the tail when it came, and that the map holds the last of them. From it follow
  `MutualExclusion`, `MapTellsBusyKeys`, `FirstComeFirstServed`, `NobodyAwaitsTheGone`, and `LockKept`,
  the refinement of `FifoLock`: the order of a finite set by distinct numbers is a sequence whose head
  is the oldest call, a new call is appended, and the last release takes the head.
* `SchedulerProofs`, the waits: `WaitInvariant` consists of `OneRoleEach` (a current session is
  that of one role), what an actor `Shows` of its row, and what a call and an answer are worth
  (`CallIsRight`, `AnswerIsRight`): what a client was told is still so, or a newer event tells. From
  it follow `SleepersAreWoken` and `FollowersMissNothing`.
* `ControlProofs`, the handover: `HandoverInvariant` consists of `NewestIsHeld` (a held lease is the
  newest and its owner the only one who knows it), `DrainersHold`, `ReadyIsFresh` (a lease that is
  ready was judged after the last evidence) and `ReadyIsIdle` (nothing has got under way since; a call
  meets the gate before anything of it is counted). From it follow `ReadyStaysIdle`,
  `NoEvidenceDropped`, `HolderExits`.
* `ControlProofs`, the stop: `StopInvariant` says that a stop on its way has its attempted receipt on
  record (`OnItsWay`, `OnRecord`) and that the core knows it (`Remembered`). From it follows
  `PressedOnce`. `OutcomeInv` (a stop on its way is for an open generation, a receipt is of the past
  or true) gives `ConfirmedTrue` and `OutcomeFinal`: an end is not rewritten, but for the refresh of
  finding 1. `RefreshIsUntold` is needed for it: a refresh runs for a message that was never
  submitted, so no receipt speaks of its generation as stopped. `NamedInv` gives `StopsTheNamed`.
* `ObserverProofs`, the probes: `ProbeInvariant` consists of `Barred` (what was said is covered by
  what is stored, which never gets shorter), `Lines` (who stands at a mutex asked for that
  scope, once) and `FlightHolds`. From it follows `ProbesKeepAway`: the deadlines that are compared
  before a probe goes out are those of the scope that was told.
* `ObserverProofs`, the observation: `WindowsAreWhole` carries `SeeInv`: no loop's window is older
  than the text it measures has stood, on the page or, with the time the reading takes, in the reading at
  hand (`Measures`). The two have to be kept apart, since the answer may grow while a reading is under way. `EndsStand` is that
  the end of a turn is not rewritten.
* `CareProofs`, the load recovery: `LoadInvariant` is that the sweep's copy of the record has the attempts of
  the stored one for as long as its turn lasts (`HasTheTurn`), with one attempt stored before the
  press (`OneToSpare`). It gives `PressesAreCounted`.
* `CareProofs`, the cleanup: `CleanInvariant` is that one call is inside an actor (`OneInside`), that
  its attempt is on record before the provider is asked (`MayAsk`), that a deletion of unknown outcome
  is `Noticed` by whoever comes next, that a successor was `MadeOnce`, and that a conversation about
  to be deleted is `Settled`. It gives `DeletionsAreNotRepeated`, `SuccessorsAreSingle`,
  `DeletionsAreSettled`. `CleanupsComeNearer` counts the steps a call has left (`Distance`: the sessions a
  team deletion has still to take, and the stage of the one at hand): every step of a call makes it smaller
  and no step of another makes it larger. For any finite team this leaves of `EveryCleanupReturns` what
  fairness says, that a call whose actor becomes free goes on.
* `OperationsProofs`: `DeliveryInvariant` (a mutation has one line at a time, is untouched while it may be
  sent again, and is not started while its line is unread or deferred) gives `MutationsStartOnce` and
  `UndispatchedIsTrue`. `OwnInvariant` (one core is alive, the lock names its browser, what a core knows and
  leaves at rest) gives `BrowserIsNeverLost`; both have `Overlap = FALSE` as hypothesis, and
  `profile_race` shows that the hypothesis is needed and that the code does not guarantee it.
  `ChainInvariant` (where a continuation stands, what it has waited for and looked at) gives
  `PausesAreKept`, `PausedStaysPaused`, `PeopleGoFirst`. `ArtInvariant` (names are contents, the file and the
  piece in hand are what was verified) gives `RowsNameStoredFiles` and `CopiesAreExact`.
* `OperationsProofs`, reading a conversation: `TreeInvariant` is that the document is a tree whose nodes come
  after their parents. `OwnTurnIsRead` is `ReadsItsOwnTurn` for documents of any size. `Branch` and `TurnOf` are
  recursive functions, and no induction theorem of the library can be instantiated; `BranchIs` and `TurnIs`
  show that a function with the recursive equation exists (the least number of nodes for which none did would
  follow one for which one does), so that the definition has it. What it computes follows in the same way
  from the least node or place that fails: `BranchLeads` (from the root to the node, each the parent of the
  next, in the order of making) and `TurnAlong` (a node's turn is that of the last user message before it on
  the branch). `TurnEnds` and `FinalIs` say what the loop over the turn ends with.
* `PageProofs`: `PageInvariant` says of the registry that a session expects only its own
  conversations (`Claims`) and that an owned tab shows what is expected (`Owns`), the same of the stored
  bindings (`StoredFine`), of rows and delivered messages (`MessagesFine`), and of every flow that a
  tab it has made is in its hands until it is written or closed (`FlowFine`). Neither is inductive without
  the others: a restart rebuilds the registry from the table, and a flow writes what it found in either. It
  gives `AcknowledgedThere` and `NoTabLeftBehind`; with the lemma that an owned tab of a reconciled registry is
  alone on its conversation (`OwnedAlone`) it gives `ClicksAlone`.
* `SchedulerProofs`, of the server's line: `ReadsInvariant` says that a selection that waits comes back before
  its place is lost, that a place nobody keeps ages by the tick while the line stands still, and that
  whoever is first, while others have asked in vain, is gone or not yet back. It gives
  `NoPlaceHoldsUpTheLine`, `SelectionIsFirst`. That somebody is first at all (`SomeoneIsFirst`) rests on the
  line's being a strict order of finitely many conversations; the proof takes the member with the
  fewest before it.

**Only model-checked.** Liveness under fairness is out of the prover's reach: `ActorIsFreed`,
`AttemptIsResolved`, `DeferredWorkRuns`, `EveryTurnComes`, `PersistentErrorIsReported`,
`EveryCleanupReturns`, `FinishedAnswerIsCollected`. Of the safety and action properties that a passing run
checks, each is the statement of a theorem.

## 6. Findings

1. `submission_retire`: `refreshPage` awaits the reload and then writes from the snapshot it read
   before. A role retired meanwhile leaves a cancelled generation that this write reopens
   (`src/core/submission-service.ts:1511`).
2. `submission_delete`: `team.delete` retires the roles at once, outside the queues, and cancels no
   session; a submission in its last verification looks at no role afterwards, records its attempt and
   clicks Send for a role that is retired (`src/core/submission-service.ts:719`).
3. `submission_late`: a timed-out `submitOnce` is not handed to `retainUntil`; the page lock is free
   while the click may still happen (`src/core/submission-service.ts:780`). The click stays the
   only one (`AtMostOneClick`).
4. `probes_redirect`: an observer withdraws from the scope of the conversation id it started with;
   after the id was replaced it stays at the head of the new scope's queue, and later observers of
   that conversation are told to wait until a restart (`src/core/observation-service.ts:143`).
5. `answers_stay`: the final decision that a stopped or replaced observer had in the session's queue is
   written over the result of a turn that is complete already (`src/scheduler/actor-scheduler.ts:186`).
6. `profile_race`: two cores that start over the browser a dead core left both probe it, and the
   second removes the lock the first has just made (`src/browser/browser-owner.ts:1160`).

Smaller observations that no run states: a session.wait refused for its generation leaves the terminal
actor that was made for it in memory (`src/scheduler/session-actor.ts:153`, where
`test/unit/session-actor-wait.test.ts:222` expects idle terminal actors to retire). And of a person who
writes on in the conversation `docs/team-workflow.md:201` says "Only the answer after the latest user turn
can complete the request", and :213 calls completed results immutable. The code lets an earlier answer complete
it in both places where answers are read: on the page, when that answer carries the finished marker
(`src/providers/chatgpt/dom-observer.ts:62`, `around = "followed"` in `AnswerObservation`), and from the
server always, since the loop over the turn stops at the next user message and what it has found by then is
final (`src/providers/chatgpt/backend-recovery.ts:451`). `ReadsItsOwnTurn` therefore takes no side: it
says that nothing but the end of its own turn completes a message, and that this does when no later
message follows.

## 7. Left out of the modelled parts

* Submission: user holds and account cooldown (both are outcomes `OpenNeedsDecision`), attachments
  (an outcome `OpenFails`), receipts of decisions and resends and the nesting of
  `prepareAuthorizedResend` in one, anchors of follow-ups in history, diagnostics of the outbox, the
  migration of sessions of older releases. Of `team.delete` its retirements are there; its stops are
  those of `StopRequest`, its receipts and the deletion at the provider those of `ConversationCleanup`,
  and the removal of the rows at its end is nowhere.
* SessionWait: deletion of conversations and teams while somebody waits.
* BackendProbes, AnswerObservation: the rate-limit and load-error evidence that observation passes on.
* AnswerObservation: the errors that reach the `catch` blocks of a round after its signal was aborted
  (`src/core/observation-service.ts:176`, `:211`). They do not look at the signal and may record an
  `unavailable` reading of a turn that is still open; one that ended or was replaced is left alone by
  the write itself.
* Handover: the installer that starts the successor (`docs/operations/core-handover.md`).
* StopRequest: a Stop press that lands after an unknown outcome was recorded.
* ServerAnswer: the comparison of texts (Markdown escapes, hashes of captured dispatches); documents with
  cycles or more than 10 000 nodes on a branch, which are not read (`unavailable`).
* BrowserOwner: the timer that restarts a lost browser while another lifecycle call runs. A browser that
  is told to end does: `close` and `#stopOwnedProcess` that fail to end it
  (`src/browser/browser-owner.ts:397-405`, `1031-1046`) are left out, and so is `beginManualLogin`
  (`704-724`), which takes no lock of the core's own.
* LoadRecovery: an inspection that times out or throws at the start of a turn, which records `held` and
  ends the turn (`src/core/conversation-load-recovery.ts:196-197`; the press that times out is
  `TimesOut`), and the pages a sweep passes over because their lock is busy (`:132`), which it looks at
  again the next time.
* PageRecovery: wording and throttling of diagnostics.
* RpcDelivery: schemas, framing and the size limit of a line. A call never ends with `core.maintenance`:
  every deferral sets a new deadline, so the client asks again (`src/cli/client.ts:82-84`).

## 8. What is left

In this order:

1. `SessionWait` with the deletion of conversations, composed with `ConversationCleanup`.
2. The receipts of `prepareAuthorizedResend` and of decisions inside `Submission`.
3. `TeamWorkflow`: the decisions of `workflow.wait` over the loop of `team.wait`.

## 9. Not modelled

SQLite (taken at its word: transactions are atomic, durable and serial), migrations, wiring and
configuration, adapters that read the DOM of a provider's page, parsing of provider documents, the
CLI and MCP front ends, method tables of the RPC server, metrics, tab groups and skill distribution,
and the team workflow, a facade that chooses which of the modelled operations to call.
They either hold no state that another component's correctness depends on, or are pure input and
output. `PROJECT.json` gives the reason for each.

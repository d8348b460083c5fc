# Paseo daemon: TLA+ models and proofs

Paseo runs coding agents: a daemon (`packages/server`) keeps one provider session per agent
(Claude, Codex, ...), and clients (app, CLI, MCP) send it prompts over a websocket. This
directory models the parts of the daemon whose correctness depends on the order in which
things happen. Paths below are relative to `packages/server/src/server/` unless they start
with `packages/` or `docs/`.

## How the daemon runs

The daemon is one JavaScript thread. Code between two `await`s runs without interruption;
promise reactions run before the next timer, message or I/O callback. An action of a model is
the code between two suspensions. Where the models speak of a crash, the process stops between
two actions and what was written to disk remains. A write that fails does so with or without its
effect where the code's write is atomic by rename, and the caller sees a rejected promise in both
cases. A websocket delivers in order until it is lost; then what was on the way is gone.

## Inventory

| Component | State | Operations | What is hard | What makes it correct | Module |
|---|---|---|---|---|---|
| **Foreground turns** (`agent/agent-manager.ts`, `agent/agent-run-state.ts`, `agent/agent-prompt.ts`) | lifecycle, active turns, tracked run, staged and held events, event queue, foreground lane | send, run, steer, stop, replace; turn events; interrupt and settlement timeouts | calls and events interleave around every `await`; interrupts are refused, time out, or are answered before the terminal event | one prompt at a time in the provider; the published turn is the tracked run's; a finalized turn does not return; no call blocks the lane | `AgentTurns`, `RunSlot` |
| **Session lifetime** (`agent-manager.ts`: close, reload, resume, collect; `agent/agent-loading.ts`, `agent/idle-runtime-cleanup/`) | live session, lifecycle lane, pending load | load, reload, close, collect an idle runtime | a collection races a prompt; two loads of one agent; a reload that stops waiting for a close | one session writes to a thread; no runtime is taken from a prompt; every prompt is answered | `AgentRuntime` |
| **Finish subscriptions** (`agent/finish-subscriptions/`) | durable intents, watches, delivery state | register, accept, reject, observe, deliver, recover | a crash between delivery and its record; the child finishes before or during the registration | an accepted intent is reported or suppressed, once per life; its caller is protected meanwhile | `FinishSubscriptions` |
| **Finish observation** (`agent/finish-subscriptions/internal/observation*.ts`) | published events of a child, the initial wait, the buffer | open, publish, answer the wait, take a result | a late answer of the wait among live events, while the caller is being told of something else | a settlement and an open request are reported; a replaced turn or a resolved request is not | `FinishObservation` |
| **Agent messages** (`agent/agent-messages/delivery.ts`) with **message receipts** (`message-receipts/index.ts`) | quiet window, chain of dispatches, receipt files | send, repeat a send, notify, dispatch, close | messages arriving while a batch is dispatched; a repeated send whose first outcome is unknown | each message reaches the provider at most once, in order; an unknown outcome is said to be unknown | `AgentMessages` |
| **Creation service** (`creation/index.ts`) | a record per key, claim files, running creations | admit, claim, provision, create, prompt, retry | a crash between an effect and its record | the same key never creates twice; the record tells what happened | `CreationJournal` |
| **Workspace labels** (`workspace-labels/`, `workspace-registry.ts`) | catalog and workspace files, journal, change sequence | label mutations, recovery, synchronize | two files committed with one journal; clients catching up while edits go on | label operations are atomic; a caught-up client has the server's catalog | `LabelPair`, `LabelStore`, `LabelSync` |
| **Directory sync** (`directory-sync/`, `session.ts`, the app's `runtime/directory-sync`) | numbered collection with tombstones, subscriptions, cursors | list, change, send, catch up | a list read before a change; bounded history; reconnects | a read after any number is exact; the app shows the daemon's workspaces | `VersionedCollection`, `DirectorySync` |
| **Agent timeline** (the daemon's timeline store, the app's `viewed-timeline-sync.ts` and `session-stream-reducers.ts`) | rows with epoch and sequence, the app's range and catch-up | append, rewind, fetch pages, live rows | pages racing live rows, gaps, rewinds and reconnects | the app shows one contiguous range; "ready" means current; a catch-up ends | `TimelineSync` |
| **Restart recovery** (`agent/restart-recovery/`, `agent/agent-storage.ts`, the stop of `bootstrap.ts`) | stored status and resume flag, write queues | choose, consume, resume; capture at shutdown | stale records written back; a crash anywhere; a close that ends its turn | what a stop interrupted is resumed, once | `RestartRecovery` |
| **Bot auto-resume** (`packages/server/src/patches/vibing/bot-auto-resume.ts`) | a window, a timer and a count per chat | failure, Stop, prompt, timer | a timer racing a Stop | a stopped chat is not prompted; retries are bounded | `BotAutoResume` |
| **Schedules** (`schedule/`) | schedule files, reservations | tick, run once, change, recover | ticks over stale lists, changes during a run, restarts | runs follow one another; an active schedule has a next slot | `Schedules` |
| **Terminals** (`packages/server/src/terminal/`) | the worker's screen, replays, a viewer's stream | output, replay, pressure, reconnect | output between the capture and the arrival of a replay | a viewer's screen is what the terminal printed, once and in order | `TerminalStream` |
| Workspace registry, git service, archiving (`workspace-registry.ts`, `workspace-git-service.ts`, `auto-archive-on-merge/`) | records, watched repositories | open, archive, refresh | archive cascades failing half-way | archived workspaces have no live agents | (the registry's queue: `LabelStore`) |
| Websocket server, session, relay (`websocket-server.ts`, `session.ts`, `packages/relay/`, `packages/client/`) | connections, subscriptions, buffers | connect, resume, request, dispatch | reconnects, buffered frames | no lost or repeated request across a reconnect | (per service above) |
| Provider adapters, hub, plugins, CLI, desktop, app UI, website | | | | external processes, I/O and presentation | - |

Components call each other in one process: `agent-prompt.ts` drives `AgentManager`; finish
subscriptions, schedules, agent messages, bot auto-resume and restart recovery send prompts through
it; the session layer subscribes to its events; every durable component writes its own JSON files.

## Modules

| Module | What it models |
|---|---|
| `AgentTurns` | the foreground-turn machinery of one agent, with the provider session around it |
| `RunSlot` | the abstract promise of the run slot, implemented by `AgentTurns` |
| `AgentTurnsProofs` | theorems on `AgentTurns`: types, no split-brain, who owns the published turn, the refinement of `RunSlot` |
| `MCAgentTurns` | symmetry for the model checker |
| `FinishSubscriptions` | the durable finish subscriptions of one caller and child, with crashes, shutdown and restart |
| `SubscriptionsProofs` | theorems on `FinishSubscriptions` and `FinishObservation`: reported once, the intent is kept, the caller is protected, notices are true |
| `FinishObservation` | what such a subscription hears of its child |
| `MCLiveness` | `AgentTurns` and `FinishSubscriptions` in one run with fairness |
| `LabelPair` | the abstract promise of the label storage: a pair that changes by whole operations |
| `LabelStore` | the journal over the catalog and the workspace file, implementing `LabelPair` |
| `LabelStoreProofs` | theorems on `LabelStore`: its invariant, the refinement, no undefined label |
| `LabelSync` | the change sequence of the catalog and the app's replica of it |
| `CreationJournal` | records, claims and stages of idempotent creations |
| `CreationJournalProofs` | theorems on `CreationJournal`: nothing repeated, the record tells |
| `AgentMessages` | delivery batches of one recipient behind message receipts |
| `AgentRuntime` | the provider session of one agent: close, reload, resume, collection, and the prompts that meet them |
| `ServicesProofs` | theorems on `LabelSync`, `AgentMessages` and `AgentRuntime`: the replica is true, messages are kept in order, one writer |
| `VersionedCollection` | the numbered collection with its tombstones |
| `DirectorySync` | sessions and apps over that collection (extends `VersionedCollection`) |
| `TimelineSync` | one visible chat in the app against the daemon's timeline |
| `SyncProofs` | theorems on the last three: a catch-up read is exact, followed changes show, the chat is true |
| `BotAutoResume` | the retries of one chat |
| `Schedules` | the runs of one schedule |
| `RecordsProofs` | theorems on `BotAutoResume`, `Schedules` and `RestartRecovery` |
| `TerminalStream` | one viewer of one terminal behind a worker process |
| `TerminalProofs` | theorem on `TerminalStream`: the screen is exact |
| `RestartRecovery` | agent records over shutdowns, crashes and starts |
| `MCRecords`, `MCServices` | unions of independent services, one run each |

### AgentTurns

*State.* `agent` holds the fields of `ManagedAgent` that decide control: `lifecycle`, `fg`
(`activeForegroundTurnId`), `active` (`activeTurnId`), `replacing` (`pendingReplacement`) and
`failed` (`lastError` set). `run` is the entry of `AgentRunState.runs`; a foreground run without
a turn is pending. `staged`, `held` and `queue` are the three places a provider event can wait:
the pending run's staged events, the steer barrier, the session event tail. `lane` is the promise
chain `foregroundMutationTails` as the sequence of calls in it. `pc` says at which suspension each
call stands; `prov` is what the provider does with each turn: asked for, live, stopped by an
acknowledged interrupt, over (terminal event sent), spent.

*Actions.* One per stretch of code between two suspensions: `Send`, `RunAgent`, `Steer` and `Stop`
are the calls; `SteerChoose`, `SteerAdmit`, `SteerAnswered`, `SteerReturns` and `SteerFallback` are
the parts of `steerOrReplaceActiveTurn`; `CancelBegins`, `InterruptAcked`, `InterruptRefused`,
`CancelSettled`, `CancelRefused` and `SettlementTimesOut` those of `cancelAgentRunNow`; `Resume` is
the rest of `replaceAgentRun`; `RunStarted`, `RunRejected` and `RunWentStale` the outcomes of
`startTurn`; `Dispatch` takes one event through `handleStreamEvent` and its handlers. `TurnBegins`,
`AutonomousBegins` and `TurnEnds` are the provider's.

*Order on the thread.* Actions that begin in a timer, a message or provider I/O require `Quiet`: no
event is queued and no promise reaction is ready. Among ready reactions the order is open, with one
exception: the next operation of the lane starts in fewer promise hops than it takes the previous
operation's caller to resume (`LaneStarted`).

*Abstractions.* A foreground turn carries the name of the call that asked for it, since every call
asks for at most one. `turn_completed` and `turn_canceled` have the same effect on this state and are
one event. `onStreamTurnFailed` awaits a timeline append, which suspends only with a durable timeline
store; no production construction passes one, so it is one step. The provider's contract for
`interrupt()` is `agent-sdk-types.ts`: once it resolves, no foreground turn that predates it can run.
The echo of the submitted prompt in the staged events has no effect on this state. The provider's own
start of the run's turn among them is dropped before the rest go into the queue (`Unstaged`).

### FinishSubscriptions

*State.* `disk` is the set of records in `finish-subscriptions.json`. `chain` is the promise chain of
`serialize`, its head being in progress, and `ahead` counts the entries that `close` still waits for.
`reg` says where each registration stands with the caller that made it, and `priors` is its
`predecessors`. `watch` holds one record per watch: where `run` is suspended, its `member`ship of the
group, whether it is `pending` a dispatch, the `decision` promise, the abort signal, the outcome it
keeps across retries, and the message it has handed to the delivery lane, which outlives it. Watch 0 is
the one that recovery attaches to whatever it finds on disk. `active` and `attached` are what the two
suppression checks read. `heard`, `dropped` and `reports` are history: what was dispatched, and what was
removed undelivered because it was suppressed.

*Actions.* `Boot` and `Start` are `start`; `Register`, `RegisterStores`, `RegisterThrows` and
`RegisterAttaches` are `register` (with `now` when there is no dispatch to wait for); `Accept`, `Reject`,
`RejectRemoves`, `RejectEnds`, `SupersedeRemoves` and `SupersedeEnds` are the two answers of a
registration and the removals they put on the chain. `Begins` to `Finishes` are `run`, in the order of
its code: the first suppression check, `observe` and its failures, `decisions` with its waits, the second check,
`deliver`, the acknowledgment, the retries, the removal of the records one at a time, `stop`. `Close`,
`CloseAborts`, `CloseReturns` and `Exit` are the shutdown. `Crash` may happen anywhere.

*Abstractions.* There is one caller, one child and one host, so one key. The child makes one permission
request, repeated. "finished" stands for every settled outcome. The store reads at start without
failing: an unreadable file fails the daemon's bootstrap before this service runs. Registrations come
only after `start`, because the bootstrap awaits it before it opens its ingress. An archived caller and a
detached child stay so. Failures of every kind share one bound.
A dispatch that is rejected after its acceptance (`LateReject`) is so in the life of its registration: a start knows nothing of the
registrations of an earlier one but their records.

### FinishObservation

*State.* `child` is what the manager's events show of a turn: the lifecycle, whether a run is pending or a turn goes on, and
`pendingReplacement`; `open` are its pending permissions. `updates` are the published events whose handler has not run: each handler reads the
child's last message first. An update is kept as what `observeState` will make of it, since that depends on the snapshot taken
when it was published. `wait` is the subscriber of `waitForAgentEvent`, `buffer` the buffer with the requests it `delivered`, the
requests that were resolved before the initial result (`early`) and the terminal result; `telling` is the result the caller is being told, `noticed` the requests that
`deliver` remembers. `cleared`, `told`, `rested` and `hushed` are history.

*Actions.* `PromptComes` to `ChildCloses` are the child's; each emits its states and events in the order of the code: a resolved
request before the state, the state before the end of the turn, no state while a replacement holds the agent busy. `Opens` subscribes and publishes the
state found there, `WaitBegins` and `WaitAnswers` are the two ends of the wait, `HandlesUpdate` one update, `Takes` is `next` and `Tells` the acknowledged
`deliver`. A caller who waits in `next` is woken at once, so nothing else happens while it has a result to take.

*Abstractions.* A final result does not say whether the child finished, was canceled or failed. The two reads after the wait's answer are one
step. The child is on this daemon. Failures of the observation, which reopen it, are in `FinishSubscriptions`.

### LabelPair and LabelStore

*State.* `catalog`, `records` and `marker` are the three files; `labels` and `cache` what the daemon
serves; `blocked` the store's refusal of mutations; `commit` the label operation in progress with its
step, after images and before images; `read` a record that a caller of the registry's `upsert` holds.

*Actions.* `StagesPlan` to `Cleans` are `commit` of `catalog-store.ts` in the order of its writes:
the prepared marker, the catalog, the records, the committed marker, its removal. Each write
(`Writes`) succeeds, or fails with or without its effect; `Undo...` is `recover`, which reads the marker
again. `StoreStarts` and `Loads` are the recovery at start. `Archives`, `RemovesWorkspace`, `ReadsRecord` and
`Upserts` are the registry's other mutations, which pass through the same queue between the writes.

*Refinement.* `LabelsAreAtomic` is `LabelPair!Spec` with `stored` what a restart would serve from the
three files, `served` what the daemon answers, and `mode` whether it has lost track. A pair may
change by one whole operation; nothing is served that is not stored, unless mutations are frozen.

*Abstractions.* Label operations run one at a time (`service.ts`); a label is a name, without color.

### LabelSync

*State.* The daemon's `held` catalog, its `generation`, `lastSeq` and bounded `journal`; the connection
(`requests` up, `inbox` down); the app's `replica` and `cursor`.

*Actions.* `Edits` publishes a change. `AnswersList` is `synchronize` of `sequence.ts`: the net changes since
the cursor, or a snapshot. `Lists` and `Updates` are the app's handlers; an update past a gap asks again.
`ConnectsUnsubscribed` and `ConnectsClient` are a reconnection before and after the subscription,
`LosesLink` and `SyncRestarts` the failures. An edit is one step, which `LabelStore` justifies.

### CreationJournal

*State.* `creations` and `claims` are the files; `existing` the registered resources; `effects` counts real
attempts (history); `admission` is the request in the admission queue, `runs` the creations under way.

*Actions.* `Admits`, `Reports`, `Persists`, `Claims` and `Conflicts` are the admission; `MarksAgentOnly`,
`Marks`, `Provisions`, `WorkspaceReady`, `CreatesAgent`, `AgentReady`, `PromptsAgent`, `PromptStarted`
and `Ends` the run, each write of the record before and after its effect; `Unknown` a resumed stage
whose effect cannot be told; `RunFails` every throw; `CreationCrashes` anywhere. A claim file may be left
without contents (`Torn`).

### AgentMessages

*State.* `receipts` on disk; `calls` and `repeats`, where each send stands and the equal sends that wait
for it; `quiet` the pending window, `batches` the dispatches in the order of their promises,
`lastDispatch` the entry of `dispatching`; `outcome` how each promise settled; `got` and `times` are history.

*Actions.* `Send`, `ReadsReceipt`, `Prepares`, `MarksPending`, `SendsDirectly`, `SendsQueued` and the two receipt writes are
`sendOnce`; `Enqueue`, `QuietEnds`, `Delivers`, `DispatchSettles` are `delivery.ts`, with `Groups` its
split by behavior and mode; `CloseBegins` and `CloseEnds` are `close`; `Restarts` ends the daemon.

### AgentRuntime

*State.* `registered` is the session of the live agent, `live` those whose process may still write, `doomed` and
`leaked` those a timed-out reload goes on closing or gave up; `lane` the lifecycle jobs with their
tickets; `init` the pending load in `agent-loading.ts`; `prompts` where each prompt stands; `sweep` the candidate
of the idle sweep; `refused` (history) whether a close has failed and left the agent registered.

*Actions.* One per stretch of `closeAgent`, `reloadAgentSession`, `resumeAgentFromPersistence`, the collection and
`ensureAgentLoaded`. A prompt that is woken goes on before any provider or disk answer (`Quiescent`).

### VersionedCollection and DirectorySync

*State.* `values`, `seqs`, `expired` and `headSeq` are the fields of `versioned-collection.ts`; `contents` is history.
`observers` is the daemon's side of each session (subscription, list in progress, updates built and
kept), `apps` the other side (collection, cursor, refresh transaction), `outbox` the connection.

*Actions.* `Write` is `replace`, `remove` and `replaceAll`; `Caught` is `readAfter`. `Changes` changes a workspace,
`Builds` and `Emits` make and send its descriptor, `ReadsList`, `Answers` and `Flushes` are
`fetch_workspaces`, `Takes` the app's handlers, `Connects`, `Disconnects` and `DirectoryRestarts` the connection.

*Abstractions.* A workspace's value has a status part (`Faces`) and the rest. A descriptor is built in one step.

### TimelineSync

*State.* `timeline` is the daemon's epoch and last row; `link` the connection with the requests asked and
the messages coming down; `chat` the app's range, catch-up, queued rows and parked request.

*Actions.* `AppendsRow`, `Rewinds` and `AnswersRequest` are the daemon's. `Receives` is one message in the app, with
`TakesRow` and `Reconciled` (what the reducers do with a live row and a page: replace, merge, discard,
bootstrap) and `AfterPage`, `StartsCatchUp`, `RecoversGap`, `Failed` (what `viewed-timeline-sync.ts` does next).
`RequestFails`, `LinkUp`, `LinkDown`, `ReturnsToApp`, `Retries` and `Scrolls` come from outside.

*Abstractions.* One chat, always visible; a row is one message and one turn; equal requests in flight
are one; the app's 48 ms queue of live rows is flushed before a page, as the code does, and otherwise applied at once.
`missed` (history) marks the cases of the observations below.

### BotAutoResume

`turn` is the run in flight and whether it was announced, `recovery` the entry of `chats` (window, attempts, timer), `bot` the
agent. Actions: the calls that `agent-manager.ts` makes (`BotPrompted`, `TurnAnnounced`, `StartRejected`,
`TurnCompleted`, `TurnInterrupted`, `BotStopped`, `AsksPermission`, `BotGone`) and `TimerFires`. Time goes in ticks, and
a due timer fires before the next tick. A start may take any number of ticks: the code gives it no timeout that is shorter than the
window. `silent`, `retries`, `late` and `turn.until` are history.

### Schedules

`schedule` is the file, `reserved` the entry of `runningScheduleIds`, `workers` where each tick and run on demand stands with
what it has read. `Visits`, `CompletesIfDue`, `ClaimsSlot`, `AppendsRun`, `ScheduleRunEnds`, `EndNotWritten` are the path
of a run; `Pauses`, `Resumes`, `Reschedules`, `Relimits`, `Recreates`, `Removes` the user's changes; `CompletesForAgent` the
archiving of the target; `ServiceStops`, `Recovers`, `SweepsOrphans` a restart. Every change of the file reads it anew (`Rewrites`).

### TerminalStream

`terminal` is the worker's session (what it printed, what has left its coalescer), `replays` the replays asked for,
`socket` what the daemon has not handled, `view` the daemon's stream with its buffered tail, `screen` the app's copy.
Actions: output and flushes on both sides, the replay from its start to `SnapshotReturns` with the cut
(`BeyondCut`), pressure, timeouts, `ChannelCloses`, `Reconnects`, `Adopts`, `GivesUp`, `TerminalExits`. Promise
continuations of one daemon turn run before other turns (`Settling`).

### RestartRecovery

*State.* `agentFiles` is a record's status, resume flag and archiving, on disk and in the cache of
`agent-storage.ts`; `pendingWrites` the write queue of each record, whose entries read the live
agent when their turn comes, hold a copy of it, or hold a whole record; `stage` and `todo` where start
and shutdown stand; `listed` what the shutdown has read; `resuming` the candidates. `owed`, `cut`,
`captured`, `overtaken` and `surplus` are history.

*Actions.* `Prepares` and `Opens` are `prepareStartup` and the first half of `resumePending`; `ResumeChecks`,
`Reopens`, `SendsResume`, `ResumeFails` the rest of a resume. `ShutsDown`, `ListsRecords`, `Captures`,
`ClosesAgents`, `ClosesSession`, `SessionCloses`, `ExitsDaemon` are the stop of `bootstrap.ts` with
`captureRunningAgents` and `closeAllAgents`. `Becomes` puts the two snapshots of each change into the queue,
`WriteLands` takes one out. `CrashesDaemon` may happen anywhere. `ReportsCanceled` happens with
`CloseCancels` only: a provider whose `close()` ends the turn with a cancellation.

### MCRecords, MCServices and MCLiveness

The services in them share nothing in these models, so a run in which one of them moves, and the variable `part`
says which, has the behaviors of each of them alone; the others stay in one initial state. `MCRecords` holds
`LabelStore`, `CreationJournal`, `DirectorySync`, `BotAutoResume`, `Schedules` and `RestartRecovery`;
`MCServices` holds `LabelSync`, `AgentMessages`, `AgentRuntime`, `TimelineSync`, `TerminalStream` and `FinishObservation` with fairness;
`MCLiveness` holds `AgentTurns` and `FinishSubscriptions` with theirs.

## Runs

| Run | Expectation | What it shows |
|---|---|---|
| `AgentTurns_stop` | violation | a Stop behind a hung replacement leaves the agent running with nothing to end it |
| `AgentTurns_busy` | violation | overlapping replacements drop each other's busy hold |
| `AgentTurns_steer` | violation | a steer's fallback interrupts a turn it was not admitted for |
| `Finish_safety` | pass | two registrations, two lives, one failure of any kind, archiving and detaching; no accepted intent is lost wherever the daemon stops, none is reported twice in one life, and its caller is protected from idle collection |
| `Finish_latereject` | violation | a dispatch rejected after it was accepted takes the preceding registration with it |
| `Liveness` | pass | two calls of any kind and an autonomous turn: type correctness, no split-brain, the published turn is the tracked run's and open streams have theirs, a steered turn stays active, a finalized turn never returns, `AgentTurns` implements `RunSlot`; under fairness the lane moves and a finished turn releases its run. Two registrations: under fairness every accepted one is answered, and shutdown completes |
| `Records` | pass | label operations are atomic and leave no undefined label; a creation is never repeated and its record tells; a catch-up is exact and followed changes show; a stopped chat is left alone and retries are bounded; scheduled runs follow one another and an active schedule has a next slot; a restart resumes what was interrupted, once |
| `Services` | pass | label replicas are true and converge; messages are delivered once and in order, pending ones are known, all settle; one session writes unless a close has failed, prompts keep their runtime and are answered; a chat shows a range, "ready" is current, catch-ups settle; a terminal's screen is exact and catches up; a finish subscription hears of every settlement and request, and of nothing untrue |
| `Runtime_writer` | violation | a prompt that waited for a close which then fails opens a second session beside the one that still writes |
| `Labels_upsert` | violation | a record written back after a label was renamed or deleted assigns a label that is not defined |
| `Directory_flush` | violation | a change that leaves the status alone is dropped by the flush after a list |
| `Restart_close` | violation | closing an ACP session ends its turn, whose idle snapshot clears the flag that the shutdown has just set |

`AgentTurns_safety.cfg` is a further configuration outside the runs: the safety properties of `AgentTurns` with three calls (602,398 states).
`Finish_rejectfails.cfg` is another: with a store that fails to remove a rejected
candidate, `AcceptedIsAnswered` fails. `Finish_shared.cfg` is a third: a request that was resolved is announced, against `ResolvedIsNotAsked`.
`Bot_window.cfg` is a fourth: a retry that is still starting when its window closes opens another one, against `WindowIsBounded` (see the
observations for these three).

*Bounds of `AgentTurns`.* Two calls show a turn and a call that steers, stops or replaces it, with every order of their
suspensions, events and timeouts; one autonomous turn shows provider activity between them. A third call that interferes with both
is in `AgentTurns_safety.cfg` and in the violation runs. `MaxHeld` bounds the events waiting in a pending run and a barrier; with 2 a start and
an end wait together, the case in which their order matters, and with 1 an end. Every turn sends its terminal event at most
twice, so late and repeated terminals occur. The proofs hold for any number of calls, turns and events.

*Bounds of `FinishSubscriptions`.* Two registrations are the fewest with a predecessor and a candidate;
recovery coalesces whatever is on disk, so a third adds records to a set. Two lives give one crash or
shutdown at any point and a recovery from what it left (`MaxLives`); the second life is not ended
again. One failure (`MaxFaults`) can hit any of seven operations. `Attempts` is 2 instead of the code's 3:
what counts is that a strike below the bound retries and one at the bound ends the watch; with one failure
in the run the end is reached by the removal of the host.

*Bounds of the label modules.* Two labels, so that a rename and a second label meet; one workspace, whose record an
operation, an archiving and a late upsert compete for. `LabelSync`: two names and one color, a journal of 2 (256 in the code) with 3 edits, so
that it overflows by one; two lives of the daemon and one lost connection.

*Bounds of `CreationJournal`.* Two keys that may name the same id, three kinds of request (workspace alone, all three stages, an agent alone),
one crash and one failed write or read: a retry meets every half-finished state of the first attempt.

*Bounds of `AgentMessages` and `AgentRuntime`.* Four messages (an agent's, a human's, two notices that ask for different modes), three
sends, one restart: a repeated send before, during and after a dispatch, and a split group. Two prompts, one protected as a
queued message is; three sessions and two requests (closes, reloads, sweeps, switches). With three requests the
runtime's 107,903 states were checked separately. `Runtime_writer` needs five requests: the reloads and the close between which its prompts wait. The proofs do not depend on these bounds.

*Bounds of `DirectorySync`.* Two workspaces, two values with different statuses, one tombstone (5000 in the code), one session,
two changes, one lost connection, one life. Checked separately: two sessions over one workspace
(1.4 million states, `FollowedChangesShow`) and two lives (328,000).

*Bounds of `TimelineSync`.* One row at first, pages of one row, three rows in an epoch and two epochs: a tail, a gap of more
than a page and a rewind. One lost connection, one failed request, one action of the user. Checked separately: four rows and two
losses (139,689 states). A chat synchronized while its timeline is empty is excluded by `StartRows = 1` (see the observations).

*Bounds of `BotAutoResume`.* An interval of 1, a window of 3 and 2 retries keep the code's order (interval < window, and either limit
may come first); the horizon of 9 ticks holds two windows, and starts that last from one into the other.

*Bounds of `Schedules`.* Two ticks and a run on demand at once; from a schedule with a limit of two runs whose slot is due; two
moments, two runs, two events of the user, the target or a stop. Checked separately: a third moment (1.0 million
states), and more cadences, limits and expiries (4.9 million).

*Bounds of `TerminalStream`.* Two outputs, one view, two cuts of the worker's connection, one pressure, one timeout. Checked
separately: three outputs (155,843 states, with liveness), two views (2.8 million, safety).

*Bounds of `FinishObservation`.* Two requests, so that one is asked, answered or shared while the caller is told of the other; one prompt or turn after
the first, which may replace it, fail, or be stopped before it starts. Two of them (645,459 states) were checked separately.

*Bounds of `RestartRecovery`.* One agent, two shutdowns or crashes, two acts of clients: an interruption, its resume, an interruption of
that. Records of different agents share the loops over them and the shutdown's stages only; two agents
were checked separately (6.4 million states).

*Deadlock* is not checked: when all calls are answered, all subscriptions are settled or the bounds are used up, the system may rest.

*Fairness of `AgentTurns`.* The thread runs what is ready (`Dispatch`, `CallStep`), timers fire (`TimerStep`), and
`interrupt()` is bounded by a timeout. The provider answers a steer: nothing in the code bounds that
wait, and a provider that never answers blocks the lane, Stop included. Turns need not begin or end,
and `startTurn` need not answer.

*Fairness of `FinishSubscriptions`.* The event loop runs what is ready; the chain and the delivery lane
answer; a stopped daemon is started again while lives remain; every dispatch is accepted or rejected; and
the child's run ends, which is strong fairness because each restart interrupts the observation. Nothing
is assumed of registrations, archiving, detaching or closing.

*Fairness in `Liveness`, `Services`.* Each service has one weak fairness over the disjunction of the steps that its code or its
peer owes, which is less than fairness of each: as long as one of them can be taken, some is. `Liveness` adds strong fairness
of "some child finishes". In `Services` these steps are:
requests and updates that arrive are handled and a lost connection comes back (labels, timeline, terminal); a quiet window ends and a
dispatch settles (messages: the code bounds the start of a run); jobs of the lifecycle lane go on and loads are answered (runtime: the
provider's close is bounded for reloads only, so its answer is assumed); replays are answered or time out (terminal); the observation opens, its
handlers and the initial wait go on, and notices are acknowledged (finish observation; the child owes nothing). Edits, rows, outputs, losses and the
user's actions are never owed; they are bounded, so convergence is about what follows the last of them.

## What is proved

`AgentTurnsProofs` proves for every set of calls, autonomous turns and every bound:

- `TypeCorrect`: every reachable state is well typed, and steps inside the lane are taken by its head;
- `NoSplitBrainHolds`: the provider has foreground work only of the call that owns the run slot;
- `ImplementsSlot`: `AgentTurns` implements `RunSlot`.

The assumption of these is `CallsAssumption`: calls and autonomous turns are different names.

`NoSplitBrain` is not inductive. A run is cleared by a terminal event, by a forced settlement or by a
failed start, and each needs its reason why the turn cannot run any more. For terminal events it is
`EventsPlausible`: an event in any of the three buffers that tells of a turn's end is true. For the
forced settlement it is `CaptureHolds`: while a cancellation waits and its run has not been cleared,
the run it captured is still the tracked run (`cancelAgentRunNow` reads the run again after the wait),
its turn predates the interrupt, and once the interrupt is acknowledged it cannot run. That in turn
needs `LaneOwned`, so that no second cancellation changes what was captured, and `NotYetAsked`, so that
a run cleared meanwhile is not taken by the same call again. The refinement uses the same invariant.

It proves under the same assumption of who owns the published turn:

- `TurnsAreOwnedHolds`: the published foreground turn is the tracked run's and the active one, is shown as running and is not
  finalized, and every open prompt stream has its run;
- `NoResurrectionHolds`: no late, repeated, staged or held event makes a finalized turn active again;
- `AdmittedTurnStays`: while a steer is with the provider, the turn it was admitted for stays the active one.

Its invariant `OInv`, used together with the one above, follows the event in which the provider announces a turn, because
`onStreamTurnStarted` makes any turn active when none is published. `StartsInOrder` says where such an event can be: in the queue only while its turn is
published and before its end, behind a barrier only while the run is its call's, among the staged events at most once. That the last of these be harmless needs
the removal of the run's own start from them, which `Unstaged` models.

`SubscriptionsProofs` proves for any number of registrations, lives, retries and failures of every kind:

- `SubscriptionsTyped` and `ReportedOnceHolds`: types, and at most one report per registration and life;
- `IntentKeptHolds`: an accepted registration, or one that replaced it, is on disk until its caller was told or must not be told;
- `OpenIsProtectedHolds`: the caller of a record that counts is protected from idle collection while the daemon recovers or runs.

The last two assume `~LateReject`: with it the code loses an accepted intent (`Finish_latereject`). `SubscriptionsInv` is about the order of registrations. What
recovery found on disk is older than every registration of this life (`InOrder`), watches are attached in the order of their numbers, the chain holds the
registrations in that order (`ChainShape`), and a candidate replaces only lower numbers. So a record belongs to one watch (`OwnRecords`), and a watch that may still
report (`Ready`) has a record that this life has not reported yet. `IntentKept` is not inductive: it does not see the removals that are on their way. `IntentInv` adds that
each removal on the chain is of a rejected candidate, or of what an accepted registration replaced (`Removals`); that a registration which may still be promised has its
record or a later promised one (`Covered`); that a record which counts has a watch (`Attended`).

Of `FinishObservation` it proves, for any number of requests, turns, replacements and events:

- `NoticesAreTrueHolds`: a caller is told of a finish only if the child has been at rest since the subscription was accepted, and never asked only for
  permissions that it knows are resolved.

`ObservationInv` says it of everything that is on its way: a terminal update, a settled wait and the buffer's mark each mean that the child has rested, and every
event tells a running child or one that has (`EventOK`). An update that asks follows none that resolves the same request (`QueueOK`), so an entry
of the buffer is of a request not resolved there. For the late answer of the initial wait it is that resolved requests are not open when it is taken, even before `early` is looked at.

`LabelStoreProofs` proves for any labels and workspaces, with any write failing and the daemon stopping anywhere:

- `LabelsAreAtomicHolds`: `LabelStore` implements `LabelPair`, step by step;
- `DefinedHolds`: what is served, and what a restart would serve, has only labels of the catalog, but for an overwriting upsert;
- `StoreInvHolds`: the invariant of both. For each stage of an operation and of its undoing it says how the files and the journal relate to what is
  served: until the commit point the before images put over the records give what is served, and they still do when other mutations rewrite the records in between.

`CreationJournalProofs` proves for any keys, ids and requests, and any number of crashes and failures:

- `NothingRepeatedHolds`: no stage of a creation takes effect twice;
- `RecordTellsHolds`: a record never claims more than took effect, and a completed one no less.

`CreationInv` follows a creation through its stages. What was attempted is in the record its runner holds, or in flight there; the record on disk is the runner's
until a write fails, and from then on what it says is in flight is enough to stop the next attempt. The holder of a claim is the only key that attempts anything for it.

`ServicesProofs` proves of `LabelSync`, for any names, colors, journal limit and number of generations:

- `ReplicaIsTrueHolds`: a replica lacks no label of the catalog at its cursor, and one made of a snapshot and live changes is that catalog.

It rests on `SyncInv`: whatever is on its way - an entry of the journal, a list, an update - is true of the number it carries, and what the inbox
holds is in the order of the numbers and not behind the cursor. `NetKeeps` is about the loop of `synchronize`: a name that the net changes do not upsert
is the same at the end of the journal as at the cursor, and they remove no name that is there. The assumption besides the bounds is that `None` is no cursor.

Of `AgentMessages`, for any messages, failures and restarts:

- `MessagesAreKeptHolds`: the provider gets a named message at most once, what agents send in the order it was admitted, and `hasPending` knows of all that waits.

`MessagesInv` says of each message what its receipt, the place of its call and its outcome imply for how often the provider got it and where it is
(`CallSound`, `QueueSound`, `OutcomeSound`), and that what was delivered, the batches and the pending window are in the order of admission (`InLine`).
`GroupsAre` is what the split of a batch owes to it: the groups, one behind the other, are the messages in their order.

Of `AgentRuntime`, for any prompts, sessions and requests:

- `SingleWriterHolds`: one session at most writes, unless a close has failed and a second one is just being registered;
- `PromptKeepsRuntimeHolds`: a prompt runs in the live agent's session, and no collection closes it under a prompt or a protected message.

The code's own claim is `OneWriter`, which does not hold (`Runtime_writer`). What is true rests on what a prompt that is woken may rely on. `Woke`: when its ticket
has left the lane, the lane stands between two jobs. `Unloaded`: as long as no close has failed, a prompt on its way to a load finds no live agent, which has three cases, one for each place where it may wait
(a pending load, the tail of the lane, a close). With `refused` the third is lost, and with it the second writer's absence, but not that `registerSession` refuses it.

`RecordsProofs` proves for `BotAutoResume`, `Schedules` and `RestartRecovery`, for any bounds:

- `StopHoldsAlways`: after a Stop, a permission request, an offload or a completion nothing is sent before the next prompt;
- `RetriesBoundedHolds`: no more than `MaxAttempts` retries follow a prompt, and as many again only for each retry that was still starting when a timer
  after its own had closed the window (`late`), however long starts take and however turns end;
- `RunsFollowOneAnotherHolds`: the clock's runs take later and later slots whose time has come, and no two runs go on at once, for any number of overlapping ticks and runs on demand;
- `ActiveIsPlannedHolds`: an active schedule has a next slot unless its last run goes on, or one of the exceptions named there holds;
- `ResumedOnceHolds`: a restart resumes only agents that were interrupted since the last one, but for those whose turn ended between the listing and its capture, for any
  number of agents and stops and whatever a provider reports while it closes;
- `ResumesAreOwedHolds`: that, and an interruption is on disk or in hand until its resume was sent or abandoned, under `~CloseCancels`: where a provider does end the turn while it
  closes, `Restart_close` shows that the interruption is lost.

`Counted` is what `RetriesBounded` needs: an entry has counted the retries since it was opened, and while a retry starts its entry stays until the timer that was set with
it runs out, so only a late one opens another entry.

`ScheduleInv` has `WorkersOK`, that one worker at most holds the reservation and that the run it has begun is in the file and not ended, and `Awake`, the reason why a schedule
without a slot will have one or complete: its worker is about to do it, or recovery is.

`RestartInv` has five parts for each agent. `Stands` gives each write its place in the queue: a consumed flag is the first, the copy of a closed agent the last, and a whole record written by recovery or
by an archiving is gone before the shutdown lists the records, which is what the flush waits for (`awaited`). `InHand` says that a resume under way is owed or overtaken, `Flagged` that
a flag on disk is of an interruption, `Cut` that a closed agent was captured first. `Kept` needs the assumption: while a captured agent runs, no write behind its capture holds
the idle agent (`Cleared`).

`SyncProofs` proves of the directories, for every finite set of ids, every set of values and every tombstone bound:

- `CatchUpIsExactHolds`: who knew the collection as it was at any number has it as it is after one read;
- `DirectoryCatchesUp`: the same of the collection inside `DirectorySync`, whose sessions and apps only read it;
- `FollowedChangesShowHolds`: a row that changed since an app went live, and exists, shows as it is once everything has been sent and has arrived.

`CollectionInv` is `CollectionTypes` and `Explained`: an entry that differs from what it was at a number either carries a
later number or the number is below what has expired, and in that case the read is a snapshot. `DirectoryInv` says of each session and row what the
app will show of it when all that is on the connection has arrived (`Final`), and that this is what the session sent of it last; a row that changed
since the app went live was sent as it is, unless it is due or being built. The assumptions are `CollectionAssumption` and `DirectoryAssumption`: there is
a value, and the mark of an unset value is none of the things that it stands for.

`SyncProofs` proves of `TimelineSync`, for every page size, any rows, epochs, lost connections, failed requests and actions of the user:

- `ChatIsTrueHolds`: a synchronized chat shows one range of rows without a gap, and a chat that is ready while nothing moves shows the daemon's
  last row and can load what precedes its range.

It assumes `StartRows # 0`: a timeline that has a row at the start and keeps one in every rewind. For one that may be empty it is false (see the observations), and TLC
finds so with `StartRows = 0`. The states after a
failed request that leaves rows out for good are excluded by `missed`, as in the run. `TimelineInv` speaks of what is on the connection, message by message. `Rest` is its
centre: behind a given place on the way down come exactly the rows after a given one, each once and in order, or a notice that the rows were replaced.
`PagesOK` says so of the end of every page, `CompleteOK` of the end of what a chat shows whose catch-up is complete; so nothing is left out when the line is empty.
`LineOK` holds that pages and rows are in the order of what they tell (`ToldInOrder`) and that each page is what its request can be answered with (`PageIs`).
`CatchUpOK` is about superseded catch-ups: behind the request that a running catch-up waits for, or that a failed one has left, no other request for rows after a row is in flight
(`NoneBehind`), and none is for later rows; therefore a page that comes in is never ahead of what is shown and leaves no gap (`NoGap`). `SyncedOK` and `FreshOK` are about
the chat before and after its first page. A chat from the cache is the case that needs most: the row it has may be followed by part of what the daemon has, in
which case the fallback to the tail must replace it. `Awaited` says that what is waited for is in flight, so that a quiet chat waits for nothing.

`TerminalProofs` proves for any number of outputs, views, lost connections, full transports and timeouts:

- `ScreenIsExactHolds`: what a viewer's screen shows is what the terminal printed up to some output, in order and once, but where `ScreenIsExact` names an exception;
  after an exit a viewer that had its first replay has the last output.

`StreamInv` numbers the boundaries between the messages on the worker's connection: `r[i]` is the last output the daemon has been told of when it has handled
`i` of them, so `r[0]` is where it stands now and the last one what the worker has sent (`Flow`). The live batches of a settled view are then a chain from what
the screen shows to `r[0]` (`LiveOK`). A replay cuts the output at some number. `MailOK` says that its begin, its end and its answer are on the way in this order, as far as
the worker has come, that the begin stands at the boundary whose number is the cut, and that the others carry it; `HeardOK` says what of it has arrived,
and that the batches kept meanwhile, without those that the replay has, are the chain from the cut to `r[0]` (`Beyond`). That is what `SnapshotReturns` needs to go on drawing. Batches that
straddle the cut do not come up because the worker flushes its coalescer in the turn in which it captures (`StartsReplay`), and that is where the proof uses it. `SkippedOK` and `ExitOK` are about a terminal that exits under pressure:
what the transport refused and what was kept since end at the last output. The only assumption is that the bounds are numbers.

Proving led to three changes of the models. `NoResurrection` could not be proved of an `AgentTurns` that let a run's own start pass from the staged events
into the queue; the code drops it (`agent-manager.ts:2995-2999`). A late rejection in `FinishSubscriptions` could come in a later life than its registration, which the invariant excluded and the code does too.
`SingleWriter` as it was stated before fails with five requests, which the runs had not reached: it now says what holds, and `OneWriter` is a finding.

Thirteen definitions were put in another form so that they can be reasoned about, with the same values: the net changes of `LabelSync` and the
groups of `AgentMessages` are recursive functions over the positions of a sequence (`NetSteps`, `GroupSteps`), as are what a list has not told in
`DirectorySync` (`News`), the drawing and the cut of batches in `TerminalStream` (`DrawSteps`, `BeyondSteps`)
and what `FinishObservation` publishes, hears, resolves and keeps (`QueueSteps`, `HearSteps`, `ResolvedSteps`,
`PushSteps`, `OtherSteps`). What an app shows (`Shown`) is the last update of each row. In `TimelineSync` the requests a chat waits for are sent one after the
other (`Asking`), and a failed one is taken from its place (`Without`). Such a function over `0..n` can be proved about: take the least
position at which the claim fails (`WFMin`), and the step before it gives the contradiction. Out of reach are the library's folds and `SelectSeq`,
RECURSIVE operators, and the induction theorems that take an operator.

*Only model-checked.* `RecordsTypeOK` and `ServicesTypeOK` are the types of twelve services in one formula;
those of `LabelStore`, `CreationJournal`, `DirectorySync`, `TimelineSync`, `BotAutoResume`, `Schedules`, `RestartRecovery`, `LabelSync`, `AgentMessages`, `AgentRuntime` and `TerminalStream` are parts of the invariants proved above. All liveness properties (`LaneMoves`, `FinishedRunIsReleased`, `AcceptedIsAnswered`, `ShutdownCompletes` and those of `Services`) depend on fairness, and the provers do not handle `ENABLED`.

## Findings and observations

The eight violation runs are disagreements of the code with its documents, comments or tests; `PROJECT.json` quotes both
sides. While modelling, the following was read in the code as well. It has no run; where a model would show it, a
constant or a history variable excludes it.

*Finish subscriptions.* When the removal in `reject()` fails, the candidate stays undecided until a restart and every other watch of its key waits
(`finish-subscriptions/index.ts:353`, against :47); `Finish_rejectfails.cfg` shows it. An initial result with several pending permissions is one result for all of them: when
one is resolved while the caller is told of an earlier event, its name goes out with the next (`internal/observation-buffer.ts:24-25`, :47-51, against
`observation-stream.test.ts:118`; `Finish_shared.cfg`). A child that comes to rest without a turn event is not reported: idle states are not published
(`internal/observation.ts:71`), and the initial wait hears of it only if it saw the run start. A Stop that gives up on a pending run (`agent-manager.ts:3513-3522`), a
stale plugin session (:2829-2835) and an answer to a request that was left open by a finished turn do so; against `docs/agent-lifecycle.md:182`
("notified again after a permission response when the child finishes"). `hushed` marks them.

*Timeline.* A chat synchronized while empty, cut off, and reconnected after more than a page of rows takes the tail page as an increment: older rows are
unreachable while it is "ready" (`session-stream-reducers.ts:1099-1117`; `docs/timeline-sync.md:24-26`). When the tail fetch after a rewind fails, the old
epoch is kept and new rows are dropped, while ready. When the first catch-up of a cached chat fails and a retry takes more than a page, rows are missing
though it is marked synchronized (`viewed-timeline-sync.ts:209-228`); when a rewind follows such a failure, rows of the old epoch stay beside the new. The documents say that a
failed catch-up retries by itself; the code and `viewed-timeline-sync.test.ts:769` say that the user retries.

*Bot auto-resume.* A retry whose turn is announced after the window's timer has removed the entry opens a new window with all its attempts
(`bot-auto-resume.ts:116`); `docs/vibing-patches.md:44` speaks of one bounded window. `RetriesBounded` says that nothing else does; `Bot_window.cfg` shows such a window
in 14 steps.

*Labels.* A committed marker that is durable while its write rejects lets the registry's next mutation in before the freeze
(`catalog-store.ts:117`). A stale committed marker and a planner that throws block mutations until a restart (:142). A registry whose file cannot be read goes on
with an empty cache (`workspace-registry.ts:293`). A catch-up that holds an upsert of a label the client has and its later removal drops
the removal (`sequence.ts:79-97`, against `workspace-labels/index.test.ts:154`); the next snapshot repairs it, and `exact` marks it.

*Creation.* A claim file left empty by a crash conflicts with its own key for ever (`creation/index.ts:276`).

*Messages, runtime.* The quiet window is a debounce: messages that keep coming postpone it (`delivery.ts:159`). A freshly resumed agent keeps its old activity
time, so the idle sweep may collect it (`agent-manager.ts:4013`). `session.close()` in `closeAgentRuntime` has no timeout of its own (:2035).

*Directories.* With two sessions, an app's cursor passes numbers that another session was given first. An older kept update is flushed over a newer list, a
removal during a list is skipped, and a list read before a change overwrites the shared collection (`session.ts:6971-6990`).

*Schedules.* A limit raised or cleared during the last run, then a stop: an active schedule without a next slot (`service.ts:654-665`, against the comment at
:886; `lapsed`). `runOnce` acts on what it inspected earlier and can run a completed schedule (:559-566). A run whose end cannot be written stays
"running", is not counted, and recovery fails the first such run only (:623); a success whose end cannot be written is recorded as failed.

*Terminals.* Output, or an exit, handled between the reconnection and the restored screen is applied over a gap
(`worker-terminal-manager.ts:653`). A terminal that exits before the replay after an adoption leaves its viewer without the lost output. A second loss during an
adoption lets the first promise clear `reconnecting`, and requests fail instead of waiting.

*Restart recovery.* The capture writes back records listed before it, so an agent whose turn ended meanwhile is resumed (`restart-recovery/index.ts:50-53`; `overtaken`), and a turn that begins
after the listing is closed without being resumed. A resume whose flag was consumed is lost when the daemon stops before it is sent. A capture whose write
fails makes `stop()` reject before the agents are closed (`bootstrap.ts:2031`). The resume prompt replaces a turn that a client began first.

## Plan

Done: the modules above. Next, in this order:

1. Compositions: `FinishObservation` over the turns of `AgentTurns`, with `waitForResume` between it and `RestartRecovery`; `AgentRuntime` around the slot of `AgentTurns`; `AgentMessages` handing batches to it.
2. Permissions of an agent, which attention and bot auto-resume read, too.

## Not modelled

*Around the turn.* Permissions, usage and mode events, timeline recording and history loading leave the run slot alone. Rewind
calls the same cancellation. Out-of-band commands hold the foreground lane without touching the run. Provider events without a turn
id, the 50-entry bound on finalized turns and the suspension of `onStreamTurnFailed` with a durable timeline store are not modelled.

*Finish subscriptions.* How a child of a remote host is observed (`host-operations/index.ts:400-475`), and the reason and text of a notice.

*Services.* Two label operations waiting for each other's lock; colors in the store. The import of old creation receipts. `waitForDispatch` and attachments of messages.
Parent and child agents, archiving and history sessions around a runtime. Projects and agents in directories, paging, filters and the app's cache. Chats that are
opened, hidden and closed, prompt jumps and retained ranges, merging of messages inside a row. An agent object replaced under bot auto-resume, late timers.
Several schedules, workspaces made for a run, rolling cadences and cron arithmetic. Creation, size and titles of terminals, input modes, legacy clients, several
viewers, worker versions. Unarchiving and archiving of a live agent during a restart, and failing writes there.

*Components without a module.* The workspace registry beyond its mutation queue, the git service and the archiving cascades are I/O over git and the file system. The
websocket server and the session route requests to the services; what they add in ordering is in the services' models. The relay and the client library carry
encryption and request bookkeeping. Provider adapters are processes behind `AgentSession`; the models state what they may answer. The CLI, the desktop shell, the app's
presentation, plugins and the website are processes, generated bundles and layout, without protocol state of their own; most of the repository's lines are theirs.

# Formal model of the Aibo session host

Aibo is a desktop workbench that runs coding agents. A Rust host (`src-tauri/src`) keeps
sessions, messages and turns in SQLite and talks to agents through plugins that run as processes
of their own; a Svelte window shows what the host records. This directory holds TLA+ modules of
the parts where order, failure and concurrency decide whether a user's message is delivered
exactly as promised, its turn is reported truly and the window shows it: the host's queue and
its ledger of writes, two of the plugin workers, and the window's state of a session. With them
come the TLC configurations that check them and the theorems TLAPS proves about them.

Paths below are relative to `src-tauri/src` unless they say otherwise.

## The system

| Part | State it keeps | Operations | Hard behaviour |
|---|---|---|---|
| Message queue (`session_queue.rs`) | rows `queued_messages`, flag `session_queues.paused` | followUp, steer, sendNow, remove, clear, resume, automatic dispatch, acknowledge, settle | lost answers, retries, claims that outlive their owner, lost wake-ups |
| Session host (`session_host.rs`) | map of live turns, two keyed locks, `sessions`, `turns` | send, goal.resume, invoke, cancel, close, archive | stop against start, stop against end, state read before an await |
| Projection (`session_projection.rs`) | `turns.status`, `sessions.state`, `agent_events`, `messages` | one transaction per provider event | late and repeated terminal events |
| Recovery (`session_recovery.rs`, `session_rebuild.rs`) | the same tables | recover at start, list drafts, rebuild | a crash between any two steps |
| Broker (`capability_broker.rs`, `capability_interaction.rs`, `semantic_plugins.rs`) | flights, permits, `turn_delivery` | invoke, control, cancel, chains | dispatch evidence, control against the end of a call, error classes |
| Workspace writes (`workspace_write_runs.rs`, `workspace_writes.rs`, `capability_writes.rs`, `semantic_writes.rs`) | write runs, set of writers | execute, approve, cancel, replay, recover | approval against cancellation, idempotent replay, one writer |
| Project actions (`project_actions.rs`) | action runs | start, stop, recover | share the writer with write runs |
| Plugin runtime and lifecycle (`plugin_runtime.rs`, `plugin_lifecycle.rs`, `plugin_registry.rs`) | slots, generations, breaker | start, request, stop, disable | a runtime replaced while calls are in flight |
| Plugin replacement (`plugin_replacement.rs`, `session_plugin_replacement.rs`) | candidate, confirmation | prepare, confirm, promote | a confirmation of a state that has changed |
| ACP adapter (`packages/acp-adapter`) | phase, wire and agent process, modes, the current turn, pending interactions | open, prompt, cancel, respond, configure, close | an agent that strays, falls silent, answers late or dies at any await |
| Codex provider (`src-tauri/capability-plugins/codex`, `session-provider.mjs`) | current turn, native run, goal, subagents | turn, goal resume and pause, cancel, close | one turn over several native runs, answers and notifications in either order |
| Pi provider (`src-tauri/capability-plugins/pi`) | native session, turn | turn, control, cancel, recover | remote events out of order |
| Change sets, restore, Git | snapshots, approvals | capture, restore, commit | external state |
| Front end (`src/App.svelte`, `src/lib/app`) | the shown state of each session, approval cards, activity, an event cursor | handle events, refresh the list, send, stop, answer, rename | events, lists and receipts that overtake each other |
| Storage, diagnostics, search, previews | logs, schema | reads, migrations | none of their own |

How they interact: a window's command reaches the session host. It takes a *gate* (a keyed
`tokio::sync::Mutex`): the queue gate `queue:<session>` for a whole queue operation, the session
gate (*admission*) while a turn is being started or a session closed. A started turn runs in a
spawned task that holds neither. The task calls the broker, which records `possibly_sent`,
writes the request to the plugin and forwards each event to the host's observer, which projects
it in a transaction and acknowledges the queue. Controls (steering) of a live turn go through
the broker to the same plugin. When the call returns the task settles the queue, removes the
turn from the live map and schedules a dispatch. The whole process may die at any point; the
next start runs the recovery.

What makes each part correct: the queue delivers each accepted message at most once, in order,
and never loses one; the host runs one turn per session and stops when asked; the projection
keeps a turn's first outcome; recovery leaves nothing running and never guesses; the broker's
evidence never understates what a provider has; a write runs once, after its approval, as the
only writer of its workspace; a worker reports each turn's end once and as what it was; the
window ends up showing what the host has recorded.

## Modules

| Module | What it is |
|---|---|
| `MessageFate` | abstract: what a session promises about each message |
| `SessionQueue` | detailed: queue, turn, projection, delivery evidence, stop/close/archive and recovery of one session |
| `WritePromise` | abstract: what the host promises about each write of a workspace |
| `WorkspaceWrites` | detailed: the ledger of approved writes, project tasks, the writer they share, nested writes of plugins, recovery |
| `MCWorkspaceWrites` | symmetry of `WorkspaceWrites` for TLC |
| `AcpSession` | one worker that serves an ACP agent: session, wire, agent process, invocations |
| `CodexSession` | one worker that serves a Codex session: engine, native app server, invocations and controls |
| `SessionView` | one session in one window, the host's record of it and the ways by which news of it arrives |
| `MCEventLoops` | the last three side by side for TLC, one of them in a behaviour |
| `MCPrograms` | the loops of `MCEventLoops` or, instead, the writes of `WorkspaceWrites`, under the fairness of each |
| `SessionQueueProofs`, `SessionOutcomeProofs` | theorems about `SessionQueue`, the last also that it implements `MessageFate` |
| `WorkspaceWritesProofs`, `WriteOutcomeProofs` | theorems about `WorkspaceWrites`, the last also that it implements `WritePromise` |
| `AcpSessionProofs`, `CodexSessionProofs`, `SessionViewProofs` | theorems about the modules they are named after |
| `EventLoopsProofs` | the same of `MCEventLoops`, the loops that `event_loops` checks |

The detailed modules share no state. Where they meet, each models the other side as an
environment that may do more than that side does: `SessionQueue` takes a provider that may end a
turn with any outcome at any time, which the two workers refine; the workers take a host that
may send, stop and answer whenever the worker accepts it; `SessionView` takes turns that start,
ask and end as they like.

### SessionQueue and the code

One session with one window. Messages and turns are numbered in the order of their creation
(ULIDs and `sequence` in the code).

* Durable state is a function per column: `status`, `via`, `bound` are the columns `status`,
  `delivery`, `turn_id` of `queued_messages`; `paused` is `session_queues.paused`; `session`,
  `archived`, `turns`, `delivery` are the columns of `sessions`, `turns` and `turn_delivery`.
  `carries` names the message a turn was started for. A deleted row has status "gone"; its `via`
  is "direct" when the message started a turn without a row.
* Volatile state: `live` is the entry of `SessionHost.live`, `cancelled` its cancel flag, `task`
  the place of the spawned task of `run_admitted`, `gate` the operation that holds the queue
  gate with the locals it still needs, `adm` the holder of the session gate, `stop` a cancel,
  close or archive call, `wakes` the spawned `schedule_queue` tasks that wait for the queue
  gate.
* `copies` counts how often the provider was handed a message. It is history: the code cannot
  see it.

A queue operation is one action when it does everything under the queue gate without waiting
(`FollowUp`, `Remove`, `Clear`), otherwise one action per stretch between two places where
another task can change what it read: `Send`/`SendAdmit`, `ResumeCheck`/`ResumeApply`, and for
delivery `ReadLive` (choose between steering and starting) → `MarkSteer` (claim the row) →
`Invoke`/`InvokeIdle` (read the live turn again) → `Control` (the provider) → `Conclude` →
`Drained`/`DrainTimeout`, or `Awaited` → `StartAdmit` → `Open` → `Claim`/`NotIdle`. The spawned
task is `TaskInvoke` → `MarkSent` → `Dispatch` → `NativeStart` → `Acknowledge` → `Ask`/`Resolve`
→ `Terminal` → `Reply`, with `Fail` from any point, then `HostTerminal` → `SettleQueue` →
`Release`. `StopBegin` … `StopArchive` follow cancel, close and archive. `Restart` loses
everything volatile and applies `recover_interrupted_sessions`. `PROJECT.json` maps every
definition to its lines.

Abstractions, and what they give up:

* A provider may take, refuse or lose a steering message, end its turn with any outcome, ask for
  approvals, and its call may fail at any time (timeout, crash, cancellation).
* A statement of the database does not fail by itself; a crash may fall between any two.
* Opening a session succeeds or fails for reasons not modelled (runtime, profile, attachments);
  a start may also fail after the session was set to idle. A failed attachment check fails the
  row (`ReadRefused`).
* `cancel_admitted` pauses, sets the flag and pauses again; the model does it in one step after
  the copy of the live turn was taken. A `resume` between two of these statements is therefore
  ordered before or after all of them.
* `HostTerminal` always stores its event: a database error there is only logged.
* With `Truthful = TRUE` a provider ends its turn before it answers the call. The code does not
  demand it; `queue_delivery` explores the other case.

### MessageFate

Each message is a draft, waiting, claimed, unknown, direct or gone. It is heard at most once
(`Hear` needs `copies = 0`), only a heard message is confirmed, only an unheard one goes back to
waiting, and an unknown one is never claimed again. `KeepsPromise` says that `SessionQueue`
implements it under the mapping `FateOf`.

### WorkspaceWrites and the code

One workspace. A *call* is one execution of `execute_in_lease` (a "write": a capability write of
a window, or a nested write a plugin asks for while it executes another) or of
`run_project_action` (a "task"). A call makes at most one row, which has its number.

* Durable: `status` and `cancelled` are the columns `status` and `cancel_requested_at` of
  `workspace_write_runs` and `project_action_runs`.
* Volatile: `call` is what a call was asked (kind, request id, input, parent; `line` is the call
  with its `ancestors`, `root` the first of them), `pc` how far it has come, `result` the value
  its execution returned, `admission` the holders of the two `ADMISSION` mutexes, `writer` the
  root in `WRITERS`, `uncertain` the flags of `WriteContext`, `halted` the flights that were
  cancelled, timed out or lost their process.
* History: `answer` is what each caller was told, `performed` the calls whose execution was
  handed to a plugin or a process, `early` the calls that were still waiting for approval when
  they, or one of their ancestors, were cancelled.

A call runs `Submit`/`SubmitChild` → `Replay` (or `ReplayRequested`) → `TakeWriter` →
`CheckPending`, or `InheritLease` for a nested call → `Insert` → `Decide` → `Revalidate` →
`Start` or `Reject` → `Check` → `Dispatch` → `Finish` or `Fail` → `Settle`. Every place where
the code awaits something another call can change lies between two actions. `Cancel` and `Halt`
come from outside at any time, `DatabaseError` ends a call at any of its writes to the database,
`Restart` loses everything volatile and applies `recover` of both tables.

The branch of `Insert` that finds a row (`ON CONFLICT ... DO NOTHING`) is reachable although
admission is serialised: a call reads that its request has no row before the first call inserts
it, since that call has released `ADMISSION` by then, and takes the writer after the first call
has returned. Without the branch the first run finds the request performed twice.

Abstractions, and what they give up:

* The comparison of the prepared context with the one that was approved is a choice
  (`Revalidate` may always go to `Reject`), as are approval, refusal and expiry (`Decide`).
* A database error while a cancellation is looked for counts as a cancellation, as in the code
  (`unwrap_or(0)`), and is left out: it leads where `Revalidate`, `Halt` or `InheritLease` lead,
  or, at `Check`, ends the call as failed before anything was dispatched.
* `cancel` compares the caller's window; the model's caller is the right one.
* Writes without a confirmation and the Git operations that use the same ledger go through the
  same steps with fewer of them; their closures are left out.
* A plugin or a process that survives a crash of the host is outside: `performed` counts what
  was handed over.

### WritePromise

Each write, named by its request, is recorded, allowed or refused, performed at most once and
only while its record says "running", and the first outcome stays. It is "completed" only if it
was performed, and never "rejected" if it was.

### AcpSession and the code

`packages/acp-adapter`: `session.mjs`, `transport.mjs`, `worker.mjs`. JavaScript runs to
completion between awaits, so an action is what runs between two of them. `at` is the await the
one invocation (`job`) is suspended in, `answer` what its promise was settled with. A line that
settles a promise does not run its handler: the lines of the same chunk come first. `Lines`
allows what the agent writes in that interval and `Quiet` forbids timers, exits and the host's
requests in it.

* `phase`, `modeId`, `nativeMode`, `expected`, `violated`, `turnId`, `pending` are the fields of
  `AcpSession` (`modeId` committed by the host, `nativeMode` believed of the agent, `expected` a
  switch just approved, `violated` a switch nobody approved); `grace` is the cancel timer;
  `wire` the transport with the process behind it.
* The agent: `prompts` are the turns it works on, `request` what became of each request it made
  of the user (they are numbered in the order in which it makes them). It may answer or refuse
  any call, end a prompt with any reason, report any mode, ask anything, break the wire, exit,
  and ignore a cancellation.
* `orphans` are the turns that processes work on which nobody reads any more. When a line is
  malformed or too long, a handler throws (`WireFails`), or a stream of the process ends or errs
  (`StreamFails`), `#finish` sends SIGTERM and no more (`transport.mjs:179`); the wire is
  `closed` by then, so that neither the catch of `prompt` (`session.mjs:244`) nor `close`
  (`transport.mjs:87`) kills the process, which may go on with its prompt until it ends by
  itself (`OrphanEnds`), beside the process of a session opened after it.
* The host's record: `started` and `ends` are the turn's first and last events, `strayed` the
  current (or last) turn if the agent switched its mode on its own in it, whatever the phase,
  `cancelled` the turn if the user cancelled it, `consent` the switches the user approved in the
  current turn.

`Open` → `ContinueOpen`/`FailOpen`; `Prompt` → `ModeRestored`/`ModeNotRestored` → (`Cancel`,
`Respond`, `ReportMode`, `Ask`) → `PromptAnswered`/`PromptRejected` → `FailedTurnClosed`;
`Configure` → `ConfigureEnds`; `Close` → `SessionClosed`; `GraceExpires`, `KillAgent`,
`CallTimesOut` are the timers; `AgentExits`, `WireFails`, `StreamFails` end the wire.

Left out: the command catalogue, usage, background tasks and subagents, the recovery document,
the bridge of host tools (its requests are answered at once), and the contents of all of them.
The abort of an invocation does what `Cancel` does.

### CodexSession and the code

`src-tauri/capability-plugins/codex/engine.mjs` and `session-provider.mjs`. `turn` and `cur` are
`session.turn` and its fields, `goal` its goal; `calls` has an entry for every asynchronous
function that awaits an answer of the native process (the start of a turn, the resumption of a
goal, the end of a run, the expired wait, a control), with what it knew when it began to wait.
`child`, `reading`, `fails`, `poll` are a subagent and the timer that reads it; `owner` and
`control` the invocation and the control under way in the worker. `proc` … `serves` are the
native process; a native step and the line that tells of it are one action, since lines are
handled in the order they are written. The answer to `turn/start` is the exception: `TakeStart`,
`AnswerStart`, `Announce` may come in any order the protocol allows.

Left out: opening, closing and recovering a session, approvals, steering, setting and clearing
goals, context windows, calls that take effect after their time limit, and the check by which a
read is dropped if notifications of the subagent came meanwhile (`engine.mjs:243`): the model
reads the state the subagent has, which the code then learns from the notifications.

### SessionView and the code

`src/App.svelte`, `src/lib/app`. `row` … `compacting` are the host: the state in `sessions`, the
current turn, the runtime generation, the events committed and on their way (`sent`), the requests
that wait for the user (`open`) and the compaction under way, which may begin between turns and
end in another turn than it began. `cursor` and `retired` are the gate of `createAgentEventGate`,
`shown` the state of the session in the list, `cards` the approval cards, by request, `active` the
activity indicator, `list` the latest list request with whether the session's object is still the
one it was then (`clean`), `op` the other requests with whether an event has brought a state since
(`fresh`) and what they are about. Events arrive in the order of their commits and may arrive
again; lists and receipts carry the row as it was read and overtake events, or are overtaken.
`ended`, `late` and `lost` are history: the last turn whose end the window was told, and the two
ways in which a receipt is known to leave it wrong.

Left out: the time limit of a list refresh, the timeline and its paging, selection, the queue
panel, and the compaction the user
asks for in this window (`compactCurrentSession`), which sets and clears the activity itself.
Questions to the user are handled like approvals.

## Runs

`writes_delivery` uses `MCWorkspaceWrites`, `event_loops` `MCPrograms`, `rename_race`
`SessionView`, `mode_race` `AcpSession`, `poll_race` `CodexSession`, all others `SessionQueue`; a
`.cfg` gives the bounds. Deadlock is not checked: when the messages, commands or calls are used up
the system rests.

| Run | Instance | Asks |
|---|---|---|
| `queue_delivery` | 2 messages, no goal, every delivery operation, stop, resume, provider may not end its turn | `TypeOK`, `AtMostOnce`, `ClaimsOwned`, `NoLostWake`, `UncertainKept`, `OnlyHeardLeaves`, refinement `KeepsPromise` |
| `queue_lifecycle` | 1 message, 1 goal, steer, close, archive, restart; fairness | `HandedOnce`, `UncertainPauses`, `NoZombieTurn`, `DraftRestoredUnheard`, `ClosedQuiet`, `OutcomeFinal`, `StopsEnd`, `OperationsEnd`, `EventuallyDispatched` |
| `queue_order` | 3 messages, 1 goal, no steering, removals | `FifoDispatch`, `AutoRespectsPause` |
| `writes_delivery` | 3 calls of every kind, 1 request id, 2 inputs (symmetric), 1 failed statement, 1 crash | `TypeOK`, `OneWriter`, `PerformedOnce`, `CancelledNotPerformed`, `SameOutcome`, `UnknownNotHidden`, `NothingStranded`, `PerformedKnown`, refinement `KeepsWritePromise` |
| `event_loops` | an ACP worker, a Codex worker, a window, or 3 writes and nested writes: 2 turns, 2 requests of the agent, 2 native runs, 1 stop, 1 crash of the writes; fairness | ACP: `EveryTurnReported`, `OnePromptAtAgent`, `RequestsSettled`, `ModeAuthority`; Codex: `TurnAnswered`, `RunsTracked`, `StatusHonest`; window: `Converged`, `CardsMatch`, `EndStays`; workers: `WaitsEnd`; writes: `CallsEnd`; the three loops: `Types` |
| `stop_race`, `steer_race`, `refusal`, `resume_race`, `rename_race`, `mode_race`, `poll_race` | as small as the disagreement needs | one violated property each, see Findings |

Why the bounds are enough. `MaxMsgs` and `MaxGoals` bound how many messages and goals are ever
submitted, and so the number of turns. Every hazard listed in `PROJECT.json` involves one
message and its competitor, so two turns; order needs a third message. `MaxWakes` caps the
number of scheduled dispatches by saturation: a dispatch that finds nothing to do has no effect,
and one waiting dispatch already makes every later one redundant until it is taken; with a bound
of 1 the property that no wake-up is lost is the strictest. `Commands` selects the operations of
a run so that the combinations that matter fit together; every operation occurs in a run that
passes, and every action is taken. `queue_lifecycle` offers close and not stop: a close takes the
steps of a stop before its own, and stop is in `queue_delivery`. Its one message and one goal
compete for both gates and for the turn; the safety properties it checks are proved for all
bounds and commands, under the hypotheses below.

Three calls are enough for the writes: every hazard needs a call and a second that retries it,
competes with it or is nested in it, and `line` differs from parent and child only with a third,
nested in the second. One request id makes every two writes of windows retries of each other;
two inputs make the retry legal or not. One failed statement and one crash can each fall between
any two steps; after a crash all calls have ended, so that a second one adds nothing that three
calls could tell apart.

`event_loops` chooses one program at the start (`program`, `loop`), so its states are the sum of
those of the four, 598 898; the fairness of a program is asked only of its own behaviours. Two
turns are needed because everything a turn can leave behind is met by the next one: a mode, an
approval, a prompt the agent still works on, a run, a card. Two requests with `PendingLimit` = 1
(32 in the code) reach the limit; one of two modes is writable. `MaxRuns` = 2 is a goal that
continues once; a subagent lives through one turn (`ChildTurns`) and is given up after `MaxFails`
= 1 failed read (3 in the code): what differs after the third is what differs after the first. In
the window `MaxOps` and `MaxLag` are how many commands and events are under way at once, `MaxPast`
which events may be delivered again, `MaxGens` = 2 one change of the runtime. What larger bounds
could add to the window is settled by its theorems, which hold for all of them.

One constant says what the instance leaves out of a timer's races, and it matters.
`LimitInGrace` = FALSE: a prompt's limit of 12 hours does not end within the grace of a cancel.
If it does, the turn is reported as interrupted and the wire stays open, so the agent may still
work on it when the next prompt comes, and its requests are forgotten (`OnePromptAtAgent` and
`RequestsSettled` are violated). The poll of a subagent and its reads race freely; `WaitsEnd`
excepts by name (`Overlooked`) the turns whose last poll came while the subagent was being read,
which is the finding `poll_race`.

Fairness (`FairSpec`). Tokio's mutex queues its waiters first come, first served, so a step that
waits for a gate is strongly fair; a task that can run is run, so the other steps of a holder
and of the spawned task are weakly fair. Weak fairness of `TaskStep` includes that a provider's
turn ends and its call returns: the host gives every call a deadline. Nothing is assumed of
users, of a provider's approvals or of failures. In `WorkspaceWrites` every call that can move does
so, weakly: an approval expires after 300 seconds and an execution has a deadline. Weak fairness
is enough for the wait for `ADMISSION` too, because the calls are finitely many and each holds it
once, so that it stays free in the end. In the workers a settled promise's
handler runs, timers fire, a process that was sent SIGKILL is gone, and reads and the pause of
an expired wait have limits of their own; an agent, the native side and users owe nothing.
`SessionView` has no liveness property: `Converged` and `CardsMatch` say what holds whenever
nothing is under way.

## Findings

* `stop_race`: a stop that overlaps the end of its turn pauses the queue after the next start
  has looked at the pause flag (`session_host.rs:535`, `session_queue.rs:207-210`);
  `docs/message-queue.md:63` says a stop pauses automatic consumption.
* `steer_race`: a steering message is delivered to the turn that is live at the time of the call
  but recorded under the turn that was live before (`session_host.rs:463`,
  `session_queue.rs:182`); `docs/message-queue.md:58` says the existing host turn.
* `refusal`: a provider's `no_active_turn` and `steer_rejected` do not survive the capability
  runtime and `transport` (`capability_broker.rs:700`), so `steering_rejection` never matches
  them; `docs/message-queue.md:108-112` describes both.
* `resume_race`: `resume` checks and unpauses in separate statements while the settlement of a
  turn takes no gate (`session_queue.rs:124-127`); `docs/message-queue.md:61,106`.
* `rename_race`: the receipt of a rename carries the whole row as the host read it and replaces
  what the window shows without looking at the revision of state events, so an ended turn runs
  again (`src/lib/app/session-lifecycle-controller.ts:74-75`);
  `docs/session-failure-convergence-spec.md:50,96`.
* `mode_race`: a switch of its mode that the agent reports after the user has cancelled the turn,
  while it is given time to end its prompt, counts as no violation (`session.mjs:527`), and the
  turn is reported as interrupted or completed; `session.mjs:515-516` and
  `packages/acp-adapter/README.md:42` say that any other switch during a turn fails it.
  `ModeAuthority` is stated for the turns the user had not cancelled before.
* `poll_race`: a turn that waits for its subagents is completed only by the poll that finds none
  at work and none being read. A read may take 5 seconds (`engine.mjs:238`), the poll comes after
  700 ms; one that finds a subagent over but still being read does nothing and arms no other
  (`engine.mjs:265-266`), and the turn stays for ever. `docs/subagent-history.md:20` says that it
  is kept until the known subtasks have ended or reading them has failed.

Seen beside them, in the queue and not stated by any document: a `resume` that was checked
before a close and an archive and is applied after them unpauses a closed session and spends its
wake-up, so that after `unarchive` a message waits in an unpaused queue with nothing scheduled
until the next operation; where a provider has answered without ending its turn, a `resume` of the
queue spends its wake-up on a session that is not idle, and a `goal.resume` that sets the session
to idle and fails afterwards leaves a message waiting in the same way; a queued message whose
start loses against `goal.resume` becomes failed and pauses the queue; a provider that answers
without ending its turn leaves the session running.

In the ACP adapter: a process that survives the SIGTERM after a failure of its wire is left to
itself, and the next session's agent works beside it (`orphans`); a report in the chunk of the
answer to `session/set_mode` is overwritten by that answer (`session.mjs:511`); a request in the
chunk after the prompt's answer is taken for the turn's and forgotten with it; `open` ends ready
on a wire that has just gone down; an agent that dies of the SIGTERM of a cancel is reported as
`adapter.crashed`.

In the Codex provider: a refused `turn/start` leaves `session.turn` set, and every later send is
busy (`engine.mjs:655`); a cancel before the run is known, or while a goal is active, leaves a
run that nobody tracks and the next turn may adopt (`engine.mjs:419`, `682`; the properties
except turns from the first stopped one on); the timer of 30 seconds fails the turn although its
run has started during the timer's own await (`engine.mjs:397`); the failed interrupt of a
subagent makes the cancel throw before the run is interrupted (`engine.mjs:681`); a pause whose
notification comes before its answer releases the turn as completed (`engine.mjs:361-362`).

In the window: the stop and the answers of external presentations are not held back while a
command is under way (`App.svelte:432`, `710`), and the end of one command frees the window
while another is under way; a late receipt of a stop shows a newer turn interrupted and takes
its card (`message-controller.ts:187-193`, `lost` in the model); the end of a compaction brings
no state, so a list read during it leaves "compacting" shown until the next event that brings
one; a compaction between turns whose end is never told leaves the activity shown (`compacting`
in `CardsMatch`); a refresh of the timeline does not
look whether it is the latest (`session-context-controller.ts:115-125`).

## Proofs

### SessionQueueProofs

It proves, for every value of the constants,

* `TypeCorrect == Spec => []TypeOK`;
* `NeverTwice == Spec => []AtMostOnce`.

The only assumption is `ConstantsAssumption` (the bounds are natural numbers, `MaxWakes` is
positive, `Commands` are operations of the model).

`TypeOK` is inductive. Two conjuncts carry relations a type would not: the live map and the
spawned task agree (`LiveOK`), and whoever is inside `run_admitted` for a row still holds the
queue gate (`LocksOK`). The proof follows the actions, one lemma step per group; `GateMoves` and
`GateFields` say once what a step of an operation does to the record of the gate.

`AtMostOnce` is not inductive: nothing in it says why a message that was handed over will not be
claimed again. `HandedOnce` adds the reasons. A row that can be delivered is unheard
(`Unheard`); the row of a turn is sending, uncertain or gone and so never deliverable
(`Carried`); a turn not yet dispatched carries an unheard message (`Undispatched`); a message
being steered is claimed, belongs to no turn and, unless the answer says otherwise, is unheard
(`SteerHolds`); an operation on its way to a start holds a deliverable row, or a message that
was never queued (`StartHolds`). The last one is where the queue gate matters: between
`ReadLive` and `Claim` nobody may remove, resume or claim the row. `HandedInit` and `HandedStep`
are the two facts, by cases on the actions; TLC checks `HandedOnce` as an invariant of
`queue_lifecycle`.

### WorkspaceWritesProofs

It proves, for any number of calls, any depth of nesting, any failures and restarts, from
`WritesAssumption` alone (the bounds are natural numbers, `Kinds` are kinds of calls),

* `TypeCorrect == Spec => []TypeOK`;
* `Exclusive == Spec => []OneWriter`;
* `Once == Spec => [](PerformedOnce /\ CancelledNotPerformed)`;
* `NeverStranded == Spec => []NothingStranded`.

Only the types are proved action by action. `Shapes` then says once that every step is quiet, a
restart, or a call that arrives, leaves or proceeds, with what becomes of its row and of the
writer; the other proofs look at a step through these shapes.

`OneWriter` is not inductive. Why may a nested call use a lease that only its root has taken,
without asking for it? Because nobody it belongs to can leave before it: `Waits` says that all
ancestors of a live call are executing and wait for a call of its line, and `Lineage` that the
root is one of them, so the root cannot release the workspace (`LineageMoves`). Why may a call
insert a row without looking at other rows again? Because `Checked` says that from the moment
the holder has looked, all rows under way are its own; a row made later belongs to it as well.

`PerformedOnce` follows from `Recorded`: rows of one request are one row, because `Insert` finds
none, and what was performed has a row that was started. `CancelledNotPerformed` follows from
`Withdrawn`: what was withdrawn stays cancelled somewhere in its line, which a write looks at
before it is dispatched; a task looks at its own flag only, as it starts, and has no ancestors
(`Lineage`). `NothingStranded` is inductive given the types.

### SessionOutcomeProofs

It proves, for every value of the constants, `HandedAlways`, `ClaimsHaveOwners`,
`LeavesOnlyHeard`, `UncertainIsKept`, `DraftsUnheard`, `ClosedStaysQuiet`, `OneOutcome`, and
under `Truthful` `NoZombies`: the properties `HandedOnce`, `ClaimsOwned`, `OnlyHeardLeaves`,
`UncertainKept`, `DraftRestoredUnheard`, `ClosedQuiet`, `OutcomeFinal` and `NoZombieTurn`. The
lemmas `...Move` say once which actions write what, so that each proof below looks only at those
that matter to it.

* `Places` is about the session gate: whoever is inside `run_admitted` found no live turn, a
  close holds the gate from its second pass on, and a closed session has no live turn.
  `ClosedQuiet` follows: between the check and the commit of a start no close can come.
* `Ended` is needed for `NoZombieTurn`. A running turn is the live one, and its task does not
  reach its end while it runs. The second half rests on `Truthful`: nothing in the host ends a
  turn whose provider answered without ending it, and without the assumption TLC finds that
  turn.
* `Claims` adds to `ClaimsOwned` that a row claimed for a turn is what the live turn carries:
  the task that settles the queue settles the row it owns and no other.
* `Heard` says what each place knows of the message it carries. A message is carried by one
  turn; a turn recorded as not sent has not handed it over; one its provider works on has, and
  so has a steering message that was taken. `OnlyHeardLeaves` and `UncertainKept` are action
  properties: with `Heard`, `Claims` and `HandedOnce` each step that removes a row or puts it
  back is one case. The evidence is written before the delivery and never after it, which is
  what makes a "not sent" worth believing.

`Implements`: `Spec => KeepsPromise` is the refinement of `MessageFate`, for every value
of the constants. `HandedOnce`, `Claims` and `Heard` already say what each holder of a message
knows of it; two facts about order are added. `Bearing`: the message of a turn that is not
dispatched yet is still claimed for it, or was sent directly, so that the provider never hears a
message that could have been removed meanwhile. `Inside`: a direct send is within the session
gate from its admission on, so that no turn is live when its row is given up. `RowsStep` then
lists what a step may do to one row (`RowStep`), action by action, and `RowsFate` maps each of
these to a step of the fate or a stutter. Clearing a queue and a restart move several messages
in one step; the lemmas are about any one of them.

The last sections prove the four properties that are about several operations at once. Each of
them is false for some offer of commands, and the hypothesis of its theorem names the commands
that break it and no others (TLC's counterexample is given with it).

* `WakesKept`: `NoLostWake`, unless `resume` is offered together with `archive` (a resume that is
  checked before the archive spends its wake-up on a closed session, see Findings), or with `goal`
  while the provider is not `Truthful` (the other case there). `Dormant` and `GoalsWait` say what
  excludes that second case: a session that is busy with no turn alive has a paused queue, so that
  a goal which reopens it and fails leaves nobody waiting for a wake-up. `Attended` is the
  invariant: what waits in a session that could start a turn has a dispatch scheduled, or the
  holder of the queue gate is on its way to start one or to pause the queue. An operation that
  gives up such a way must leave a wake-up behind, which needs three more facts: a delivery that
  was decided on while a turn was live, and finds it gone, also finds the dispatch the turn's
  release has scheduled (`WakeLeft`); nothing waits behind a message that is sent past the queue
  (`SendsFirst`); and an archived session comes back paused (`Reopened`).
* `OnlyResumeUnpauses`: with every command on offer, the second half of `resume` is the only step
  that can leave an uncertain row in a running queue, which is the step `resume_race` finds.
  `UncertainAlwaysPauses` is `UncertainPauses` where nobody resumes.
* `StartsRespectPause`: `AutoRespectsPause` where nobody stops, closes or archives (`stop_race` is
  the counterexample). `Starting`: a dispatch that has entered `run_admitted` found the queue open
  and it still is, since everything else that pauses holds a gate the dispatch holds, or is the
  end of a turn that is over by then.
* `FirstComeFirstServed`: `FifoDispatch` where the user neither steers nor sends a message past the
  others (either alone breaks it, as it is meant to). `InTurn`: the message the gate's holder
  carries, and that of a turn which has not reached the provider, has none before it that waits,
  because messages are numbered as they are accepted (`Submitted`) and a direct send finds an empty
  queue (`SendsFirst`). A `resume` puts failed messages back in the queue and still lets none be
  passed: a failed message pauses the queue (`FailedPauses`), so that the dispatch of a later one
  cannot have entered the session gate with an earlier one failed.

### WriteOutcomeProofs

It proves, from `WritesAssumption`, `Alike` (`SameOutcome`), `NotDenied` (`PerformedKnown`) and
`NothingHidden` (`UnknownNotHidden`).

What a caller is told is not a field of the row but the value its own call carried, through a
replay, a crash or a late settlement. `Told` closes the gap: every settled answer is that of the
one row of the request, with the input it was made with (`AnswersTo`), so two callers agree
because they name the same row. `Done` says that what was performed stays running, completed or
unknown, hence nobody hears "failed". `NothingHidden` needs the tree of nested calls: `Rooted`
(all a call belongs to has its root), `Doubted` (a nested write in doubt has set the flag of its
root while that still runs) and `Clean` (a write that has succeeded, or is about to say so, has
nothing running or in doubt among the writes it asked for, because it looks at the flag when
they have all ended).

`ImplementsPromise`: `Spec => KeepsWritePromise` is the refinement of `WritePromise`.
The mapping looks for the row of a request among all calls; `Kept` says that it finds the one
there is, and that the request was performed once if that row was and else never (from
`Recorded`). `Reached` adds that an execution which is about to say that it succeeded was
performed, which is what a record "completed" needs. `RowMoves` lists the moves of a row,
`Records` and `Performs` map them.

### AcpSessionProofs

It proves, from `AcpAssumption` alone, `TypeCorrect`, `Reported` (`EveryTurnReported`) and
`Authorised` (`ModeAuthority`, that is, of the turns the user had not cancelled before the agent
strayed); and for `LimitInGrace` = FALSE, `OneAtATime` (`OnePromptAtAgent`: one prompt at the
agent that is read, and whatever a process works on unseen has failed) and `Answered`
(`RequestsSettled`).

`Turns` adds to `EveryTurnReported` where the current turn is between its announcement and its
report: the report is written at the await of the prompt and only there, and `turnId` is given up
with it or after the failed turn's agent has been ended. `Authority` adds that a turn in which the
agent strayed has `violated` set until its status is decided or was cancelled by the user, since
lines are read in no other phase of a turn, and that an expected switch was approved during the
current turn, which is why an approval cannot reach into the next one. `Working` says which
prompts the agent may be at for each await: the case to exclude is a turn given up while its
prompt goes on, and the only way out of a prompt that leaves the agent at work closes the wire
first. `Unread` is about the processes nobody reads: the current turn's can be among them only
from the failure of the wire to the catch of `prompt`, in the phase "failed", where that catch has
nothing left to report but a failure. `Asked` says that a request waits for its first answer.

### CodexSessionProofs

It proves `TypeCorrect`, `AnsweredOnce` (`TurnAnswered`), `RunsFollowed` (`RunsTracked`) and
`HonestReports` (`StatusHonest`) under `CodexAssumption`, which is the hypothesis of every
theorem: `MCEventLoops` takes the module by INSTANCE and assumes the same of its constants.

Several functions may wait for answers at once, and each of them may find its turn gone;
`Reports` says that the current turn has not been reported, that it belongs to the invocation
under way or to one that was refused, and that an invocation settles only with its own turn's
last event.

`RunsTracked` relates the engine to the native side, which runs ahead of what the engine has
heard. `Inductive` says how far. Turns are known in the order of their numbers (`Order`), a
call's answer belongs to the turn that made it (`Basics`), and as long as nothing was stopped
(`Tracked`): what the engine believes of the goal is what the native side holds, or the answer
that will tell it is on its way (`GoalHeard`); nothing runs while a turn is being started
(`StartsIdle`); whatever runs serves the current turn (`WorksForTurn`); its announcement comes
before the engine waits for it or goes on without it (`RunHeard`, `WaitsForRun`). Once a turn is
stopped all of that may be lost - the findings on `engine.mjs:419` and `682` - and what is left is
`Unwatched`: a run still at work is of a turn from the first stopped one on.

`StatusHonest` is an action property and follows from the same invariant. As it was first
stated, "a turn is interrupted only if the user stopped *it*", it holds in the run's two turns
and is false with three: a cancel that awaits the interrupts of its turn's children ends the turn
it finds afterwards (`engine.mjs:678-683` looks at no turn id), which may be a later one. The
property now says "it, or one before it".

### SessionViewProofs

It proves `TypeCorrect`, `Converges` (`Converged`), `CardsAgree` (`CardsMatch`) and `EndsRemain`
(`EndStays`) under `ViewAssumption`, for any number of events on their way, repeated or
overtaken, and of commands at a time.

The window is behind the host by the events in `sent`. So every part of the invariant `ViewInv`
has one shape: the last event on its way that bears on something tells of it as the host has it
(`LastIn`), and if none does (`NoneIn`) the window has it as the host does. What bears on the
state (`StateOK`), on one request's card (`CardsOK`) and on the activity (`ActiveOK`) are
different events, and an end bears on all three. `Order` is why an event is handled once: those on
their way are after the cursor, those that have arrived before it or of a generation that was
left, so a repeated one is refused (`AgainRefused`) and none on its way is (`HeadAccepted`). A
list or the receipt of a send carries a state that is older than the window's only if an event has
brought one since, which is what `clean` and `fresh` remember. `EndOK` orders turns and their
ends: what says that a turn runs is about one whose end was not told.

The exceptions in the properties are the receipts that carry no such mark. `late` and `lost` are
history variables for them: they are set by the receipt of a stop or a rename, and cleared by
the next event that brings a state, or the next end.

### EventLoopsProofs

It proves of `Loops`, the loops that `event_loops` checks beside the writes, `AllTyped` (`Types`),
`CodexTurnsAnswered`, `CodexRunsFollowed`, `CodexReportsHonest`, `WindowConverges`,
`WindowCardsMatch` and `WindowEndsStay`: the theorems above, of the composition. In a behaviour of
the loops two programs stand still, so it is a behaviour of each (`LoopsAcp`, `LoopsCodex`,
`LoopsView`). `MCEventLoops` and the proofs hold two instances of the same module; `SameCodex`
and `SameView` show action by action that they are equal.

### Only model-checked

Liveness and fairness, which are outside the prover's reach: `StopsEnd`, `OperationsEnd`,
`EventuallyDispatched`, `CallsEnd`, `WaitsEnd`. The violated properties of the seven `violation`
runs are false. Every other property of every run is stated by a theorem, some of them under
the hypotheses given above.

Two properties of `SessionQueue` were corrected when their proofs failed and TLC, with larger
bounds, found the reason:

* `NoLostWake` held for the bounds of `queue_delivery` only: with two goals and a provider that
  answers without ending its turn, the start of a goal leaves the session idle between the moment
  it opens it and the moment it commits its own turn. A start about to commit is not "nothing
  under way", and its task will schedule a dispatch; the property now says so (`adm.pc #
  "commit"`).
* `AutoRespectsPause` spoke of the holder of the queue gate whoever claimed the turn. With two
  goals, the second may claim while a dispatch still waits for the session gate of a queue that
  was paused meanwhile, and that dispatch never starts. The property now speaks of the dispatch's
  own claim (`adm.by = "gate"`).

## Not modelled, and the plan

Order of the next modules, most important first:

1. `PluginSlots` (`plugin_runtime.rs`, `semantic_plugins.rs`, `plugin_lifecycle.rs`,
   `session_plugin_lifecycle.rs`): slots, generations, the breaker, stop against request; an
   answer of an old generation never changes a binding.
2. The Pi provider (`capability-plugins/pi/engine.mjs`), which shares `session-provider.mjs`
   with Codex.
3. Plugin replacement, and failures of single database statements in `SessionQueue`.

Theorems to follow: those of the new modules, each with the module. Of the present ones every
safety property that a passing run checks is proved.

Left out for good: Git and file contents (external state), rendering, migrations, diagnostics
and previews (no protocol of their own), the contents of messages and events. These make up most
of the code's lines: components of the window, forms, styles, adapters of formats.

# A verification project for the bazaar compute node

The bazaar compute node (`src/bazaar_compute_node`, "the node") connects chat
channels (Telegram, Lark, WeCom) to agent runtimes (Codex, Claude).  It keeps the
conversations in SQLite, wakes an agent when a message asks for it, and gives the
agent a command line (`bcc`) to read and answer.  A web console
(`src/bazaar_compute_server`, "the server") watches and steers a fleet of nodes.
This directory holds TLA+ modules translated from that code, the TLC runs that
check them, and TLAPS proofs about them.

## 1. Inventory

| part | state it keeps | operations | what is hard about it | module |
|---|---|---|---|---|
| conversation log and message commands (`core/storage.py`, `core/orchestration/commands/messages.py`, `contrib/sqlite/repository`) | messages with their seq, review state, following, read cursor (durable); freshness snapshots, drafts, thread locks (memory) | record inbound, check, read, send, unfollow, review | commands interleave with each other and with arrivals; broadcasts take several locks; restarts lose the memory | `Conversation` |
| orchestrator's worker (`core/orchestration/orchestrator.py`) | one runtime queue and worker per actor, session bindings | wake, batch, steer into an active turn, idle expiry | stale expiry against a new notification, futures settled exactly once, a task looked at again after an await | `RuntimeLoop` |
| turn task, turn service, runtime pool (`orchestrator.py`, `turn.py`, `core/runtime.py`, `core/agent.py`) | active turns, session records, bans, session holders, the agent's state | ensure, start, stream, reconcile, conclude, ban, hand over | a turn lost and found, one that fails on runtime after runtime, concurrent actors on one pool | `TurnFailover` |
| Claude runtime (`contrib/claude`) | process, reader, provider cycle, a turn's inbox, counts of results to come | start and end turns, steer, ask permission, stop, reopen | results that belong to someone else, a process that dies or resets in the middle | `ClaudeTurns` |
| Codex runtime (`contrib/codex`) | process, requests waiting for answers, one queue of all else, the turn on | start and stream turns, steer, approve, reconcile, stop | a start nobody knows the outcome of, leftovers of one turn read by the next | `CodexTurns` |
| reminder scheduler and commands (`core/orchestration/reminder.py`, `commands/reminders.py`) | durable reminders and fired messages, one frontier timer, a poke | schedule, change, fire, tell, retry, recover at start | crash between storing and waking, clock jumps, pokes during a pass | `Reminders` |
| timer wheel (`core/timerwheel.py`) | current tick, near ring and levels of buckets, timers and their waiters | create, reset, cancel, wait, advance, rebuild, close | cascades, catching up after a stall, cancel racing expiry | `TimerWheel`, `Deadlines` |
| SQLite executor (`contrib/sqlite/executor.py`) | write queue, writer task, the connection's thread, reader pool | submit, borrow and return readers, reap, drain, abort | a cancelled write whose statement runs all the same, stop against late work, reader slots | `SqliteExecutor` |
| node application, agent application, command dispatcher (`app/application.py`, `app/agent.py`, `app/command.py`, parts of the orchestrator) | configuration, list of agents, tasks starting them, commands in flight | start, add, change and remove agents, dispatch, drain, stop | two changes that meet half way, cancellations that land inside a stop | `NodeAgents` |
| server control (`bazaar_compute_server/control.py`, `contrib/server`) | requests waiting for a node, the node's offset, the audit queue | ask, long-poll, answer, forget; report | lost batches, restarts of either side, identical requests joined | `FleetControl` |
| WeCom channel (`contrib/wecom/channel.py`) | one socket and its runner, pending acknowledgements, send lock, approvals | dial, authenticate, read, beat, send in parts, ask approval, stop | a deadline or lost socket in the middle of a message, a silent provider, presses against a stop | `WeComConnection` |
| Telegram and Lark channels, services, configuration, console pages and accounts, command lines | provider connections, files, sessions | | see section 14 | |

`PROJECT.json` lists every part with its sources, and every hazard at its line.

How the parts meet.  A channel hands a message to the orchestrator's ingress, which
records it (one transaction) and queues a wake on the actor's worker.  The worker
opens a turn in a task of its own on a runtime from the pool.  The agent in the turn
runs `bcc` commands, which the agent application dispatches to the command
services; these read and write the same log and answer through the delivery service
and the channel.  Reminders enter at the same queue.  Timers for idle expiry,
steering, reminders and heartbeats live on one wheel; everything durable goes
through the executor; the application builds all of this per agent, and the
server's requests reach it through the node's poll.

The modules meet at the same seams.  `RuntimeLoop` sees a turn as a task that begins
and ends: `TurnFailover` is that task.  `TurnFailover` sees a runtime as the answers
it may give: `ClaudeTurns` and `CodexTurns` are where they come from.  `Conversation` sees a
channel as an outcome (delivered, failed, unknown): `WeComConnection` shows that the
outcome is true.  `Reminders` and `RuntimeLoop` take a timer to ring at or after its
deadline and no waiter to be forgotten: `TimerWheel` shows it, through `Deadlines`.
`Conversation` and `Reminders` take a transaction to be one step that is kept when
it was answered: `SqliteExecutor` shows it, with the exception section 9 names.  The
compositions are at these seams and not in one state machine, which no
checker would get through.

What makes each part correct, in a line:

- conversation log: nothing is answered unseen, nothing read without having been listed, a held
  send sends nothing, a draft is not lost, locks are never left behind;
- worker: messages keep their order and each is accounted for, no session is stopped in use
  or left without a timer;
- turns: each ends, is announced once, and leaves nothing under way;
- Claude runtime: a turn ends with its own last result and leaves nothing to the next;
- Codex runtime: a turn ends as the server ended it, and a session at rest is at rest there too;
- reminders: no moment fires twice, every fired message is told, what is due fires;
- timer wheel: neither early nor late, one answer per waiter, nothing left in a bucket;
- executor: what is answered is kept, no reader lost, everybody gets out;
- node: what runs is what is configured and known, and goes down in order;
- server control: what is asked is run once and its answer goes to who asked;
- WeCom: what is reported is what was shown, and the channel comes back.

## 2. The runs

Sizes are distinct states.  Each run explores its state space completely.

| run | asks | instance | size |
|---|---|---|---|
| `conv_solo` | does one command at a time ever answer what its agent has not seen, or send a draft twice? | one command slot, all kinds and answers, broadcasts, two messages, two sends, a restart, a failing send | 4 203 000 |
| `conv_main` | do two commands at once? do they end? | two slots for sends and checks, two conversations, listing limit 1, a restart | 450 000 |
| `wheel` | does the wheel keep deadlines, and does everybody hear? | two timers, two levels, delays on both sides of the rings, stalls | 599 000 |
| `fleet_ask` | does a request reach the node once, and the answer its askers? | two askers, two requests, one restart of each side, three ids | 275 000 |
| `loop_all` | does the worker deal with everything, in order? | six messages, two expiries that find work | 72 000 |
| `loop_lost` (violation) | "... what it does not is the next batch" | the same | |
| `db_work` | is what was answered kept, do readers and callers get through? | three callers, two readers, one cancellation, an abort | 224 000 |
| `node_change` | does what is configured run, and go down in order? | two agents, two commands, two writes of the configuration, a limit on the stop | 111 000 |
| `turn_pool` | does every turn end, announced once? | two actors, two runtimes, two turns, one upset | 285 000 |
| `remind_fire` | does every reminder fire once and wake its agent? | two reminders of one conversation, a command, one upset | 342 000 |
| `runtime_turns` | does every turn of Claude or of Codex end with nothing left behind? | two turns, steered messages, one cycle or approval of the provider's own, one upset (Codex two) | 430 000 |
| `wecom_link` | is every outcome true, and does the channel come back? | a message of three requests, an approval, two upsets | 260 000 |

An *upset* is anything that need not happen: a death, a failed call, a refused
connection, a cancellation, a clock set back, depending on the module, whose comment on
the bound says which.  One or two upsets are enough to have any single one
at any moment, which is what the properties are about; larger bounds were tried where they
finish and are named below.

Every property of a passing run has a *mutant* in `PROJECT.json`: an operator (`as`)
that stands beside the one it replaces (`of`) in its module, a plausible slip in that
code which the property catches.

## 3. Conversation

`Conversation.tla` models the message log of `core/storage.py` with its SQLite
repository, and the commands of `core/orchestration/commands/messages.py`.

| in the model | in the code |
|---|---|
| `log`, an entry's index | the `messages` table and `seq` |
| `review`, `following` | columns of `channel_sessions` |
| `cursor` | `consumer_cursors.delivered_through_seq`, 0 without a row |
| `snapshot`, `drafts`, `lock` | `_freshness_snapshots`, `_drafts`, the locks of `core/concurrency.py` |
| `cmd[c]` | the coroutine of one running `bcc` command, `pc` the await it is suspended in |
| `strays` | coroutines of `_deliver_one` that run on though the `gather` that waited for them has raised |
| `RecordInbound`, `ReviewContact`, `Restart` | a channel's message, the operator's decision, the node going down and up |
| `CheckMessages`/`ReadMessages`, `Observe`, `Reply` | check and read: the transaction, the snapshot raised after it, the reply |
| `SendNew`/`SendDraft`, `StagePasses`/`StageHolds`, `TakeLock`, `LookPasses`/`LookHolds`, `Transmit`, `Finalize`, `SendEnds` | `_send`, `_stage_draft`, `_deliver`, `materialize_outbound_if_fresh`, the channel's answer, `finalize_outbound_delivery` |
| `LookFails`, `FinalizeFails`, `StrayEnds` | a storage call of a send raises: at a look, before anything is sent, or at the write-down of a delivery that reached its peer, whose siblings run on |
| `UnfollowResolves`, `UnfollowSaves` | `unfollow_thread` before and under its lock |

`told`, `hushed`, `drained` (how often each message was listed), `settled`, `unrecorded`, `sends`,
`failures` and a command's `mute`, `knew` and `basis` are history: the properties read them, no guard
does except the bounds on `sends` and `failures`.

*Abstractions.*  A message has no text, only whether it is inbound, wakes the agent
and can be read.  A message handed in twice finds its row and changes nothing, so
it is no step.  `check_messages` reads which conversations are in reach just
before its transaction; the model reads it in the same step.  The order in which a broadcast
stages its conversations is free.  `CheckLimit` stands for the 100 of
`list_messages`.  A check, a read or an unfollow whose storage call fails has changed nothing, and is no
step.

*Runs.*  `conv_main` has two sends or checks at once over two conversations: what
it takes for a broadcast to overlap another send, a draft to be replaced in delivery and a
hold to come after a passed look.  `SentOnAKnownConversation`, `HoldSendsNothing`,
`OnlyTakenDraftsGo`, `ListedOnceOrCut`, and that commands end.  `conv_solo` checks what holds
only with one command at a time: `NothingArrivedWhileWriting` (the docstring of `_stage_draft`)
and `SettledDraftNotResent`.  With two side by side neither does, because the snapshot belongs to
the process and not to a command (`messages.py:552`), and a waiting draft is read outside a lock
(`:800`).  With one, each has an exception that the code makes and the property names:

- a broadcast that several conversations hold replies with the first hold (`:827`), while every hold
  raises its snapshot (`:552`).  What arrived in the others is in `hushed` and not in `told`, and the next
  attempt goes out over it.  So it is when a send fails after a hold, and its reply shows an error;
- a delivery that reached its peer and could not be written down (`:701`) ends its send before the
  draft is dropped (`:841`).  The draft (`unrecorded`) is sent again by the next attempt, also to those who
  have it, and beside the siblings of the first (`strays`), whose locks are gone.

`conv_solo` has one failure, at any storage call of a send.  `conv_main` has a restart; with one failure in
its place it was checked too (528 000 states).

*Fairness.*  Weak fairness of each command's own steps.  The event loop
resumes what can go on; nothing makes a peer write, or a command begin.

## 4. Timer wheel

`TimerWheel.tla` models `core/timerwheel.py`: near ring, levels, cascades, the
rebuild after a long stall, the driver task, `create`, `reset`, `cancel`, `wait`,
`close`.  `Deadlines.tla` says what it promises: timers with deadlines on a clock
that jumps, and each jump rings exactly those it reaches.

An entry of a bucket is held with the timer (`entries[t]` with level and slot); the
buckets are these sets.  `_advance_to` contains no await; its loop takes one action
per tick, and `call` keeps every other action out until it returns.  The cascades of
one tick are taken together, since an entry only moves down.  The clock counts ticks,
rounded down as the code does, so "not early" is in ticks.  `Width[l]`, the span of a
bucket, is a constant function whose assumption is the code's multiplication.
`Init` is the started wheel; the crash of the driver and its signal are left out.

*Run.*  `wheel`: two timers in every order of create, reset, cancel, wait, dropped wait and
close, with delays that expire at once, on the near ring and on the far one, and stalls past
the ring; `WheelHoldsActive`, `KeepsDeadlines` (the refinement of `Deadlines`: nothing rings
early or late) and `WaitersHear`, which fails when a create does not poke a parked driver.  A
ring of two buckets wraps and cascades within a few ticks; the code's sizes differ only in how
long that takes, and the proofs are for any.

*Fairness.*  Time passes, the loop runs the driver and what is ready, synchronous
code ends.

## 5. Server control

`FleetControl.tla` models how a page's request reaches one computer and its answer
comes back: `Controls` of `bazaar_compute_server/control.py` (`ask`, `updates`, `result`,
`answered`, `_forget`), the node's poll loop in `contrib/server/control.py`, and the
stream of reports of `contrib/server/audit.py`, which may drop, delay and reorder.

`asks` holds the `_Asked` objects, `table` is `_asked`, `inflight` is `_in_flight`; an
asker gets its answer (`TakeAnswer`) and the done callback runs (`ForgetAnswered`) in
either order.  A long poll that finds nothing changes nothing and is no step; its
wait on the condition is taken as one with the reading.  A node restart forgets its
offset, a server restart all of its state; results on the wire survive both.
`ClockClimbs` is the assumption that a restarted server finds its clock past every
id it gave out.

*Run.*  `fleet_ask`: joining, asking again after giving up, polls of one, restarts.
`NoAskerStranded`, `RightAnswer`, `RunOnce`, and, with a node that keeps polling,
`AskedIsRun`.

## 6. Runtime loop

`RuntimeLoop.tla` models the worker of one actor, `_runtime_loop` of
`core/orchestration/orchestrator.py`, with `_take_notifications`, `_absorb_queue_item`,
`_steer_active_turn`, the idle timer and its expiry.

| in the model | in the code |
|---|---|
| `queue`, `pending`, `batch`, `joined` | the same names |
| `getting`, `got` | `queue_task` waiting; its item while `queue_item_consumed` is false |
| `turn`, `steer` | `turn_task`; the quiet timer, `due` once its task is done |
| `session`, `bound`, `fired`, `expired` | the actor's runtime session and its `_RuntimeTimerBinding` |
| `pc` | which await the worker is suspended in |

Items are numbers: notifications positive, in the order of arrival, the expiry of
timer `t` is `-t`.  A step is what runs between two suspensions, except that awaits
which see nothing shared (cancelling a timer) are passed over.  The turn task runs
and ends, and leaves a session at rest or none.  A steer that is refused before
asking the runtime is a steer turned down.

*Runs.*  `loop_all`: six messages are enough for a batch, two steers and a next batch with an
expiry between.  `AccountedInOrder`, `IdleIsTimed`, and under fairness `AllSettled`.
With eight messages the same holds (626 000 states).  `loop_lost` (violation): an item that
`queue_task` obtains while the loop awaits a steer is thrown away with the task:
`if queue_task.done()` (l. 780) cannot tell it from one absorbed before.  Its message
reaches no turn and whoever awaits it waits for good, which is why `AccountedInOrder` and
`AllSettled` make exactly this exception.

*Fairness.*  Tasks that are ready run; a runtime answers a steer within its timeout; a
turn comes to its end (`TurnFailover`'s `TurnsEnd`).  Messages need not arrive.

## 7. Turns and the runtime pool

`TurnFailover.tla` models `_run_notification` and what it calls: the session made sure of,
the turn opened and streamed, an end in doubt reconciled until somebody knows, the
outcome put down to a runtime, its ban, and the turn handed to the next; beside it
`TurnCoordinator`'s terminal events, the states of `core/agent.py`, and the pool of
`core/runtime.py`, shared by the agent's actors.

`task[a].pc` is the await an actor's turn is in (`take`, `job`, `ensure`, `open`, `run`, `again`,
`stream`, `settle`, `report`), `tried` is `attempted`, `try` which of the two goes at a session.
`heard`, `cut`, `had`, `loose` are history.  Runtimes are numbers in order of priority.  `bans`
holds the banned ones, longest ago first: an hour is only the order in which bans lapse.

A session and the agent's state for its actor go together: `_discard_runtime_session`
(`orchestrator.py:406`) takes both away, and an actor without an entry is at rest.  So after a start
in doubt, a hand-over, a save that failed or a recovery that did not come to rest (`Discarded`), the
session that comes next is started, may be in doubt in its turn, and may carry the turn: only a
session that is kept is ever reconciled.  `AtRestBetweenTurns` says so, and fails when the entry
outlives its session.

*Abstractions.*  The turn task is cancelled only by a stop, which `NodeAgents` has.
Redelivery, steering and approvals are left out; of storage failures only that of
`save_runtime_attempt` is kept.  Tearing a process down counts as done when the runtime has been
told.

*Run.*  `turn_pool`: two actors and two runtimes are what it takes for one actor to ban the
runtime another one is bound to.  `AnnouncedOnce`, `AtRestBetweenTurns`, `HolderIsRight`,
`TurnsEnd`.

*Fairness.*  The task's own steps; a runtime answers or its call times out, and in the end
says whether a lost turn still runs.

## 8. The runtimes' turns

`ClaudeTurns.tla` models one session of the Claude runtime: the client that reads the process
(`client.py`), the connection that counts the results a turn has still to come (`runtime.py`), the
stream that ends with the last of them (`events.py`), steering, permissions, and sessions stopped and
opened again.  The process is not this repository's: as the client expects of it, it works in
cycles that begin with an input or by themselves, may take in further inputs, and end with a result.

`process.out` is what it has written and nobody read; `client` the reader, the inbox, the
provider cycle and the route lock; `conn` the connection's lock, `pending_human_results` and the
init event; `old` a process that has been replaced and is still being stopped.

*Abstractions.*  A reader that waits for the route lock is one that reads after it is released.
One permission at a time.  Envelopes that are neither a result nor a reset are not kept in the inbox.
Start-up, `describe` and the mapping of envelopes to events are left out.

*Run.*  `runtime_turns`: `NothingLeftBehind`, `EveryStreamEnds`, `OneProcess`.  Two steered messages are
what it takes to have one absorbed and one answered by itself.

The properties except what `past` records, and each exception is real:

- a turn whose own first init is observed after a steered message has been counted takes it for the
  init of a further result ("A new init proves another result will follow", `runtime.py:342`); when the
  message was absorbed no such result comes, and the turn never ends (`early`);
- the init event is no counter: two inits count once, the grace runs out, the turn ends
  early and its last result ends the next one; so does a steer that timed out after it was
  written, and the input of an opening that was cancelled (`astray`);
- a turn that adopts a wake ends with the wake's result, though its own message gets a
  cycle of its own (`events.py:292` against `plans/2026-08-26-claude-code-runtime.md:339`);
- after a reset between turns the session opens again while the old process is still being stopped.

*Fairness.*  The process finishes its cycles and takes its inputs, the reader reads, timeouts pass.
Nothing makes it ask, or makes a person answer, except that a permission is answered or withdrawn.

**Codex.**  `CodexTurns.tla` models one session of the Codex runtime: the App Server's process and
its supervisor (`process.py`), which gives an answer to the request that waits for it and puts all else in
one queue; the stream that reads one turn out of that queue (`events.py`); and the runtime that starts,
steers and, for a turn the core has lost, asks the server what became of it (`runtime.py`).
`MCRuntimeTurns` checks it beside `ClaudeTurns`: a session is of the one runtime or of the other, and one
property says of both that their streams end.

`app` is the process with the turn it runs, the requests it has not taken and `_fatal_error`; `queue` is
`_incoming`; `call` and `steer` are the entries of `_pending` with their answers; `conn` is the entry of
`_connections` and its `active_turn_id`; `turn.pc` is the await an operation is in; `agent` is what the core
makes of the session (at rest, lost, to be started anew).  `past` is history.

*Abstractions.*  The App Server takes requests in their order, runs one turn at a time and refuses a start
while it does.  A turn has the same number on both sides.  A request the adapter does not support is an
approval that fails.  Opening is one step, with its handshake and, for a new session, its `thread/start`.
The core goes down by cancelling what is under way before it stops the runtime (`NodeAgents`).

*Run.*  `CodexLeavesNothing`, `CodexOutcomeIsOwn` and `EveryStreamEnds`.  Two upsets are what it takes to lose a
turn and then to meet a failure while it is reconciled.  What the properties except, and what they show:

- a start whose answer cannot be read, or a stream the core fails over, is a failed turn to the core
  while the server runs it on; the next start is then refused, or its stream ends in doubt over an
  approval of the old turn (`astray`);
- a completion that says `interrupted` is an end in doubt, and the session is reconciled;
- after a line that cannot be read the supervisor fails what waits and asks the process to end, and later
  requests are left to their timeouts (`process.py:412`).

*Fairness.*  The server works and takes its requests, the supervisor reads, calls time out, and a handler
answers an approval within its time.  A process that is told to end does, and lets go of its pipes: one that
ignores the SIGTERM of a protocol failure, or leaves a child with the pipes, keeps a stream waiting until the
session is stopped.

## 9. SQLite executor

`SqliteExecutor.tla` models the writer and its queue, a transaction statement by statement, the
thread of the connection (`sql`, which runs what it was handed whether or not anyone still listens),
cancellation of a caller at any await, the reader pool, `stop` and `abort`.

*Abstractions.*  Statements that open or end a transaction are through before an interrupt reaches
them.  The writer's `get` on a queue that is not empty is a step of its own.  A caller begins its next
request when nothing of its last one is with the thread.  A start that fails half way and the
reaper's own end are left out.

*Run.*  `db_work`: two writers and one reader more than there are idle connections.  `AnsweredIsKept`,
`PoolAccounts`, `CallersAnswered`.  Two exceptions:

- a caller cancelled during `BEGIN IMMEDIATE` (l. 173) is outside the reach of `__aexit__`: the
  transaction stays open under the writes of others, against
  `plans/2026-08-24-unified-message-storage.md:257` (`cut`);
- `abort` cancels the running operation and the writer at once.  The operation meets it in the ROLLBACK or
  COMMIT of its `__aexit__` and ends with the interrupted statement's error; the writer's
  `except Exception` (l. 477) takes that for an ordinary failure, goes back to its queue and
  abort's gather never returns, against the docstring "Interrupt active work and close all
  connections after a failed drain" (`lost`).  Without the exception TLC shows it.

*Fairness.*  The thread runs its statements, tasks that are ready run.

## 10. Node and agents

`NodeAgents.tla` models `app/application.py` with what it starts and stops: an operator's changes,
which come one at a time through the control's fetch task, agents started and stopped part by part,
commands dispatched and drained, a reminder's wake, and the node's own stop within a limit.

`Ctl` is the fetch task, `Main` the node's, and every start left for later is a task of its own.
`live[i]` says which parts of an instance run.  A cancellation is delivered where the task next
waits: `cut` is one not yet delivered, `hurt` says a task will end cancelled.

*Run.*  `node_change`: two writes are what it takes for a change to meet the start another one
left behind.  `NothingRunsUnseen`, `RunsWhatIsConfigured`, `GoesDownInOrder`, `StopsAndChangesEnd`.
Exceptions, all real:

- a stop cancelled half way leaves the rest running (`app/agent.py:285`, against the comment at :296
  and `tests/app/test_agent_lifecycle.py:211`);
- `publish_inbox_wake` (`orchestrator.py:321`) looks at `_stopping`, awaits two reads, and makes
  a worker on an orchestrator that has stopped meanwhile;
- `except TimeoutError, asyncio.CancelledError` around the wait for the receive task
  (`orchestrator.py:554`) takes the stop's own cancellation for the task's: the limit on a
  node's stop is lost, and a command nobody cancelled is waited for (`LimitLost`).

*Fairness.*  Every task's own steps, the limit passes, a command a drain cancelled ends.

## 11. Reminders

`Reminders.tla` models `ReminderScheduler` with its one frontier timer and its poke, the commands
that change a reminder under the lock it is fired under, the transitions of `core/models/reminder.py`
and what the repository refuses to write.  A node may crash between any two steps and starts again
from `rem` and `unread`.

*Abstractions.*  A reminder whose anchor is gone or whose rule is invalid is cancelled by an upset.
Unread messages other than fired ones are left out.  All conversations have one agent.  Failures of the
audit are swallowed, as in the code.  `slot`, `missed` and `deaf` are history: the moment a reminder last
fired for, a wake that found no agent, went with it or could not be published, and
a change whose command was cut off before its poke.

To publish a wake the agent's orchestrator reads the conversation twice (`orchestrator.py:326-331`).  Where
a read fails, `_publish_inbox_wake` logs it and answers False (`application.py:936-946`), and
`_publish_message` does not look at the answer (`reminder.py:445`): the wake is lost with the agent up
(`TellFails`), until the agent checks its messages for another reason or the node starts again.
`WokenOrOwed` makes this its exception.

*Run.*  `remind_fire`: two reminders of one conversation share the lock and the wake.
`SlotsGoForward`, `WokenOrOwed`, `DueFires`.

*Fairness.*  The scheduler's own steps, time, a command's steps, and that a stopping node goes down.

## 12. The WeCom connection

`WeComConnection.tla` models `contrib/wecom/channel.py`: the runner that dials, authenticates, reads and
backs off; the heartbeat; sends in parts, with the connection each part looks for or takes over from
its upload; approvals; and `stop`.

`call[c].todo` are the requests a call has still to make and `done` the parts confirmed; `wire[c]` is the
frame of its last request at the provider, which may take it at any time after; `took[c]`, history, counts
what the provider has taken.  `line` is the send lock with its waiters, `asked` is `_pending_approvals`,
`run` the runner with the counters of `_run`.

*Abstractions.*  A deadline that has passed ends the call at its next wait, so passing is part of that
wait's end.  An upload's three kinds of request are one.  A provider that answers does so before the next
ping.  Topics (`topic.py`) have an HTTP client of their own and only share the start and stop: they,
the redrawing of decided cards and the fate of inbound messages are left out, but for the
download that keeps the reader from reading.  After the start the network counter only stretches
the backoff, and is not kept.

*Run.*  `wecom_link`: one message of a text and a picture, and one approval, contend for lock and
socket; with two upsets a connection is lost and the next one as well.  `OutcomeTrue`, `OneAtATime`,
`CallsEnd`, `AlwaysBack`.  Known limits:

- `request_approval` does not look at `_stopping`: one asked for after `stop` has answered the others is
  registered and waits for good once its card is delivered, also on a connection dialled during
  the stop (the exception `after` in `CallsEnd`);
- the counters of `_run` are set back only where `_connect_once` returns, which it does only when the
  channel stops or is degraded; so three refusals over the whole life of a channel end it, and its
  backoff never shrinks again (`AlwaysBack` lets the runner end);
- a press that comes before a card's acknowledgement is lost with it.

*Fairness.*  A call's own steps and timeouts, the runner and its heartbeat, the stop.  The provider
takes sockets and says when it takes a bot; nothing makes it acknowledge, or a person press.

## 13. What is proved

TLC checks the instances above; TLAPS proves the following for every value of the constants that
the modules' named assumptions allow.

- `ConversationProofs`: `TypeCorrect`, `FreshSends` (`SentOnAKnownConversation`), `HeldSends`
  (`HoldSendsNothing`), `DraftsAreKept` (`OnlyTakenDraftsGo`) and `ListedOnce` (`ListedOnceOrCut`), and,
  for one command at a time (`OneAtATime`, which `conv_solo` meets), `KnownWhenSent`
  (`NothingArrivedWhileWriting`) and `SettledStays` (`SettledDraftNotResent`).  What a send looked at
  last is known only through what it staged, so the inductive
  invariant `FreshnessInv` says it phase by phase: staged threads have `expected <= snapshot`,
  looked-at ones `basis <= expected`, and no channel has answered before the transmit phase.
  Snapshots never move back, which carries it over the steps of other commands.  `LockInv` is kept
  beside it, so that a hold is known to reply with its locks released.  `ListInv` counts: what lies behind
  a cursor was listed once or was cut off, what lies past it never.  `DraftInv` says which draft a send
  carries in each phase, and that no draft that waits is settled (`Gone`).  `KnownInv` says that the
snapshots are covered by what replies told or left out (`Covered`), up to what the command about to reply has observed, and
`KnewInv` that nothing is told while a send is on its way.  `KnownWhenSent` and `SettledStays` have the
exceptions of section 3.
- `TimerWheelProofs` (rings, levels and widths of any size): `OnTime`, `NotBefore`, `HoldsActive`
  (`WheelHoldsActive`), and `Implements` (`KeepsDeadlines`, the refinement).  The inductive invariant is `TypeOK`,
  `WheelHoldsActive`, `WheelInv`, `NeverEarly` and `CallInv`; `WheelInv` is the heart: the bucket of
  every entry is emptied no later than its deadline (`deadline \div Width > tick \div Width`, and the
  slot is that of the deadline), which lemmas on `\div` and `%` show `_insert` establishes and a
  cascade keeps.
- the part of `NodeAgentsProofs` on `FleetControl`: `TypeCorrect`, `NothingLeftOver`, `AskersServed` (`NoAskerStranded`), `RunsOnce`
  (`RunOnce`) without assumptions on the clock; `AnswersFit` (`RightAnswer`) and `NothingBehindOffset`
  under `ClockClimbs`.  The invariant comes in three layers, each inductive on those before: what the
  server keeps (`ServerInv`), what the node runs (`NodeInv`: its batch lies past the offset, and what it has
  run lies behind it or is the next of the batch), and how ids compare across (`AcrossInv`: an id of an
  earlier life of the server is behind its clock, and a batch skips nothing still handed out).

- `TurnFailoverProofs` (any actors, runtimes and turns): `HolderRight` (`HolderIsRight`), `HeardOnce`
  (`AnnouncedOnce`), `RestBetweenTurns` (`AtRestBetweenTurns`).  The inductive invariant says for each
  state of a turn's task whether it has a session, and of what kind (`Shape`), that a session is of
  the runtime the pool names as its holder, and that the runtimes a turn was handed to are distinct and
  among those tried, which bounds the hand-overs by the size of the pool.  What the
  conversation has heard and where a process may be left (`Fares`) is a second layer on it.
- `RemindersProofs` (any reminders, owners, commands, delays, clock settings, crashes): `SlotsForward`
  (`SlotsGoForward`) and `WakesAreOwed` (`WokenOrOwed`).  The first rests on `Sound`: a reminder was last written
  at or after the moment it last fired for, and is to fire for a later one.  A command's new moment counts from
  when the command was dispatched, which may lie far before its turn at the lock; `NotBackwards`
  refuses one dispatched before the last write, so what it makes is `Sound`.  `LockInv` and `SchInv` say
  that whoever is about to write holds the owner's lock and what it read is still stored.  The
  second, with the exceptions of section 11, needs only that a start which fails ends in "off" and that only
  a start recovers.
- the part of `RemindersProofs` on `RuntimeLoop` (any messages and busy expiries): `NothingOutOfTurn`
  (`AccountedInOrder`) and `IdleSessionsTimed` (`IdleIsTimed`).  The line of a message is in five parts; `OrderInv` says that each is in order and
  precedes the next, `AccountInv` that what waits in none of them was settled once or was fetched
  while a steer waited.  That nothing is dropped elsewhere needs `PlaceInv`: a `queue_task` that still waits
  has no item, so a fetch never overwrites one.  `CountInv` bounds the idle timers by what ended
  them: a message settled or a busy expiry.  Selections (`NotesIn`, `OthersIn`) are written by places
  instead of with `SelectSeq`, whose recursion nothing can be proved about; lemmas say what they keep.
  `IdleInv`, on top of these, follows the idle timer through what is still to be looked at: no expiry in it is of
  a timer yet to be made (`ExpiriesInv`), so that a new timer never finds its own; and behind the expiry of the one now
  bound there are only notifications (`LastInv`), so that an expiry taken while more is to come is
  no loss: a message follows, and its turn starts the time anew.
- `WeComConnectionProofs` (any sends, approvals, messages, limits): `OneCallAtATime` (`OneAtATime`) and
  `OutcomesTrue` (`OutcomeTrue`).  `Tells` says, for each place a call may be in, how many parts the provider
  shows and what the frame that is out may still add; only an outcome that says nothing of the
  message leaves behind a frame that counts.  `LineInv` says that a call stands in the line for the lock
  exactly while it works, once, and in front when it has the lock, so that a lost connection
  fails at most one call.  That a caller leaving the line keeps the order of the others is shown of
  `RemoveFirst` by lemmas on sequences.

- `SqliteExecutorProofs` (any callers, requests and size of the pool): `AnswersAreKept`
  (`AnsweredIsKept`) and `PoolIsAccounted` (`PoolAccounts`).  `WInv` ties together, for every place the
  writer may be in, its operation, the request it serves and the statements with the thread.
  `KeepInv` follows the connection's transaction through statements nobody listens to any more: it is that of the
  operation at work, or something on its way to the thread will end it; and who was told "ok" has its work
  in `durable`.  Like the property it stops at `cut`, the cancelled `BEGIN` of section 9.  `PoolInv` counts:
  the readers counted out are those somebody reads with, and nobody is parked while one is idle or
  could be opened.  `CancelsAssumption` only bounds how often a write is cancelled.
- `NodeAgentsProofs` (any agents, connections and number of configurations, with the limit or
  without): `NothingIsLost` (`NothingRunsUnseen`), `ConfigurationRuns` (`RunsWhatIsConfigured`) and
  `NodeGoesDown` (`GoesDownInOrder`).  None of the three is inductive.  The invariant has a part for each who acts: what
  is over at each stage of the node's stop (`StageInv`), who was cancelled and what that leaves
  (`HurtInv`), what a start has brought up so far (`StartOf`), the stop in the middle of a change
  (`ChangeInv`), what a stop still has ahead of it (`StopOfBy`: a walk nobody cut leaves nothing but a
  late worker), what an entry of the list says of its instance (`ListedRight`), and who has an instance, by
  its lifecycle (`LifeOf`).  That two instances never share a channel follows because an instance
  that has one is listed, or was let go of by a cancelled control task that took it off the list first.
  `Settled`, which refuses a change to an agent that is being started, is what keeps `starting` within
  the configuration, and every start on the number in force.

- `RuntimeTurnsProofs` (any number of turns, of what a stream may hold, of signals and of accidents): for the
  Claude runtime `ClaudeLeavesNothing` (`NothingLeftBehind`) and `OneProcessAtATime` (`OneProcess`), for the
  Codex runtime `CodexRests` (`CodexLeavesNothing`) and `CodexTellsTheTruth` (`CodexOutcomeIsOwn`), and the type
  invariants of both.  One of the two moves and the other keeps still, so each has an invariant
  of its own (`IInv`, `XIInv`).  Claude's counts: what is `Due` to a connection (inputs written and not taken,
  the one being worked on, results on their way or in the inbox, the one just claimed) is at most what it
  counts as pending, unless a turn went astray, and every step moves one unit along or changes both sides
  together.  That a stop is under way whenever the registration says so is `StateInv`, which
  `OneProcess` needs.  Codex's goes by the numbers of turns: a start the server has yet to take is of a turn nobody
  has run, and no two are of the same (`XStartsFresh`, `XStartsDiffer`); what the server runs is the turn of the
  stream or one that went astray (`XRunsInv`); a read of a lost turn's status is the last thing asked, and its
  answer is how that turn ended (`XReadsLast`, `XReadInv`).

Only model-checked: all liveness (fairness and `ENABLED` are outside what the proof system
handles).  `loop_lost` is a counterexample, not a theorem.

## 14. What is not modelled, and known limits

Not modelled: the components `PROJECT.json` marks so.  Telegram and Lark are to the core what WeCom is,
with HTTP in place of requests over a socket; Search, inbox summaries,
attachments and opening a DM change nothing the properties tell apart.  Pages, accounts,
configuration files, service management and command lines are rendering, records and supervision.
The recording of inbound messages on ingress is in `Conversation`, its workers are in `NodeAgents` only
as parts that run.

Met while modelling and stated by no run:

- `check_messages` puts the cursor on the newest message though its listing was cut at the limit
  (`storage.py:479` against the docstring at :135): what was cut off counts as read.
  `ListedOnceOrCut` makes this its exception.
- `unfollow_thread` saves the whole session it read before it took the lock, and takes a denial made
  meanwhile back (`messages.py:920`).
- A node that restarts polls from offset 0 and runs again what the server still hands out
  (`contrib/server/control.py:427`); a server whose clock was set back hides requests behind a node's offset
  (`control.py:71`, against the comment at :52), which is what `ClockClimbs` assumes away.
- A poll's reply longer than the node reads is cut, does not parse, and is asked for again without
  end (`contrib/server/control.py:496`).
- A conversation denied while a send waits between its look and its delivery is still sent to
  (`messages.py:781`); a message recorded between the last look and the provider's call is answered unseen
  (`:672`); a crash between a provider's taking a message and the finalising leaves it unfinished
  (`:690`).
- The two exceptions of section 3 to what one command at a time may rely on: a broadcast held by several
  conversations tells of one hold (`messages.py:827`, against the docstring of `_stage_draft`), and a
  delivery whose write-down raises leaves its draft to be sent again (`:701`).
- A wake whose publishing cannot read the conversation is lost while its agent is up
  (`application.py:936`), though a comment says anything committed "has to be woken on the way out"
  (`reminder.py:282`).
- A worker that ends unexpectedly is started again without what it held in `pending`
  (`orchestrator.py:1145`); a redelivered turn is answered with what is in memory (`:1338`); a runtime event is
  applied under its message's thread lock while `finish_turn` holds another (`turn.py:1005`).
- A turn may go back to a runtime it already had; a process handed over runs on until its runtime
  stops it; a session is kept on a runtime that has been banned; the conversation hears of an
  unknown outcome twice when a stream ends without a terminal event on the last runtime.

## 15. Finding

`loop_lost`: a message that comes in during a steer is lost (`orchestrator.py:780`).

## 16. Plan

In this order: one specification of what a turn's stream promises, implemented by `ClaudeTurns` and
`CodexTurns`, with the step-by-step proof; the polling of Telegram and the tokens of Lark
beside `WeComConnection`, against the outcome `Conversation` expects; ingress workers with their redelivery;
the console's accounts and sessions.

## 17. Running it

    tlc -workers 2 -config <run>.cfg <module>      # module and cfg of a run in PROJECT.json
    tlapm <name>Proofs.tla

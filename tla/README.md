# Verification of the rara runtime core

TLA+ models of the concurrent and protocol-heavy core of rara: runtime sessions
and their event streams, the agent loop machine and its portable host, the
control plane for child agents and the task list they share, the storage of
threads, goals, language servers, background commands and the registry of
hosted sessions. Each module is translated from the Rust source; `PROJECT.json`
maps every definition to its lines. TLC checks the modules on small instances;
TLAPS proves the safety properties of these modules, and that the session actor
implements its abstract contract, for every value of their constants.

## 1. Inventory

rara is a coding agent: a terminal UI and several protocol front ends talk to
runtime sessions; a session runs turns; a turn alternates model requests and
tool batches; tools can start child agents, background commands, language
servers and MCP calls; threads, tasks, goals and memory are persisted.

Paths below are relative to the repository root. `native/` is short for
`crates/rara-runtime/src/native/`.

| Component | State | Operations | Talks to | What is hard | What makes it correct |
|---|---|---|---|---|---|
| Event log and streams (`native/event_log.rs`, `event_stream.rs`, `session.rs`) | sequence counter, replay window, broadcast ring, lifecycle snapshot; per stream a replay queue, a cursor and a live receiver | publish, replay_after, subscribe from snapshot or cursor, recv | published to by the actor, the driver and tools; read by every front end | producers, lag, closing and the end of the actor interleave with a recv of several steps | no event skipped, repeated or reordered without a typed boundary; closing wakes every reader |
| Session actor and handle (`native/actor.rs`, `handle.rs`, `command.rs`) | active turn, stop kind, pending interaction, closing flag, shutdown waiters; command channel; snapshot; retained outcome | submit, answer, cancel, interrupt, control, transcript, query, shutdown; turn completion | handles (commands), turn task (completion), driver | bounded channel, concurrent stops, a completion in flight, shutdown joined at any point, dropped handles | one turn at a time, the accepted stop decides the end, one terminal event, one shutdown outcome, Closed means quiescent |
| Loop machine (`crates/rara-agent/src/machine.rs`, `types.rs`) | phase, effect identity, turn and recovery counters, end | one transition per acknowledged effect | any host (native Agent, portable host) | hosts that repeat or mix up receipts; counters at their maximum; forced continuations | each effect acknowledged once and in order; limits exact; a refused call changes nothing |
| Executor, tool batches, transcript repair (`crates/rara-agent/src/executor.rs`, `tools.rs`, `history.rs`, `history/pairing.rs`, `model.rs`) and host turns (`native/host_turn.rs`, `host_driver.rs`) | transcript, the batch being executed | dispatch a request, record the response, prepare and complete calls, repair at the next turn | loop machine, model backend, tools | cancellation and failure in the middle of a batch; transcripts installed by a client | every request is well paired; completed work is never lost; a limited turn ends |
| Child-agent control plane (`src/tools/agent_control.rs`, `agent_control_tools.rs`, team call of `agent.rs`) | records, cancellation tokens, mailboxes, active tasks, semaphore, Notify | start, run, team, stop, send, drain, wait, cancel descendants, shutdown | parent sessions, child executions | stop against finish, launch against shutdown, lost wakeups, dropped futures | one completion per child, no lost wakeup, cancellation reaches everyone, shutdown drains |
| Shared task list (`src/tasklist.rs`, `src/tools/tasklist.rs`) | one file per task, a lock file | create, get, update, claim, release, link, delete | agents of one team, other processes | readers without the lock, updates that stop between two files, claims checked against what was read, identities used again | a claim is broken only by its owner, a plain assignment or a deletion; edges have two ends; a checked update meets what was read |
| Host registry (`src/runtime_session/host.rs`) | sessions by identity, receipt of the current shutdown generation | insert, remove, shutdown with its spawned cleanup | session actors | the lock is released while sessions drain; callers give up; identities are reused | an identity is released only by its own clean session; a receipt means what it says |
| Thread storage (`src/thread_io/`, `src/tui/state/{transcript,persistence}.rs`, `src/tui/session_restore/loading.rs`, `crates/rara-persistence/src/thread_turn_log.rs`) | active turn and ordinals in the interface; channel and pending writes of the worker; canonical log, index, live log and checkpoint of each thread | push, finalize and commit entries; restore, start and leave a thread; write with merge, read barrier, command, shutdown | interface, storage worker, file system, database | failed writes retained in order, merges across barriers, crashes between two files, a restore that overtakes recording | nothing shown is lost; a restore shows what was on the screen; a clean exit leaves nothing behind |
| Runtime goals (`src/runtime_goals.rs`, `src/tui/runtime/goals.rs`, `src/tui/goal_resume.rs`, `src/tools/goal.rs`) | goal, deferral, admission and membership pointers; row of the thread; pending request, offer and dialog of the interface; command port | pause, clear, set, resume, edit, replace; create and update by tools; charge and continue; stop; restore | interface, running query, database | requests to continue that arrive late, a completion that meets another goal, failing writes | the goal is what its row says and is charged for its own work; work toward it starts only as the user wants |
| LSP slots (`src/lsp_manager/`) | slot phase, generation, attempts; per server its process, receipts and documents; diagnostics cache | ensure ready, synchronise, read diagnostics, supervise, watch, shut down | tool calls, language servers | a late exit against a newer start, callers dropped at an await, versions that start again | one server per slot, a failed start is retried and bounded, a dead server is noticed |
| Background commands (`crates/rara-background-tasks`, `src/tools/bash.rs`) | status records, stop senders, the runner of each task | start, finish, stop, stop all | shell tools, child processes | two maps under two locks, stop against exit, failing log writes | what is called stopped was told to stop |
| Native driver and agent loop (`src/runtime_session/driver.rs`, `src/agent/loop_driver.rs`, `src/agent/runtime.rs`) | the Agent: history, mode, plan, pending interaction, compaction | the native effects of the loop | session actor, tools, hooks | approval pause in a batch, plan exits, hooks that block | the loop's contract with approvals; not modelled yet |

The other components (UI, providers, configuration, memory, sandbox, tools,
front ends, plugins, OAuth, MCP, observability) are listed in `PROJECT.json`
with the reason they are not modelled: rendering, text algorithms, serialisation
or external services, without concurrent state of their own that a small model
would show. They are most of a repository of 130 000 lines, which is why the
modelled lines are a small share of it.

The hazards (what is hard to test, each at its line) are listed in
`PROJECT.json` with the properties that would catch them.

## 2. Modules

| Module | Models | Variables | Actions |
|---|---|---|---|
| `EventStream` | event log, snapshot, streams | log (`sequence`, `replay`), lifecycle (`phase`, `version`, `lastSeq`, `actor`), per observer `pc`, `live`, `queue`, `cursor`, `seen` | publish under the log's mutex is one step; recv is one step per await, poll and lock |
| `TurnContract` | abstract: what a session promises about turns | `mode`, `status`, `stop` | Begin, Stop, End, Close, Closed |
| `SessionActor` | actor, handle, command channel, turn task; implements `TurnContract` | actor fields, channel, snapshot, task and agent, callers | one per command handler, split only where the code awaits or publishes a snapshot before it is done |
| `LoopMachine` | the loop machine under an arbitrary host | the struct's fields, plus the histories `issued` and `acked` | one per method; a refusal is a step too |
| `ToolHistory` | repair of tool results, as recursive functions over the positions of the scan | none | none: checked by `MCHostTurn` on every short transcript |
| `HostTurn` | the portable host: `LoopMachine` composed with `ToolHistory`, the executor and the tool batch | machine, transcript, batch, cancellation | one per effect, with the acknowledgement execute_loop makes of it |
| `AgentTree` | the child-agent control plane and the team call | the mutex's state, semaphore, tokens, where each caller and child is | one per critical section, and one per step outside it (permit, token, notify) |
| `TaskList` | the shared task list | the directory, its lock, the writes its holder has left, what each agent read last | one per call up to taking the lock and computing its writes, and one per file written |
| `RuntimeHost` | the host registry | sessions, receipt, generations, callers | one per critical section and await |
| `ThreadIo` | interface, storage worker and files of threads | `ui`, `receivers`, `channel`, `worker`, `disk` | one per handler of the interface, one per request the worker takes, one per write that succeeds, fails or is cut short; kill and start |
| `LspServer` | one server slot, its callers, servers and cache | `slot`, `attempts`, `gate`, `calls`, `servers`, `cache` | one per await of `diagnostics_for`, and the steps of supervisor, watcher and reader |
| `BackgroundTasks` | the store of background commands and its runners | `status`, `signals`, `sent`, `process`, `runner`, `stopper` | one per lock of one of the two maps, and per step of the runner |
| `Goals` | goal store, interface, running query and command port | `store`, `rows`, `query`, `tui`, `port` | one per command, dialog, tool call, completion, admission and restore step |
| `Enumeration` | the members of a finite set in ascending order, as the code's sorted loops visit them, and the selected positions of a sequence | none | none: used by `TaskList`, `AgentTree` and `ToolHistory` |
| `*_proofs` | theorems: of the module they are named after; `HostTurn_proofs` of `LoopMachine`, `ToolHistory` and `HostTurn`; `Services_proofs` of `BackgroundTasks`, `LspServer` and `RuntimeHost`; `Work_proofs` of `TaskList` and `Goals` | | |
| `MC*` | constants, symmetry and composition for TLC | | |

`HostTurn` extends `LoopMachine` and `ToolHistory`; `SessionActor` instantiates
`TurnContract` with a refinement mapping; `RuntimeHost` takes from
`SessionActor` that a session has one retained shutdown outcome.

`MCSession`, `MCServices`, `MCLiveness` and `MCHostTurn` check
several specifications in one run: a variable `moving`, chosen in the first
state, says which of them takes steps, and the others stay in their initial
state. The state spaces add up instead of multiplying, every property is checked
on the states of its own specification, and nothing is assumed about how the
parts interact. Names that clash are renamed by `INSTANCE ... WITH`.

### Faithfulness: what is abstracted and how

*EventStream.* An event is its sequence number. The two deques are filled in
order and emptied from the front, so they are sets whose front is the minimum.
The number a snapshot carries is any number reached since the last snapshot,
because other tasks publish between `current_sequence` and the snapshot.
`select!` without `biased` polls its branches in any order.

*SessionActor.* A channel send is two steps, taking a permit and queueing the
command, as in tokio; `close` and `try_recv` can fall in between. Handler steps
end at awaits and at published snapshots. What a turn returns, and which
interaction the agent leaves pending, is a free choice. Control, transcript and
query commands leave the modelled state alone and differ in when they are
refused. A panic of the turn task is not modelled; see the hazards.

*LoopMachine.* Token counts matter only through "the budget is exhausted when
it is read", a free choice at every read. `max_turns` is fixed within an entry.
The widths of `u32` and `u64` counters are the constants `CounterMax` and
`IdMax`, with the code's checked additions. The host keeps every receipt it was
ever given and uses any of them in any call.

*ToolHistory and HostTurn.* A user message holds results or text, never both
(that is how the recorders write it). Tool names and payloads are left out; a
reply is its call's identity and whether it is synthetic. What a provider
accepts, and which results answer a call, is stated by counting positions, apart
from the scan of the code. Backends may fail or
answer after a cancellation. The native adapter's approval pause and omission of
a call are not part of this host.

*AgentTree.* Ids contain a fresh uuid, so none is reused. `prune` may pick any
finished record (timestamps are in seconds, ties fall to hash order). The two
halves of `cancel_running` are one step, since setting the collected tokens
commutes with everything else. The record's progress, route and summary are left
out. Poisoned locks are not modelled.

*TaskList.* The status stands for every field a plain update replaces; subject,
description and metadata are left out. A change holds the lock of the directory
from its reads to its last write; each file is replaced atomically, so a reader
without the lock sees the files between two writes. A write may fail, which
leaves the rest undone and the lock free; so does a process that dies. An edge of
which one half was written is not repaired by any later operation, therefore
`EdgesPaired` speaks of directories in which no write failed. A plain `owner`
asks nobody: `ClaimsHold` names it as one of the ways a claim ends.

*RuntimeHost.* A session is its actor's retained outcome. `get` and
`session_ids` only read.

*ThreadIo.* Entries are numbers in the order they were shown, so loss and
disorder can be told from the files. A write operation changes several files in
the code's order, and an I/O error or a kill may leave any prefix of it behind;
appended lines may be torn, which the readers of the logs skip. A failed index
write is only logged (`recorder.rs`, `persist_turn`): the live log is then cleared
although the comment at `records.rs:126` asks for canonical turn and index both;
nothing is lost, since a restore reads the canonical log and not the index. The
worker's timed flush may happen whenever it waits. Its status notice, rename,
export and the resume picker are not modelled.

*LspServer.* One file. A server that is `Ready` and found not running is started
again without regard to the attempt limit and the backoff, as in the code.
Overlapping calls for one file may mark and send versions out of order; the
model allows it, as the code does. Framing, answers to server requests and the
status snapshot are left out.

*BackgroundTasks.* A failing write of the output log ends the runner and leaves
the child running, as in the code. A stop that falls between the two insertions
of a starting task finds no sender; `StoppedIsSignalled` names this one
exception. Output files and PTY sessions are left out.

*Goals.* A query uses one unit of the budget. Objective and second of creation
are one identity (`id`), and `birth` tells apart the goals that share it.
Pointers compared with `Arc::ptr_eq` are numbers; a new one differs from every
one that is still held. The interface is checked with its command port (the form
without one is used by tests). Plan mode and automatic plan implementation, the
store without a database, and a port that refuses a command are left out. A stop
counts for `ContinuationsWanted` once it was saved: when the query has finished,
its completion has not been handled, and the write of the deferral fails,
`defer_continuation` returns with the deferral unset (`runtime_goals.rs:276-286`)
and the completion may continue by itself, although
`docs/features/thread-goals.md:142` says that persistence errors "must not permit
automatic work". The same document's warning that the goal may resume is shown.

## 3. Runs

| Run | Instance | What it shows |
|---|---|---|
| `event_stream` | 1 observer, window 4, ring 2, 5 events | no silent loss, repetition or reordering (`InOrder`); Closed covers everything before the last empty poll; an orderly shutdown is never reported as a crash; everything is delivered or bounded, and closing wakes readers (`StreamsProgress`) |
| `event_drain` (violation) | window 2, ring 2, 2 events | finding 1 |
| `session_safety` | actor: 2 callers (symmetric), channel of 1, 2 turns, 2 kinds of interaction; storage: 2 threads, 3 entries, 3 requests, 1 checkpoint besides those of the requests, 1 I/O error, 2 starts | turn ownership, faithful snapshots, shutdown agreement, single terminal events, refinement of `TurnContract`; nothing lost, restores faithful, clean exits clean |
| `liveness` | registry: 2 sessions, 2 generations; actor: 2 callers, 1 turn; server: 2 callers, 2 launches; storage: 2 entries, 1 I/O error | turns end, commands that reached the live actor are answered, shutdown calls return, cleanups complete without their caller, dead servers are noticed, storage settles |
| `host_turns` | turns: 2, batches of up to 2, a client-installed broken transcript, limit 2; machine: counters to 2, identities to 11, limits none, 0 and 2; repair: all transcripts of up to 4 messages | every request well paired, no completed reply lost, every turn ends; receipts, loop boundaries and budgets under a host that does anything; the repair equals its reference |
| `agent_tree` | background and foreground child, 1 permit, waits, stop, shutdown | one completion, no lost wakeup, shutdown returns, the queue drains |
| `agent_team` | background child and a team of two, a message, stop, cancelled turn, shutdown | mailbox order and ownership, cancellation reaches all and shutdown drains, terminal statuses stay |
| `services` | registry: 3 sessions, two sharing an identity, 1 remover, 2 closers, 2 generations; server: 2 callers, 3 launches, 2 attempts; shell: 2 tasks, 2 stoppers; goals: 2 threads, 2 goals of one identity, budget 1, 2 queries, 1 command in the port, 2 disruptions; board: 2 members, 2 identities, 3 tasks, revision 3, 1 failed write | receipts and releases; one server per slot; stopped commands were told; goals match their rows and their work, and are continued only as wanted; edges, claims and checked updates of tasks |
| `agent_team_shutdown` (violation) | a team of two, shutdown | finding 2 |
| `agent_foreground_mail` (violation) | background and foreground child, stop | finding 3 |
| `tasklist_reuse` (violation) | 2 agents, a deleted and a new task | finding 4 |
| `lsp_restart` (violation) | 1 caller, a server that dies and its successor | finding 5 |

Why the bounds are enough. Each is chosen so that its limit is hit from both
sides. In `event_stream` the ring overflows before the window and the window
before the end, so lag is recoverable and unrecoverable in the same run (with
`EventLog::new` both have one size, and lag nearly always means
`ResyncRequired`). A channel of one command is full whenever somebody else is
queued; two callers are the smallest number that race in shutdown; two turns are
needed for a stale answer or stop. Two tool calls are the smallest batch with a
middle. `MAX_STOP_HOOK_CONTINUATIONS` is 8 in the code and 1 in the run; the
proofs cover every value. Two children are what a permit, a team failure and a
stop against finish need. Two sessions sharing an identity and a third are what
a stale release needs. Three entries are a committed turn, a live entry and one
that arrives during a restore; one I/O error is retried, and a second start reads
what the first left. Three tasks on two identities are what reuse needs, and
revision 3 lets a claim be taken over after an edge was written. Three launches
are a server, its successor and a late exit of the first. Two goals under one
identity are what a wrong charge needs; a disruption is a dialog, a restore, a
restart, a message queued behind a query or a failed read or write, and two of
them are a thread left and entered
again, or a failure and a restart. With one place in the port, a second request
waits until the first was taken.
The safety properties are also proved for all values (section 4), so the bounds
matter most for liveness. In every run that says `CHECK_DEADLOCK FALSE` the system may stop: the session is closed, or the
bounded inputs are used up.

### Fairness

*EventStream:* an observer's task keeps calling `recv`. Nobody is made to
publish or subscribe. *SessionActor:* tokio polls ready tasks; the actor's select
is biased towards the completion, so commands cannot starve it
(`WF(CompleteTurn)`); the channel's semaphore is FIFO, so a blocked shutdown is
not overtaken for ever (`SF(SendShutdown)`); a turn returns
(`WF(TurnReturns)`), which is the promise of whoever executes it and fails if
the turn task panics. *HostTurn:* models and tools return; the executor has no
timeout of its own. *AgentTree:* spawned tasks and callers are polled, an
execution ends because `run_sub_agent` wraps it in a timeout, and the semaphore
is FIFO (`SF(AcquirePermit)`). *RuntimeHost:* the cleanup task is spawned, and
an actor that was asked to shut down answers. *ThreadIo:* the worker is a thread
of its own and runs (`WF(WorkerNext)`); nobody is made to type or to leave, and
errors stop because they are bounded. *LspServer:* the supervisor and the watcher
of a server are spawned tasks and run; callers need not.

### Findings

1. **Closed before drained** (`event_drain`). `recv` polls the live channel,
   finds it empty and then reads the phase (`event_stream.rs:50-71`). Events
   published between the two are unread when it returns `Closed`.
   `docs/features/runtime-session.md:357` says an observer "drains every event
   already published to its stream before receiving the typed `Closed`
   boundary". What does hold is `ClosedAfterEmptyPoll`, which is proved.
2. **A failed team task makes shutdown hang** (`agent_team_shutdown`).
   `try_collect` drops the runs behind the first error while they wait in
   `AgentTreeControl::run`; they never reach `finish`, stay in `active_tasks`,
   and `shutdown` waits for them for ever.
3. **A stopped foreground child is mailed** (`agent_foreground_mail`).
   `stop_owned` enqueues a completion for foreground children too, whose result
   also goes back to the tool call; `docs/features/multi-agent-orchestration.md:87-89`
   says it is not duplicated.
4. **A checked update meets another task** (`tasklist_reuse`). A new task takes
   the highest identity in the directory plus one (`tasklist.rs:261`) and starts
   at revision 1, so after the newest task was deleted an `expectedRevision` read
   from it passes for its successor; `docs/features/shared-task-lists.md:166` says
   it "rejects the update when the stored task revision has changed". Below that
   corner, `CheckedIsUnchanged` holds.
5. **A restarted server's diagnostics are refused** (`lsp_restart`). Versions
   start again with a server, and the cache keeps the higher ones of the dead
   server (`cache.rs:39`), so current publications are dropped;
   `docs/features/lsp-integration.md:120` says that a current publication replaces
   previous diagnostics.

Residual hazards are recorded without a run. A mailbox at capacity drops its
oldest message (`push_mailbox`), while `multi-agent-orchestration.md:159` states
delivery without that exception. A command whose sender took its permit before
the channel was closed can be queued after the actor returned
(`actor.rs:234-237`): `CommandsAnswered` is therefore about commands that are
waiting while the actor still runs. And a stop of a goal that cannot be saved
may be followed by automatic work, see *Goals* above.

## 4. Proofs

All theorems are of the form `Spec => []Inv` or `Spec => [][A]_vars` and hold
for every value of the constants that satisfies the named assumptions of the
module (positive capacities, natural bounds, `IdOf` a function). The bounds that
keep TLC finite are natural numbers in the proofs, of any size.

**EventStream_proofs** (`StreamInvariant`, `InOrderTheorem`, `ClosedTheorem`,
`ShutdownTypedTheorem`). `InOrder` is not inductive: whether the next live event
is the successor of the cursor depends on where the live receiver stands. The
invariant `StreamInv` says that the window holds exactly the newest `Capacity`
events, that a stream's queue is the interval after its cursor, and that
whatever lies between the cursor and the receiver is in that queue, except while
a lag is being recovered. Lemmas: trimming keeps the window, `replay_after`
without a gap is exactly a suffix, the front of the queue is the successor of
the cursor, and one lemma per way of reading.

**HostTurn_proofs**. *Loop machine* (`TypeCorrect`, `ReceiptsTheorem`,
`BoundariesTheorem`, `RefusalTheorem`, and `BudgetsTheorem` from
`CountersTheorem`, `ModelCallsTheorem`, `RecoveryTheorem` and
`StopHookActiveTheorem`). Every transition is first classified (`NextIsStep`) as
a refusal, an opening, a progress step or the close. `LedgerInv` adds to the
receipt and boundary properties that the phase determines the outstanding effect
and the histories' lengths follow the identity (`PhaseInv`). `CounterInv` adds
that the number of model calls is `turns - start`, plus one between a request and
its outcome (`CallsInv`), and what each end says about its counter (`EndInv`);
cardinalities come from `FiniteSetTheorems`.

*Repair* (`RepairTheorem`): for a transcript of any length, what the repair
returns is well paired and keeps every recorded answer in order, and a
well-paired transcript is returned unchanged. The scan is a recursive function over positions
(it exists by `RecursionExists`), and the invariant of the scan says what it has
written so far: every message before the last one with calls is answered, the
calls that are still outstanding there are exactly `pending`, and the recorded
answers are those of the messages read. Adding a message to a transcript changes
`Outstanding` by what the message asks and answers.

*Host turns* (`RequestsArePaired`, `RepliesAreKept`, `RepairsAreReference`, from
`TurnInvariant`). That a request is well paired is not inductive: between the
assistant's message and the commit of the results the transcript is not.
`HostInv` says that while a turn runs the transcript is settled up to its last
question, and that what it still owes is exactly what is left of the batch
(`OpenCalls`), so nothing is owed when the next request is made; and that its
recorded answers are the replies the tools gave, also between turns, when a
failure or a cancellation left a batch half done or a client installed another
transcript. `MachineIsDriven` carries the guarantees of `LoopMachine` over to this
host, whose steps are calls of the machine or leave it alone (`HostDrives`), and
`NeverRefused` shows that it never gives the wrong receipt: it is refused only
when a counter is at its maximum.

**SessionActor_proofs** (`TurnsAreExclusive`, `SnapshotsAgree`,
`ShutdownsAreSound`, `StopsWin`, `PermitsSuffice`, `PublishedOnce`,
`ContractKept`, from `SessionInvariant`). None of the checked invariants is
inductive: what an answer means depends on commands that are still in the
channel, and a stop on a completion that is still in flight. `SessionInv` adds
who waits for what in the channel (`Channel`, and `RoomKept`: with the callers
between permit and push there is never more than the capacity), that a turn's
identity is fresh until it is started (`Fresh`), where the current turn is,
actor, task or completion (`TurnInv`), that the stop the actor holds is the stop
that was acknowledged, or the cancellation shutdown brought with it (`StopInv`),
that at most one interaction is open and it is the pending one (`InputInv`), and
that answers follow the retained outcome (`AnswerInv`). `ContractKept` is the
refinement of `TurnContract`: initial states map to initial states and every step
to a step of the contract or a stutter, action by action.

**AgentTree_proofs** (`CompletedOnce`, `VerdictsStay`, `MailIsFaithful`,
`WakesUp`, `ShutdownIsComplete`, `CapacityHolds`, from `TreeInvariant`).
`TreeInv` has a part per concern and a lemma for each with one step per action:
permits taken and left add up to the capacity (`PermitInv`), a record runs
exactly while its token is in the map, and its completion is announced by
whoever takes the token (`ChildInv`), cancellation reaches all once closing
(`ShutdownInv`), message numbers are used once and read numbers are used up
(`MailInv`), and a waiter that armed its notification before it looked cannot
sleep through a message (`WakeInv`).

**Services_proofs**. *Background commands* (`StopsAreHeard`,
`OnlyKilledAreTold`, `KillsLast`): `ShellInv` follows the stop sender of a task,
in the map until its runner was told, or on its way there when the stop came too
early. *Language server* (`SlotIsSound`): whoever starts a server holds the gate
and the slot shows that start (`GateInv`); a server publishes its exit after it
ended (`ServerInv`). *Host registry* (`ReceiptsTheorem`, `ReleaseTheorem`): at
most the receipt's generation is pending (`OnePending`); while it is, what is
registered is being cleaned and what is being cleaned is registered or cleanly
down (`PendingInv`); a complete generation found its sessions down (`CleanInv`);
a waiting caller's sessions belong to its generation (`CallerInv`). That is why a
joined or retained receipt speaks for the caller.

**Work_proofs**. *Task list* (`EdgesMatch`, `OwnersKept`, `CheckedIsSeen`): the
directory is halfway through a change in most states, so `ChangeInv` is about the
board that the remaining writes lead to, which is paired unless a write failed;
`SeenInv` says that what an agent read is an earlier version of the task, and
revisions tell versions apart. `CheckedIsSeen` excepts an identity that was used
again, as the property does (finding 4). *Goals* (`GoalsAreSound`,
`ContinuationsAreWanted`): births are given out once and a goal has one row
(`LedgerInv`), the running query is a member of the goal exactly when it began
toward it (`LinkInv`), a loaded row is still the row when its restore finishes
(`RestoreInv`), an admissible request was made for the goal that is there
(`TicketInv`), and a goal the user stopped is deferred in memory and in its row
(`HaltInv`).

**ThreadIo_proofs** (`EntriesAreKept`, `ExitIsClean`, `LiveLogFollows`, from
`StorageInvariant`; `RestoresAreFaithful`, from `OrderInvariant` as well). Whether an entry is safe depends on the order of everything
between the interface and the disk. The invariant is therefore a predicate
`StorageState` over interface, receivers, channel, pending writes and files, and
says what the files will hold once the pending writes and then the channel have
been applied: a copy of every accepted entry survives each write in between
(`KeptInv`); what is not on its way into a turn is in the active turn
(`ActiveInv`); ordinals only rise, so no turn overwrites another (`OrdinalInv`);
the live log ends as the accepted part of the active turn (`LiveInv`); a restore
reads the files of a thread that nobody writes any more (`RestoreInv`); the last
checkpoint is the last accepted (`CheckpointInv`); the request to leave is the
last one (`ExitInv`). A step of the specification is one or two changes of this
state (a write is queued, taken, done or cut short; a request is made, taken or
answered), and each change has a lemma over any such state. TLC checked
`StorageInv` on every state of the storage part of `session_safety` before it
was proved.

The order of a restored transcript needs an invariant of its own, `OrderInv`. It
cannot say that later writes hold later entries: an active turn is written again
as a whole, a failed append leaves its first lines and is repeated, and a commit
that stopped between its two files leaves the turn in both. It says that the
files of a thread are a *view* (its turns, then its live log) in order, that each
pending write and each request of the channel leads from one view in order to the
next (`Leads`), that a commit leaves an order at the point between its two files,
too (`Effect`), and that the last view fits the active turn (`Follows`). A write
that is queued adds a view at the end, two that are merged leave out the view
between them, one that is done takes away the first, and one that failed repeats
a part: `OrderTwice` shows that this repeats entries and reorders none, and
`AgainLeads` that the views after it stay in order.

**Enumeration_proofs** (`AscendingCovers`, with `LeastNumber` and
`GreatestNumber`): the ascending enumeration of a finite set of numbers is a
sequence without repetition that covers the set (`RisingUnique` says that there
is only one), and its least and greatest members exist. Induction over the
numbers (`EveryNumber`) and the existence of a function defined by recursion over
them (`RecursionExists`) are shown from a least counterexample, because the
library's theorems take an operator as parameter. The `Selected` lemmas say what
becomes of the selected positions of a sequence that is extended or joined.
`FlattenSeq`, which the community modules define by recursion, is shown to be the
last value of that recursion (`FlattenIs`), and `FlattenAppend` says what one
sequence more adds; the transcripts of `HostTurn` and of `ThreadIo` are flattened.

The assumptions are those of the modules: `CapacityAssumption`,
`BoundAssumption`, the five of `LoopMachine`, `ReplacementAssumption`,
`QueueAssumption`,
`TurnAssumption`, `KindAssumption`, `AgentTreeAssumption`, `BoardAssumption`,
`GoalAssumption`, `HostAssumption`, `NoneAssumption`, `TaskAssumption` and
`StorageAssumption`. They say that capacities are positive, bounds are natural
numbers, values that stand for "none" are no members of the sets they are told
apart from, and tables have the domains the code gives them; TLC evaluates each
of them on a run.

### Only model-checked

Every invariant and action property of a passing run is stated by a theorem. What
stays with TLC:

- All liveness properties: `StreamsProgress`, `CleanupCompletes`,
  `SessionProgress`, `ShutdownsReturn`, `DeadServerNoticed`, `EventuallySettled`,
  `TurnEnds`, `ShutdownReturns` and `BackpressureDrains`. Fairness and `ENABLED`
  are beyond the prover.

## 5. Plan

1. *Next proofs:* those of the next modules; no safety property that a run checks
   is left without one.
2. *Next modules:* the native loop driver as a second host of `LoopMachine`
   (approval pause, plan exits, blocking hooks); MCP connections and their tool
   cache; the composition of the session actor with its event stream.

### Not modelled

Rendering and key handling of the terminal interface beyond its transcript,
threads and goals; providers and their streams; text algorithms (patches,
search, prompts, compaction); parsing and serialisation of every protocol;
configuration, credentials, plugins, sandboxing. They keep no state that several
actors change, or their meaning lies in data a small model cannot show. Process
kills are modelled where files survive them (`ThreadIo`, `TaskList`, `Goals`);
sessions, streams and child agents live in memory only.

## 6. Running it

    tlc -workers 2 -config EventStream.cfg MCEventStream
    tlapm EventStream_proofs.tla

`PROJECT.json` lists every run with its module, configuration and properties,
and for every property a mutated definition that breaks it: a plausible bug in
the code that the property would catch. Mutants are marked as such next to the
definition they replace, and no specification uses them.

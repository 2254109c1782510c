# Verification of nl_codey

nl_codey is a coding agent: a desktop application, a terminal program and a VS Code
extension over one TypeScript runtime. A *run* sends the user's task to a language model,
executes the tools the model calls (reads, patches, commands, memory and plugin tools)
after the approvals the user's settings ask for, keeps snapshots of what it changes so that
it can be rolled back, and stores everything in one SQLite database that several processes
share. A *multi-agent run* lets a planner split the task into a graph of nodes which a coder
and a reviewer work through.

This directory has TLA+ modules of the parts of that program in which order, failure and
concurrency decide whether it is right, the TLC configurations that check them on small
instances, and proofs for TLAPS. `PROJECT.json` maps every definition to the lines it
stands for, and lists runs, mutants, hazards, findings and theorems.

    tlc -workers 2 -config AgentService_one.cfg MCAgentService    # a run
    tlapm AgentService_proofs.tla                                 # proofs

A constant of a run can be changed in its `.cfg` to see what the code does when one of the
conditions under which its properties hold is dropped; section 5 says which.

Contents: [1 the system](#1-the-system), [2 the modules](#2-the-modules),
[3 the runs](#3-the-runs), [4 the proofs](#4-the-proofs),
[5 what the code does differently from what it says](#5-findings),
[6 what is not modelled](#6-what-is-not-modelled), [7 the plan](#7-plan).

## 1. The system

Paths are below `src/packages/` unless they start with `src/`.

| Component (source) | State | Operations | Hard because | Right when |
|---|---|---|---|---|
| Run state machine (`core/shared/src/run-lifecycle.ts`) | the status of a run | `canTransition`, `isTerminal` | used by every surface, refuses edges by an exception | an ended run moves only by a follow-up or a rollback |
| Agent service (`runtime/agent-core/src/service.ts`) and its tool-use loop (`nlc-loop/react.ts`, `budget.ts`) | maps `controllers`, `approvals`, `pending`; one asynchronous loop per run; the run's row | `runTask`, `continueTask`, `stop`, `applyPatch`, `rejectPatch`, `rollback`, `clearRuns`; the loop's steps | user calls arrive at every await; errors are thrown by status writes; the row may be deleted under the loop | consent precedes mutation; stops work; maps and rows agree with the loops |
| Mutation approval (`mutation-policy.ts`, `tools-registry.ts`), installation gate (`src/apps/desktop/src/main/installation-gate.ts`) | single-use grants; whether the installation is degraded | classify, grant, authorise, refuse | an approval is given at one await and used after another | no mutation without the user's answer to this very call |
| Patch tool (`runtime/tools/src/apply-patch.ts`, `v4a.ts`) | the workspace, snapshots | plan, snapshot, write, unwind | several writes, each can fail; crash between any two | all of a patch or none of it |
| Sandboxed commands (`run-command-routed.ts`, `core/sandbox/src/workspace-sandbox.ts`) | a staging copy, its diff | run, diff, ask, synchronise | the user thinks between diff and write | asked before the workspace changes; recoverable |
| Rollback (`runtime/agent-core/src/rollback.ts`) | snapshots | restore, compensate | a path may fail | the workspace the run found, or the one before the rollback |
| Storage (`core/storage/src/storage.ts`) | rows of runs, snapshots, task nodes | status updates, deletion, `reconcileInterruptedRuns` | several processes; the start-up reads first and writes later | abandoned runs are closed once, live ones are spared |
| Coordinator (`intelligence/orchestrator/src/coordinator.ts`, `review-loop.ts`, `agent-core/src/multi-agent.ts`) | phase, wave, node, attempt; `planApprovals`, `planDecisions` | plan, approve, waves, review, escalate, cancel | stop or clear at any await; state kept twice (scheduler, database) | dependencies first, all nodes settled at the end, database agrees |
| Planner (`intelligence/planner/src/dependency-graph.ts`, `scheduler.ts`, `task-tree.ts`) | colours, counts and waves of one computation; node statuses | `detectCycles`, `topoOrder`, `computeSchedule`, `scopesOverlap`; `ready`, `markFailed`, `cascadeBlock` | the graph comes from a model: cycles, self-loops, unknown ids; globs are compared, not files | no cycle is missed, the order is complete, tasks of a wave cannot meet in a file; what cannot run is blocked, and nothing else |
| Lock manager, worker pool (`orchestrator/src/lock-manager.ts`, `worker-pool.ts`) | holders, waiter arrays, timers; the pool's cursor | `acquire`, `release`, `releaseAll`, time-outs; `runPool` | time-outs race grants, an end drops waiters, workers wait on each other | one editor per file, no waiter forgotten, arrival order, the pool settles |
| Session store and its writers (`core/session/src/store.ts`, `tree.ts`, `src/apps/cli/src/tui/session-bridge.ts`, `use-loop.ts`) | JSONL files; per terminal a writer, its last id, unsaved answers | append, repair of the tail, load, list, branch, resume, draw the tree | torn lines, two terminals on a file, failed flushes | what was acknowledged is read back; the tree shows it |
| Model client (`runtime/llm/src/http.ts`, `stream.ts`, two providers) and what the loop sends (`nlc-loop/react.ts`, `transform.ts`, `compressor.ts`) | the attempt and its timer; the messages, the saved conversation | fetch, retry, stream, stop; say, fold, save, load | retries, silent servers, folds, stops and follow-ups in any order | a request stands for all that was said and not lost with a loop, and the provider accepts it; no loop hangs |
| Installation gate (`src/apps/desktop/src/main/installation-gate.ts`, `core/sandbox/src/docker-detect.ts`, `src/apps/desktop/src/renderer/src/useInstallationGate.ts`) | what the last probe saw, the user's choice, its file; the renderer's mirror | probe, start Docker and poll, skip, resume, mark | probes overlap, Docker changes, a write fails or is torn | the mirror shows what main would answer, the choice is kept, a start ends |
| Renderer (`src/apps/desktop/src/renderer/src/App.tsx`, `agent-detail.ts`) | active run, its detail, the list, streamed text | events, replies, buttons | one channel carries both, the user selects meanwhile | what is shown is what main has |
| Migrations (`core/storage/src/storage.ts`, `schema.ts`) | the schema | migrate at start-up | interruption | starting again completes it (not modelled) |

How they interact. The desktop's main process and the terminal program each build one
`AgentService` on the shared database. A user call is a function call (through IPC on the
desktop). The service starts a loop as an unawaited promise; the loop calls the model, asks
for approval by registering a resolver in `approvals` and parking, and calls the tools,
which read and write the workspace and store snapshots under the run's id. The multi-agent
driver is the same file's second loop: it calls the coordinator, whose coder and reviewer
turns are tool-use loops of their own. On start-up a process calls
`reconcileInterruptedRuns`. Nothing but the database (and the workspace) is shared between
processes. The renderer holds copies only: it learns of the main process by events and replies
on one ordered channel, and its buttons send a run's id and nothing else. A terminal records
its conversations in session files, which other terminals on the same project may open.

The remaining parts (retrieval, indexing, prompt construction, layout of the user interfaces,
evaluation, learning, plugins and the distributed coordinator) are listed with the
reason they are left out in section 6 and in `PROJECT.json`.

## 2. The modules

| Module | What | Extends |
|---|---|---|
| `RunLifecycle` | the states and edges of a run | |
| `AgentService` | service, loop, approvals, gate; one process that may crash and restart | `RunLifecycle` |
| `PatchSemantics` | what an operation of a patch does to a file | |
| `AtomicEdits` | the abstract specification of editing | `PatchSemantics` |
| `WorkspaceEdits` | patch tool, synchronisation, rollback; implements `AtomicEdits` | `PatchSemantics` |
| `StartupRecovery` | processes on one database, reconciliation at start-up | `RunLifecycle` |
| `Orchestration` | plans, approval, waves, reviews, failures; scheduler and database | |
| `LockManager` | the lock table, its waiter arrays and timers | |
| `ParallelWorkers` | the pool's runners and workers that take locks | `LockManager` |
| `FileScopes` | globs of planned tasks and when two of them may meet | |
| `Planner` | cycle search, topological order, schedule in waves | `FileScopes` |
| `SessionStore` | what is in a session file, what an append may leave, what is read back | |
| `ConversationTree` | the lanes of `/tree` | |
| `SessionBridge` | terminals that record conversations | `SessionStore`, `ConversationTree` |
| `ModelCall` | one streamed request with its timer, retries and stop | |
| `ModelContext` | the messages of a run: requests, folds, saves, follow-ups | `ModelCall` |
| `InstallationGate` | the Docker gate in main and its mirror in the renderer | |
| `RunView` | the renderer's view of runs against main | |
| `MC*` | the constants of the runs | each its module |
| `*_proofs` | theorems | each its module and TLAPS |

### AgentService

*Time.* Node runs one thread. A **task** is a user call or the completion of an I/O
operation; the code after a resolved promise runs to its next await before any other task.
The program counter of a loop is therefore either at an await (`AwaitPCs`), parked at a
question (`ParkedPCs`), or at code still to run (`MicroPCs`), and every task has the guard
`Quiet`: no loop has code left to run. With two runs resolved by one task (a clear), their
continuations run in either order.

*State.* `row[r]` is the run's row: status, exit reason, whether a conversation is stored;
`"deleted"` when it is gone. `mem[r]` has the three maps: `controller` for
`controllers.has(r)`, `approval` for `approvals.has(r)`, `pending` for what the user is asked.
`loop[r]` has the locals of `driveLoop` and `phase3ReactLoop`: `pc`, `aborted` (the signal),
`decision` (a resolved but not yet consumed promise), `call`, `todo` (calls left in the turn),
the budget, the repair streak, `grants`, and the settings read when the loop started.
`consent[r]` is a history variable: what the user said yes to since the call at hand began.

*Actions.* The user's: `RunTask`, `ContinueTask`, `Stop`, `RejectPatch`, `ApplyPatch`,
`Rollback`, `ClearRuns`. The loop's, in the order of the code: `InitDone`/`InitFails`,
`BaselineDone`, the loop's top (stop, budget), `compress`, `model` (text, calls, errors),
then per call `UngatedCall`/`GatedCall`, `Resume`, `Execute`/`RefuseCall`, the tools
(`PatchDone`, `ToolDone`, `SandboxDone`, `ChangesStaged`, `WritebackAnswered`, ...),
verification, and `Teardown`. The environment's: `GateChanges`, `Crash`, `Restart`.
A status write that `RunTransitions` lacks throws (`MaySet`), and the code path that catches
it is part of the action. Writes to a deleted row are swallowed, as `isStaleRunStorageError`
does.

*Abstractions.* A tool call is an identifier (which a model may repeat) and a kind; the
fingerprint of its arguments is the pair. A tool's result is whether it worked. The bodies
of the file system and of the database are in the other modules. `Restart` reconciles all
open rows: what happens when other processes are alive is `StartupRecovery`'s subject.

### PatchSemantics, AtomicEdits, WorkspaceEdits

A file is absent or has a text, and a text is the set of edits it contains: enough to tell
whether a write dropped an edit. A half-written file is one of: as before, a distinguished
torn text, complete. `tx` is the call that is writing: its planned changes, those done, those
to be undone, and where it is (`asked`, `next`, `write`, `undo`). `BeginPatch` is phase A of
`applyPatchTool` (`Evolved`: one evolving state per path for V4A, carried through all operations of
the patch; each section from disk for unified diffs). `Snapshot`, `WriteDone`, `WriteFails`, `UndoFile`, `UndoFails`, `Landed` are
phase B. `BeginSync`, `Answer` and the same write steps are the synchronisation of a
sandboxed command. `Rollback` restores each path from its first snapshot; `RollbackFails` is
a path that cannot be restored, with its compensation. `Crash`, `ClearRuns` and `UserEdit`
come from outside.

`AtomicEdits` says what a user is promised. `WorkspaceEdits` implements it
(`KeepsPromise == Promise!Spec`) under the mapping `ws <- tx.from` while a patch is being
written (the patch has not happened yet) and `ws <- files` otherwise, `base <- origin`. A
crash, a record deleted under a write and a failing repair are *damages*: after one, the
abstract workspace may be anything once, and the counter says so; nothing else may be lost.
A synchronisation is only promised file by file, because the code writes it that way.

### StartupRecovery

`proc[p]` is a process: its phase, its pid and, while it starts, its `candidates`: the open
rows as its first query returned them. `Start` is that query; then per candidate either
`Spare` (own pid, live owner, or no owner and young) or `Recover`, one transaction that reads
the row again and closes it if it is still open; `StartDone` opens the service. A running
process starts, continues, writes, ends and rejects runs and clears the workspace; `Die` may
come at any point. A loop is reduced to what it writes in its row. `audits` counts the
"interrupted" steps of a run; `abandoned` and `found` are history variables.

Two constants name what the code takes for granted: `ReusePids` (a dead process's pid is
given to a new one) and `ContinueElsewhere` (a run is continued by a process that did not
create it). Candidates are taken in any order, the code's order by creation time is one of
them.

### Orchestration

`co[r]` is the coordinator of a run with its scheduler: phase, abort, answer, plan (a function
from nodes to the nodes they depend on), `sched` (status per node), the rest of the current
wave, the node at work, its attempt, whether it was retried. `tasks` is the table of nodes,
keyed by the planner's name for every run of the database, as in the code: that is why a name
can collide (`PlanCollides`) and why an old run's row (`OldRun`) may be there from the
beginning. `parked` and `early` are `planApprovals` and `planDecisions`. Awaits are the phases
`planning`, `approving`, `coding`, `reviewing`, `asking`; what runs between two of them is
`waves`.

The tool-use loops of the roles are single awaits here: what they do is in `AgentService`,
and what matters of a stopped one is that it never ends as done (`~aborted` in `CoderDone`,
`Approved`, `ChangesRequested`). `Plans` are the graphs `validateBreakdown` lets through: every
acyclic graph on a non-empty set of names. The service answers every question to the human
with "cancel"; the package supports "retry" and "skip" as well, and the run takes all three.

### LockManager, ParallelWorkers

The promise an `acquire` returns is the ticket `<<holder, path>>`; `promise` is what the caller
can see of it and `held`, `queue` what the manager knows. A waiter array is a set of holders with
`ahead`, those in front of each, because splices take waiters out of the middle. `Timeout` is the
timer of one waiter, `HandOver` the loop of `release` that skips waiters, `ReleaseAll` what the
end of a holder does, waiters of its own included. `ParallelWorkers` adds `runPool`: runners
(`at`), the shared cursor, the first failure, and items that ask for all their files at once or a
few at a time in any order, edit, and let go of everything on every way out. Nothing in the
application calls the two files yet; the workers are the use their exports are documented for,
and are marked external in the map. A re-entrant acquire is a no-op that the code documents
(`lock-manager.ts:36`), and no worker asks twice.

### FileScopes, Planner

A glob is the sequence of its segments, and a segment a name, `a*`, `*` or `**`. `Matches` is what
the compiled expression accepts, by the position reached in each (`RestMatches`), `PairOverlaps` the heuristic with literal
prefixes, both directions of it. `Planner` runs `detectCycles` (the recursion as a stack: `StartVisit`, `Look`,
`EndVisit`), `topoOrder` (`StartSort`, `Emit`) and `computeSchedule` (`StartPlacing`, `Place`,
`Finish`) on any breakdown a model may return; the order in which arrays list their members is
free. `rank` is a history variable: in what order visits ended. What the search's verdict is measured
against does not know of stacks or colours: `Reach` is the least set of tasks closed under "depends
on", and a task is on a cycle (`OnCycle`) when it reaches itself. The statuses of nodes and the
cascade are in `Orchestration`; the application runs waves with the scheduler's `ready`, not with
`computeSchedule`.

### SessionStore, ConversationTree, SessionBridge

A file is the sequence of its lines and whether the last lacks its newline. `Torn` is what
a crash or an I/O error may leave of an append: nothing, a piece, or a line without newline;
`Isolated` is what opening does about it; `Appended` glues a record to an open tail. Reading skips
malformed lines. `SessionBridge` has the terminals: `Mount` opens the newest session, `Submit` writes the prompt, `Heard` and
`Result` collect an answer in `pending`, which is written before anything that follows it
(`Flush`, `Chain`), `Ended` closes a run, `Branch` and `Resume` change the file after a flush
that may fail (`FlushFails`), `StateChange` appends an event, `Quit` and `Crash` end the process.
Every write can stop after any of its records (`k`). `acked` is what the program had a right to
think is on disk, `exposed` counts torn tails left under a writer that is open. `ConversationTree`
walks messages from newest to oldest and allocates lanes (`Layout`, a recursive function of the
number of rows drawn); `TreeShowsConversation` applies it to the files as crashes and concurrent
writers left them.

### ModelCall, ModelContext

`ModelCall` is one `chat()`: `connecting`, `draining` the body of a refusal, `backoff`,
`streaming`, with the timer up to the headers, three attempts, and the abort signal (`AbortFetch`
in the phases that look at it). The server is a choice at every step; of an answer the number of
tool calls is kept.
`ModelContext` composes it with the loop. The run's transcript is all that was said in it, loop
after loop; it is kept nowhere in the program, so `said` counts it beside the lists the program
keeps, and every message takes its place from that counter, never from the list it is put at the
end of. A message of a list stands for places (`of`): one that was said for its own, a summary for
those it replaced. A message that a save, an exception or a crash leaves out is therefore a gap in
every later list. What the code gives up is a history variable too, `lost`: all that a loop said
after its opening when it throws (the service saves the list it was entered with), and all of it
when the process dies or the last write fails; `began` is where the loop's own places begin.
`TranscriptIsWhole` asks that the gaps of a request are these and no others. `Compressed` is the fold: system
messages, the first user message, a summary, the tail from `TailStart`, which moves over results
whose call would be folded; a summary that fails leaves the list. `LoopTop`, `NextCall`,
`AfterCall` are the code between two awaits; the awaits are `StartTask`, `Continue`,
`BaselineTaken`, `SummaryArrives`, the request, `Approve`/`Refuse`, `ToolReturns`,
`VerifyReturns`. `Finish` saves the conversation, `Continue` loads it; `LoopThrows` may end any
await after the loop's start, before or after the message the callback was about. Statuses
and approvals are `AgentService`'s.

### InstallationGate

A probe is two commands (`VersionAnswers`, `InfoAnswers`) that see Docker at different moments;
up to three are in flight: the one at start-up, a recheck, a poll of `startDocker`. `ProbeLands`
and `PollLands` are the continuations, which store, broadcast and answer in one go. `Persist`
swallows a failed write that leaves the old file or a truncated one; `CrashWriting` cuts one
short. `requests` and `pipe` are the two ordered directions of IPC; the renderer reads once and
then subscribes (`Mount`), applies what it receives and enables its buttons by what it shows
(`Offered`). `believed` is the choice the user has reason to rely on, `lost` whether its last
write failed.

### RunView

`run[r]` is what main has: status, steps, patch, streamed text. The agent's loop is reduced to
what it emits (`Stream`, `Commit`, `CommitNothing` for a turn of calls alone, `Work`, `Park`,
`End`); `text` is text that is not blank, for `onAssistant` makes no message step of blank text.
`down` is the ordered channel of events
and replies, `up` the requests. A reply carries the snapshot made when main answered. The
renderer's handlers are `OnEvent` (reducer, list, live text in the order of `App.tsx`),
`OnStarted`, `OnDetail` and `OnRefusal`, its buttons `SelectRun`, `NewRun`, `Submit`, `Apply`,
`Reject`, `Stop`. `slipped` is a history variable: one of two races of section 5 has happened
since the run was opened.

## 3. The runs

| Run | Question | Properties |
|---|---|---|
| `service_one` | may one run, under every setting, change something without consent, lose a question or go on after a stop? | `ConsentBeforeMutation`, `ParkedIsAnswerable`, `NoToolAfterStop`, `ApprovalAnswersLoop` |
| `service_two` | do two runs that are cleared, stopped, crashed and continued stay true to their rows and maps, and end? | `ControllerIffLive`, `RecordIsTrue`, `NothingLeftBehind`, `StopTerminates`, `LoopSettles` |
| `edits` | is a patch landed whole or not at all, and can a run always be rolled back? | `Recoverable`, `AllOrNothing`, the refinement `KeepsPromise` |
| `recovery` | do processes that start together close the abandoned runs once, and no live one? | `MarkedOnce`, `StartClosesAbandoned`, `DrivenRunsAreSpared` |
| `orchestration` | do plans run in order, end settled, and does the database agree? | `DependenciesFirst`, `StoreMirrorsScheduler`, `NoOrphanNodes`, `EndedPlanIsSettled`, `RunsSettle` |
| `workers` | do locks exclude, keep arrival order and forget nobody, and does the pool settle? | `OneEditor`, `NoLostWakeup`, `ArrivalOrder`, `PoolSettles` |
| `planner` | are cycle search, order, schedule and scope test right on every small graph? | `CycleVerdict`, `OrderIsTopological`, `WavesAreSafe`, `ScopesKeepApart` |
| `sessions` | what can crashes, disk errors and a second terminal take from a conversation? | `LossIsBounded`, `ChainUnbroken`, `TreeShowsConversation` |
| `context` | does every request stand for all that was said, however earlier loops ended, is it acceptable, and does no loop hang? | `TranscriptIsWhole`, `RequestsAreAnswerable`, `LoopNeverHangs` |
| `context_feedback` | the same when a model goes on after a patch | `RequestsAreAnswerable`, **violated**: section 5 |
| `gate` | does the renderer show the gate, is the choice kept, does a start end? | `MirrorCatchesUp`, `ChoiceIsKept`, `StartSettles` |
| `renderer` | does the renderer show what main has once nothing is in flight? | `LiveTextIsUncommitted`, `ShownIsCurrent`, `ListIsCurrent` |

All but `context_feedback` hold. The modules' `TypeOK` is not among the runs' properties: where a
module has theorems it is one of them (in `WorkspaceEdits_proofs`, and for `RunView`, the types
are a part of the invariants instead), and elsewhere it states the types for a reader. Every property has a mutant: a
definition changed the way a bug would (`...Late`, `...Keeps...`, `...Unchecked`), which stands
beside the definition in its module.

### Bounds, and why they are enough

- `AgentService`: the loop's history is forgotten from one iteration to the next but for the
  budget, the conversation and the repair streak, so two iterations, two calls in a turn and a
  repair cap of one reach every pair of steps that can follow each other. Two call identifiers
  distinguish a grant that is used from one that is stale, and a repeated identifier from a new
  one. `service_one` has all kinds of calls but memory writes, which take the same path as
  plugin calls. Two runs interact through `clearRuns`, the installation gate and the process
  only; `service_two` has commands on the host, one iteration and one call per turn for that reason.
- `WorkspaceEdits`: two files, one of them there; two calls, so that the second meets the
  first's snapshots; every V4A patch of one or two operations and every unified one that names each file once; one edit of
  the user between calls; one damage. A third file adds no new relation between a file that is
  written and one that is not.
- `StartupRecovery`: three processes are needed (a creator, one that starts while another
  starts), two runs for the order of candidates, three pids so that none is reused. Runs,
  processes and pids are interchangeable and the run is symmetric in them.
- `Orchestration`: every acyclic graph of up to three nodes (chains, forks, joins), one change
  request per review loop, one node cancelled by hand. One run, because nodes are shared by name:
  what two runs do to each other there is section 5's, and `NoOrphanNodes`, the property that
  should survive it, is proved for any number.
- `ParallelWorkers`: four items on three runners (one has to wait for a runner), two files and
  items that need one or both, so that three can wait in one array and two can wait on each other;
  a limit above `MaxWorkers`, so that it is clamped.
- `Planner`: every graph of three tasks, self-loops and unknown ids included, so every shape of
  two overlapping cycles; at most two tasks together, so that a wave fills. The scope test is
  checked on every pair of globs of up to three segments against every file of up to three.
- `SessionBridge`: two terminals and two files (a conversation and its branch, or two writers on
  one), two tasks, one state event, one fault, five records. With one fault a torn tail meets an
  append of either terminal; more faults repeat the pattern, which `LossIsBounded` counts. The second link that one torn tail can
  break (finding 13) needs seven records: there the run stops short, and the theorem does not.
- `ModelContext`: an answer of up to two calls, a verbatim tail of two and folds at any loop top,
  so that the tail can begin at a result, at a call, or cover the list; two turns of three loops, so
  that a conversation is saved, loaded and folded again, and what a crash takes from the second loop,
  with the first one saved, is missing from a request of the third; one verified patch before the cap;
  three attempts as in the code. A follow-up is made of at most eight messages said (`MaxSaid`): a loop
  with an answer of two calls, their results, the verifier's feedback and a final answer has seven.
- `InstallationGate`: two polls (one that is not the last), one change of Docker, three calls,
  one fault and three messages in flight: two probes overlap with a start and a choice. The
  safety properties are proved without the bounds.
- `RunView`: two runs (the one shown and the other), four steps, two patches (a stale and a
  current one), four clicks, four messages in flight.

`CHECK_DEADLOCK FALSE` stands where the system may stop: calls, processes, runs and bounded
histories are consumed and not renewed. `AgentService` and `Planner` check deadlock.

### Fairness

- `AgentService!FairSpec`: strong fairness of each run's `LoopStep`. Every await of a loop is
  an I/O operation with a limit: commands end at `TOOL_LIMITS.commandTimeoutMs`, model calls
  at the timeout of `llm/src/http.ts`, file and database operations complete. The event loop
  serves completions in turn. Strong, because a step of one loop can be disabled for a moment
  by another that has code left to run. The user owes nothing: a parked loop waits for ever,
  and the liveness properties allow for it.
- `Orchestration!FairSpec`: strong fairness of each run's `Advance`: each role's turn ends,
  with a result or an exception. Nothing says which: a reviewer may ask for changes as often
  as it is allowed to.
- `ParallelWorkers!Spec`: weak fairness of each item's own code (`Ask`, `Finish`, `GiveUp`), of
  each timer, of the continuations and of the settling. A grant is owed by nobody: that the pool
  settles follows from the time-outs.
- `ModelContext!FairSpec`: weak fairness of the loop's own awaits, of the client's own steps (the
  timer before the headers, the back-off), and of `StreamStops`: a body that began ends or breaks,
  if need be by the HTTP client's timer for bodies. Of the server before its headers nothing is
  assumed. A stop answers a pending approval (`aborted /\ Refuse`); the user need not.
- `InstallationGate!Spec`: weak fairness of the probes' commands (each has a timeout), of the
  launch, of the poll timer and of delivery to the renderer. The user and Docker owe nothing.
- The other modules state no liveness.

## 4. The proofs

All theorems are about the specification of the module itself (`Spec`; `ViewSpec` for RunView, `SessionSpec` for
SessionBridge), for every value of its constants; the
assumptions on constants are named in the modules and TLC evaluates them.

| Module | Theorem | Property |
|---|---|---|
| `AgentService_proofs` | `TypeCorrect`, `NoRunIsOrphaned`, `ApprovalsAreAwaited` | `TypeOK`, `NoOrphanRun`, `ApprovalIsAwaited` |
| | `ControllersTellLiveRuns`, `MapsAreCleared` | `ControllerIffLive`, `NothingLeftBehind` |
| | `MutationsAreConsented` | `ConsentBeforeMutation` |
| | `RecordsAreTrue` | `RecordIsTrue` (host commands, `~RollbackWhenLive`) |
| | `QuestionsAreOpen`, `AnswersArrive`, `StoppedLoopsStartNothing` | `ParkedIsAnswerable`, `ApprovalAnswersLoop`, `NoToolAfterStop` (`~RollbackWhenLive`) |
| `WorkspaceEdits_proofs` | `RunsAreRecoverable` | `Recoverable` (`"asked" \notin UserEditsAt`) |
| | `PatchesAreAtomic` | `AllOrNothing` (`PatchesAreTidy`) |
| | `ToolsKeepPromise` | the refinement `KeepsPromise` (`PatchesAreTidy`, `"asked" \notin UserEditsAt`) |
| `Persistence_proofs` | `TypeCorrect`, `LiveRunsAreSpared`, `InterruptedOnce`, `AbandonedRunsAreClosed` | `TypeOK`, `DrivenRunsAreSpared`, `MarkedOnce`, `StartClosesAbandoned` of StartupRecovery |
| | `SessionsSound`, `SessionTypes` | the invariant `SessionInv` and `SessionTypeOK` of SessionBridge |
| | `LossBounded`, `ChainsHold` | `LossIsBounded`, `ChainUnbroken` |
| | `TreeIsDrawn` | `TreeShowsConversation` (`~SharedTick`) |
| `Orchestration_proofs` | `TypeCorrect`, `NodesAreInOrder`, `NoNodeIsOrphaned` | `TypeOK`, `DependenciesFirst`, `NoOrphanNodes` |
| | `StoreFollowsScheduler`, `EndsSettled` | `StoreMirrorsScheduler`, `EndedPlanIsSettled` (as long as `[]NamesApart`) |
| | `StoreFollowsOneRun`, `OneRunEndsSettled` | the same two for one run, without a condition |
| `ParallelWorkers_proofs` | `MutualExclusion`, `WaitersAreSeen`, `FirstComeFirstServed`, `PoolEndsClean`, `Typing` | `OneEditor`, `NoLostWakeup`, `ArrivalOrder`, `CleanEnd`, `TypeOK` |
| `Planner_proofs` | `TopologicalOrder`, `SafeWaves`, `CyclesAreFound`, `Typing` | `OrderIsTopological`, `WavesAreSafe`, `CycleVerdict`, `TypeOK` |
| | `SharedFileOverlaps`, `ScopesApart` | what `scopesOverlap` promises, for globs of any length; `ScopesKeepApart` |
| `ModelContext_proofs` | `Whole`, `Answerable`, `Typing` | `TranscriptIsWhole`, `RequestsAreAnswerable` (`PatchesLast`), `TypeOK` |
| `Desktop_proofs` | `MirrorIsCurrent`, `ChoicesAreKept`, `TypeCorrect` | `MirrorCatchesUp`, `ChoiceIsKept`, `TypeOK` of InstallationGate |
| | `LiveTextIsRight`, `ListIsRight`, `ShownIsRight` | `LiveTextIsUncommitted`, `ListIsCurrent`, `ShownIsCurrent` of RunView |

**AgentService.** The interesting parts of `TypeOK` are that the iteration counter never passes its
limit and the repair streak stops just above its cap.
Four theorems follow from one inductive invariant, `MapsInv`. None of the four is inductive alone:
that a run is not orphaned needs the controller to tell `continueTask` the truth; that the
controller is removed needs the loop to come by `Teardown`; that `Teardown` leaves nothing needs
that nothing was pending when the loop started and that an approval is registered only while the
loop is parked. `SettledRun` states for one run how row, maps and program counter support each
other, and the proof has one step for every action.
`MutationsAreConsented` follows the user's answer from the click to the tool: a parked loop whose
decision is yes has consent for the call it parked on; a loop at `exec` has consent or its call
needs no approval; the gate cannot change between the two because they run in one task; and a
tool that is running was entered from there (`ConsentInv`).
`RecordsAreTrue` rests on `HostRun`: the status "waiting" means that the loop is parked with its
approval registered, or that its refusal is on the way, or that it is about to tear down, so
a reject that finds "waiting" never closes the row of a loop that goes on. With sandboxed commands
that is false (section 5).
`AnswerInv` carries the last three: a parked undecided loop with a row has its approval, the
waiting status and the question, hence the status write of `applyPatch` is never refused; and a
loop at `exec` is not aborted, because the code from an answer, or from the model, to the tool
looks at the signal once and runs in one task.

**WorkspaceEdits.** `Recoverable` is not inductive. `Secured` adds: a file without a snapshot is as
the run found it; a plan knows such a file as it is (`Fresh`), which is why the user must not edit
while a write-back is asked; what is, was or is about to be written or repaired has a snapshot;
and a snapshot is only of a file that was touched or is about to be, so no later edit of the user
moves what "as found" means.
`PatchesAreAtomic` and `ToolsKeepPromise` are about what a patch of any length computes. The planner
keeps one state per path and the promise is one patch of the whole workspace; both are recursive
functions over the operations. `PathsTogether` says that they agree after every prefix, in what they
compute and in whether they refuse; `SectionsTogether` says the same of a unified diff. The library's induction is
not used: of the set of lengths at which the two disagree one takes the least. `PlanMakes` sums it
up: writing the planned changes over the files as they were is the patch. `EditInv` follows the
write: what is on disk is the workspace the call began with, under the changes done so far
(`PartWritten`), or under those not yet undone (`PartUndone`); what is still to be written is as
it was. So every way out ends with all of the plan or none of it. The assumption `PatchesAreTidy` (the
sections of a unified diff name different files and delete none) is finding 5: without it TLC finds
the dropped section.
The refinement maps `ws` to `tx.from` while a call writes. Each step of the tools is one lemma:
it lands the patch, or changes one synchronised file, or is a rollback or a counted damage,
or leaves what the user sees (`Seen`) alone. The rollback's lemma needs `Recoverable`, hence its
assumption about the user's edits.

**StartupRecovery** (`TypeCorrect` from `ConstantsAssumption`; the others assume
`~ReusePids` and `~ContinueElsewhere`, the two things the code takes for granted).
`PidInv`: a pid names one process for ever. `OwnerInv`: a driven run is owned by the pid of the
process that drives it; the owner a start-up read is still the row's, because it is written at
creation only. From these `LiveRunsAreSpared` (an action property).
`InterruptedOnce` needs more: an open run that nobody drives has *fewer* marks than
abandonments (`MarkedRun`), so the transaction that re-reads the row has a mark left to give.
`AbandonedRunsAreClosed`: a run found with a dead owner stays a candidate until it is closed, no
step spares it, and nobody reopens it (`FoundRun`).

**SessionBridge.** The invariant `Sound` is stated of any files `D`, writers `W`, acknowledged ids
`A`, clock and count of exposed tails, not of the variables. An action is then a composition of
four things that keep it, each one lemma: a record is appended, an append is torn, a file is created, a
writer is opened or closed; so the many ways in which `Submit` or `Branch` can stop half-way are
prefixes of one composition. Its parts: a file of which any line has its newline (`Whole`)
begins with its header, which is older than its messages; no message is there twice (`IdsApart`);
parents are older than their children; every writer stands in a file that reads back, at a
message that does.
The last one is not quite true, and the bounds of `LossIsBounded` and `ChainUnbroken` say by how much. `Balanced`
does the accounting: each lost record has left a scar (a malformed line) of its own; a
tail torn under an open writer (`Raw`) has a loss still to come; and what is lost with what is still
to come is at most `exposed`. Of the ids that are continued from and not there (`Dangling`) the same
holds with twice the count, since an exposed tail can break the link to the torn record and the
link to the record glued to it. One link for each tail would not do: the step that glues does not keep it, and TLC
shows why with two records more than the run has (finding 13).
`TreeIsDrawn` is about `Layout` for any set of messages whose parents are older (`Conversation`), which
`SessionInv` shows of the files. The rows are the messages by rank (`Ordered` inverts it), the
recursive function exists (of the lengths for which it does not one takes the least), and `Joined`
is its invariant row by row: the parent of a drawn message is waited for in that message's lane or has
been drawn and folded it in, and no lane waits for what was drawn. `~SharedTick` gives that a parent comes
after its children; without it the property is false (finding 12).

**Orchestration.** `NodesInOrder` talks of direct dependencies only: what runs, has succeeded or is
in the wave has only succeeded nodes right before it. To be kept it needs that no success is taken
back, hence that the wave holds no succeeded node and that the node at work is a running one outside
the wave. That the order holds at any distance then follows without induction: `Dependents` is the
least set closed under "depends on", and the nodes that have not started, or started after `d` had
succeeded, are such a set (`OrderAtAnyDistance`). `OrphanInv`: whoever may still store nodes has a
row, because a clear aborts before it deletes.
`MirrorInv`: the table's row of a node of a stored plan says what the scheduler says, except where one
is known to be ahead of the other: a parked or rejected plan, the failure of a node before its
cascade is written. To keep it no other coordinator may write a row of the same name (`OwnInv`), and there
the code has a gap (finding 9): the coordinator of a cleared run goes on, and the next run's planner may
use its names. `NamesApart` says that this does not happen at this moment, and the
theorems are about behaviours in which it never does; with one run it follows from the types.
`EndsSettled` needs that a loop which finds nothing ready has nothing left: of the unsettled nodes of an
acyclic plan one depends on no other unsettled node, so it was ready, or a failed dependency's cascade
had settled it (`SettleInv`).

**ParallelWorkers.** `Agree` ties the three views of a lock together (table, arrays, promises),
`Alive` says that only a worker that runs holds or waits, and `Pool` that every such worker is
awaited by exactly one runner and every failure is noted or about to be.

**Planner.** The search numbers tasks by the end of their visits; while no cycle is found, a black
task's dependencies are black with smaller numbers. Were tasks left out of the order, the one
among them with the smallest number would have had all its dependencies out (`Search`, `Sorted`);
that replaces the induction over the graph. `Scheduled` then rests on the order. `CyclesAreFound` has two
halves. What the search reports is on a cycle: the stack is a path, what it leads to reaches its top, and
an edge back into the stack closes a cycle. What has a cycle is reported: a set of ranked tasks
whose dependencies all have smaller ranks is closed, and no task in it reaches itself. Both
are arguments about closed sets, because `Reach` is a least one.
`SharedFileOverlaps` needs no case of the heuristic but the nested prefixes: by induction over the
position (the set of positions reached has no least gap) a file begins with the literal prefix of every
glob it matches, so of two prefixes of one file one begins the other.

**ModelContext.** What must be shown about one list of messages is shown first: adding to a `Sound`
list and folding its middle keep it `Sound`; `Open` says that the results of an answer can
still be added. `Sound` names the places the list stands for, and the invariant says which: while a
loop runs its list owes everything said and not lost, what it was entered with owes that up to its
opening, and what is saved owes what earlier loops left (`LoopOK`). So the end of a loop saves a list
that owes no less, and a throw or a crash, which goes back to an older list, moves exactly that
difference into `lost`: `lost` is below `began` while a loop runs, so it is never a message of another
loop. The proof has one step for every action, on the lists that `Finish`, `Request` and `NextCall` leave.

**InstallationGate.** `MirrorInv`: whatever changes what main would answer puts the new answer at the
end of the pipe in the same step (`Newest`), so the last message in flight, or else the mirror, is
current. `ChoiceInv`: the file holds the choice unless its last write failed.

**RunView** (in the same proof module; the two desktop components share no variable). The properties
speak of moments when nothing is in flight, so the invariants say what the messages in flight will do.
`Will` reads the pipe from its front: it turns the text and the status shown of a run into those of
main (`LineInv`). A handler that emits extends the pipe by what it did; the renderer that takes a message
moves one step of the reading from the pipe to the screen; a run that is not busy has no
uncommitted text, hence a reply that comes late takes none away.
The detail is harder, because a reply overwrites it. `Trail` is the sequence of details that the
messages behind a place make of the one found there, and a detail `Leads` to a row if its
trail ends in what the row says. `ShownInv` says: every reply in the pipe leads to main's row
(`RepliesLead`); every request is accounted for once, on its way up, answered on its way down, or as
a run being launched (`Counted`); and the detail shown leads to the active row, or a request that
selects the active run is still owed an answer and nothing behind it is about another run
(`InHand`). The last part fails in the races of findings 18 and 19. The model records them in
`slipped`, which opening the run afresh clears; `ShownIsRight` is about the other states.

*Only model-checked.* Liveness under fairness (`StopTerminates`, `LoopSettles`, `RunsSettle`,
`PoolSettles`, `LoopNeverHangs`, `StartSettles`) is out of the prover's reach, as is anything about
ENABLED. Of the safety properties the runs check, all are proved, some under the conditions the table
names; what happens without them is in section 5.

## 5. Findings

**Checked as a violation: `context_feedback`.** With `PatchesLast = FALSE` a model makes another call
after a patch in the same answer. The loop verifies after the patch and pushes its feedback, or the
notice that the repair cap is reached, as a user message between the results of one answer
(`react.ts:206`, `:194`). The compressor quotes what providers enforce: results follow the message
that called. TLC finds the request that breaks it.

The others are reproduced by changing a constant, or are stated in the module by a history variable.

*Agent service* (`MCAgentService`)
1. Stop during the diff of a sandboxed command: `runCommandWithPolicy` does not look at the signal
   after the runner returned (`run-command-routed.ts:222`), so a stopped loop asks and parks, though
   `react.ts:16` says the signal is checked at every boundary. Take `EverySetting` and one
   run in `AgentService_two.cfg` and `StopTerminates` fails. A second reject at that question closes the row
   of a live loop, hence `RecordIsTrue` is for host commands.
2. The second gated patch of a turn: the status stays `applying_patch`, the edge to waiting is missing,
   and `awaitApproval` throws (`service.ts:1483`); the run fails without a question, though `react.ts:10`
   and `:38` say each call is gated and the loop never throws.
3. A rollback of a parked run (`RollbackWhenLive = TRUE`; the desktop shows the button for finished runs
   only) takes the status away, then `applyPatch` deletes the approval and throws (`service.ts:807`).
4. A reject of a run that is done moves it to cancelled and keeps the reason `done` (`service.ts:586`).

*Edits* (`MCWorkspaceEdits`)
5. Two sections for one file in a unified diff: the second is computed from the file without the first
   and its write drops it (`apply-patch.ts:124`, `:141`), though `:34` says all or none. `UnifiedPatches` for
   `Patches`, and `AllOrNothing` fails.
6. The changes of a sandboxed command are snapshotted as they were at the diff, before the question
   (`run-command-routed.ts:264`); what the user wrote to a file meanwhile is overwritten and in no
   snapshot, though `:242` says rollback can undo it. `UserEditsAt = {"idle", "asked"}`, and `Recoverable`
   fails.
7. A direct command stores its snapshots under the run `adhoc`, which has no row (`service.ts:619`).

*Recovery* (`MCStartupRecovery`)
8. `owner_pid` is written by `createRun` only: a run continued in a second process is closed as
   interrupted by a third once its creator is gone (`storage.ts:583`), though `:521` says only runs
   of dead processes are. `ContinueElsewhere = TRUE`. A reused pid spares an abandoned run: `ReusePids`.

*Orchestration* (`MCOrchestration`)
9. The coordinator of a cleared run goes on writing nodes by name (`coordinator.ts:201`,
   `storage.ts:1016`) and may write those of the next run; `service.ts:497` says runs are aborted first
   so that they do not. Two runs and one name, and
   `StoreMirrorsScheduler` fails; `NamesApart` is the condition under which it is proved.
10. A node's id is the planner's and the table's key: a second run with the same names fails
   (`storage.ts:959`). A rejected plan leaves its nodes pending. A stop during planning is recorded as
   failed (`service.ts:1232`). An answer that comes before the plan is kept and answers the plan unseen
   (`:872`). The task tree's cancel writes the database only (`task-ipc.ts:39`). `bus.send` is outside the
   try (`coordinator.ts:120`).

*Planner*
11. `dependency-graph.ts:105` says all participants of cycles are reported; of overlapping cycles some
   are not. `CycleVerdict` states what does hold: what is reported is on a cycle, and something is
   reported whenever there is one. Tasks without a `filesScope` never conflict.

*Sessions* (`MCSessionBridge`)
12. `SharedTick = TRUE`: two messages of one millisecond are ordered by id, a parent may come
   before its child, and the child's lane waits for ever (`tree.ts:87`); `tree.ts:9` says how it should look.
13. A failed flush in `/branch` or `/resume` keeps the writer on a file whose tail is torn; its next
   record is glued to it. Two terminals may do this to each other. `exposed` counts both. If the torn
    record was whole but for its newline, `/tree` still shows it, and a session branched from it
    meanwhile loses its parent too: one tail breaks two links. Take `MaxClock = 7`, `MaxEvents = 0` and
    `<= exposed` in `ChainUnbroken`, and it fails.

*Model calls and context* (`MCModelContext`)
14. A stop or a refusal in the middle of an answer's calls saves a conversation with calls that have
   no result (`service.ts:1025`); a follow-up sends it. The property asks only that results have calls.
15. A body that stays open and silent hangs the loop: neither the timer nor the stop reaches it after
   the headers. Drop `WF_vars(RequestStep(StreamStops))` and `LoopNeverHangs` fails.
16. A body cut without an error is taken as complete (`finish` defaults to "stop"). A loop that throws
   saves the messages it was entered with. A crash loses the conversation, not the edits. Both lose
   what that loop said, and by `TranscriptIsWhole` nothing more. The
   `compressionRatio` given to `transform` is ignored by a fixed 0.6.

*Installation gate*
17. A failed write of `resume` brings the skip back at the next start (`installation-gate.ts:290` calls it
   acceptable). Probes that overlap may land out of order: an older one then stays until the next.
   No part of the user interface calls `resume`.

*Renderer* (`MCRunView`; the first two set `slipped`)
18. The reply to a new task that lands while another run is being fetched leaves the new run active and
   the other's detail shown, for good.
19. The snapshot in the reply to an approval can be overtaken by the approved tool's step, which is then
   dropped (`ipc.ts:110`); `App.tsx:217` says steps are not lost.
20. One `busy` flag is cleared by any answer; `isRunActive` leaves out the waiting status, so that
   a waiting run has no Stop button; a patch that is no longer pending may still be offered, and a second
   click approves the next one unseen (`App.tsx:374`, `service.ts:782`); `agent-detail.ts:7` says a
   detail is seeded when there is none, which does not happen; runs of another workspace enter the list.

## 6. What is not modelled

- *Storage errors* other than a missing row or a colliding key: SQLite calls are synchronous and
  local; busy errors at start-up are covered by `Die`. *Migrations*: a sequence of idempotent statements;
  an interruption between two of them is not checked.
- *Texts*: prompts, wording of summaries, diffs' hunk matching (an edit applies or does not), warnings,
  messages between roles, the drawing of rows.
- *In the service*: the choice of verify commands; single commands outside a run (`adhoc`).
- *In WorkspaceEdits*: rollback while a call is writing, the user's edits during a write, path
  checks, the after-image of snapshots (it only words a warning).
- *In StartupRecovery*: rollback from another process, the steps of a loop between row writes.
- *In Orchestration*: edits of a node in the task tree, storage failures of the message bus.
- *In SessionBridge*: the screen's reducer, its approval modal and the polling of an ended run.
- *In RunView*: roll back, clear, the switch of workspaces, the cap of one megabyte on live text.
- *Distributed coordinator*: unreachable; the desktop's cluster calls answer that it is unavailable
  (`cluster-ipc.ts:8`) and there is no transport to take faults from.
- *Fine-tuning, proposals, plugins*: bookkeeping by single synchronous updates. Seen while reading: an
  interrupted training job stays in training for ever (`finetune-runner.ts:90`); a proposal converted twice
  during the awaited start makes two runs, and a crash between start and conversion leaves it open;
  a plugin setting is not checked again during a run.
- *Retrieval, indexing, git and web tools, command router, process sandbox, learning, style, global
  memory, evaluation, VS Code extension*: one pass over data, operating-system behaviour, or forwarding.
  `PROJECT.json` has the reason for each.
- The map covers about a tenth of the lines. Most of the rest are components and styles of the
  user interfaces (some fifteen thousand lines), validators, tables of texts, prompts, and the packages
  above.
- Run identifiers are assumed unique (they are UUIDs).

## 7. Plan

Order: what can lose a user's work or act without consent first.

1. `RunLifecycle`, `AgentService`: *done*; every safety property of its runs is proved.
2. `PatchSemantics`, `AtomicEdits`, `WorkspaceEdits`: *done*; `Recoverable`, `AllOrNothing` and the
   refinement proved for tidy patches of any length.
3. `StartupRecovery`: *done*, all proved under its two assumptions.
4. `Orchestration`, `Planner`: *done*; all safety proved.
5. `LockManager`, `ParallelWorkers`: *done*, all safety proved.
6. `SessionStore`, `ConversationTree`, `SessionBridge`: *done*, all safety proved. Left: a growing tree as
   their abstract specification.
7. `ModelCall`, `ModelContext`: *done*, safety proved for patches that come last.
8. `InstallationGate`: *done*, `RunView`: *done*, all safety proved. Left: roll back, clear and the switch of
   workspaces in the renderer.
9. Left: migrations interrupted between statements, with the foreign keys of `adhoc` snapshots; the plugin
   host's invocation; the screen reducer of the terminal.

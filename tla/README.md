# Specifications of siko

siko keeps a board of coding tasks and runs each of them through a recursive
engine that asks LLM agents to specify, plan, execute, combine and verify work.
This directory holds TLA+ modules translated from the source, TLC
configurations that check them on small instances, and TLAPS proofs.

    tlc -config TaskBoard_safety.cfg MCTaskBoard.tla      (and so on, see "Runs")
    tlapm TaskBoardProofs.tla                             (likewise the other ...Proofs)

`PROJECT.json` lists for every definition the lines it models, the runs, the
faults each property is known to notice, the hazards and the theorems.

## The system

A user talks to a **daemon** over a Unix socket; the daemon owns one **assistant
session**, one **task store** (`tasks.json`) and one **agent run scheduler**,
each behind a tokio mutex. The session owns the **task board**, which spawns one
tokio task per running job; that task owns an **engine** and the workspace the
job works in. Engine and assistant reach agents through the shared scheduler,
which starts one **agent host** process (TypeScript) and talks JSON lines with
it; the host runs agents through the **agent loop** library and its adapters.
The command line, the terminal UI and the ACP proxy are clients of the daemon or
readers of `tasks.json`.

| component | state | operations | interacts by | what is hard | what makes it correct |
|---|---|---|---|---|---|
| task board (`task_board/board.rs`) | queue, running map with tokens, event channel | enqueue, drain, start_ready, cancel, spawn | channel from spawned futures, calls from the session, writes to the store | cancels racing results, panics, slots given back once | slots accounted, no task stuck, outcomes final, cancelled queue entries never run |
| task store (`task_board/store.rs`) | tasks in memory, the file, last write error | create, set status, record, persist, open and recover | called under the store mutex | failing writes, a crash between writes | a restart keeps what was written and fails what was interrupted |
| task views and logs (`task_board/view.rs`) | none; cursors are the reader's | inspect from a cursor, timeline, newest first | readers of store and file | a log that grows, or is lost, between two polls | nothing missed, nothing twice, the end told last |
| assistant session (`interface/assistant/session.rs`) | board, focus task, conversation | messages, turns, cancel, drain | holds the board; asks the scheduler | a turn holds its mutex across an agent run | a task runs with the root it was asked for |
| daemon (`interface/daemon.rs`) | socket, mutexes, timer | send, turn, cancel, view, shutdown | one tokio task per connection | lock waits, two daemons, exit at once | every request answered, what was told stays on file |
| engine (`task_run/engine.rs`) | node tree, candidate and accepted artifacts, memo table, resources | resolve: specify, plan, execute, combine, verify, retry, commit; branches and their merge | agents and workspaces; `JoinSet` of branches | branches interleave, fail, are aborted; retries; reuse; renumbering | only checked work within scope is accepted, complete groups combined, questions reported, ids keep their meaning, the run ends |
| agent contract (`task_run/harness.rs`, `tools.rs`, `governance.rs`) | none | request an operation, decode its terminal call | engine to scheduler | agents that answer with the wrong tool or garbled arguments | only a clean verdict accepts, scopes narrow |
| workspace resources (`task_run/resources.rs`) | references and state of worktrees and branches | track, retain, release, clean up, drop guard | engine, workspace providers | cleanup that fails, dropped branches | released once, in an order git allows, nothing leaks from a report |
| workspace providers (`workspace/`) | memory, directory, git worktree | open, capture, merge, clean up, path checks | called by the engine | globs, partly failing git commands | no write outside the scope |
| cancellation token (`agent_run/run.rs`) | flag, waiters | cancel, is_cancelled, cancelled | shared by all of the above | a wakeup between check and wait | no cancel is missed |
| agent run scheduler (`agent_run/run_scheduler.rs`) | child, transport, socket directory | run, terminate, shutdown | mutex, socket lines | dropped futures, death of the host, cancel during a read | own answers only, failures have causes, every run ends |
| agent host (`packages/agent-host`) | one promise chain per connection | run, shutdown | socket lines, worker | chunks, garbage, a worker that hangs | lines answered in order |
| agent loop (`packages/agent-loop`) | run handle, event streams, adapters | start, steer, cancel, clean up, subscribe | async iterators, promises | steer and cancel during start, late settlement | every run settles once, events replay in order, no backend works on afterwards |
| task inspect, terminal UI, ACP (`interface/cli`, `interface/assistant/acp.rs`) | a cursor, a selection, a line in progress | poll, select, prompt, cancel, task/events | lines, daemon connections, `tasks.json` | polls between writes, restarts, notifications | answers in order, selection and timeline true |
| configuration, metrics, macros, evaluation | none that others depend on | parsing, counting, code generation | - | - | - |

The hazards of this code, each at its line, are in `PROJECT.json`; a hazard
without a property says why.

## Modules

| module | models | uses |
|---|---|---|
| `TaskLifecycle` | abstract: what the board promises a user: one status and at most one slot per task | |
| `TaskBoard` | board, store, the session operations that drive them, spawned futures, crashes | implements `TaskLifecycle` |
| `TaskBoardProofs` | the inductive invariant of `TaskBoard`, its safety properties, the refinement | `TaskBoard` |
| `Engine` | control of one engine run with all its branches | |
| `EngineProofs` | its inductive invariant, safety of accepted work, groups, reports, cancels | `Engine` |
| `Planning` | data of one engine run: requests, answers, ids, artifacts, renumbering, scopes | `Harness`, `WriteScope` |
| `PlanningProofs` | its inductive invariant, the join of branches, ids, clean verdicts and scopes | `Planning` |
| `Harness` | what an operation's agent is asked with and what its terminal call is taken for | |
| `WriteScope` | the glob matcher and the narrowing rule for scopes of children | |
| `Workspaces` | surfaces, resources and git under an engine run | |
| `WorkspacesProofs` | registry, candidates, cleanup and failures for every tree of nodes | `Workspaces` |
| `AgentRunScheduler` | the shared scheduler, the token it waits on, the host process, the lines between them | |
| `AgentRunSchedulerProofs` | its inductive invariant, mutual exclusion, own answers, wakeups | `AgentRunScheduler` |
| `RunHandle` | one run of the agent loop, over each adapter | |
| `RunHandleProofs` | its inductive invariant, what viewers and results say | `RunHandle` |
| `Daemon` | daemon processes, socket, mutexes, requests and clients | |
| `DaemonProofs` | its inductive invariant, roots, answers and the file | `Daemon` |
| `TaskLog` | the writes of a task's log and the views on it | |
| `Interface` | the readers: task inspect, terminal UI, ACP proxy, embedded ACP server | `TaskLog` |
| `InterfaceProofs` | its inductive invariant, what readers have, hear and are shown | `Interface` |
| `MC...` | the instances TLC checks | |

The board appears three times, each time at the grain its question needs.
`TaskBoard` has one step per store call and proves the accounting; `TaskLog`
keeps the entries of the log and one step per file write, for the readers;
`Daemon` takes a whole session call as one step, for it is made under both
mutexes, and keeps who holds what. The engine appears three times as well:
`Engine` has the control under ids that never change, `Planning` the data and
the renumbering without cancels, `Workspaces` the resources over a given tree.

### TaskBoard

`store`, `disk` and `persistErr` are `FileTaskStore` (the map, the last file
renamed in place, `last_persist_error`); `queued`, `running` and `token` are the
fields of `TaskBoard`; `channel` is its unbounded channel; `runner` and
`outcome` are the spawned futures. The daemon holds the session and store
mutexes for a whole operation, so `phase` (with `then`, `target`, `focus`) is
the program counter of the one operation in progress, and each call the
operation makes is a step: a crash can come between any two of them, and futures
move at every point. `Persist` is the write of the whole file: it may fail
before or after the rename of one of the two writes that a status and its event
cause. `RunnerFinish` takes the outcome, `RunnerSend` sends it later: a cancel
between them is the race of the first finding. `SpawnGuard::drop` is
`RunnerPanic`. `DrainProgress` stands for progress events, of which only the
write matters.

### Engine

Every node is a small process. `pc[n]` is where `resolve(n)` is: an agent
operation it awaits, its children, the check of a candidate, or how it ended
(`some`, `none`, `error`, `aborted`). Parallel children carry their own engine
(`engine[n]` names it by its first node), memo table included, until `Join`
merges it. Agents answer anything their tools admit: sizes, decompositions,
groups in either mode, keys, narrower scopes, empty text, changes inside and
outside the scope; every call may fail. Artifacts keep which node and attempt
made them, whether there is text, and the paths changed. `approved` is a history
variable for one property.

### Planning, Harness, WriteScope

`engines` holds the engines that are alive, the root's and those of parallel
branches, each under the path of the ids at which it and the engines around it
branched off, and each with `nodes`, `artifacts`, `memo` and `log` under ids it numbers
itself. A request keeps the candidate and the child artifacts that `verify` and
`combine` read before they await its answer. `Join` renumbers a branch into the engine that spawned it, as
`merge_parallel_branch` does: nodes, artifacts, references between them, memo
entries and log. A node's task (the positions that lead to it) and an
artifact's text (who wrote it, at which attempt, for which key, from which
texts, and whether files were changed) are what an id stands for; no renumbering changes them, so the invariant
compares the two. Until it is joined a branch's children in the parent are the
stale copies the code leaves there. `Harness` says which tools an operation
offers and what a call means: a missing field, its default, an invalid plan, a
verdict that contradicts its own hard violations, or Garbled arguments.
`WriteScope` is the matcher with `*`, `?` and `**` and the rule by which a
child's scopes are taken over or kept.

### Workspaces

`git` is the set of worktrees and branches that exist; `state` and `refs` are
the registry of `resources.rs`; `opened`, `name` and `holds` the surfaces and
what was captured on them. Parallel children take a registry of their own
(`home[n]`), handed over at the join; a failing branch runs its drop guard
(`BranchEngineGuard`, `dropping`). A git command may fail once. `excused` records that an
agent, a cancel or git caused a failure. `Tree` numbers nodes as the engine does: a
child is created after its parent and has one parent (`WorkspacesAssumption`).

### AgentRunScheduler

`lock` is the tokio mutex with its waiters in order. `pc` is where the future of
each run is, and at every await it may be dropped (`Drop`: branches of the
engine are aborted). `handle` says whether child and transport are `Some`,
`host` whether the process lives: the code never compares the two. `inbox` and
`outbox` are the lines under way, `dangling` an unfinished request line, `torn`
an answer line of which a dropped run has already read the beginning. `token`,
`calling` and `ear` are the token: `cancel()` stores the flag and then wakes the
waiters (`NotifyWaiters`), and the run that reads checks the flag, makes its
future, checks again and sleeps (`Listen`), with the cancel between any two of
these.

### RunHandle

`pc` is where `pump` awaits; `phase`, `emitted`, `inbox`, `delivered`,
`chanDone` and `promise` are the backend behind the adapter, and `flight` and
`answer` the steers under way. `collected` is the published stream with its end
`closedAt`, `views` what each consumer has seen. The five adapters differ in
when they start, take a steer, stop and settle; the module has one definition
for each of these with the adapters as cases. Callers steer, cancel, clean up,
subscribe and abort at every await.

### Daemon

`proc[p]` is a daemon process and `lock[p]` its three mutexes, fair queues each;
`path` is whose socket the path names; `at[c]` is where client `c` and the tokio task of
its connection are. `queue`, `run`, `root` and `file` are the board, the
future of each task, the root it was started with, and `tasks.json`. A client that finds no daemon starts one; a
second may be started by hand, which sets `rivals` when both live. A prompt
waits for its task, if it waits at all, until its deadline (`late`).

### TaskLog and Interface

`todo` is what is left of the session call in progress, one store call each;
`mem` and `file` are the store and its file, `work` what the engine of each
running task has done and will report. `InspectView` is `inspect_task_view`
with its two cursors. `Interface` adds one reader per behaviour (`load`): the
loop of `siko task inspect` and the terminal UI read the file, the ACP proxy
asks the daemon for each line it takes, the embedded server answers the same
lines from a session of its own that nothing else drains. `got` is what the
reader has been given, `ids` which lines were requests, for one property.

## Runs

| run | bounds | shows |
|---|---|---|
| `board_safety` | 3 tasks, 2 slots, 1 crash | `SlotAccounting`, `StoreMatchesBoard`, `ReportedIsFinal`, `SpawnedOnlyFromQueue`; the board implements `TaskLifecycle` |
| `board_liveness` | 2 tasks, limit 0 (one slot), 1 crash, writes fail | `RestartKeepsOutcomes`; tasks settle, cancelled ones free their slot, a result after a cancel does not count (`EveryTaskSettles`, `CancelBeatsResult`) |
| `board_cancel_race` | 2 tasks, 1 slot | violation: a task answered as cancelled completes |
| `engine_safety` | 3 nodes, groups of 2, 2 attempts, two paths, one in scope | `OnlyCheckedWorkIsAccepted`, `NoAgentStartsAfterCancel`, `RunEnds`, `CancelEndsRun` |
| `engine_nested` | 5 nodes, two levels of groups | `CombinesCompleteGroups`, `QuestionsReachTheReport`, `NothingOutlivesTheReport`, `MemoIsBacked` |
| `planning` | a root with 2 children and one below each, 1 verdict that is no accept | `IdsKeepTheirMeaning`, `AcceptedOnACleanVerdict`, `ScopesNarrow` |
| `workspaces` | 5 nodes: a parallel group, a stage of two in a branch; 1 retry, 1 failing command | `RegistryAgreesWithGit`, `CandidatesKeepTheirBranch`, `ReportLeavesNothing`, `FailuresHaveCause` |
| `scheduler_sound` | 3 runs, 1 fault of the host | `OwnAnswer`, `FailuresHaveCause`, `HolderCancelReturns`, `EveryRunEndsUnlessTorn` |
| `scheduler_after_cancel` | 2 runs | violation: after a cancelled run the next cannot start a host |
| `run_handle` | every adapter, 1 steer, 1 viewer, 2 events | `ViewsReplayTheRun`, `ResultTellsWhatHappened`, `SettledMeansStopped`, `RunsSettle` |
| `daemon` | 3 clients in four mixes, 2 processes, 1 slot | `RootOfTheRequest`, `WaitedReplyIsSettled`, `ToldIsOnFile`, `RequestsAnswered` |
| `interface` | one reader each; up to 2 engine steps, 3 tasks in the list, 4 lines, up to 2 faults | `WatchersMissNothing`, `EndIsToldLast`, `AnswersFollowRequests`, `SelectionKeepsItsTask`, `TimelineTellsTheTask` |

Why the bounds suffice. Three tasks and two slots give a task in the queue while
two futures race, and every order of their events; a limit of one with two tasks
gives the wait for a slot. Two children are the least that can disagree, in
stage and in parallel; five nodes give a group inside a branch inside a group;
one key beside the root's is enough for two nodes to collide; two attempts give
one retry. In `planning` two branches number the same ids and can be joined in
either order, and one of them may spawn a branch itself; a second verdict
that is no accept only repeats the first. In `workspaces`
the nested group gives a hand-over of resources that were handed over before.
Three runs of the scheduler give one that holds it, one that left something on
the wire and one that waits. Two events are the least that can be out of order
or seen twice, before and after a viewer subscribes. Three clients give a holder,
a waiter and one that needs what they hold; the mixes are chosen so that each
kind of request meets each other kind it can disturb. The readers need two
entries they have seen and one they have not, and a restart between, after a write
that failed.

Bounds that are not the code's: `MaxCrashes`, `MaxFaults`, `MaxNodes`,
`MaxItems`, `DepthBound` (agents call a node at that depth small enough),
`Width` and `MaxSetbacks` in `Planning`, `MaxEvents`, `MaxLines`, `Scenarios`,
the steps and faults of a load. `DepthBound` matters: `RunEnds` is about plans of
bounded depth, because the code does not bound them (`Engine_depth.cfg`).
`Slots`, `MaxParallelTasks`, `MaxAttempts` and `MaxDecompositionDepth` are the
code's own limits.

Deadlock is checked for the board, whose timer ticks for ever, and for the
daemon. Engine runs, scheduler runs and runs of the agent loop end, and readers
stop, so the other configurations switch the check off; `RunEnds`,
`CancelEndsRun`, `EveryRunEndsUnlessTorn` and `RunsSettle` say what must not stop
early.

What the runs do not see is said with the hazards in `PROJECT.json`: the lifecycle
refinement (`board_safety`) is checked with writes that succeed, for after a failed
one a restart forgets what memory showed, and `RestartKeepsOutcomes` takes the
failing writes; `RequestsAnswered` takes agents that answer; `ToldIsOnFile` makes an
exception of tasks of a daemon with a rival.

### More counterexamples

These configurations each show one more disagreement between the code and what
the repository says; TLC reports a violation of the property they name.

| configuration | module | property |
|---|---|---|
| `Engine_commit_final.cfg` | `MCEngine` | `CommitIsFinal` |
| `Engine_depth.cfg` | `MCEngine` | `DepthLimited` |
| `Scheduler_one_host.cfg` | `MCAgentRunScheduler` | `OneHost` |
| `Workspaces_combine.cfg` | `MCWorkspaces` | `CombineKeepsAcceptedWork` |
| `Workspaces_names.cfg` | `MCWorkspaces` | `FailuresHaveCause`, with two tasks in one repository |
| `Daemon_socket.cfg` | `MCDaemon` | `OnlyStaleSocketsGo` |
| `Planning_scope.cfg` | `MCPlanning` | `ScopesNeverWiden` |

Three more show what properties of the runs make an exception of or say nothing
about; the repository does not promise the opposite, so they are no findings.

| configuration | module | property | without it |
|---|---|---|---|
| `Engine_memo_scope.cfg` | `MCEngine` | `ReuseStaysInScope` | `MemoIsBacked` lets a node reuse, under its key, work outside its own write scope |
| `Scheduler_torn.cfg` | `MCAgentRunScheduler` | `EveryRunEnds` | `EveryRunEndsUnlessTorn` excepts runs after half a line |
| `RunHandle_hook.cfg` | `MCRunHandle` | `NothingWorksOn` | `SettledMeansStopped` excepts a failed hook or steer |

### Fairness

- `TaskBoard!Fairness`: the 100 ms timer of the daemon ticks for ever (`Tick`), a
  lock holder runs to the end of its operation (`SessionStep`), tokio polls each
  spawned future (`RunnerStart`, `RunnerSend`). That a started engine returns or
  panics is no part of it: it is the premise `EnginesReturn` of the two liveness
  properties, and what `Engine!RunEnds` shows. No fairness for user requests,
  progress events, failing writes or crashes.
- `Engine!LocalFairness`: tokio polls what is ready and drops what is aborted.
  That agents answer is no part of it: it is the premise `AgentsAnswer` of
  `RunEnds` only. `CancelEndsRun` needs no answer, only that the agent runs see
  the token (`CancelSeen`): a run that waits for a scheduler others share does
  not look at it. That the branches left behind stop has no premise.
- `AgentRunScheduler!LocalFairness`: a future that can go on does, the `select!`
  of a reading run sees a token that woke it, `cancel()` runs to its end. That
  the worker answers is the premise `WorkerAnswers` of `EveryRunEndsUnlessTorn`.
- `RunHandle!LocalSpec`: the event loop resumes an await that is answered. That
  backends end by themselves (`BackendsEnd`), or when asked to stop
  (`BackendsStop`), are the premises of the two halves of `RunsSettle`.
- `Daemon!Fairness`: processes and clients run, tokio polls the task of a
  connection and the timer; tokio's mutexes are first come, first served, which
  is in the model, not in the fairness. Deadlines come (strong fairness, since a
  client that reads an answer is for that moment not waiting). That the run of a task and
  the agent run of a turn return is assumed here; `Engine!RunEnds` and
  `EveryRunEndsUnlessTorn` say when they do.
- `Workspaces`, `Planning` and `Interface` are checked for safety only.

## Proofs

Each module below proves an inductive invariant `...Inv` of `Spec`: one lemma per
action, or per kind of step that several actions share, a case split on `Next`,
and the theorems from the invariant. The properties themselves are hardly ever
inductive; the text says what each part adds. The assumptions are the named
ones on the constants of the module, and nothing else unless stated. TLC checked
each invariant on the instance of the module's run before it was proved.

### TaskBoardProofs

For every finite set of tasks, every limit, every number of crashes, and with
failing writes:

- `TypeCorrect`, `SlotsAccounted`, `StoreAgrees`: `TypeOK`, `SlotAccounting` and
  `StoreMatchesBoard` are invariants of `Spec`;
- `ReportedStaysFinal`, `SpawnsComeFromQueue`, `RestartKeeps`: the action properties;
- `CancelsBeatResults`: `CancelBeatsResult`, from the fact `Overruled` that every
  step of the same process keeps: nothing that is still to come of the future of
  a task cancelled in time is a report;
- `BoardImplementsLifecycle`: `Spec` implements `TaskLifecycle!Spec` under the
  refinement mapping `status <- store`, `holders <- running`, when writes
  succeed (the theorem has that premise, since a restart after a failed write
  may forget what memory showed).

`BoardInv` adds to the types: the queue holds
each task at most once and only tasks without a future (`QueueInv`); what the
operation in progress may still assume of its target (`OperationInv`); a slot is
backed by exactly one future or one undelivered event (`SlotInv`, without which
one event could free a slot twice); and the status of each task by where the
board has it (`StatusInv`).

### EngineProofs

For every number of nodes and of items in a plan, every depth and number of
attempts, every set of keys and paths, and whatever agents leave: `TypeCorrect`,
`OnlyCheckedWork`, `MemoBacked`, `GroupsComplete`, `NothingOutlives`,
`QuestionsReach`, and for steps `NoAgentAfterCancel`.

`EngineInv` is about the shape of the run first: edges lead from smaller ids to
larger ones and every created node but the root is the child of one parent
(`TreeInv`); a stage starts its children one after the other, and a branch has
an engine of its own exactly until it is joined (`BranchInv`). Over that shape,
`GroupInv` is what a node knows of its children once it stopped waiting for
them: they are quiet and in its engine, complete unless the node gives up, and
none asks a question that the node does not ask. `NodeInv` is what it knows of
its own work: nothing is accepted or counted before it executes, a candidate is
its own, and a verifier runs only on changes within scope. `MakerInv` keeps an
accepted artifact from being of a node that has not worked, without which the
memo could accept it too early.

`GroupInv` speaks of one edge, the theorems about the report of every depth.
`NothingOutlives` and `QuestionsReach` take a least node that breaks the claim
(`LeastElement`): its parent has a smaller number, so it keeps the claim, and
`GroupInv` of the parent contradicts the choice.

### PlanningProofs

For whatever agents answer, every depth, number of attempts and of items in a
plan, any nesting of parallel groups and every order in which branches are
joined: `TypeCorrect`, `IdsKeep`, `CleanVerdicts`, `NarrowScopes`.

`PlanningInv` says of each engine that is alive (`EngineOK`): its ids are dense
(`EngineShape`); an edge of the tree is the same seen from the parent and from
the child (`ChildrenOK`, `ParentOK`); what a node, an artifact, the memo and the
request under way refer to is in this engine and is what it is taken for (`WorkOK`,
`MadeOK`, `MemoOK`, `LogOK`, `AskedOK`); and one node after the other is at work,
under ancestors that wait for it (`ThreadOK`), which is why the handler of an
answer finds the engine as the request left it. `CleanOK` extends the claim about
accepted work to the memo, from which it would otherwise come back unchecked, and
Tiny work is exempt from a verdict only if its text says that nothing was changed.
`BranchOK` relates a branch to the engine it left: the child it started from is
there as it was, and its parent waits, so that nothing but the join changes it.

Each handler is a composition of a few functions on one engine (`Recorded`,
`Ask`, `SetNode`, `Push`, `Commit`), each shown to keep `Good`: the engine is in
order and the node at work has its turn. The join has its own part: `Renumbers` is what
is used of the two maps (the new ids are new, dense and in the old order), and
`JoinedTree`, `JoinedRecords`, `JoinedThread` and `JoinedClean` carry one part of
the invariant each through it.

`NarrowScopes` rests on `MatchComposes`: if a pattern whose segments are plain
matches another one as text, it matches every path that one matches. `GlobMatches` is
a recursive function, and what is needed of it are its equations.
`DescentExists` shows that functions with such equations exist, by a least
counterexample, since the library's induction cannot be used; then the argument goes down
the path in the same way.

`PlanningAssumption` types the constants: terminal calls name a mode and a
verdict of the schema, and scopes are lists of segments, what `split('/')` gives.

### AgentRunSchedulerProofs

For every set of runs, every number of faults, with and without dropped futures:
`TypeCorrect`, `AnswersAreOwn`, `FailuresAreCaused`, and two facts no run lists:
`OneRunAtATime` (the await points between acquiring the scheduler and returning
exclude each other) and `WakeupsAreKept` (a reader that sleeps with its token
cancelled is about to be woken; the order in `cancelled()`, first the
`Notified`, then the flag, is what makes this inductive).

`SchedulerInv` adds: the queue holds each waiting run once and only its head is
past the wait (`MutexInv`); what the holder may rely on at each await about
`handle`, `host` and `dir` (`HandleInv`); which dropped or cancelled run, or
which fault, stands behind a closed handle, a dead host, a torn line or a missing
directory (`CauseInv`, the heart of `FailuresAreCaused`: the failing run reads a
state another run left); and a result on the wire belongs to a request the host
completed (`WireInv`).

### RunHandleProofs

For every adapter, any number of steers, viewers and events: `TypeCorrect`,
`ViewsReplay`, `ResultIsTrue`, `SettledStops`.

`RunInv` adds how far the adapter's run is at each await of `pump`
(`PhaseInv`), what `pump` knows when it waits for the backend's result
(`PumpInv`), that what was true when the run was finalised stays true
(`StatusInv`: no backend starts or goes on after that), that each view agrees
with the published stream position by position (`ViewInv`), and where each
event is: published, held for a steer, or in the channel, in the backend's
order, and none lost before something failed (`EventInv`).

### DaemonProofs

For every finite set of clients, any daemon processes and slots, and whatever the
clients ask for: `TypeCorrect`, `RootKept`, `WaitedSettled`, `ToldStays`.

`DaemonInv` adds: which daemon a request is with, and that it serves while its
handler runs (`PlaceInv`); who is inside the session mutex, and that the default
root is the one an asking turn has set (`SessionInv`: one holder, so no other
prompt can overwrite it before the task is made); a task has a future only after
its request made it (`RunInv`); queue, futures, roots and store of each board
agree (`BoardsInv`; the calls of the session are functions on a board, and each
is shown to keep `BoardOK`); what an idle answer and a final status were read
from (`AnswerInv`); and without a rival the file is the store (`FileInv`).

### WorkspacesProofs

For every tree of nodes, any number of attempts and of failing git commands,
every provider, and any nesting of parallel groups: `TypeCorrect`,
`RegistryTells`, `BranchesAreKept`, `NothingIsLeft`, `FailuresAreCaused`. All have
the premise `OneTask`, that one task uses the repository. It is needed: with two,
`FailuresHaveCause` is false (`Workspaces_names.cfg`, finding 7), and with it the
claim that a new name is new to git on which the others rest.

`WorkspacesInv` adds: work is under nodes that wait for it or failed over it, and
engines nest like the tree (`TreeInv`); a node opens at most one surface more
than its attempts (`CountInv`); the next name is new to the task and to git
(`NameInv`); only the drop guard of a failed branch takes what a candidate or a
running agent needs (`CandidateInv`); a cause of failure shows in a failed node as
long as the task runs, so an error can be traced to one (`CauseInv`); without a
cause every surface is as its operation left it, and git has nothing else
(`CleanInv`, which makes every git command of the engine legal, and the final
cleanup complete); and a report leaves no node at work (`EndInv`).

### InterfaceProofs

For every set of tasks, every load with its bounds on steps and faults, every
trace of an agent run, any number of slots and of lines: `TypeCorrect`,
`NothingIsMissed`, `EndComesLast`, `AnswersFollow`, `TimelineIsTrue`.

`InterfaceInv` is about the board first (`BoardInv`), task by task. The run of a
task is in one place: to be enqueued, queued, to be spawned, at work, ended with
its report in the channel, to be reported, or reported (`OneRun`); without this
an operation could be logged for two reports. Nothing is known of a task before
its creation, and it is created once (`Born`). The file is a beginning of what
the store has, operations and agent runs are logged once, and those of a report
that is to be written are logged already or stand before it in `todo` (`Kept`).
`Told` relates a status to what is told of it: a status that is still to be
written is told afterwards, what a drain or a queueing will tell is of a status
written after it, and once nothing is left to write the last entry about the
task tells its status. It speaks of the last status and the last entry in
`todo`, since a drain puts the calls of any event before those that wait.

Over the board, `Read` says that a reader has a beginning of the record it
reads and a cursor that says how much, `Heard` that who has read a final status
has what came before it, `Answered` which lines have been answered, and `Served`
where the request in progress is and that the task it made is about to be
created. A step of the board then needs one fact only (`Steady`): each record
grows at its end and keeps its report. A restart has a fact of its own
(`Recovery`), for the store may then lose what was never on file.

The views on a log are computed by recursive functions and by the fold
`FlattenSeq`. What is needed of one are its equations (`RecursionExists`,
`FlattenSteps`), and facts about every length follow by counting up
(`CountsUp`, by a least counterexample). So `PrintedAndNew` shows that the
stream's filter returns what is new and in order, `TimelineFits` that the lines
of the timeline hold each entry once.

The premise of `TimelineTellsTheTask` that no restart came after a failed write
is needed: when the status is on file and the write of its entry fails, the next
daemon has the one without the other. That takes two faults, which is why one
load of the run has two.

### Checked by TLC only

- Liveness (`EveryTaskSettles`, `RunEnds`, `CancelEndsRun`,
  `HolderCancelReturns`, `EveryRunEndsUnlessTorn`, `RunsSettle`,
  `RequestsAnswered`): out of the prover's reach.
- `SelectionKeepsItsTask` of `Interface`: the list is sorted with
  `SetToSortSeq`, which is defined by a choice among all orders of a set; that
  such an order exists for every set of tasks is an induction over finite sets.

## Findings

With a run of their own:

1. `board_cancel_race`: `apply_event` overwrites the status of a cancelled task
   with the result of a run that returned before the token was set, after the
   user was told "Cancelled task".
2. `scheduler_after_cancel`: `terminate` removes the socket directory for good,
   so one cancelled run disables the shared scheduler.

With a configuration (see "More counterexamples"):

3. `CommitIsFinal`: the retry of a Tiny node may commit directly, and the stale
   candidate of the attempt before is verified afterwards (`engine.rs:881`).
4. `DepthLimited`: `max_decomposition_depth` does not stop planning by size
   (`engine.rs:54`; the documentation at line 36 says it does).
5. `OneHost`: a run dropped between spawn and connect leaves its host running
   (`run_scheduler.rs:254` and `:661`).
6. `CombineKeepsAcceptedWork`: a combine skips a child's branch whose record has no
   commit, the work of a child group that was combined included
   (`git_file_system.rs:226`; `recursive-agent-engine.md:853`).
7. `Workspaces!FailuresHaveCause` with two tasks: branch names hold the node's
   number only, so two tasks in one repository collide (`git_file_system.rs:55`;
   `product-vision.md:261`).
8. `OnlyStaleSocketsGo`: a starting daemon unlinks the socket of one that serves
   (`daemon.rs:110`); both then write `tasks.json`.
9. `ScopesNeverWiden`: the parent scope `src/*` accepts the child scope `src/**`,
   for a pattern is matched as if it were a path (`prompt-guidance.md:259`).

Met while translating, stated in the modules as the code has them, and a reason
for the exceptions in some properties:

- engine: the task type of a planned item is dropped when its policy is absent or
  Explore (`engine.rs:1611`); `NodePolicy::Decompose` is consulted nowhere; two
  items of equal slug without keys share a memo entry; `plan_group` inserts the
  items before one that fails; the output schemas of `tools.rs:88` are never used;
- workspaces: branches that finished but were not joined when another failed keep
  their worktrees (`engine.rs:421`); `post_completion_write_scope_commit` runs
  after everything was committed (`engine.rs:1303`);
- agent loop: a hook or queued steer that throws settles the run without stopping
  its backend; a steer sent while queued ones are applied overtakes them
  (`run-handle.ts:246`); steers answered "deferred" after the end reach nobody;
  the result of the mock stays open when it fails; codex cancelled before its turn
  exists sends nothing (`codex.ts:472`), and drops a steer without a turn
  (`codex.ts:791`);
- daemon: a turn that waits for the scheduler keeps the session and store mutexes,
  so cancel requests wait for a silent worker; a client that disconnects cancels
  nothing (the comment at `daemon.rs:183` says it does); shutdown leaves agent
  hosts behind;
- ACP: the proxy reads a cancel only after the reply to the prompt before it; the
  embedded server drains its board only in a prompt or a cancel, and answers
  notifications, which the proxy does not;
- readers: `siko task inspect` can stop without the closing event, for the status
  is written first; after a failed write and a restart sequence numbers are used
  again, so a cursor may skip entries.

## Left out

- Data that no property is about: texts of prompts, notes and replies, payloads,
  wording and layout, quoting of paths, usage totals, the JSON of messages.
- `stop_after_route_depth`, set only by the evaluation harness; progress events
  after a task ended (they only append to its log); process exit of the scheduler;
  the standard-input mode of the host.
- `task/list`, `task/inspect` and `task/artifact` of the ACP servers: they read
  what `task/events` reads. The assistant's prompt and tools: they decide what a
  turn asks for, and `Daemon` lets a turn ask for anything.
- The evaluation harness (`cli/eval.rs`), argument parsing and drawing of the
  command line and the terminal UI, configuration, metrics and the schema macros:
  no state that another component depends on.
- The agent host's workers, which translate between the host's lines and the agent
  loop: `AgentRunScheduler` lets a worker answer, fail or hang, `RunHandle` is the
  run inside it.
- `runTask`, escalation and the workspace tools of the agent loop: nothing in siko
  calls the first two; the tools act on files of a worktree.

## What could follow

- `Engine` against an abstract engine that only accepts, asks or gives up per
  node, as `TaskBoard` is against `TaskLifecycle`.
- One invariant over `Engine`, `Planning` and `Workspaces` together: each has the
  control, the data or the resources of an engine run, and what one assumes of
  the other (a node's work ends before its surface goes) is stated twice.

----------------------------- MODULE TaskBoard -----------------------------
(***************************************************************************)
(* The task board of the siko daemon (src/task_board/board.rs), the file   *)
(* store it writes through (src/task_board/store.rs), the part of the      *)
(* assistant session that drives it (src/interface/assistant/session.rs)   *)
(* and the tokio tasks it spawns.                                          *)
(*                                                                         *)
(* Session operations run one at a time (the daemon holds the session and  *)
(* store mutexes for a whole operation), so one `phase` says how far the   *)
(* operation in progress is; the spawned tasks interleave with every step  *)
(* of it.  A crash may come between any two steps and leaves only the      *)
(* file.                                                                   *)
(*                                                                         *)
(* A definition named X_Y is X with the fault Y, kept to show that a       *)
(* property would notice it.                                               *)
(***************************************************************************)
EXTENDS Naturals, Sequences, FiniteSets, SequencesExt

CONSTANTS
  Task,               \* task ids; new_task_id never reuses one
  NoTask,             \* "no task": Option::None of a TaskId
  MaxParallelTasks,   \* config.assistant.max_parallel_tasks, as configured
  PersistMayFail,     \* whether writing tasks.json may return an error
  MaxCrashes          \* bound on the number of process restarts

ASSUME TaskBoardAssumption ==
  /\ IsFiniteSet(Task)
  /\ NoTask \notin Task
  /\ MaxParallelTasks \in Nat
  /\ PersistMayFail \in BOOLEAN
  /\ MaxCrashes \in Nat

VARIABLES
  store,       \* task -> status in FileTaskStore::tasks ("Absent": no entry)
  disk,        \* task -> status in the last tasks.json that was renamed in place
  persistErr,  \* FileTaskStore::last_persist_error is Some
  queued,      \* TaskBoard::queued
  running,     \* the keys of TaskBoard::running
  token,       \* task -> its CancellationToken is cancelled
  channel,     \* the unbounded TaskRunEvent channel, oldest first
  runner,      \* task -> where its spawned future is
  outcome,     \* task -> the event its future is about to send
  phase,       \* the call the session operation in progress is making
  then,        \* the call it makes after the next start_ready
  target,      \* the task that operation is about
  focus,       \* AssistantSession::focus_task
  crashes      \* restarts so far

storeVars   == <<store, disk, persistErr>>
boardVars   == <<queued, running, token>>
runnerVars  == <<runner, outcome>>
sessionVars == <<phase, then, target, focus>>
vars == <<storeVars, boardVars, channel, runnerVars, sessionVars, crashes>>

-----------------------------------------------------------------------------
(* Statuses and events.                                                    *)

\* The statuses of a root node with which Engine::run_with_cancel returns.
ReportStatus == {"Committed", "WaitingForInfo", "Rejected", "Pruned"}

TaskStatus == {"Created", "Queued", "Running", "WaitingForInput",
               "Completed", "Failed", "Cancelled"}

\* A terminal TaskRunEvent: Cancelled, Failed, or Completed with its report.
Outcome == ReportStatus \union {"Failed", "Cancelled"}

TaskRunEvent == [task : Task, outcome : Outcome]

StatusFromNode(s) ==
  CASE s = "Committed" -> "Completed"
    [] s = "WaitingForInfo" -> "WaitingForInput"
    [] s \in {"Rejected", "Pruned"} -> "Failed"

\* The status apply_event writes for a terminal event.
StatusFromEvent(o) == IF o \in {"Failed", "Cancelled"} THEN o ELSE StatusFromNode(o)

\* max_parallel_tasks.max(1)
Slots == IF MaxParallelTasks = 0 THEN 1 ELSE MaxParallelTasks

\* The statuses mark_interrupted_active_tasks turns into Failed.
Interrupted == {"Created", "Queued", "Running"}

-----------------------------------------------------------------------------
(* The file store: every mutation rewrites the whole file beside the old   *)
(* one and renames it; an error only sets last_persist_error.              *)

Persist_HidesErrors(tasks) ==
  /\ store' = tasks
  /\ disk' = tasks \/ (PersistMayFail /\ UNCHANGED disk)
  /\ persistErr' = FALSE

\* A status and the event that records it are two writes, of which the
\* second decides last_persist_error and either may have replaced the file.
Persist(tasks) ==
  /\ store' = tasks
  /\ \/ disk' = tasks /\ persistErr' = FALSE
     \/ PersistMayFail /\ disk' \in {disk, tasks} /\ persistErr' = TRUE

SetStatus(t, s) == Persist([store EXCEPT ![t] = s])

Init ==
  /\ store \in [Task -> {"Absent"}]
  /\ disk = store
  /\ persistErr = FALSE
  /\ queued = <<>>
  /\ running = {}
  /\ token = [t \in Task |-> FALSE]
  /\ channel = <<>>
  /\ runner = [t \in Task |-> "none"]
  /\ outcome = [t \in Task |-> "none"]
  /\ phase = "idle"
  /\ then = "idle"
  /\ target = NoTask
  /\ focus = NoTask
  /\ crashes = 0

-----------------------------------------------------------------------------
(* The calls a session operation is made of.                               *)

\* One iteration of drain's loop: try_recv, then apply_event.
DrainEvent ==
  /\ phase = "drain"
  /\ channel # <<>>
  /\ LET event == Head(channel) IN
       /\ running' = running \ {event.task}
       /\ SetStatus(event.task, StatusFromEvent(event.outcome))
  /\ channel' = Tail(channel)
  /\ UNCHANGED <<queued, token, runnerVars, sessionVars, crashes>>

\* apply_event of a Progress event adds to the task's log, which is all in
\* the file: it may heal an earlier failed write, or be the next one to fail.
DrainProgress ==
  /\ phase = "drain"
  /\ \E t \in running : runner[t] # "spawned"
  /\ Persist(store)
  /\ UNCHANGED <<boardVars, channel, runnerVars, sessionVars, crashes>>

DrainDone ==
  /\ phase = "drain"
  /\ channel = <<>>
  /\ phase' = "start"
  /\ UNCHANGED <<storeVars, boardVars, channel, runnerVars, then, target, focus, crashes>>

HasFreeSlot_OffByOne == Cardinality(running) <= Slots

HasFreeSlot == Cardinality(running) < Slots

\* One iteration of start_ready's loop, with spawn.
StartTask ==
  /\ phase = "start"
  /\ HasFreeSlot
  /\ queued # <<>>
  /\ LET t == Head(queued) IN
       /\ SetStatus(t, "Running")
       /\ running' = running \union {t}
       /\ token' = [token EXCEPT ![t] = FALSE]
       /\ runner' = [runner EXCEPT ![t] = "spawned"]
  /\ queued' = Tail(queued)
  /\ UNCHANGED <<channel, outcome, sessionVars, crashes>>

StartDone ==
  /\ phase = "start"
  /\ ~HasFreeSlot \/ queued = <<>>
  /\ phase' = then
  /\ then' = "idle"
  /\ UNCHANGED <<storeVars, boardVars, channel, runnerVars, target, focus, crashes>>

\* create_task, its task.created event, and the new focus.
CreateTask ==
  /\ phase = "create"
  /\ SetStatus(target, "Created")
  /\ focus' = target
  /\ phase' = "enqueue"
  /\ UNCHANGED <<boardVars, channel, runnerVars, then, target, crashes>>

Enqueue ==
  /\ phase = "enqueue"
  /\ SetStatus(target, "Queued")
  /\ queued' = Append(queued, target)
  /\ phase' = "start"
  /\ UNCHANGED <<running, token, channel, runnerVars, then, target, focus, crashes>>

CancelQueued_KeepsEntry(t) == SetStatus(t, "Cancelled") /\ UNCHANGED boardVars

\* cancel_task on a task that still waits in the queue.
CancelQueued(t) ==
  /\ SetStatus(t, "Cancelled")
  /\ queued' = RemoveAt(queued, CHOOSE i \in DOMAIN queued : queued[i] = t)
  /\ UNCHANGED <<running, token>>

CancelRunning_FreesSlot(t) ==
  /\ SetStatus(t, "Cancelled")
  /\ token' = [token EXCEPT ![t] = TRUE]
  /\ running' = running \ {t}
  /\ UNCHANGED queued

\* cancel_task on a task that was started: it keeps its slot.
CancelRunning(t) ==
  /\ SetStatus(t, "Cancelled")
  /\ token' = [token EXCEPT ![t] = TRUE]
  /\ UNCHANGED <<queued, running>>

Active == ToSet(queued) \union running

\* The task a cancel acts on: the one it names (cancel_task tool), else the
\* focus, else cancel_first_active's first key of a hash map, else the queue's front.
Victims ==
  IF target # NoTask THEN {target} \intersect Active
  ELSE IF focus \in Active THEN {focus}
  ELSE IF running # {} THEN running
  ELSE IF queued # <<>> THEN {Head(queued)}
  ELSE {}

CancelTask(t) ==
  /\ phase = "cancel"
  /\ t \in Victims
  /\ IF t \in ToSet(queued) THEN CancelQueued(t) ELSE CancelRunning(t)
  /\ focus' = IF focus = t THEN NoTask ELSE focus
  /\ phase' = "idle"
  /\ UNCHANGED <<channel, runnerVars, then, target, crashes>>

\* The reply is "No task is currently running." or "... is not active."
CancelNothing ==
  /\ phase = "cancel"
  /\ Victims = {}
  /\ phase' = "idle"
  /\ UNCHANGED <<storeVars, boardVars, channel, runnerVars, then, target, focus, crashes>>

SessionStep ==
  \/ DrainEvent \/ DrainDone \/ StartTask \/ StartDone \/ CreateTask \/ Enqueue
  \/ (\E t \in Task : CancelTask(t)) \/ CancelNothing

-----------------------------------------------------------------------------
(* Session operations, begun when no other one holds the session.          *)

Begin(first, next, t) ==
  /\ phase = "idle"
  /\ phase' = first
  /\ then' = next
  /\ target' = t
  /\ UNCHANGED <<storeVars, boardVars, channel, runnerVars, focus, crashes>>

\* TaskBoard::drain from the daemon's timer, wait_for_all or a waiting client.
Tick == Begin("drain", "idle", NoTask)

\* A direct task message drains first; a create_task tool call of an
\* assistant turn may follow earlier calls of the same turn.
Submit(t) ==
  /\ store[t] = "Absent"
  /\ Begin("drain", "create", t) \/ Begin("create", "idle", t)

\* AssistantSession::cancel (no task named) or cancel_specific_task.
RequestCancel(t) ==
  /\ t \in Task => store[t] # "Absent"
  /\ Begin("drain", "cancel", t)

-----------------------------------------------------------------------------
(* The future that spawn hands to tokio, one per started task.             *)

Send(t, o) == channel' = Append(channel, [task |-> t, outcome |-> o])

\* Until its first poll nothing of the future has run.
RunnerStart(t) ==
  /\ runner[t] = "spawned"
  /\ IF token[t]
     THEN Send(t, "Cancelled") /\ runner' = [runner EXCEPT ![t] = "done"]
     ELSE UNCHANGED channel /\ runner' = [runner EXCEPT ![t] = "working"]
  /\ UNCHANGED <<storeVars, boardVars, outcome, sessionVars, crashes>>

EngineOutcome_IgnoresToken(t) == ReportStatus \union {"Failed"}

\* What the match on run_task's result can make of it: a report counts only
\* if the token is still clear, Err(Cancelled) comes only from a set token,
\* and any other error fails the task.
EngineOutcome(t) ==
  IF token[t] THEN {"Cancelled", "Failed"} ELSE ReportStatus \union {"Failed"}

RunnerFinish(t) ==
  /\ runner[t] = "working"
  /\ \E o \in EngineOutcome(t) : outcome' = [outcome EXCEPT ![t] = o]
  /\ runner' = [runner EXCEPT ![t] = "sending"]
  /\ UNCHANGED <<storeVars, boardVars, channel, sessionVars, crashes>>

RunnerSend_GuardStillArmed(t) ==
  /\ runner[t] = "sending"
  /\ channel' = channel \o << [task |-> t, outcome |-> outcome[t]],
                              [task |-> t, outcome |-> "Failed"] >>
  /\ runner' = [runner EXCEPT ![t] = "done"]
  /\ UNCHANGED <<storeVars, boardVars, outcome, sessionVars, crashes>>

\* The event is sent and the guard disarmed (sent_event = true).
RunnerSend(t) ==
  /\ runner[t] = "sending"
  /\ Send(t, outcome[t])
  /\ runner' = [runner EXCEPT ![t] = "done"]
  /\ UNCHANGED <<storeVars, boardVars, outcome, sessionVars, crashes>>

RunnerPanic_NoGuard(t) ==
  /\ runner[t] = "working"
  /\ runner' = [runner EXCEPT ![t] = "done"]
  /\ UNCHANGED <<storeVars, boardVars, channel, outcome, sessionVars, crashes>>

\* The future is dropped by a panic: SpawnGuard::drop sends Failed.
RunnerPanic(t) ==
  /\ runner[t] = "working"
  /\ Send(t, "Failed")
  /\ runner' = [runner EXCEPT ![t] = "done"]
  /\ UNCHANGED <<storeVars, boardVars, outcome, sessionVars, crashes>>

\* What the engine and its agents decide: when, and with what, it returns.
EngineReturns(t) == RunnerFinish(t) \/ RunnerPanic(t)

Runner(t) == RunnerStart(t) \/ RunnerSend(t) \/ EngineReturns(t)

-----------------------------------------------------------------------------
(* The process dies and is started again: FileTaskStore::open reads the    *)
(* file, mark_interrupted_active_tasks fails what was in progress.         *)

Restart ==
  /\ crashes < MaxCrashes
  /\ crashes' = crashes + 1
  /\ LET read == [t \in Task |-> IF disk[t] \in Interrupted THEN "Failed" ELSE disk[t]]
     IN  IF read = disk
         THEN store' = disk /\ persistErr' = FALSE /\ UNCHANGED disk
         ELSE Persist(read)
  /\ queued' = <<>>
  /\ running' = {}
  /\ token' = [t \in Task |-> FALSE]
  /\ channel' = <<>>
  /\ runner' = [t \in Task |-> "none"]
  /\ outcome' = [t \in Task |-> "none"]
  /\ phase' = "idle"
  /\ then' = "idle"
  /\ target' = NoTask
  /\ focus' = NoTask

Next ==
  \/ SessionStep
  \/ DrainProgress
  \/ Tick
  \/ \E t \in Task : Submit(t) \/ Runner(t)
  \/ \E t \in Task \union {NoTask} : RequestCancel(t)
  \/ Restart

Spec == Init /\ [][Next]_vars

\* The timer ticks for ever and a lock holder runs on; tokio polls every
\* spawned future.
Fairness ==
  /\ WF_vars(SessionStep)
  /\ WF_vars(Tick)
  /\ \A t \in Task : WF_vars(RunnerStart(t) \/ RunnerSend(t))

FairSpec == Spec /\ Fairness

\* Every engine that was started returns or panics (Engine!RunEnds).
EnginesReturn == \A t \in Task : WF_vars(EngineReturns(t))

-----------------------------------------------------------------------------
(* Properties.                                                             *)

TypeOK ==
  /\ store \in [Task -> TaskStatus \union {"Absent"}]
  /\ disk \in [Task -> TaskStatus \union {"Absent"}]
  /\ persistErr \in BOOLEAN
  /\ queued \in Seq(Task)
  /\ running \in SUBSET Task
  /\ token \in [Task -> BOOLEAN]
  /\ channel \in Seq(TaskRunEvent)
  /\ runner \in [Task -> {"none", "spawned", "working", "sending", "done"}]
  /\ outcome \in [Task -> Outcome \union {"none"}]
  /\ phase \in {"idle", "drain", "start", "create", "enqueue", "cancel"}
  /\ then \in {"idle", "create", "cancel"}
  /\ target \in Task \union {NoTask}
  /\ focus \in Task \union {NoTask}
  /\ crashes \in 0..MaxCrashes

InFlight(t) == runner[t] \in {"spawned", "working", "sending"}

HasEvent(t) == \E i \in DOMAIN channel : channel[i].task = t

\* The configured limit holds, and a slot is held exactly as long as the
\* future has not reported: no slot leaks and no event frees a slot twice.
SlotAccounting ==
  /\ Cardinality(running) <= Slots
  /\ \A t \in Task : t \in running <=> InFlight(t) \/ HasEvent(t)
  /\ \A t \in Task : ~(InFlight(t) /\ HasEvent(t))
  /\ \A i, j \in DOMAIN channel : channel[i].task = channel[j].task => i = j

\* The status a user sees agrees with the board: a task shown as queued or
\* running is in the queue or holds a slot, and one that holds a slot is
\* shown as running unless it was cancelled.
StoreMatchesBoard ==
  \A t \in Task :
    /\ store[t] = "Queued" <=> t \in ToSet(queued)
    /\ store[t] = "Running" <=> t \in running /\ ~token[t]
    /\ t \in running /\ token[t] => store[t] = "Cancelled"
    /\ store[t] = "Created" => phase = "enqueue" /\ target = t

\* Within one process nothing revises a reported outcome, whatever cancels
\* and late events follow it.
ReportedIsFinal ==
  [][\A t \in Task :
       store[t] \in {"Completed", "WaitingForInput", "Failed"} /\ crashes' = crashes
         => store'[t] = store[t]]_vars

\* A task cancelled while it waited is never started by the same process,
\* and a future is spawned for a task at most once.
SpawnedOnlyFromQueue ==
  [][\A t \in Task :
       runner'[t] = "spawned" /\ runner[t] # "spawned"
         => store[t] = "Queued" /\ runner[t] = "none"]_vars

\* A cancel that reaches a task before its engine run returned is not
\* overruled by a result of that process: the task ends Cancelled, or Failed
\* by an error.  (Stated of the first process, whose states include those a
\* later one starts from.)
CancelBeatsResult ==
  \A t \in Task :
    [](token[t] /\ runner[t] \in {"spawned", "working"} /\ crashes = 0
         => [](store[t] \in {"Cancelled", "Failed"} \/ crashes > 0))

\* If the last write succeeded, a restart shows what memory showed, with
\* exactly the interrupted tasks failed.
RestartKeepsOutcomes ==
  [][crashes' # crashes /\ ~persistErr =>
       \A t \in Task :
         store'[t] = IF store[t] \in {"Created", "Queued", "Running"}
                     THEN "Failed" ELSE store[t]]_vars

\* When engines return no task stays queued or running for ever: slots are
\* given back and the queue moves on, also when tasks fail, panic or are
\* cancelled.  (A restart forgets a task whose creation was never written.)
EveryTaskSettles ==
  EnginesReturn =>
    \A t \in Task : store[t] = "Queued" ~> store[t] \notin {"Created", "Queued", "Running"}

\* The board implements the lifecycle it promises.
Lifecycle == INSTANCE TaskLifecycle WITH status <- store, holders <- running

ImplementsLifecycle == Lifecycle!Spec

-----------------------------------------------------------------------------
(* What the repository says and the code does not do.                      *)

\* session.rs answers "Cancelled task ..." and the protocol document answers
\* `"cancelled": true`: a task reported as cancelled is not completed later.
CancelledNeverCompletes ==
  [][\A t \in Task : store[t] = "Cancelled" => store'[t] # "Completed"]_vars
=============================================================================

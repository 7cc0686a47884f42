------------------------------ MODULE TaskLog ------------------------------
(***************************************************************************)
(* What is written about a task and who reads it: the progress events of   *)
(* an engine (src/task_run/engine.rs) that the task board records          *)
(* (src/task_board/board.rs) in the store (mod.rs, store.rs), the views on *)
(* a task (view.rs), and their readers: `siko task inspect`                *)
(* (src/interface/cli/task.rs) and the terminal UI (tui.rs), which read    *)
(* tasks.json, and the daemon's answers to task_events, which read the     *)
(* store.                                                                  *)
(*                                                                         *)
(* Every write of the store is a step of its own, for each rewrites the    *)
(* file; `todo` is what is left of the session call that makes them under  *)
(* the store mutex.  A text, a note or a report is a member of Note.       *)
(*                                                                         *)
(* A definition named X_Y is X with the fault Y, kept to show that a       *)
(* property would notice it.                                               *)
(***************************************************************************)
EXTENDS Naturals, Sequences, FiniteSets, SequencesExt

CONSTANTS
  Task,         \* task ids; numbers, for ids are compared
  Note,         \* what an operation or an agent run may report
  Traces,       \* the event names an agent run may emit, as sequences
  Slots         \* max_parallel_tasks

ASSUME TaskLogAssumption ==
  /\ Task \subseteq Nat /\ IsFiniteSet(Task)
  /\ Traces \subseteq Seq(STRING)
  /\ Slots \in Nat \ {0}

VARIABLES
  mem,       \* FileTaskStore::tasks of the daemon
  file,      \* tasks.json
  queue,     \* TaskBoard::queued
  running,   \* the keys of TaskBoard::running
  token,     \* tasks whose CancellationToken is cancelled
  channel,   \* the TaskRunEvent channel, oldest first
  work,      \* task -> what its engine has done: events and agent_runs
  todo,      \* the calls left of the session call in progress
  faults,    \* restarts and failed writes still to come: their bound
  lost,      \* history: a restart came after a failed write
  torn       \* history: a restart came inside a session call

boardVars == <<mem, file, queue, running, token, channel, work, todo, faults, lost, torn>>

NoReport == [ops |-> <<>>, runs |-> <<>>, text |-> FALSE]
Absent == [status |-> "Absent", born |-> 0, log |-> <<>>, report |-> NoReport]
NoWork == [state |-> "none", steps |-> 0, ops |-> <<>>, runs |-> <<>>]

LogInit(budget) ==
  /\ mem = [t \in Task |-> Absent]
  /\ file = mem
  /\ queue = <<>> /\ running = {} /\ token = {}
  /\ channel = <<>> /\ todo = <<>>
  /\ work = [t \in Task |-> NoWork]
  /\ faults = budget /\ lost = FALSE /\ torn = FALSE

-----------------------------------------------------------------------------
(* Log entries.  An item is what the duplicate checks compare: the node,   *)
(* of the engine itself or of a branch, and the note; of an event of an    *)
(* agent run, the run and the name of the event.                           *)

Entry(kind, item) == [kind |-> kind, item |-> item]
Mark(kind) == Entry(kind, <<"-", "-">>)

AgentEventKinds == {"agent.run.event", "agent.branch.run.event"}

\* task_is_active
Active(status) == status \in {"Created", "Queued", "Running"}

Times(log, e) == Cardinality({i \in DOMAIN log : log[i] = e})

-----------------------------------------------------------------------------
(* The calls of the store and of the board.                                *)

Write(t, rec) ==
  /\ mem' = [mem EXCEPT ![t] = rec]
  /\ \/ file' = mem' /\ UNCHANGED faults
     \/ faults > 0 /\ faults' = faults - 1 /\ UNCHANGED file

Create(t)    == [call |-> "create", task |-> t]
Status(t, s) == [call |-> "status", task |-> t, status |-> s]
Event(t, e)  == [call |-> "event", task |-> t, entry |-> e]
Once(t, e)   == [call |-> "once", task |-> t, entry |-> e]
Report(t, s, r) == [call |-> "report", task |-> t, status |-> s, report |-> r]
Enqueue(t)   == [call |-> "enqueue", task |-> t]
Spawn(t)     == [call |-> "spawn", task |-> t]
Drain        == [call |-> "drain"]
StartReady   == [call |-> "start"]

MarkCancelled(t) == <<Status(t, "Cancelled"), Event(t, Mark("task.cancelled"))>>

\* record_engine_progress_event: the branch-local kinds are recorded as they
\* come, operations and agent runs of the engine itself once.
Progress(t, e) == <<IF e.kind \in {"engine.operation", "agent.run"} THEN Once(t, e)
                                                                    ELSE Event(t, e)>>

\* record_engine_report_logs
ReportLogs(t, r) ==
  <<Event(t, Mark("engine.completed"))>>
    \o [i \in DOMAIN r.ops |-> Once(t, Entry("engine.operation", r.ops[i]))]
    \o [i \in DOMAIN r.runs |-> Once(t, Entry("agent.run", r.runs[i].item))]

FinishedKind(status) ==
  CASE status = "Completed" -> "task.completed"
    [] status = "WaitingForInput" -> "task.waiting_for_input"
    [] OTHER -> "task.failed"

ApplyEvent_StatusFirst(t, ev) ==
  CASE ev.type = "progress"  -> Progress(t, ev.entry)
    [] ev.type = "completed" -> <<Report(t, ev.status, ev.report)>> \o ReportLogs(t, ev.report)
                                  \o <<Event(t, Mark(FinishedKind(ev.status)))>>
    [] ev.type = "failed"    -> <<Status(t, "Failed"), Event(t, Mark("engine.failed")),
                                  Event(t, Mark("task.failed"))>>
    [] ev.type = "cancelled" -> MarkCancelled(t)

ApplyEvent(t, ev) ==
  CASE ev.type = "progress"  -> Progress(t, ev.entry)
    [] ev.type = "completed" -> ReportLogs(t, ev.report) \o <<Report(t, ev.status, ev.report)>>
                                  \o <<Event(t, Mark(FinishedKind(ev.status)))>>
    [] ev.type = "failed"    -> <<Status(t, "Failed"), Event(t, Mark("engine.failed")),
                                  Event(t, Mark("task.failed"))>>
    [] ev.type = "cancelled" -> MarkCancelled(t)

-----------------------------------------------------------------------------
(* One call of a session operation.                                        *)

Latest == LET times == {mem[t].born : t \in Task} IN CHOOSE m \in times : \A n \in times : n <= m

DoCreate(c, rest) ==
  /\ \E tick \in {0, 1} :       \* two tasks of one millisecond, or a later one
       Write(c.task, [Absent EXCEPT !.status = "Created",
                                    !.born = IF Latest + tick = 0 THEN 1 ELSE Latest + tick])
  /\ todo' = rest
  /\ UNCHANGED <<queue, running, token, channel, work>>

DoStatus(c, rest) ==
  /\ Write(c.task, [mem[c.task] EXCEPT !.status = c.status])
  /\ todo' = rest
  /\ UNCHANGED <<queue, running, token, channel, work>>

\* has_engine_operation_event, has_agent_run_event
Logged(t, e) == \E i \in DOMAIN mem[t].log : mem[t].log[i] = e

\* record_event: the sequence number of an entry is its place.
DoEvent(c, rest) ==
  /\ IF c.call = "once" /\ Logged(c.task, c.entry)
     THEN UNCHANGED <<mem, file, faults>>
     ELSE Write(c.task, [mem[c.task] EXCEPT !.log = Append(@, c.entry)])
  /\ todo' = rest
  /\ UNCHANGED <<queue, running, token, channel, work>>

\* apply_report: the status and the report in one write.
DoReport(c, rest) ==
  /\ Write(c.task, [mem[c.task] EXCEPT !.status = c.status, !.report = c.report])
  /\ todo' = rest
  /\ UNCHANGED <<queue, running, token, channel, work>>

DoDrain(rest) ==
  /\ IF channel = <<>>
     THEN todo' = <<StartReady>> \o rest /\ UNCHANGED <<channel, running>>
     ELSE LET ev == Head(channel) IN
          /\ channel' = Tail(channel)
          /\ running' = IF ev.type = "progress" THEN running ELSE running \ {ev.task}
          /\ todo' = ApplyEvent(ev.task, ev) \o <<Drain>> \o rest
  /\ UNCHANGED <<mem, file, faults, queue, token, work>>

\* start_ready
DoStart(rest) ==
  /\ IF queue # <<>> /\ Cardinality(running) < Slots
     THEN LET t == Head(queue) IN
          /\ queue' = Tail(queue)
          /\ todo' = <<Status(t, "Running"), Event(t, Mark("task.started")), Spawn(t),
                       StartReady>> \o rest
     ELSE todo' = rest /\ UNCHANGED queue
  /\ UNCHANGED <<mem, file, faults, running, token, channel, work>>

DoSpawn(t, rest) ==
  /\ running' = running \union {t}
  /\ work' = [work EXCEPT ![t].state = "run"]
  /\ todo' = rest
  /\ UNCHANGED <<mem, file, faults, queue, token, channel>>

\* enqueue, once the task's status and event are written.
DoEnqueue(t, rest) ==
  /\ queue' = Append(queue, t)
  /\ todo' = <<StartReady>> \o rest
  /\ UNCHANGED <<mem, file, faults, running, token, channel, work>>

Perform ==
  /\ todo # <<>>
  /\ LET c == Head(todo)  rest == Tail(todo) IN
       \/ c.call = "create" /\ DoCreate(c, rest)
       \/ c.call = "status" /\ DoStatus(c, rest)
       \/ c.call \in {"event", "once"} /\ DoEvent(c, rest)
       \/ c.call = "report" /\ DoReport(c, rest)
       \/ c.call = "drain" /\ DoDrain(rest)
       \/ c.call = "start" /\ DoStart(rest)
       \/ c.call = "spawn" /\ DoSpawn(c.task, rest)
       \/ c.call = "enqueue" /\ DoEnqueue(c.task, rest)
  /\ UNCHANGED <<lost, torn>>

\* create_task_with_source and enqueue
Submission(t) ==
  <<Create(t), Event(t, Mark("task.created")), Status(t, "Queued"),
    Event(t, Mark("task.queued")), Enqueue(t), Drain>>

\* cancel_task
Cancel(t) ==
  /\ \/ \E i \in DOMAIN queue :
          /\ queue[i] = t /\ \A j \in 1..(i - 1) : queue[j] # t
          /\ queue' = RemoveAt(queue, i)
          /\ todo' = MarkCancelled(t)
          /\ UNCHANGED token
     \/ /\ t \in running /\ \A i \in DOMAIN queue : queue[i] # t
        /\ token' = token \union {t}
        /\ todo' = <<Status(t, "Cancelled"), Event(t, Mark("task.cancel.requested"))>>
        /\ UNCHANGED queue
  /\ UNCHANGED <<mem, file, running, channel, work, faults, lost, torn>>

\* The drain timer of the daemon, and the drain every turn ends with.
Timer ==
  /\ todo = <<>>
  /\ channel # <<>> \/ (queue # <<>> /\ Cardinality(running) < Slots)
  /\ todo' = <<Drain>>
  /\ UNCHANGED <<mem, file, queue, running, token, channel, work, faults, lost, torn>>

-----------------------------------------------------------------------------
(* The engine of a running task.  A branch reports its progress under its  *)
(* own node ids; when it is merged its operations and agent runs are those *)
(* of the engine under new ids.                                            *)

ProgressOf(t, entries) ==
  [i \in DOMAIN entries |-> [type |-> "progress", task |-> t, entry |-> entries[i]]]

KindIn(branch, kind) ==
  IF ~branch THEN kind
  ELSE CASE kind = "engine.operation" -> "engine.branch.operation"
         [] kind = "agent.run.started" -> "agent.branch.run.started"
         [] kind = "agent.run.event" -> "agent.branch.run.event"
         [] kind = "agent.run" -> "agent.branch.run"

Item(branch, n) == <<IF branch THEN "branch" ELSE "own", n>>

\* record
Operate(t, branch, n) ==
  /\ work[t].state = "run"
  /\ work' = [work EXCEPT ![t].steps = @ + 1, ![t].ops = Append(@, Item(branch, n))]
  /\ channel' = channel \o
       ProgressOf(t, <<Entry(KindIn(branch, "engine.operation"), Item(branch, n))>>)
  /\ UNCHANGED <<mem, file, queue, running, token, todo, faults, lost, torn>>

\* run_agent_with_context; a worker need not emit the events it returns.
RunAgent(t, branch, n, trace, emits) ==
  LET at(kind) == Entry(KindIn(branch, kind), Item(branch, n))
      events == [i \in DOMAIN trace |-> Entry(KindIn(branch, "agent.run.event"), <<n, trace[i]>>)]
  IN
  /\ work[t].state = "run"
  /\ work' = [work EXCEPT ![t].steps = @ + 1,
                          ![t].ops = Append(@, Item(branch, n)),
                          ![t].runs = Append(@, [item |-> Item(branch, n), events |-> trace])]
  /\ channel' = channel \o
       ProgressOf(t, <<at("agent.run.started")>> \o (IF emits THEN events ELSE <<>>)
                       \o <<at("agent.run"), at("engine.operation")>>)
  /\ UNCHANGED <<mem, file, queue, running, token, todo, faults, lost, torn>>

\* The future of the task: a cancelled run is Cancelled however it ended.
EndRun(t, end) ==
  LET report == [ops |-> work[t].ops, runs |-> work[t].runs, text |-> end = "Completed"]
      ev == CASE t \in token -> [type |-> "cancelled", task |-> t]
              [] t \notin token /\ end = "error" -> [type |-> "failed", task |-> t]
              [] OTHER -> [type |-> "completed", task |-> t, status |-> end, report |-> report]
  IN
  /\ work[t].state = "run"
  /\ work' = [work EXCEPT ![t].state = "ended"]
  /\ channel' = Append(channel, ev)
  /\ UNCHANGED <<mem, file, queue, running, token, todo, faults, lost, torn>>

-----------------------------------------------------------------------------
(* The daemon ends at any moment; the next one marks the tasks that were   *)
(* active and writes the file once.                                        *)

Recovered(rec) ==
  IF Active(rec.status)
  THEN [rec EXCEPT !.status = "Failed", !.log = Append(@, Mark("task.recovered"))]
  ELSE rec

Restart ==
  /\ faults > 0 /\ faults' = faults - 1
  /\ \E t \in Task : file[t] # Absent
  /\ mem' = [t \in Task |-> Recovered(file[t])]
  /\ file' = mem'
  /\ lost' = (lost \/ file # mem)
  /\ torn' = (torn \/ todo # <<>>)
  /\ queue' = <<>> /\ running' = {} /\ token' = {} /\ channel' = <<>> /\ todo' = <<>>
  /\ work' = [t \in Task |-> NoWork]

-----------------------------------------------------------------------------
(* Views on a task (view.rs).                                              *)

\* resolve_task_ref; readers name a task by its full id.
Resolved(tasks, t) == tasks[t] # Absent

\* assistant_agent_events without a filter: <<run, event, name>>.
AgentEvents(rec) ==
  FlattenSeq([r \in DOMAIN rec.report.runs |->
     [e \in DOMAIN rec.report.runs[r].events |-> <<r, e, rec.report.runs[r].events[e]>>]])

Start == [task |-> 0, agent |-> 0]

InspectView_FromCursor(rec, after) ==
  LET agents == AgentEvents(rec)
      newLog == SubSeq(rec.log, IF after.task = 0 THEN 1 ELSE after.task, Len(rec.log))
      newAgents == SubSeq(agents, after.agent + 1, Len(agents))
  IN [events   |-> newLog,
      agents   |-> newAgents,
      timeline |-> newLog \o newAgents,
      cursor   |-> [task |-> Len(rec.log), agent |-> Len(agents)]]

\* inspect_task_view: what a reader with this cursor has not seen, and the
\* cursor to come back with.
InspectView(rec, after) ==
  LET agents == AgentEvents(rec)
      durable == \E i \in DOMAIN rec.log : rec.log[i].kind \in AgentEventKinds
      newLog == SubSeq(rec.log, after.task + 1, Len(rec.log))
      newAgents == SubSeq(agents, after.agent + 1, Len(agents))
  IN [events   |-> newLog,
      agents   |-> newAgents,
      timeline |-> newLog \o (IF durable THEN <<>> ELSE newAgents),
      cursor   |-> [task |-> Len(rec.log), agent |-> Len(agents)]]

\* timeline_item: the status the timeline shows for an entry.
ItemStatus(kind) ==
  CASE kind \in {"task.completed", "engine.completed", "agent.run", "agent.branch.run"} -> "completed"
    [] kind \in {"task.failed", "engine.failed"} -> "failed"
    [] kind \in {"task.cancel.requested", "task.cancelled"} -> "cancelled"
    [] kind = "task.waiting_for_input" -> "waiting"
    [] kind \in {"task.queued", "task.created"} -> "pending"
    [] kind \in {"task.started", "agent.run.started", "agent.branch.run.started"} -> "running"
    [] OTHER -> "info"

\* sort_tasks_newest_first
NewestFirst(tasks) ==
  SetToSortSeq({t \in Task : tasks[t] # Absent},
               LAMBDA a, b : \/ tasks[a].born > tasks[b].born
                             \/ tasks[a].born = tasks[b].born /\ a > b)

\* agent_task_event_groupable without agent_task_event_needs_attention.
Groupable(e) == e.kind \in AgentEventKinds /\ e.item[2] \notin {"error", "tool_call_error"}

AddToLines_AnyOrder(lines, i, log) ==
  IF lines # <<>> /\ Groupable(log[i]) /\ \E l \in DOMAIN lines : Groupable(log[lines[l][1]])
  THEN LET l == CHOOSE k \in DOMAIN lines : Groupable(log[lines[k][1]])
       IN [lines EXCEPT ![l] = Append(@, i)]
  ELSE Append(lines, <<i>>)

\* A line holds the places of the entries it stands for.  A run of groupable
\* entries of one kind and node shares a line (format_task_timeline_lines).
AddToLines(lines, i, log) ==
  IF /\ lines # <<>> /\ Groupable(log[i])
     /\ LET before == log[Last(Last(lines))] IN
          /\ Groupable(before) /\ before.kind = log[i].kind /\ before.item[1] = log[i].item[1]
  THEN Front(lines) \o <<Append(Last(lines), i)>>
  ELSE Append(lines, <<i>>)

TimelineLines(log) ==
  LET lines[n \in 0..Len(log)] == IF n = 0 THEN <<>> ELSE AddToLines(lines[n - 1], n, log)
  IN lines[Len(log)]

=============================================================================

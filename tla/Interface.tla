----------------------------- MODULE Interface -----------------------------
(***************************************************************************)
(* The readers of a task log, each beside a daemon that other clients use  *)
(* too: the stream of `siko task inspect` (src/interface/cli/task.rs), the *)
(* task list of the terminal UI (src/interface/cli/tui.rs), and the ACP    *)
(* proxy over stdio (src/interface/cli/assistant.rs), which answers a line *)
(* at a time and asks the daemon through one connection per line.  The     *)
(* embedded AcpServer (src/interface/assistant/acp.rs) answers the same    *)
(* lines from a session of its own, which nothing else drains.             *)
(*                                                                         *)
(* The ACP client polls one task with the cursor it was given last.        *)
(* wait_ms is 0, as the proxy has it by default.  An engine sends          *)
(* between session calls: what it sends during one the next drain finds.   *)
(***************************************************************************)
EXTENDS TaskLog

CONSTANTS
  Loads,     \* what a behaviour has: its reader, the tasks that may be
             \* submitted, the kinds of step of an engine and how its runs may
             \* end, and bounds on the steps of an engine and on the faults
  NoTask,
  MaxLines   \* bound on the lines the ACP client sends

ASSUME InterfaceAssumption ==
  /\ \A l \in Loads :
       /\ l.reader \in {"inspect", "tui", "acp", "embedded"} /\ l.tasks \subseteq Task
       /\ l.kinds \subseteq [branch : BOOLEAN, agent : BOOLEAN, emits : BOOLEAN]
       /\ l.ends \subseteq {"Completed", "WaitingForInput", "Failed", "error"}
       /\ l.steps \in Nat /\ l.faults \in Nat
  /\ NoTask \notin Task
  /\ MaxLines \in Nat

VARIABLES
  load,         \* which of Loads this behaviour has
  got,          \* the records the stream printed, or the client received
  ended,        \* the stream, or the input of the embedded server, has ended
  list,         \* TuiApp::tasks, the ids
  selected,     \* TuiApp::selected
  sending,      \* the terminal UI waits for the reply to its "send"
  initialized,  \* the server's `initialized`
  session,      \* the server's session_id is Some
  lines,        \* lines the server has read
  ids,          \* history: the ids of those that were requests
  asked,        \* the request the proxy has at the daemon, or the embedded
                \* server at its session, or none
  conn,         \* how far that is: "none", "open", "drained", "served", "broken"
  prompted,     \* the task the prompt in progress created
  out           \* the messages the server has written

tuiVars == <<list, selected, sending>>
acpVars == <<initialized, session, lines, ids, asked, conn, prompted, out>>
vars == <<boardVars, load, got, ended, tuiVars, acpVars>>

NoLine == [id |-> 0, method |-> "none", flaw |-> "none", task |-> NoTask]

Init ==
  /\ load \in Loads
  /\ LogInit(load.faults)
  /\ got = [task |-> NoTask, status |-> "Absent", events |-> <<>>, agents |-> <<>>,
            results |-> 0, cursor |-> Start]
  /\ ended = FALSE
  /\ list = <<>> /\ selected = 0 /\ sending = FALSE
  /\ initialized = FALSE /\ session = FALSE /\ lines = 0 /\ ids = {}
  /\ asked = NoLine /\ conn = "none" /\ prompted = NoTask /\ out = <<>>

reader == load.reader

Acp == reader \in {"acp", "embedded"}

Missing == {t \in load.tasks : mem[t] = Absent}

-----------------------------------------------------------------------------
(* Other clients of the daemon, one session call at a time.                *)

Submit(t) ==
  /\ reader # "embedded"
  /\ todo = <<>> /\ t \in Missing
  /\ todo' = Submission(t)
  /\ UNCHANGED <<mem, file, queue, running, token, channel, work, faults, lost, torn>>

\* A bound: another client cancels a running task once; each further cancel
\* of it would only log one more request.
AskCancel(t) == ~Acp /\ todo = <<>> /\ t \notin token /\ Cancel(t)

-----------------------------------------------------------------------------
(* siko task inspect.                                                      *)

Numbered(log) == [i \in DOMAIN log |-> [seq |-> i, entry |-> log[i]]]

\* The records of a log that are not printed yet: printed_task_events and
\* printed_agent_events.
Unprinted(records, printed) ==
  LET new[n \in 0..Len(records)] ==
        IF n = 0 THEN <<>>
        ELSE IF records[n] \in Range(printed) THEN new[n - 1]
        ELSE Append(new[n - 1], records[n])
  IN new[Len(records)]

\* One turn of inspect_task_stream: it opens the file, prints what is new
\* and stops at a status that is not active.  (With no_follow there is no
\* second turn.)
Poll(t) ==
  /\ reader = "inspect" /\ ~ended
  /\ got.task \in {NoTask, t} /\ file[t] # Absent
  /\ got' = [got EXCEPT
       !.task = t,
       !.status = file[t].status,
       !.events = @ \o Unprinted(Numbered(file[t].log), @),
       !.agents = @ \o Unprinted(AgentEvents(file[t]), @),
       !.results = IF file[t].report.text /\ @ = 0 THEN 1 ELSE @]
  /\ ended' = ~Active(file[t].status)
  /\ UNCHANGED <<boardVars, tuiVars, acpVars>>

-----------------------------------------------------------------------------
(* The terminal UI.                                                        *)

At(sel) == IF sel < Len(list) THEN list[sel + 1] ELSE NoTask

Least(a, b) == IF a < b THEN a ELSE b

Reselect_ByIndex(tasks) == IF tasks = <<>> THEN 0 ELSE Least(selected, Len(tasks) - 1)

\* The index of the selected task in the new list, or the old one clamped.
Reselect(tasks) ==
  LET same == {i \in DOMAIN tasks : tasks[i] = At(selected)} IN
  IF same # {} THEN (CHOOSE i \in same : TRUE) - 1
  ELSE IF tasks = <<>> THEN 0 ELSE Least(selected, Len(tasks) - 1)

ReadList ==
  /\ list' = NewestFirst(file)
  /\ selected' = Reselect(list')

\* refresh, on the clock or on 'r'.
Refresh ==
  /\ reader = "tui" /\ ~sending
  /\ ReadList
  /\ UNCHANGED <<boardVars, got, ended, sending, acpVars>>

\* select_next, select_previous, select_first, select_last
Select ==
  /\ reader = "tui" /\ ~sending /\ list # <<>>
  /\ selected' \in {Least(selected + 1, Len(list) - 1),
                    IF selected = 0 THEN 0 ELSE selected - 1, 0, Len(list) - 1}
  /\ UNCHANGED <<boardVars, got, ended, list, sending, acpVars>>

\* prompt_new_task: the UI waits for the daemon and reads the file then.
TuiSend(t) ==
  /\ reader = "tui" /\ ~sending
  /\ Submit(t)
  /\ sending' = TRUE
  /\ UNCHANGED <<got, ended, list, selected, acpVars>>

TuiSent ==
  /\ sending /\ todo = <<>>
  /\ ReadList
  /\ sending' = FALSE
  /\ UNCHANGED <<boardVars, got, ended, acpVars>>

-----------------------------------------------------------------------------
(* The ACP servers: what they do with a line before it is served.          *)

Methods == {"initialize", "session/new", "session/prompt", "session/cancel",
            "task/events", "unknown", "garbage"}

\* What may be wrong with a line: its sessionId, its text or taskId, or the
\* workspace it asks for, which only the daemon finds out.
Flaws(method) ==
  CASE method = "session/prompt" -> {"none", "session", "params", "workspace"}
    [] method = "session/cancel" -> {"none", "session"}
    [] method = "task/events"    -> {"none", "params"}
    [] OTHER -> {"none"}

Message(l, is) == [id |-> l.id, is |-> is, task |-> NoTask]

Update(t) == [id |-> 0, is |-> "update", task |-> t]

Answer_Always(l, is) == <<Message(l, is)>>

\* acp_messages: the proxy does not answer a request without an id, the
\* embedded server does.
Answer(l, is) == IF l.id = 0 /\ reader = "acp" THEN <<>> ELSE <<Message(l, is)>>

RequireSession(l) == initialized /\ session /\ l.flaw # "session"

Serve(l) ==
  /\ asked' = l /\ conn' = "open"
  /\ UNCHANGED <<initialized, session, out>>

Refused(l) ==
  \/ l.method \in {"session/prompt", "session/cancel"} /\ ~RequireSession(l)
  \/ l.method \in {"session/new", "task/events"} /\ ~initialized
  \/ l.flaw = "params"
  \/ l.method \in {"unknown", "garbage"}

\* handle_daemon_acp_request and handle_request as far as the daemon and the
\* session are not needed.
TakeLine(l) ==
  /\ Acp /\ asked = NoLine /\ ~ended /\ lines < MaxLines
  /\ lines' = lines + 1
  /\ ids' = IF l.id = 0 THEN ids ELSE ids \union {l.id}
  /\ IF Refused(l) THEN out' = out \o Answer(l, "error")
                       /\ UNCHANGED <<initialized, session, asked, conn>>
     ELSE CASE l.method = "initialize"  -> /\ initialized' = TRUE
                                           /\ out' = out \o Answer(l, "result")
                                           /\ UNCHANGED <<session, asked, conn>>
            [] l.method = "session/new" -> /\ session' = TRUE
                                           /\ out' = out \o Answer(l, "result")
                                           /\ UNCHANGED <<initialized, asked, conn>>
            [] OTHER -> Serve(l)
  /\ UNCHANGED <<boardVars, got, ended, tuiVars, prompted>>

\* A line has the id 0 (none), or the number of the line as its id.
Line ==
  \E m \in Methods, withId \in BOOLEAN, t \in load.tasks :
    \E f \in Flaws(m) :
      /\ m = "garbage" => ~withId
      /\ t = IF got.task = NoTask THEN t ELSE got.task
      /\ TakeLine([id |-> IF withId THEN lines + 1 ELSE 0, method |-> m, flaw |-> f,
                   task |-> IF m = "task/events" THEN t ELSE NoTask])

-----------------------------------------------------------------------------
(* The ACP proxy.                                                          *)

\* The daemon's handler: an assistant turn, which may create a task.
ServePrompt ==
  /\ reader = "acp" /\ asked.method = "session/prompt" /\ conn = "open" /\ todo = <<>>
  /\ conn' = "served"
  /\ \/ \E t \in Missing : asked.flaw = "none" /\ prompted' = t /\ todo' = Submission(t)
     \/ UNCHANGED <<prompted, todo>>
  /\ UNCHANGED <<mem, file, queue, running, token, channel, work, faults, lost, torn>>
  /\ UNCHANGED <<got, ended, tuiVars, initialized, session, lines, ids, asked, out>>

ServeCancel ==
  /\ reader = "acp" /\ asked.method = "session/cancel" /\ conn = "open" /\ todo = <<>>
  /\ conn' = "served"
  /\ \/ \E t \in Task : Cancel(t)
     \/ running = {} /\ queue = <<>> /\ UNCHANGED boardVars
  /\ UNCHANGED <<got, ended, tuiVars, initialized, session, lines, ids, asked, prompted, out>>

Reply(messages) ==
  /\ out' = out \o messages
  /\ asked' = NoLine /\ conn' = "none" /\ prompted' = NoTask
  /\ UNCHANGED <<boardVars, ended, tuiVars, initialized, session, lines, ids>>

\* The reply to a prompt is an update and then the answer; a refusal of the
\* daemon is answered like a turn.
ReplyTurn ==
  /\ reader = "acp" /\ conn = "served" /\ todo = <<>>
  /\ Reply(IF asked.method = "session/prompt"
           THEN <<Update(prompted)>> \o Answer(asked, "result")
           ELSE Answer(asked, "result"))
  /\ UNCHANGED got

\* task_events: the view is made under the store mutex.
ReplyEvents ==
  LET t == asked.task
      view == InspectView(mem[t], got.cursor)
      from == got.cursor.task IN
  /\ asked.method = "task/events" /\ conn = "open" /\ todo = <<>>
  /\ IF ~Resolved(mem, t)
     THEN Reply(Answer(asked, "error")) /\ UNCHANGED got
     ELSE /\ Reply(Answer(asked, "result"))
          /\ got' = IF asked.id = 0 THEN got
                    ELSE [got EXCEPT
                      !.task = t, !.status = mem[t].status,
                      !.events = @ \o [i \in DOMAIN view.events |->
                                         [seq |-> from + i, entry |-> view.events[i]]],
                      !.agents = @ \o view.agents,
                      !.cursor = view.cursor]

\* The daemon ended before it replied.
ReplyFailed ==
  /\ conn = "broken"
  /\ Reply((IF asked.method = "session/prompt" THEN <<Update(NoTask)>> ELSE <<>>)
             \o Answer(asked, "error"))
  /\ UNCHANGED got

-----------------------------------------------------------------------------
(* The embedded server.  Between two lines nobody drains its board.        *)

\* handle_message_with_client: a turn, which may create a task or ask for
\* nothing; the workspace is the session's.
TurnInSession ==
  /\ reader = "embedded" /\ asked.method = "session/prompt" /\ conn = "open"
  /\ conn' = "served"
  /\ \/ \E t \in Missing : prompted' = t /\ todo' = <<Drain>> \o Submission(t)
     \/ todo' = <<Drain>> /\ UNCHANGED prompted
  /\ UNCHANGED <<mem, file, queue, running, token, channel, work, faults, lost, torn>>
  /\ UNCHANGED <<got, ended, tuiVars, initialized, session, lines, ids, asked, out>>

\* AssistantSession::cancel drains and then looks for a task.
CancelDrains ==
  /\ reader = "embedded" /\ asked.method = "session/cancel" /\ conn = "open"
  /\ conn' = "drained" /\ todo' = <<Drain>>
  /\ UNCHANGED <<mem, file, queue, running, token, channel, work, faults, lost, torn>>
  /\ UNCHANGED <<got, ended, tuiVars, initialized, session, lines, ids, asked, prompted, out>>

CancelInSession ==
  /\ conn = "drained" /\ todo = <<>>
  /\ conn' = "served"
  /\ \/ \E t \in Task : Cancel(t)
     \/ running = {} /\ queue = <<>> /\ UNCHANGED boardVars
  /\ UNCHANGED <<got, ended, tuiVars, initialized, session, lines, ids, asked, prompted, out>>

ReplyInSession ==
  /\ reader = "embedded" /\ conn = "served" /\ todo = <<>>
  /\ Reply(<<[Message(asked, "result") EXCEPT !.task = prompted]>>)
  /\ UNCHANGED got

\* run_acp_stdio_server at the end of its input; the drains of shutdown.
EndOfInput ==
  /\ reader = "embedded" /\ asked = NoLine /\ ~ended
  /\ ended' = TRUE
  /\ todo' = <<Drain>>
  /\ UNCHANGED <<mem, file, queue, running, token, channel, work, faults, lost, torn>>
  /\ UNCHANGED <<got, tuiVars, acpVars>>

WaitForAll == ended /\ Timer

-----------------------------------------------------------------------------
Engine(t) ==
  /\ todo = <<>>
  /\ \/ /\ work[t].steps < load.steps
        /\ \E k \in load.kinds, n \in Note :
             IF k.agent THEN \E trace \in Traces : RunAgent(t, k.branch, n, trace, k.emits)
                        ELSE Operate(t, k.branch, n)
     \/ \E end \in load.ends : EndRun(t, end)

Restarted ==
  /\ reader # "embedded" /\ Restart
  /\ conn' = IF conn = "none" THEN "none" ELSE "broken"
  /\ UNCHANGED <<load, got, ended, tuiVars, initialized, session, lines, ids, asked, prompted, out>>

Board ==
  \/ Perform
  \/ IF reader = "embedded" THEN WaitForAll ELSE Timer
  \/ \E t \in Task : Engine(t)

Client ==
  \/ Refresh \/ Select \/ TuiSent
  \/ Line \/ ServePrompt \/ ServeCancel \/ ReplyTurn \/ ReplyEvents \/ ReplyFailed
  \/ TurnInSession \/ CancelDrains \/ CancelInSession \/ ReplyInSession \/ EndOfInput
  \/ \E t \in Task : Poll(t) \/ TuiSend(t)

Next ==
  \/ Board /\ UNCHANGED <<load, got, ended, tuiVars, acpVars>>
  \/ (\E t \in Task : Submit(t)) /\ UNCHANGED <<load, got, ended, tuiVars, acpVars>>
  \/ (\E t \in Task : AskCancel(t)) /\ UNCHANGED <<load, got, ended, tuiVars, acpVars>>
  \/ Client /\ UNCHANGED load
  \/ Restarted

Spec == Init /\ [][Next]_vars

-----------------------------------------------------------------------------
(* Properties.                                                             *)

\* The stream and the client of the proxy have each entry of the log and
\* each agent event up to where they are, once and in order, whatever was
\* written, failed or restarted between two polls.  The stream reads the
\* file.  The client reads the store, of which a restart may lose entries
\* that were never on file; their numbers are then given to others.
WatchersMissNothing ==
  got.task # NoTask =>
    LET rec == IF reader = "inspect" THEN file[got.task] ELSE mem[got.task] IN
    \/ reader = "acp" /\ lost
    \/ IsPrefix(got.events, Numbered(rec.log)) /\ IsPrefix(got.agents, AgentEvents(rec))

Has(kinds) == \E i \in DOMAIN got.events : got.events[i].entry.kind \in kinds

\* Who is told that a task has ended has been told everything of it: of a
\* completed task each operation and agent run of the report once, each agent
\* event and, in the stream, the result.  The client of the proxy has the
\* closing entry too, unless the daemon ended between the two writes.  (The
\* stream may always miss it: the board writes the status first, and the
\* stream stops at it.)
EndIsToldLast ==
  (got.task # NoTask /\ ~(reader = "acp" /\ lost)) =>
    LET rec == IF reader = "inspect" THEN file[got.task] ELSE mem[got.task]
        log == [i \in DOMAIN got.events |-> got.events[i].entry]
        report == rec.report IN
    /\ got.status = "Completed" =>
         /\ \A i \in DOMAIN report.ops :
              Times(log, Entry("engine.operation", report.ops[i])) = 1
         /\ \A i \in DOMAIN report.runs :
              Times(log, Entry("agent.run", report.runs[i].item)) = 1
         /\ got.agents = AgentEvents(rec)
         /\ reader = "inspect" => got.results = 1
    /\ Acp /\ ~torn =>
         /\ got.status = "Completed" => Has({"task.completed"})
         /\ got.status = "WaitingForInput" => Has({"task.waiting_for_input"})
         /\ got.status = "Failed" => Has({"task.failed", "task.recovered"})
         /\ got.status = "Cancelled" => Has({"task.cancelled", "task.cancel.requested"})

\* A new reading of the list, with tasks created meanwhile above the selected
\* one, leaves the selection on the task it was on.
SelectionKeepsItsTask ==
  [][list' # list /\ At(selected) # NoTask => list'[selected' + 1] = At(selected)]_vars

\* The proxy has answered each request with an id but the one it is at, each
\* once and in the order they came, and nothing that has none; the embedded
\* server answers every line so; and the task a turn is said to have created
\* is in the store, unless a restart lost it.
AnswersFollowRequests ==
  LET answers == {i \in DOMAIN out : out[i].is # "update"}
      taken == IF asked = NoLine THEN lines ELSE lines - 1
  IN
  /\ reader = "acp" =>
       /\ \A i, j \in answers : i < j => out[i].id < out[j].id
       /\ {out[i].id : i \in answers} = ids \ {asked.id}
  /\ reader = "embedded" =>
       /\ Len(out) = taken
       /\ \A i \in DOMAIN out : out[i].id = IF i \in ids THEN i ELSE 0
  /\ lost \/ \A i \in DOMAIN out : out[i].task # NoTask => mem[out[i].task] # Absent

\* The status the timeline shows with what happened to the task itself last.
\* An agent run also "completes", so only entries of the task count.
TaskKinds == {"task.created", "task.queued", "task.started", "task.completed", "task.failed",
              "task.waiting_for_input", "task.cancelled", "task.cancel.requested"}

LastShown(log) ==
  ItemStatus(log[CHOOSE i \in DOMAIN log :
                   /\ log[i].kind \in TaskKinds
                   /\ \A j \in DOMAIN log : log[j].kind \in TaskKinds => j <= i].kind)

ShownAs(status) ==
  CASE status = "Queued" -> "pending"
    [] status = "Running" -> "running"
    [] status = "Completed" -> "completed"
    [] status = "WaitingForInput" -> "waiting"
    [] status = "Failed" -> "failed"
    [] status = "Cancelled" -> "cancelled"
    [] OTHER -> "none"

\* The timeline tells the task as it is: its entries have one line each, in
\* order, an error its own, and between two session calls what it shows last
\* of the task is the status of the task, unless the daemon ended between the
\* two writes of one, or with one of them not on file.  (A task that was
\* recovered is failed, and shown as it was before with the entry "task
\* recovered" after it.)
TimelineTellsTheTask ==
  \A t \in {x \in Task : mem[x].log # <<>>} :
    LET log == mem[t].log  shown == TimelineLines(log) IN
    /\ FlattenSeq(shown) = [i \in DOMAIN log |-> i]
    /\ \A l \in DOMAIN shown : Len(shown[l]) > 1 =>
         \A i \in Range(shown[l]) : log[i].item[2] # "error"
    /\ /\ todo = <<>> /\ ~torn /\ ~lost
       /\ \A i \in DOMAIN log : log[i].kind # "task.recovered"
       => LastShown(log) = ShownAs(mem[t].status)

=============================================================================

------------------------------- MODULE Daemon -------------------------------
(***************************************************************************)
(* The siko daemon and its clients (src/interface/daemon.rs, the client    *)
(* side in src/interface/cli/assistant.rs, the turns of                    *)
(* src/interface/assistant/session.rs): who starts a daemon and who gets   *)
(* the socket, what a request does while it holds which of the three       *)
(* mutexes (session, store, agent run scheduler), what a client is told    *)
(* and what tasks.json says.                                               *)
(*                                                                         *)
(* A client is one process with one request; the task it may create has    *)
(* its name, and so has the workspace root it asks for.  The board is that *)
(* of module TaskBoard with a whole session call as one step, for it is    *)
(* made under both mutexes; task ids, progress and failing writes are left *)
(* out.  Tokio mutexes are fair: a queue whose head is the holder.         *)
(*                                                                         *)
(* A definition named X_Y is X with the fault Y, kept to show that a       *)
(* property would notice it.                                               *)
(***************************************************************************)
EXTENDS Naturals, Sequences, FiniteSets, SequencesExt

CONSTANTS
  Client,     \* client processes
  Proc,       \* daemon processes that can be started: the bound on starts
  Nobody,     \* no process, no client
  Timer,      \* the drain timer of a daemon, as holder of its mutexes
  Scenarios,  \* what the clients ask for, which of them wait for their task
              \* (wait_ms > 0), and the daemon that is up at the beginning
  Slots       \* max_parallel_tasks

Kind == {"send", "turn", "cancel", "view", "shutdown", "daemon"}

ASSUME DaemonAssumption ==
  /\ Nobody \notin Client \union Proc
  /\ Timer \notin Client /\ IsFiniteSet(Client)
  /\ Scenarios \subseteq [kind : [Client -> Kind], waits : SUBSET Client,
                         up : {{}} \union {{p} : p \in Proc}]
  /\ Slots \in Nat \ {0}

VARIABLES
  kind,      \* client -> what it asks for
  at,        \* client -> where it, or the daemon's handler of it, is
  peer,      \* client -> the daemon it is connected to
  idle,      \* client -> running_tasks = queued_tasks = 0 in its snapshot
  late,      \* client -> it does not wait, or its deadline is over
  told,      \* client -> the status of its task in the response
  proc,      \* daemon process -> its state
  path,      \* the process whose socket daemon.sock is; Nobody: no file
  file,      \* tasks.json: task -> status
  store,     \* daemon -> FileTaskStore::tasks
  queue,     \* daemon -> TaskBoard::queued
  focus,     \* daemon -> AssistantSession::focus_task
  default,   \* daemon -> the root set by set_task_root
  run,       \* task -> where its future is; a final status: its event is sent
  token,     \* task -> its token is cancelled
  root,      \* task -> the root its engine run gets
  lock,      \* daemon -> mutex -> its holder and the waiters in order
  timer,     \* daemon -> where its drain timer is
  rivals     \* history: two daemons have been alive at once

clientVars == <<kind, at, peer, idle, late, told>>
boardVars  == <<file, store, queue, focus, run, token, root>>
procVars   == <<proc, path, rivals>>
vars == <<clientVars, boardVars, procVars, default, lock, timer>>

\* WaitingForInput ends a run as Failed does.
Final == {"Completed", "Failed", "Cancelled"}

Init ==
  /\ \E s \in Scenarios :
       /\ kind = s.kind
       /\ late = [c \in Client |-> c \notin s.waits]
       /\ proc = [p \in Proc |-> IF p \in s.up THEN "up" ELSE "none"]
       /\ path = IF s.up = {} THEN Nobody ELSE CHOOSE p \in s.up : TRUE
  /\ at = [c \in Client |-> "new"]
  /\ peer = [c \in Client |-> Nobody]
  /\ idle = [c \in Client |-> FALSE]
  /\ told = [c \in Client |-> "nothing"]
  /\ file = [c \in Client |-> "Absent"]
  /\ store = [p \in Proc |-> file]
  /\ queue = [p \in Proc |-> <<>>]
  /\ focus = [p \in Proc |-> Nobody]
  /\ default = [p \in Proc |-> Nobody]
  /\ run = [c \in Client |-> "none"]
  /\ token = [c \in Client |-> FALSE]
  /\ root = [c \in Client |-> Nobody]
  /\ lock = [p \in Proc |-> [session |-> <<>>, store |-> <<>>, sched |-> <<>>]]
  /\ timer = [p \in Proc |-> "sleep"]
  /\ rivals = FALSE

-----------------------------------------------------------------------------
(* The client side.                                                        *)

Listens(p) == p # Nobody /\ proc[p] \in {"bound", "up"}

Alive(p) == proc[p] \notin {"none", "gone"}

GoTo(c, place) == at' = [at EXCEPT ![c] = place]

\* A new `siko daemon` process; with all of Proc used up it does not start.
Spawn ==
  \/ /\ \E p \in Proc : proc[p] = "none" /\ proc' = [proc EXCEPT ![p] = "spawned"]
     /\ rivals' = (rivals \/ \E p \in Proc : Alive(p))
  \/ (\A p \in Proc : proc[p] # "none") /\ UNCHANGED <<proc, rivals>>

ClientOnly(c) == UNCHANGED <<kind, idle, late, told, boardVars, path, default, lock, timer>>

\* The user starts a daemon by hand.
StartDaemon(c) ==
  /\ at[c] = "new" /\ kind[c] = "daemon"
  /\ Spawn
  /\ GoTo(c, "answered")
  /\ UNCHANGED peer /\ ClientOnly(c)

\* ensure_daemon_running, which a prompt starts with.
Check(c) ==
  /\ at[c] = "new" /\ kind[c] \in {"send", "turn"}
  /\ IF Listens(path) THEN GoTo(c, "connect") /\ UNCHANGED <<proc, rivals>>
                      ELSE GoTo(c, "poll") /\ Spawn
  /\ UNCHANGED peer /\ ClientOnly(c)

\* It polls for five seconds.
Poll(c) ==
  /\ at[c] = "poll"
  /\ GoTo(c, IF Listens(path) THEN "connect" ELSE "failed")
  /\ UNCHANGED <<peer, proc, rivals>> /\ ClientOnly(c)

\* send_json_to_daemon: the kernel queues the connection until it is accepted.
Connect(c) ==
  /\ at[c] \in {"connect"} \union IF kind[c] \in {"cancel", "view", "shutdown"} THEN {"new"} ELSE {}
  /\ IF Listens(path)
     THEN peer' = [peer EXCEPT ![c] = path] /\ GoTo(c, "sent")
     ELSE GoTo(c, "failed") /\ UNCHANGED peer
  /\ UNCHANGED <<proc, rivals>> /\ ClientOnly(c)

-----------------------------------------------------------------------------
(* A daemon starts: it unlinks whatever socket is there and binds its own  *)
(* before it reads the task file.                                          *)

Unlink(p) ==
  /\ proc[p] = "spawned"
  /\ proc' = [proc EXCEPT ![p] = "unlinked"]
  /\ path' = Nobody
  /\ UNCHANGED <<clientVars, boardVars, rivals, default, lock, timer>>

\* bind fails if a rival has bound the path meanwhile.
Bind(p) ==
  /\ proc[p] = "unlinked"
  /\ IF path = Nobody
     THEN proc' = [proc EXCEPT ![p] = "bound"] /\ path' = p
     ELSE proc' = [proc EXCEPT ![p] = "gone"] /\ UNCHANGED path
  /\ UNCHANGED <<clientVars, boardVars, rivals, default, lock, timer>>

Recovered_AsRead == file

\* mark_interrupted_active_tasks
Recovered ==
  [t \in Client |-> IF file[t] \in {"Queued", "Running"} THEN "Failed" ELSE file[t]]

Open(p) ==
  /\ proc[p] = "bound"
  /\ store' = [store EXCEPT ![p] = Recovered]
  /\ file' = Recovered
  /\ proc' = [proc EXCEPT ![p] = "up"]
  /\ UNCHANGED <<clientVars, queue, focus, run, token, root, path, rivals, default, lock, timer>>

-----------------------------------------------------------------------------
(* The board of a daemon, as a record; a call makes of the boards S that   *)
(* may be there the boards it may leave.                                   *)

Board(p) == [store |-> store[p], queue |-> queue[p], focus |-> focus[p],
             run |-> run, token |-> token, root |-> root, mine |-> {c \in Client : peer[c] = p},
             default |-> default[p]]

\* Every change is written through: tasks.json is replaced as a whole.
Put(p, b) ==
  /\ store' = [store EXCEPT ![p] = b.store]
  /\ file' = IF b.store = store[p] THEN file ELSE b.store
  /\ queue' = [queue EXCEPT ![p] = b.queue]
  /\ focus' = [focus EXCEPT ![p] = b.focus]
  /\ run' = b.run
  /\ token' = b.token
  /\ root' = b.root

\* Where the future of a task is that was started and not yet drained.
Started == {"spawned", "waiting", "working"} \union Final

HoldsSlot(b) == {t \in b.mine : b.run[t] \in Started}

RootAtStart_Default(b, t) == b.default

\* The root travels with the queue entry.
RootAtStart(b, t) == b.root[t]

\* How many of the queue find a free slot.
Ready(b) ==
  LET busy == Cardinality(HoldsSlot(b))
      free == IF busy < Slots THEN Slots - busy ELSE 0
  IN  IF free < Len(b.queue) THEN free ELSE Len(b.queue)

StartReady(b) ==
  LET n == Ready(b)
      ready == ToSet(SubSeq(b.queue, 1, n))
  IN  [b EXCEPT !.store = [t \in Client |-> IF t \in ready THEN "Running" ELSE @[t]],
                !.run   = [t \in Client |-> IF t \in ready THEN "spawned" ELSE @[t]],
                !.root  = [t \in Client |-> IF t \in ready THEN RootAtStart(b, t) ELSE @[t]],
                !.queue = SubSeq(@, n + 1, Len(@))]

Sent(b) == {t \in b.mine : b.run[t] \in Final}

Collected(b) ==
  [b EXCEPT !.store = [t \in Client |-> IF t \in Sent(b) THEN b.run[t] ELSE @[t]],
            !.run   = [t \in Client |-> IF t \in Sent(b) THEN "over" ELSE @[t]]]

\* Every event that was sent is applied, then free slots are filled.
Drain(S) == {StartReady(d) : d \in {Collected(b) : b \in S}}

Enqueued(b, t) ==
  [b EXCEPT !.store[t] = "Queued", !.run[t] = "queued", !.root[t] = b.default,
            !.queue = Append(@, t), !.focus = t]

\* create_task_with_source, TaskBoard::enqueue
Create(S, t) == {StartReady(d) : d \in {Enqueued(b, t) : b \in S}}

Victims(b) ==
  LET queued == ToSet(b.queue)
  IN  IF b.focus \in queued \union HoldsSlot(b) THEN {b.focus}
      ELSE IF HoldsSlot(b) # {} THEN HoldsSlot(b)
      ELSE IF b.queue # <<>> THEN {Head(b.queue)} ELSE {}

\* The queue without t, which waits in it at most once.
Without(q, t) == IF t \in ToSet(q) THEN RemoveAt(q, CHOOSE i \in DOMAIN q : q[i] = t) ELSE q

\* cancel_task; a running task keeps its slot.
CancelTask(b, t) ==
  [b EXCEPT !.store[t] = "Cancelled",
            !.queue = Without(@, t),
            !.run[t] = IF t \in ToSet(b.queue) THEN "over" ELSE @,
            !.token[t] = TRUE,
            !.focus = IF @ = t THEN Nobody ELSE @]

\* AssistantSession::cancel
CancelOne(S) ==
  UNION {IF Victims(d) = {} THEN {d} ELSE {CancelTask(d, t) : t \in Victims(d)} : d \in Drain(S)}

Idle_NothingQueued(b) == b.queue = <<>>

Idle(b) == b.queue = <<>> /\ HoldsSlot(b) = {}

-----------------------------------------------------------------------------
(* Mutexes.                                                                *)

WaitFor(p, m, x) == lock' = [lock EXCEPT ![p][m] = Append(@, x)]

Holds(p, m, x) == lock[p][m] # <<>> /\ Head(lock[p][m]) = x

Mutex == {"session", "store", "sched"}

\* The guards in `ms` that x holds go out of scope.
Release(p, ms, x) ==
  lock' = [lock EXCEPT ![p] = [m \in Mutex |->
             IF m \in ms /\ Holds(p, m, x) THEN Tail(@[m]) ELSE @[m]]]

Both == {"session", "store"}

\* Handlers that touch the session lock it before the store.
FirstLock(c) == IF kind[c] = "view" THEN "store" ELSE "session"

Other(m) == IF m = "session" THEN "store" ELSE "session"

-----------------------------------------------------------------------------
(* The handler of a request, from the accepted line to the response.       *)

\* The handler of c moves on in daemon p.
Handler(c, from) == at[c] = from /\ proc[peer[c]] = "up"

Quiet == UNCHANGED <<kind, peer, procVars, timer>>

Accept(c) ==
  /\ Handler(c, "sent")
  /\ IF kind[c] = "shutdown"
     THEN GoTo(c, "exit") /\ UNCHANGED lock
     ELSE GoTo(c, "first") /\ WaitFor(peer[c], FirstLock(c), c)
  /\ UNCHANGED <<idle, late, told, boardVars, default>> /\ Quiet

\* The first mutex of two is there.
Second(c) ==
  /\ at[c] \in {"first", "again"} /\ kind[c] # "view" /\ proc[peer[c]] = "up"
  /\ Holds(peer[c], FirstLock(c), c)
  /\ WaitFor(peer[c], Other(FirstLock(c)), c)
  /\ GoTo(c, IF at[c] = "first" THEN "second" ELSE "snapshot")
  /\ UNCHANGED <<idle, late, told, boardVars, default>> /\ Quiet

Begin(c) ==
  LET p == peer[c] IN
  /\ Handler(c, "second")
  /\ Holds(p, Other(FirstLock(c)), c)

\* A direct task message: drain, create, drain, all under both mutexes.
Send(c) ==
  LET p == peer[c] IN
  /\ Begin(c) /\ kind[c] = "send"
  /\ default' = [default EXCEPT ![p] = c]
  /\ \E b \in Drain(Create(Drain({[Board(p) EXCEPT !.default = c]}), c)) :
       Put(p, b) /\ idle' = [idle EXCEPT ![c] = Idle(b)]
  /\ Release(p, Both, c)
  /\ GoTo(c, "wait")
  /\ UNCHANGED <<late, told>> /\ Quiet

\* An assistant turn asks the agent with both mutexes held.
TurnStarts(c) ==
  LET p == peer[c] IN
  /\ Begin(c) /\ kind[c] = "turn"
  /\ default' = [default EXCEPT ![p] = c]
  /\ \E b \in Drain({Board(p)}) : Put(p, b)
  /\ WaitFor(p, "sched", c)
  /\ GoTo(c, "asking")
  /\ UNCHANGED <<idle, late, told>> /\ Quiet

\* Its answer fails the protocol once and it is asked again.
TurnRetries(c) ==
  LET p == peer[c] IN
  /\ Handler(c, "asking") /\ Holds(p, "sched", c)
  /\ lock' = [lock EXCEPT ![p].sched = Append(Tail(@), c)]
  /\ GoTo(c, "asking again")
  /\ UNCHANGED <<idle, late, told, boardVars, default>> /\ Quiet

\* apply_turn: nothing (or a second failure), create_task or cancel_task.
Applied(S, c) == S \union Create(S, c) \union CancelOne(S)

TurnEnds(c) ==
  LET p == peer[c] IN
  /\ at[c] \in {"asking", "asking again"} /\ proc[p] = "up" /\ Holds(p, "sched", c)
  /\ \E b \in Drain(Applied({Board(p)}, c)) :
       Put(p, b) /\ idle' = [idle EXCEPT ![c] = Idle(b)]
  /\ Release(p, Both \union {"sched"}, c)
  /\ GoTo(c, "wait")
  /\ UNCHANGED <<late, told, default>> /\ Quiet

\* No deadline: the loop ends when the board is idle.
Wait_UntilIdle(c) ==
  /\ Handler(c, "wait")
  /\ IF idle[c] \/ late[c]
     THEN GoTo(c, "report") /\ WaitFor(peer[c], "store", c)
     ELSE GoTo(c, "again") /\ WaitFor(peer[c], "session", c)
  /\ UNCHANGED <<idle, late, told, boardVars, default>> /\ Quiet

\* The loop of a client that waits: idle, one more drain, or the last one.
Wait(c) ==
  /\ Handler(c, "wait")
  /\ \/ (idle[c] \/ late[c]) /\ GoTo(c, "report") /\ WaitFor(peer[c], "store", c) /\ UNCHANGED late
     \/ /\ ~idle[c] /\ ~late[c]
        /\ late' \in {late, [late EXCEPT ![c] = TRUE]}
        /\ GoTo(c, "again") /\ WaitFor(peer[c], "session", c)
  /\ UNCHANGED <<idle, told, boardVars, default>> /\ Quiet

Snapshot(c) ==
  LET p == peer[c] IN
  /\ Handler(c, "snapshot") /\ Holds(p, "store", c)
  /\ \E b \in Drain({Board(p)}) : Put(p, b) /\ idle' = [idle EXCEPT ![c] = Idle(b)]
  /\ Release(p, Both, c)
  /\ GoTo(c, "wait")
  /\ UNCHANGED <<late, told, default>> /\ Quiet

\* The status of the task is read under the store mutex alone.
Report(c) ==
  /\ Handler(c, "report") /\ Holds(peer[c], "store", c)
  /\ told' = [told EXCEPT ![c] = store[peer[c]][c]]
  /\ Release(peer[c], {"store"}, c)
  /\ GoTo(c, "write")
  /\ UNCHANGED <<idle, late, boardVars, default>> /\ Quiet

Cancel(c) ==
  LET p == peer[c] IN
  /\ Begin(c) /\ kind[c] = "cancel"
  /\ \E b \in CancelOne({Board(p)}) : Put(p, b)
  /\ GoTo(c, "write")
  /\ UNCHANGED <<idle, late, told, default, lock>> /\ Quiet

View(c) ==
  /\ Handler(c, "first") /\ kind[c] = "view" /\ Holds(peer[c], "store", c)
  /\ GoTo(c, "write")
  /\ UNCHANGED <<idle, late, told, boardVars, default, lock>> /\ Quiet

\* A cancel and a view write their response before they let go.
Write(c) ==
  /\ Handler(c, "write")
  /\ Release(peer[c], Both, c)
  /\ GoTo(c, "answered")
  /\ UNCHANGED <<idle, late, told, boardVars, default>> /\ Quiet

\* The response is written and the process ends; connections are closed,
\* futures are gone.
Shutdown(c) ==
  LET p == peer[c] IN
  /\ Handler(c, "exit")
  /\ proc' = [proc EXCEPT ![p] = "gone"]
  /\ at' = [d \in Client |-> IF d = c THEN "answered"
                             ELSE IF peer[d] = p /\ at[d] # "answered" THEN "failed" ELSE at[d]]
  /\ run' = [t \in Client |-> IF peer[t] = p THEN "none" ELSE run[t]]
  /\ queue' = [queue EXCEPT ![p] = <<>>]
  /\ lock' = [lock EXCEPT ![p] = [m \in Mutex |-> <<>>]]
  /\ timer' = [timer EXCEPT ![p] = "sleep"]
  /\ UNCHANGED <<kind, peer, idle, late, told, file, store, focus, token, root, path, rivals, default>>

-----------------------------------------------------------------------------
(* The drain timer and the tasks.                                          *)

TimerStep(p) ==
  /\ proc[p] = "up"
  /\ \/ timer[p] = "sleep" /\ WaitFor(p, "session", Timer) /\ UNCHANGED boardVars
        /\ timer' = [timer EXCEPT ![p] = "session"]
     \/ timer[p] = "session" /\ Holds(p, "session", Timer) /\ WaitFor(p, "store", Timer)
        /\ timer' = [timer EXCEPT ![p] = "store"] /\ UNCHANGED boardVars
     \/ timer[p] = "store" /\ Holds(p, "store", Timer)
        /\ \E b \in Drain({Board(p)}) : Put(p, b)
        /\ Release(p, Both, Timer) /\ timer' = [timer EXCEPT ![p] = "sleep"]
  /\ UNCHANGED <<clientVars, procVars, default>>

RunTo(t, place) == run' = [run EXCEPT ![t] = place]

TaskRest == UNCHANGED <<clientVars, procVars, file, store, queue, focus, token, root, default, timer>>

\* A task asks for the scheduler for every agent run of its engine.
TaskAsks(t) ==
  /\ run[t] = "spawned"
  /\ IF token[t]
     THEN RunTo(t, "Cancelled") /\ UNCHANGED lock
     ELSE RunTo(t, "waiting") /\ WaitFor(peer[t], "sched", <<t>>)
  /\ TaskRest

TaskGetsHost(t) ==
  /\ run[t] = "waiting" /\ Holds(peer[t], "sched", <<t>>)
  /\ IF token[t]
     THEN RunTo(t, "Cancelled") /\ Release(peer[t], {"sched"}, <<t>>)
     ELSE RunTo(t, "working") /\ UNCHANGED lock
  /\ TaskRest

\* The agent answers and the engine goes on or is done; or the token is
\* cancelled, which ends the host.
AgentAnswers(t) ==
  /\ run[t] = "working"
  /\ \E next \in IF token[t] THEN {"Cancelled"} ELSE {"spawned", "Completed", "Failed"} :
       RunTo(t, next)
  /\ Release(peer[t], {"sched"}, <<t>>)
  /\ TaskRest

-----------------------------------------------------------------------------

\* What the daemon and the client processes do by themselves.
Local(c) ==
  \/ StartDaemon(c) \/ Check(c) \/ Poll(c) \/ Connect(c) \/ Accept(c) \/ Second(c) \/ Send(c)
  \/ TurnStarts(c) \/ Wait(c) \/ Snapshot(c) \/ Report(c) \/ Cancel(c) \/ View(c)
  \/ Write(c) \/ Shutdown(c)

\* Two of them wait for the agent host.
Answered(c) == TurnRetries(c) \/ TurnEnds(c)

Task(t) == TaskAsks(t) \/ TaskGetsHost(t) \/ AgentAnswers(t)

Start(p) == Unlink(p) \/ Bind(p) \/ Open(p)

\* Every client has ended.
Done ==
  /\ \A c \in Client : at[c] \in {"answered", "failed"}
  /\ UNCHANGED vars

Next ==
  \/ \E c \in Client : Local(c) \/ Answered(c) \/ Task(c)
  \/ \E p \in Proc : Start(p) \/ TimerStep(p)
  \/ Done

Spec == Init /\ [][Next]_vars

\* A waiting client comes to its deadline.
Deadline(c) == ~late[c] /\ Wait(c) /\ late'[c]

\* Processes run, tokio polls, clients read what is written to them, time
\* passes, and the agent host answers every request, or fails it.
Fairness ==
  /\ \A c \in Client : /\ WF_vars(Local(c) \/ Answered(c))
                       /\ SF_vars(Deadline(c))
                       /\ WF_vars(Task(c))
  /\ \A p \in Proc : WF_vars(Start(p)) /\ WF_vars(TimerStep(p))

FairSpec == Spec /\ Fairness

-----------------------------------------------------------------------------
(* Properties.                                                             *)

Place ==
  {"new", "poll", "connect", "sent", "first", "second", "again", "snapshot", "asking",
   "asking again", "wait", "report", "write", "exit", "answered", "failed"}

Status == {"Absent", "Queued", "Running"} \union Final

TypeOK ==
  /\ kind \in [Client -> Kind] /\ at \in [Client -> Place]
  /\ peer \in [Client -> Proc \union {Nobody}]
  /\ idle \in [Client -> BOOLEAN] /\ late \in [Client -> BOOLEAN]
  /\ told \in [Client -> Status \union {"nothing"}]
  /\ proc \in [Proc -> {"none", "spawned", "unlinked", "bound", "up", "gone"}]
  /\ path \in Proc \union {Nobody} /\ rivals \in BOOLEAN
  /\ file \in [Client -> Status] /\ store \in [Proc -> [Client -> Status]]
  /\ queue \in [Proc -> Seq(Client)]
  /\ focus \in [Proc -> Client \union {Nobody}]
  /\ default \in [Proc -> Client \union {Nobody}]
  /\ run \in [Client -> {"none", "queued", "over"} \union Started]
  /\ token \in [Client -> BOOLEAN] /\ root \in [Client -> Client \union {Nobody}]
  /\ lock \in [Proc -> [Mutex -> Seq(Client \union {Timer} \union {<<t>> : t \in Client})]]
  /\ timer \in [Proc -> {"sleep", "session", "store"}]

\* A task runs with the workspace and rights of the request that created it
\* (set_task_root, enqueue), whatever requests came between.
RootOfTheRequest ==
  \A t \in Client : run[t] \notin {"none", "over"} => root[t] = t

\* A client that waited and did not run into its deadline is told how its
\* task ended (the loop of "send" and "assistant_turn" ends on an idle board).
WaitedReplyIsSettled ==
  \A c \in Client : told[c] \in {"Queued", "Running"} => late[c]

\* As long as one daemon ran at a time, tasks.json keeps what a client was
\* told about an ended task, and a task told as running is Failed, not
\* running, once the next daemon has opened the file.
ToldIsOnFile ==
  ~rivals =>
    \A c \in Client :
      /\ told[c] \in {"Completed", "Failed"} => file[c] = told[c]
      /\ \A p \in Proc : proc[p] = "up" /\ peer[c] # p => file[c] \notin {"Queued", "Running"}

\* Each request is answered or its connection is closed with its daemon,
\* though all of them queue for the same mutexes with tasks and timer.
RequestsAnswered == <>(\A c \in Client : at[c] \in {"answered", "failed"})

-----------------------------------------------------------------------------
(* What the repository says and the code does not do.                      *)

\* daemon.rs:110 "Remove stale socket file": what a starting daemon unlinks
\* is not the socket of one that serves.
OnlyStaleSocketsGo == [][path' # path => ~Listens(path)]_vars
=============================================================================

-------------------------- MODULE TaskBoardProofs --------------------------
(***************************************************************************)
(* Proofs about TaskBoard for every set of tasks, limit and crash bound.   *)
(***************************************************************************)
EXTENDS TaskBoard, Integers, SequenceTheorems, FiniteSetTheorems, TLAPS

-----------------------------------------------------------------------------
(* Sequences.                                                              *)

\* RemoveAt leaves the others in their order.
LEMMA RemoveAtType ==
  ASSUME NEW S, NEW q \in Seq(S), NEW i \in DOMAIN q
  PROVE  /\ RemoveAt(q, i) \in Seq(S)
         /\ Len(RemoveAt(q, i)) = Len(q) - 1
         /\ \A j \in 1..(Len(q) - 1) :
              RemoveAt(q, i)[j] = IF j < i THEN q[j] ELSE q[j + 1]
<1> DEFINE left == SubSeq(q, 1, i - 1)
           right == SubSeq(q, i + 1, Len(q))
<1>1. Len(q) \in Nat /\ i \in 1..Len(q) /\ \A j \in 1..Len(q) : q[j] \in S
  OBVIOUS
<1>2. left \in Seq(S) /\ Len(left) = i - 1 /\ \A j \in 1..(i - 1) : left[j] = q[j]
  BY <1>1
<1>3. right \in Seq(S) /\ Len(right) = Len(q) - i /\ \A j \in 1..(Len(q) - i) : right[j] = q[i + j]
  BY <1>1
<1> HIDE DEF left, right
<1>4. RemoveAt(q, i) = left \o right
  BY DEF RemoveAt, left, right
<1>5. QED
  BY <1>1, <1>2, <1>3, <1>4, ConcatProperties

\* What taking the first element leaves.
LEMMA TailEffect ==
  ASSUME NEW S, NEW s \in Seq(S), s # <<>>
  PROVE  /\ Len(s) \in Nat \ {0} /\ DOMAIN s = 1..Len(s)
         /\ Head(s) = s[1] /\ s[1] \in S
         /\ Tail(s) \in Seq(S) /\ DOMAIN Tail(s) = 1..(Len(s) - 1)
         /\ \A i \in DOMAIN Tail(s) : Tail(s)[i] = s[i + 1]
BY HeadTailProperties

-----------------------------------------------------------------------------

\* The strengthening under which slot accounting and the agreement of store
\* and board are inductive, one conjunct per idea.

\* The queue holds each task once, and only tasks that never ran.
QueueInv ==
  /\ \A i, j \in DOMAIN queued : queued[i] = queued[j] => i = j
  /\ \A i \in DOMAIN queued :
       /\ store[queued[i]] = "Queued"
       /\ runner[queued[i]] = "none"
  /\ \A t \in Task : store[t] = "Queued" => \E i \in DOMAIN queued : queued[i] = t

\* What the operation in progress knows of the task it creates.
OperationInv ==
  /\ phase = "create" \/ then = "create" => target \in Task /\ store[target] = "Absent"
  /\ phase = "enqueue" => target \in Task /\ store[target] = "Created"
  /\ phase \in {"create", "enqueue", "cancel"} => then = "idle"
  /\ \A t \in Task : store[t] = "Created" => phase = "enqueue" /\ target = t
  /\ \A t \in Task : store[t] \in {"Absent", "Created"} => runner[t] = "none"

\* A slot is held until the one event of its future has been applied.
SlotInv ==
  /\ \A t \in Task : t \in running <=> InFlight(t) \/ HasEvent(t)
  /\ \A t \in Task : ~(InFlight(t) /\ HasEvent(t))
  /\ \A i, j \in DOMAIN channel : channel[i].task = channel[j].task => i = j
  /\ \A t \in Task : runner[t] = "none" => t \notin running
  /\ \A t \in Task : runner[t] = "sending" => outcome[t] \in Outcome

\* The status of a task that holds a slot.
StatusInv ==
  /\ \A t \in running : store[t] = IF token[t] THEN "Cancelled" ELSE "Running"
  /\ \A t \in Task : store[t] = "Running" => t \in running

BoardInv == TypeOK /\ QueueInv /\ OperationInv /\ SlotInv /\ StatusInv

-----------------------------------------------------------------------------
LEMMA SlotsPositive == Slots \in Nat \ {0}
BY TaskBoardAssumption DEF Slots

LEMMA StatusFromEventType == \A o \in Outcome : StatusFromEvent(o) \in {"Completed", "WaitingForInput", "Failed", "Cancelled"}
BY DEF StatusFromEvent, StatusFromNode, Outcome, ReportStatus

LEMMA InitBoardInv == Init => BoardInv
<1> SUFFICES ASSUME Init PROVE BoardInv
  OBVIOUS
<1> USE DEF Init
<1>1. TypeOK
  <2>1. channel \in Seq(TaskRunEvent) /\ queued \in Seq(Task)
    BY EmptySeq
  <2>2. crashes \in 0..MaxCrashes
    BY TaskBoardAssumption
  <2>3. store \in [Task -> TaskStatus \union {"Absent"}] /\ disk \in [Task -> TaskStatus \union {"Absent"}]
    OBVIOUS
  <2>4. QED
    BY <2>1, <2>2, <2>3 DEF TypeOK
<1>2. QueueInv
  BY DEF QueueInv
<1>3. OperationInv
  BY DEF OperationInv
<1>4. SlotInv
  BY DEF SlotInv, InFlight, HasEvent
<1>5. StatusInv
  BY DEF StatusInv
<1>6. QED
  BY <1>1, <1>2, <1>3, <1>4, <1>5 DEF BoardInv

\* Writing a status through the file store keeps store and disk well typed.
LEMMA SetStatusType ==
  ASSUME TypeOK, NEW t \in Task, NEW s \in TaskStatus, SetStatus(t, s)
  PROVE  /\ store' = [store EXCEPT ![t] = s]
         /\ store' \in [Task -> TaskStatus \union {"Absent"}]
         /\ disk' \in [Task -> TaskStatus \union {"Absent"}]
         /\ persistErr' \in BOOLEAN
BY DEF SetStatus, Persist, TypeOK

LEMMA StepType ==
  ASSUME BoardInv, [Next]_vars
  PROVE  TypeOK'
<1> USE DEF BoardInv, storeVars, boardVars, runnerVars, sessionVars
<1>1. CASE DrainEvent
  <2> DEFINE e == Head(channel)
  <2>1. e.task \in Task /\ e.outcome \in Outcome /\ Tail(channel) \in Seq(TaskRunEvent)
    <3>1. e \in TaskRunEvent /\ Tail(channel) \in Seq(TaskRunEvent)
      BY <1>1, HeadTailProperties DEF DrainEvent, TypeOK
    <3>2. QED
      BY <3>1 DEF TaskRunEvent
  <2>2. SetStatus(e.task, StatusFromEvent(e.outcome)) /\ StatusFromEvent(e.outcome) \in TaskStatus
    BY <1>1, <2>1, StatusFromEventType DEF DrainEvent, TaskStatus
  <2>3. store' \in [Task -> TaskStatus \union {"Absent"}] /\ disk' \in [Task -> TaskStatus \union {"Absent"}] /\ persistErr' \in BOOLEAN
    BY <2>1, <2>2, SetStatusType
  <2>4. QED
    BY <1>1, <2>1, <2>3 DEF DrainEvent, TypeOK
<1>2. CASE DrainProgress
  BY <1>2 DEF DrainProgress, Persist, TypeOK
<1>3. CASE DrainDone
  BY <1>3 DEF DrainDone, TypeOK
<1>4. CASE StartTask
  <2> DEFINE t == Head(queued)
  <2>1. t \in Task /\ Tail(queued) \in Seq(Task) /\ SetStatus(t, "Running")
    BY <1>4 DEF StartTask, TypeOK
  <2>2. store' \in [Task -> TaskStatus \union {"Absent"}] /\ disk' \in [Task -> TaskStatus \union {"Absent"}] /\ persistErr' \in BOOLEAN
    BY <2>1, SetStatusType DEF TaskStatus
  <2>3. QED
    BY <1>4, <2>1, <2>2 DEF StartTask, TypeOK
<1>5. CASE StartDone
  BY <1>5 DEF StartDone, TypeOK
<1>6. CASE CreateTask
  <2>1. target \in Task /\ SetStatus(target, "Created")
    BY <1>6 DEF CreateTask, OperationInv
  <2>2. store' \in [Task -> TaskStatus \union {"Absent"}] /\ disk' \in [Task -> TaskStatus \union {"Absent"}] /\ persistErr' \in BOOLEAN
    BY <2>1, SetStatusType DEF TaskStatus
  <2>3. QED
    BY <1>6, <2>1, <2>2 DEF CreateTask, TypeOK
<1>7. CASE Enqueue
  <2>1. target \in Task /\ SetStatus(target, "Queued")
    BY <1>7 DEF Enqueue, OperationInv
  <2>2. store' \in [Task -> TaskStatus \union {"Absent"}] /\ disk' \in [Task -> TaskStatus \union {"Absent"}] /\ persistErr' \in BOOLEAN
    BY <2>1, SetStatusType DEF TaskStatus
  <2>3. QED
    BY <1>7, <2>1, <2>2 DEF Enqueue, TypeOK
<1>8. ASSUME NEW t \in Task, CancelTask(t)
      PROVE  TypeOK'
  <2>1. SetStatus(t, "Cancelled")
    BY <1>8 DEF CancelTask, CancelQueued, CancelRunning
  <2>2. store' \in [Task -> TaskStatus \union {"Absent"}] /\ disk' \in [Task -> TaskStatus \union {"Absent"}] /\ persistErr' \in BOOLEAN
    BY <2>1, SetStatusType DEF TaskStatus
  <2>3. queued' \in Seq(Task) /\ running' = running /\ token' \in [Task -> BOOLEAN]
    <3>1. CASE t \in ToSet(queued)
      <4>1. PICK i \in DOMAIN queued : i = CHOOSE j \in DOMAIN queued : queued[j] = t
        BY <3>1 DEF ToSet
      <4>2. RemoveAt(queued, i) \in Seq(Task)
        BY <4>1, RemoveAtType DEF TypeOK
      <4>3. QED
        BY <1>8, <3>1, <4>1, <4>2 DEF CancelTask, CancelQueued, TypeOK
    <3>2. CASE t \notin ToSet(queued)
      BY <1>8, <3>2 DEF CancelTask, CancelRunning, TypeOK
    <3>3. QED
      BY <3>1, <3>2
  <2>4. QED
    BY <1>8, <2>2, <2>3 DEF CancelTask, TypeOK
<1>9. CASE CancelNothing
  BY <1>9 DEF CancelNothing, TypeOK
<1>10. CASE Tick
  BY <1>10 DEF Tick, Begin, TypeOK
<1>11. ASSUME NEW t \in Task, Submit(t)
       PROVE  TypeOK'
  BY <1>11 DEF Submit, Begin, TypeOK
<1>12. ASSUME NEW t \in Task \union {NoTask}, RequestCancel(t)
       PROVE  TypeOK'
  BY <1>12 DEF RequestCancel, Begin, TypeOK
<1>13. ASSUME NEW t \in Task, RunnerStart(t)
       PROVE  TypeOK'
  <2>1. [task |-> t, outcome |-> "Cancelled"] \in TaskRunEvent
    BY DEF Outcome, TaskRunEvent
  <2>2. channel' \in Seq(TaskRunEvent)
    <3>1. CASE token[t]
      <4>1. channel \in Seq(TaskRunEvent)
        BY DEF TypeOK
      <4>2. Append(channel, [task |-> t, outcome |-> "Cancelled"]) \in Seq(TaskRunEvent)
        BY <2>1, <4>1, AppendProperties
      <4>3. QED
        BY <1>13, <3>1, <4>2 DEF RunnerStart, Send
    <3>2. CASE ~token[t]
      BY <1>13, <3>2 DEF RunnerStart, TypeOK
    <3>3. QED
      BY <3>1, <3>2
  <2>3. QED
    BY <1>13, <2>2 DEF RunnerStart, TypeOK
<1>14. ASSUME NEW t \in Task, RunnerFinish(t)
       PROVE  TypeOK'
  BY <1>14 DEF RunnerFinish, EngineOutcome, TypeOK, Outcome
<1>15. ASSUME NEW t \in Task, RunnerSend(t)
       PROVE  TypeOK'
  <2>1. [task |-> t, outcome |-> outcome[t]] \in TaskRunEvent
    BY <1>15 DEF RunnerSend, SlotInv, TaskRunEvent
  <2>2. QED
    BY <1>15, <2>1 DEF RunnerSend, Send, TypeOK
<1>16. ASSUME NEW t \in Task, RunnerPanic(t)
       PROVE  TypeOK'
  <2>1. [task |-> t, outcome |-> "Failed"] \in TaskRunEvent
    BY DEF Outcome, TaskRunEvent
  <2>2. QED
    BY <1>16, <2>1 DEF RunnerPanic, Send, TypeOK
<1>17. CASE Restart
  <2> DEFINE read == [t \in Task |-> IF disk[t] \in Interrupted THEN "Failed" ELSE disk[t]]
  <2>1. read \in [Task -> TaskStatus \union {"Absent"}]
    BY DEF TypeOK, TaskStatus
  <2>2. /\ store' \in {read, disk}
        /\ disk' \in {read, disk}
        /\ persistErr' \in BOOLEAN
    BY <1>17 DEF Restart, Persist
  <2>3. queued' \in Seq(Task) /\ channel' \in Seq(TaskRunEvent)
    BY <1>17, EmptySeq DEF Restart
  <2>4. crashes' \in 0..MaxCrashes
    BY <1>17, TaskBoardAssumption DEF Restart, TypeOK
  <2>5. QED
    BY <1>17, <2>1, <2>2, <2>3, <2>4 DEF Restart, TypeOK
<1>18. CASE UNCHANGED vars
  BY <1>18 DEF vars, TypeOK
<1>19. QED
  BY <1>1, <1>2, <1>3, <1>4, <1>5, <1>6, <1>7, <1>8, <1>9, <1>10, <1>11, <1>12, <1>13,
     <1>14, <1>15, <1>16, <1>17, <1>18 DEF Next, SessionStep, Runner, EngineReturns

-----------------------------------------------------------------------------
\* What sending an event adds to the channel.
LEMMA SendEffect ==
  ASSUME channel \in Seq(TaskRunEvent), NEW t \in Task, NEW o \in Outcome, Send(t, o)
  PROVE  /\ Len(channel) \in Nat /\ DOMAIN channel = 1..Len(channel)
         /\ DOMAIN channel' = 1..(Len(channel) + 1)
         /\ \A i \in DOMAIN channel : channel'[i] = channel[i]
         /\ channel'[Len(channel) + 1] = [task |-> t, outcome |-> o]
<1>1. [task |-> t, outcome |-> o] \in TaskRunEvent
  BY DEF TaskRunEvent
<1>2. QED
  BY <1>1, AppendProperties DEF Send

\* The event a future sends replaces the future as what holds its slot.
LEMMA SendKeepsSlots ==
  ASSUME BoardInv, NEW t \in Task, NEW o \in Outcome, InFlight(t), Send(t, o),
         runner' = [runner EXCEPT ![t] = "done"], UNCHANGED <<running, outcome>>
  PROVE  SlotInv'
<1> USE DEF BoardInv
<1>1. /\ Len(channel) \in Nat /\ DOMAIN channel = 1..Len(channel)
      /\ DOMAIN channel' = 1..(Len(channel) + 1)
      /\ \A i \in DOMAIN channel : channel'[i] = channel[i]
      /\ channel'[Len(channel) + 1] = [task |-> t, outcome |-> o]
  BY SendEffect DEF TypeOK
<1>2. ASSUME NEW u \in Task PROVE HasEvent(u)' <=> HasEvent(u) \/ u = t
  BY <1>1 DEF HasEvent
<1>3. ASSUME NEW u \in Task PROVE InFlight(u)' <=> InFlight(u) /\ u # t
  BY DEF InFlight, TypeOK
<1>4. ~HasEvent(t)
  BY DEF SlotInv
<1>5. \A u \in Task : u \in running' <=> InFlight(u)' \/ HasEvent(u)'
  BY <1>2, <1>3 DEF SlotInv
<1>6. \A u \in Task : ~(InFlight(u)' /\ HasEvent(u)')
  BY <1>2, <1>3 DEF SlotInv
<1>7. \A i, j \in DOMAIN channel' : channel'[i].task = channel'[j].task => i = j
  BY <1>1, <1>4 DEF SlotInv, HasEvent
<1>8. \A u \in Task : /\ runner'[u] = "none" => u \notin running'
                      /\ runner'[u] = "sending" => outcome'[u] \in Outcome
  BY DEF SlotInv, TypeOK
<1>9. QED
  BY <1>5, <1>6, <1>7, <1>8 DEF SlotInv

\* Steps that only move the session operation along.
LEMMA QuietStep ==
  ASSUME BoardInv, UNCHANGED <<store, queued, running, token, channel, runner, outcome>>
  PROVE  QueueInv' /\ SlotInv' /\ StatusInv'
BY DEF BoardInv, QueueInv, SlotInv, StatusInv, InFlight, HasEvent

\* The futures touch neither the store nor the queue, and never become unspawned.
LEMMA RunnerStep ==
  ASSUME BoardInv, NEW t \in Task, Runner(t)
  PROVE  QueueInv' /\ OperationInv' /\ SlotInv' /\ StatusInv'
<1> USE DEF BoardInv, storeVars, boardVars, runnerVars, sessionVars
<1>1. /\ UNCHANGED <<store, queued, running, token, phase, then, target>>
      /\ runner[t] # "none" /\ InFlight(t)
      /\ \E p \in {"working", "sending", "done"} : runner' = [runner EXCEPT ![t] = p]
  BY DEF Runner, EngineReturns, RunnerStart, RunnerFinish, RunnerSend, RunnerPanic, InFlight
<1>2. QueueInv' /\ OperationInv' /\ StatusInv'
  BY <1>1 DEF QueueInv, OperationInv, StatusInv, TypeOK
<1>3. SlotInv'
  <2>1. CASE RunnerStart(t) /\ token[t]
    BY <1>1, <2>1, SendKeepsSlots DEF RunnerStart, Outcome
  <2>2. CASE RunnerStart(t) /\ ~token[t]
    BY <1>1, <2>2 DEF RunnerStart, SlotInv, InFlight, HasEvent, TypeOK
  <2>3. CASE RunnerFinish(t)
    <3>1. PICK o \in Outcome : outcome' = [outcome EXCEPT ![t] = o]
      BY <2>3 DEF RunnerFinish, EngineOutcome, Outcome
    <3>2. QED
      BY <1>1, <2>3, <3>1 DEF RunnerFinish, SlotInv, InFlight, HasEvent, TypeOK
  <2>4. CASE RunnerSend(t)
    BY <1>1, <2>4, SendKeepsSlots DEF RunnerSend, SlotInv
  <2>5. CASE RunnerPanic(t)
    BY <1>1, <2>5, SendKeepsSlots DEF RunnerPanic, Outcome
  <2>6. QED
    BY <2>1, <2>2, <2>3, <2>4, <2>5 DEF Runner, EngineReturns
<1>4. QED
  BY <1>2, <1>3

\* Applying an event: its task gives up the slot that the event held.
LEMMA DrainEventStep ==
  ASSUME BoardInv, DrainEvent
  PROVE  QueueInv' /\ OperationInv' /\ SlotInv' /\ StatusInv'
<1> USE DEF BoardInv, runnerVars, sessionVars
<1> DEFINE t == Head(channel).task
           s == StatusFromEvent(Head(channel).outcome)
<1>1. /\ Len(channel) \in Nat \ {0} /\ DOMAIN channel = 1..Len(channel)
      /\ Head(channel) = channel[1] /\ channel[1] \in TaskRunEvent
      /\ DOMAIN channel' = 1..(Len(channel) - 1)
      /\ \A i \in DOMAIN channel' : channel'[i] = channel[i + 1]
  BY TailEffect DEF DrainEvent, TypeOK
<1>2. t \in Task /\ t = channel[1].task /\ s \in {"Completed", "WaitingForInput", "Failed", "Cancelled"}
  BY <1>1, StatusFromEventType DEF TaskRunEvent
<1>3. /\ store' = [store EXCEPT ![t] = s]
      /\ running' = running \ {t}
      /\ UNCHANGED <<queued, token, runner, outcome, phase, then, target>>
  BY DEF DrainEvent, SetStatus, Persist
<1> HIDE DEF t, s
<1>4. HasEvent(t) /\ ~InFlight(t) /\ t \in running /\ runner[t] # "none"
  BY <1>1, <1>2 DEF HasEvent, SlotInv
<1>5. QueueInv'
  BY <1>2, <1>3, <1>4 DEF QueueInv, TypeOK
<1>6. OperationInv'
  BY <1>2, <1>3, <1>4 DEF OperationInv, TypeOK
<1>7. SlotInv'
  <2>1. ASSUME NEW u \in Task PROVE HasEvent(u)' <=> HasEvent(u) /\ u # t
    <3>1. HasEvent(u)' <=> \E i \in 1..(Len(channel) - 1) : channel[i + 1].task = u
      BY <1>1 DEF HasEvent
    <3>2. HasEvent(u) <=> u = t \/ \E i \in 1..(Len(channel) - 1) : channel[i + 1].task = u
      <4>1. ASSUME NEW i \in DOMAIN channel, channel[i].task = u, u # t
            PROVE  \E k \in 1..(Len(channel) - 1) : channel[k + 1].task = u
        <5>1. i - 1 \in 1..(Len(channel) - 1) /\ (i - 1) + 1 = i
          BY <1>1, <1>2, <4>1
        <5>2. QED
          BY <4>1, <5>1
      <4>2. QED
        BY <1>1, <1>2, <4>1 DEF HasEvent
    <3>3. ~\E i \in 1..(Len(channel) - 1) : channel[i + 1].task = t
      BY <1>1, <1>2 DEF SlotInv
    <3>4. QED
      BY <3>1, <3>2, <3>3
  <2>2. ASSUME NEW u \in Task PROVE InFlight(u)' <=> InFlight(u)
    BY <1>3 DEF InFlight
  <2>3. \A i, j \in DOMAIN channel' : channel'[i].task = channel'[j].task => i = j
    BY <1>1 DEF SlotInv
  <2>4. QED
    BY <1>2, <1>3, <1>4, <2>1, <2>2, <2>3 DEF SlotInv
<1>8. StatusInv'
  BY <1>2, <1>3 DEF StatusInv, TypeOK
<1>9. QED
  BY <1>5, <1>6, <1>7, <1>8

\* Starting the task at the front of the queue.
LEMMA StartTaskStep ==
  ASSUME BoardInv, StartTask
  PROVE  QueueInv' /\ OperationInv' /\ SlotInv' /\ StatusInv'
<1> USE DEF BoardInv, sessionVars
<1> DEFINE t == Head(queued)
<1>1. /\ Len(queued) \in Nat \ {0} /\ DOMAIN queued = 1..Len(queued)
      /\ t = queued[1] /\ queued[1] \in Task
      /\ DOMAIN queued' = 1..(Len(queued) - 1)
      /\ \A i \in DOMAIN queued' : queued'[i] = queued[i + 1]
  BY TailEffect DEF StartTask, TypeOK
<1>2. /\ store' = [store EXCEPT ![t] = "Running"]
      /\ running' = running \union {t}
      /\ token' = [token EXCEPT ![t] = FALSE]
      /\ runner' = [runner EXCEPT ![t] = "spawned"]
      /\ UNCHANGED <<channel, outcome, phase, then, target>>
  BY DEF StartTask, SetStatus, Persist
<1> HIDE DEF t
<1>3. t \in Task /\ store[t] = "Queued" /\ runner[t] = "none" /\ t \notin running
  BY <1>1 DEF QueueInv, SlotInv
<1>4. QueueInv'
  <2>1. \A i \in DOMAIN queued' : queued'[i] # t /\ queued'[i] \in Task
    BY <1>1 DEF QueueInv, TypeOK
  <2>2. \A i, j \in DOMAIN queued' : queued'[i] = queued'[j] => i = j
    BY <1>1 DEF QueueInv
  <2>3. \A i \in DOMAIN queued' : store'[queued'[i]] = "Queued" /\ runner'[queued'[i]] = "none"
    BY <1>1, <1>2, <2>1 DEF QueueInv, TypeOK
  <2>4. ASSUME NEW u \in Task, store'[u] = "Queued"
        PROVE  \E i \in DOMAIN queued' : queued'[i] = u
    <3>1. u # t /\ store[u] = "Queued"
      BY <1>2, <1>3, <2>4 DEF TypeOK
    <3>2. PICK i \in DOMAIN queued : queued[i] = u
      BY <3>1 DEF QueueInv
    <3>3. i - 1 \in DOMAIN queued' /\ (i - 1) + 1 = i
      BY <1>1, <3>1, <3>2
    <3>4. QED
      BY <1>1, <3>2, <3>3
  <2>5. QED
    BY <2>2, <2>3, <2>4 DEF QueueInv
<1>5. OperationInv'
  BY <1>2, <1>3 DEF OperationInv, TypeOK
<1>6. SlotInv'
  BY <1>2, <1>3 DEF SlotInv, InFlight, HasEvent, TypeOK
<1>7. StatusInv'
  BY <1>2, <1>3 DEF StatusInv, TypeOK
<1>8. QED
  BY <1>4, <1>5, <1>6, <1>7

\* A new task enters the store, then the queue.
LEMMA CreateTaskStep ==
  ASSUME BoardInv, CreateTask
  PROVE  QueueInv' /\ OperationInv' /\ SlotInv' /\ StatusInv'
<1> USE DEF BoardInv, boardVars, runnerVars
<1>1. /\ target \in Task /\ store[target] = "Absent" /\ runner[target] = "none" /\ then = "idle"
      /\ store' = [store EXCEPT ![target] = "Created"] /\ phase' = "enqueue"
      /\ UNCHANGED <<queued, running, token, channel, runner, outcome, then, target>>
  BY DEF CreateTask, SetStatus, Persist, OperationInv
<1>2. QueueInv'
  BY <1>1 DEF QueueInv, TypeOK
<1>3. OperationInv'
  BY <1>1 DEF OperationInv, CreateTask, TypeOK
<1>4. SlotInv'
  BY <1>1 DEF SlotInv, InFlight, HasEvent
<1>5. StatusInv'
  BY <1>1 DEF StatusInv, SlotInv, TypeOK
<1>6. QED
  BY <1>2, <1>3, <1>4, <1>5

LEMMA EnqueueStep ==
  ASSUME BoardInv, Enqueue
  PROVE  QueueInv' /\ OperationInv' /\ SlotInv' /\ StatusInv'
<1> USE DEF BoardInv, runnerVars
<1>1. /\ target \in Task /\ store[target] = "Created" /\ runner[target] = "none" /\ then = "idle"
      /\ store' = [store EXCEPT ![target] = "Queued"] /\ phase' = "start"
      /\ UNCHANGED <<running, token, channel, runner, outcome, then, target>>
  BY DEF Enqueue, SetStatus, Persist, OperationInv
<1>2. /\ Len(queued) \in Nat /\ DOMAIN queued = 1..Len(queued)
      /\ DOMAIN queued' = 1..(Len(queued) + 1)
      /\ \A i \in DOMAIN queued : queued'[i] = queued[i] /\ queued[i] \in Task
      /\ queued'[Len(queued) + 1] = target
  <2>1. queued \in Seq(Task)
    BY DEF TypeOK
  <2>2. /\ Append(queued, target) \in Seq(Task)
        /\ Len(Append(queued, target)) = Len(queued) + 1
        /\ \A i \in 1..Len(queued) : Append(queued, target)[i] = queued[i]
        /\ Append(queued, target)[Len(queued) + 1] = target
    BY <1>1, <2>1, AppendProperties
  <2>3. queued' = Append(queued, target)
    BY DEF Enqueue
  <2>4. QED
    BY <2>1, <2>2, <2>3
<1>3. QueueInv'
  <2>1. \A i \in DOMAIN queued : queued[i] # target
    BY <1>1 DEF QueueInv
  <2>2. \A i, j \in DOMAIN queued' : queued'[i] = queued'[j] => i = j
    BY <1>2, <2>1 DEF QueueInv
  <2>3. \A i \in DOMAIN queued' : store'[queued'[i]] = "Queued" /\ runner'[queued'[i]] = "none"
    BY <1>1, <1>2, <2>1 DEF QueueInv, TypeOK
  <2>4. ASSUME NEW u \in Task, store'[u] = "Queued"
        PROVE  \E i \in DOMAIN queued' : queued'[i] = u
    <3>1. CASE u = target
      <4>1. Len(queued) + 1 \in DOMAIN queued'
        BY <1>2
      <4>2. QED
        BY <1>2, <3>1, <4>1
    <3>2. CASE u # target
      <4>1. store[u] = "Queued"
        BY <1>1, <2>4, <3>2 DEF TypeOK
      <4>2. PICK i \in DOMAIN queued : queued[i] = u
        BY <4>1 DEF QueueInv
      <4>3. i \in DOMAIN queued' /\ queued'[i] = u
        BY <1>2, <4>2
      <4>4. QED
        BY <4>3
    <3>3. QED
      BY <3>1, <3>2
  <2>5. QED
    BY <2>2, <2>3, <2>4 DEF QueueInv
<1>4. OperationInv'
  BY <1>1 DEF OperationInv, TypeOK
<1>5. SlotInv'
  BY <1>1 DEF SlotInv, InFlight, HasEvent
<1>6. StatusInv'
  BY <1>1 DEF StatusInv, SlotInv, TypeOK
<1>7. QED
  BY <1>3, <1>4, <1>5, <1>6

\* Cancelling removes a waiting task, or signals one that holds a slot.
LEMMA CancelTaskStep ==
  ASSUME BoardInv, NEW t \in Task, CancelTask(t)
  PROVE  QueueInv' /\ OperationInv' /\ SlotInv' /\ StatusInv'
<1> USE DEF BoardInv, runnerVars
<1>1. /\ store' = [store EXCEPT ![t] = "Cancelled"] /\ running' = running
      /\ phase = "cancel" /\ phase' = "idle" /\ then = "idle"
      /\ UNCHANGED <<channel, runner, outcome, then, target>>
  BY DEF CancelTask, CancelQueued, CancelRunning, SetStatus, Persist, OperationInv
<1>2. SlotInv'
  BY <1>1 DEF SlotInv, InFlight, HasEvent
<1>3. CASE t \in ToSet(queued)
  <2>1. PICK i \in DOMAIN queued : i = CHOOSE k \in DOMAIN queued : queued[k] = t
    BY <1>3 DEF ToSet
  <2>2. queued[i] = t
    BY <1>3, <2>1 DEF ToSet
  <2>3. queued' = RemoveAt(queued, i) /\ token' = token
    BY <1>3, <2>1 DEF CancelTask, CancelQueued
  <2>4. /\ Len(queued) \in Nat /\ DOMAIN queued = 1..Len(queued)
        /\ DOMAIN queued' = 1..(Len(queued) - 1)
        /\ \A j \in DOMAIN queued' : queued'[j] = IF j < i THEN queued[j] ELSE queued[j + 1]
    <3>1. /\ RemoveAt(queued, i) \in Seq(Task)
          /\ Len(RemoveAt(queued, i)) = Len(queued) - 1
          /\ \A j \in 1..(Len(queued) - 1) :
               RemoveAt(queued, i)[j] = IF j < i THEN queued[j] ELSE queued[j + 1]
      BY RemoveAtType DEF TypeOK
    <3>2. queued \in Seq(Task) /\ queued' \in Seq(Task) /\ Len(queued') = Len(queued) - 1
      BY <2>3, <3>1 DEF TypeOK
    <3>3. DOMAIN queued' = 1..(Len(queued) - 1) /\ DOMAIN queued = 1..Len(queued) /\ Len(queued) \in Nat
      BY <3>2
    <3>4. QED
      BY <2>3, <3>1, <3>3
  <2>5. store[t] = "Queued" /\ runner[t] = "none" /\ t \notin running
    BY <2>2 DEF QueueInv, SlotInv
  <2>6. QueueInv'
    <3>1. \A j \in DOMAIN queued' : \E k \in DOMAIN queued : k # i /\ queued'[j] = queued[k]
      BY <2>4
    <3>2. \A j \in DOMAIN queued' : queued'[j] # t /\ queued'[j] \in Task
      BY <2>2, <3>1 DEF QueueInv, TypeOK
    <3>3. \A j, k \in DOMAIN queued' : queued'[j] = queued'[k] => j = k
      BY <2>4 DEF QueueInv
    <3>4. \A j \in DOMAIN queued' : store'[queued'[j]] = "Queued" /\ runner'[queued'[j]] = "none"
      BY <1>1, <3>1, <3>2 DEF QueueInv, TypeOK
    <3>5. ASSUME NEW u \in Task, store'[u] = "Queued"
          PROVE  \E j \in DOMAIN queued' : queued'[j] = u
      <4>1. u # t /\ store[u] = "Queued"
        BY <1>1, <3>5 DEF TypeOK
      <4>2. PICK k \in DOMAIN queued : queued[k] = u
        BY <4>1 DEF QueueInv
      <4>3. CASE k < i
        BY <2>4, <4>2, <4>3
      <4>4. CASE k > i
        <5>1. k - 1 \in DOMAIN queued' /\ ~(k - 1 < i) /\ (k - 1) + 1 = k
          BY <2>4, <4>2, <4>4
        <5>2. QED
          BY <2>4, <4>2, <5>1
      <4>5. k # i
        BY <2>2, <4>1, <4>2
      <4>6. QED
        BY <2>4, <4>2, <4>3, <4>4, <4>5
    <3>6. QED
      BY <3>3, <3>4, <3>5 DEF QueueInv
  <2>7. OperationInv'
    BY <1>1, <2>5 DEF OperationInv, TypeOK
  <2>8. StatusInv'
    BY <1>1, <2>3, <2>5 DEF StatusInv, TypeOK
  <2>9. QED
    BY <1>2, <2>6, <2>7, <2>8
<1>4. CASE t \notin ToSet(queued)
  <2>1. queued' = queued /\ token' = [token EXCEPT ![t] = TRUE]
    BY <1>4 DEF CancelTask, CancelRunning
  <2>2. t \in running
    BY <1>4 DEF CancelTask, Victims, Active, ToSet, TypeOK
  <2>3. runner[t] # "none" /\ \A i \in DOMAIN queued : queued[i] # t
    BY <1>4, <2>2 DEF SlotInv, ToSet
  <2>4. store[t] \in {"Running", "Cancelled"}
    BY <2>2 DEF StatusInv
  <2>5. QueueInv'
    BY <1>1, <2>1, <2>3 DEF QueueInv, TypeOK
  <2>6. OperationInv'
    BY <1>1, <2>3, <2>4 DEF OperationInv, TypeOK
  <2>7. StatusInv'
    BY <1>1, <2>1, <2>2 DEF StatusInv, TypeOK
  <2>8. QED
    BY <1>2, <2>5, <2>6, <2>7
<1>5. QED
  BY <1>3, <1>4

\* After a restart nothing is in progress, whatever the file held.
LEMMA RestartStep ==
  ASSUME BoardInv, Restart
  PROVE  QueueInv' /\ OperationInv' /\ SlotInv' /\ StatusInv'
<1>1. \A t \in Task : store'[t] \notin {"Created", "Queued", "Running"}
  BY DEF Restart, Persist, Interrupted
<1>2. /\ queued' = <<>> /\ running' = {} /\ channel' = <<>>
      /\ runner' = [t \in Task |-> "none"] /\ phase' = "idle" /\ then' = "idle"
  BY DEF Restart
<1>3. QueueInv'
  BY <1>1, <1>2 DEF QueueInv
<1>4. OperationInv'
  BY <1>1, <1>2 DEF OperationInv
<1>5. SlotInv'
  BY <1>2 DEF SlotInv, InFlight, HasEvent
<1>6. StatusInv'
  BY <1>1, <1>2 DEF StatusInv
<1>7. QED
  BY <1>3, <1>4, <1>5, <1>6

LEMMA NextBoardInv ==
  ASSUME BoardInv, [Next]_vars
  PROVE  BoardInv'
<1> USE DEF storeVars, boardVars, runnerVars, sessionVars
<1>1. TypeOK'
  BY StepType
<1>2. QueueInv' /\ OperationInv' /\ SlotInv' /\ StatusInv'
  <2>1. CASE DrainEvent
    BY <2>1, DrainEventStep
  <2>2. CASE StartTask
    BY <2>2, StartTaskStep
  <2>3. CASE CreateTask
    BY <2>3, CreateTaskStep
  <2>4. CASE Enqueue
    BY <2>4, EnqueueStep
  <2>5. CASE \E t \in Task : CancelTask(t)
    BY <2>5, CancelTaskStep
  <2>6. CASE \E t \in Task : Runner(t)
    BY <2>6, RunnerStep
  <2>7. CASE Restart
    BY <2>7, RestartStep
  <2>8. CASE DrainProgress
    <3>1. UNCHANGED <<store, queued, running, token, channel, runner, outcome>>
      BY <2>8 DEF DrainProgress, Persist
    <3>2. OperationInv'
      BY <2>8 DEF DrainProgress, Persist, BoardInv, OperationInv
    <3>3. QED
      BY <3>1, <3>2, QuietStep
  <2>9. CASE DrainDone \/ StartDone \/ CancelNothing
    <3>1. UNCHANGED <<store, queued, running, token, channel, runner, outcome, target>>
      BY <2>9 DEF DrainDone, StartDone, CancelNothing
    <3>2. OperationInv'
      BY <2>9 DEF DrainDone, StartDone, CancelNothing, BoardInv, OperationInv, TypeOK
    <3>3. QED
      BY <3>1, <3>2, QuietStep
  <2>10. CASE Tick \/ (\E t \in Task : Submit(t)) \/ (\E t \in Task \union {NoTask} : RequestCancel(t))
    <3>1. UNCHANGED <<store, queued, running, token, channel, runner, outcome>>
      BY <2>10 DEF Tick, Submit, RequestCancel, Begin
    <3>2. OperationInv'
      BY <2>10 DEF Tick, Submit, RequestCancel, Begin, BoardInv, OperationInv
    <3>3. QED
      BY <3>1, <3>2, QuietStep
  <2>11. CASE UNCHANGED vars
    BY <2>11 DEF vars, BoardInv, QueueInv, OperationInv, SlotInv, StatusInv, InFlight, HasEvent
  <2>12. QED
    BY <2>1, <2>2, <2>3, <2>4, <2>5, <2>6, <2>7, <2>8, <2>9, <2>10, <2>11 DEF Next, SessionStep
<1>3. QED
  BY <1>1, <1>2 DEF BoardInv

-----------------------------------------------------------------------------
\* The invariant that carries every other result.
THEOREM BoardInvariant == Spec => []BoardInv
<1>1. Init => BoardInv
  BY InitBoardInv
<1>2. BoardInv /\ [Next]_vars => BoardInv'
  BY NextBoardInv
<1>3. QED
  BY <1>1, <1>2, PTL DEF Spec

\* Every variable keeps its type, whatever interleaving, cancel, failed
\* write or crash happens.
THEOREM TypeCorrect == Spec => []TypeOK
<1>1. BoardInv => TypeOK
  BY DEF BoardInv
<1>2. QED
  BY <1>1, BoardInvariant, PTL

\* The limit is only ever approached by start_ready, one task at a time.
LEMMA RunningBoundStep ==
  ASSUME BoardInv, [Next]_vars, Cardinality(running) <= Slots
  PROVE  Cardinality(running') <= Slots
<1> USE SlotsPositive DEF storeVars, boardVars, runnerVars, sessionVars
<1>1. IsFiniteSet(running) /\ Cardinality(running) \in Nat
  BY TaskBoardAssumption, FS_Subset, FS_CardinalityType DEF BoardInv, TypeOK
<1>2. CASE StartTask
  <2>1. running' = running \union {Head(queued)} /\ Cardinality(running) < Slots
    BY <1>2 DEF StartTask, HasFreeSlot
  <2>2. Cardinality(running') = Cardinality(running) \/ Cardinality(running') = Cardinality(running) + 1
    BY <1>1, <2>1, FS_AddElement
  <2>3. QED
    BY <1>1, <2>1, <2>2
<1>3. CASE DrainEvent
  <2>1. running' \subseteq running
    BY <1>3 DEF DrainEvent
  <2>2. Cardinality(running') \in Nat /\ Cardinality(running') <= Cardinality(running)
    BY <1>1, <2>1, FS_Subset, FS_CardinalityType
  <2>3. QED
    BY <1>1, <2>2
<1>4. CASE Restart
  BY <1>4, FS_EmptySet DEF Restart
<1>5. CASE running' = running
  BY <1>5
<1>6. QED
  <2>1. StartTask \/ DrainEvent \/ Restart \/ running' = running
    BY DEF Next, SessionStep, DrainProgress, DrainDone, StartDone, CreateTask, Enqueue,
       CancelTask, CancelQueued, CancelRunning, CancelNothing, Tick, Submit, RequestCancel,
       Begin, Runner, EngineReturns, RunnerStart, RunnerFinish, RunnerSend, RunnerPanic, vars
  <2>2. QED
    BY <1>2, <1>3, <1>4, <1>5, <2>1

\* No more tasks execute than configured, no slot leaks, and every task that
\* holds one has a future or an event that will give it back.
THEOREM SlotsAccounted == Spec => []SlotAccounting
<1>1. Init => Cardinality(running) <= Slots
  BY FS_EmptySet, SlotsPositive DEF Init
<1>2. BoardInv /\ Cardinality(running) <= Slots /\ [Next]_vars => (Cardinality(running) <= Slots)'
  <2>1. Slots' = Slots
    BY DEF Slots
  <2>2. QED
    BY <2>1, RunningBoundStep
<1>3. BoardInv /\ Cardinality(running) <= Slots => SlotAccounting
  BY DEF BoardInv, SlotInv, SlotAccounting
<1>4. QED
  BY <1>1, <1>2, <1>3, BoardInvariant, PTL DEF Spec

\* What the store shows is what the board does.
THEOREM StoreAgrees == Spec => []StoreMatchesBoard
<1>1. BoardInv => StoreMatchesBoard
  <2> SUFFICES ASSUME BoardInv, NEW t \in Task
               PROVE  /\ store[t] = "Queued" <=> t \in ToSet(queued)
                      /\ store[t] = "Running" <=> t \in running /\ ~token[t]
                      /\ t \in running /\ token[t] => store[t] = "Cancelled"
                      /\ store[t] = "Created" => phase = "enqueue" /\ target = t
    BY DEF StoreMatchesBoard
  <2>1. store[t] = "Queued" <=> t \in ToSet(queued)
    BY DEF BoardInv, QueueInv, ToSet
  <2>2. QED
    BY <2>1 DEF BoardInv, StatusInv, OperationInv, TypeOK
<1>2. QED
  BY <1>1, BoardInvariant, PTL

\* The final statuses of a task that reported.
LEMMA ReportedTasksAreIdle ==
  ASSUME BoardInv, NEW t \in Task, store[t] \in {"Completed", "WaitingForInput", "Failed"}
  PROVE  t \notin running /\ t \notin ToSet(queued) /\ ~HasEvent(t)
BY DEF BoardInv, StatusInv, QueueInv, SlotInv, ToSet, TypeOK

LEMMA ReportedStep ==
  ASSUME BoardInv, [Next]_vars, crashes' = crashes,
         NEW t \in Task, store[t] \in {"Completed", "WaitingForInput", "Failed"}
  PROVE  store'[t] = store[t]
<1> USE DEF storeVars, boardVars, runnerVars, sessionVars
<1>1. t \notin running /\ t \notin ToSet(queued) /\ ~HasEvent(t)
  BY ReportedTasksAreIdle
<1>2. store \in [Task -> TaskStatus \union {"Absent"}]
  BY DEF BoardInv, TypeOK
<1>3. CASE DrainEvent
  <2>1. Head(channel) = channel[1] /\ 1 \in DOMAIN channel
    BY <1>3, TailEffect DEF DrainEvent, BoardInv, TypeOK
  <2>2. Head(channel).task # t
    BY <1>1, <2>1 DEF HasEvent
  <2>3. QED
    BY <1>2, <1>3, <2>2 DEF DrainEvent, SetStatus, Persist
<1>4. CASE StartTask
  <2>1. Head(queued) = queued[1] /\ 1 \in DOMAIN queued
    BY <1>4, TailEffect DEF StartTask, BoardInv, TypeOK
  <2>2. Head(queued) # t
    BY <1>1, <2>1 DEF ToSet
  <2>3. QED
    BY <1>2, <1>4, <2>2 DEF StartTask, SetStatus, Persist
<1>5. CASE CreateTask \/ Enqueue
  <2>1. target # t
    BY <1>5 DEF CreateTask, Enqueue, BoardInv, OperationInv
  <2>2. QED
    BY <1>2, <1>5, <2>1 DEF CreateTask, Enqueue, SetStatus, Persist
<1>6. ASSUME NEW u \in Task, CancelTask(u)
      PROVE  store'[t] = store[t]
  <2>1. u # t
    BY <1>1, <1>6, TailEffect DEF CancelTask, Victims, Active, ToSet, BoardInv, TypeOK
  <2>2. QED
    BY <1>2, <1>6, <2>1 DEF CancelTask, CancelQueued, CancelRunning, SetStatus, Persist
<1>7. CASE Restart
  BY <1>7 DEF Restart, BoardInv, TypeOK
<1>8. CASE store' = store
  BY <1>8
<1>9. QED
  <2>1. \/ DrainEvent \/ StartTask \/ CreateTask \/ Enqueue \/ Restart \/ store' = store
        \/ \E u \in Task : CancelTask(u)
    BY DEF Next, SessionStep, DrainProgress, DrainDone, StartDone, CancelNothing, Persist,
       Tick, Submit, RequestCancel, Begin, Runner, EngineReturns, RunnerStart, RunnerFinish, RunnerSend,
       RunnerPanic, vars
  <2>2. QED
    BY <1>3, <1>4, <1>5, <1>6, <1>7, <1>8, <2>1

\* Within one process no later event, cancel or task revises an outcome.
THEOREM ReportedStaysFinal == Spec => ReportedIsFinal
<1>1. BoardInv /\ [Next]_vars =>
        [\A t \in Task :
           store[t] \in {"Completed", "WaitingForInput", "Failed"} /\ crashes' = crashes
             => store'[t] = store[t]]_vars
  BY ReportedStep
<1>2. QED
  BY <1>1, BoardInvariant, PTL DEF Spec, ReportedIsFinal

\* What is true of t from a cancel that reached it in time on: whatever is
\* still to come of its future is no report.
Overruled(t) ==
  /\ store[t] \in {"Cancelled", "Failed"}
  /\ runner[t] = "sending" => outcome[t] \in {"Cancelled", "Failed"}
  /\ \A i \in DOMAIN channel :
       channel[i].task = t => channel[i].outcome \in {"Cancelled", "Failed"}

LEMMA OverruledStep ==
  ASSUME BoardInv, [Next]_vars, crashes' = crashes, NEW t \in Task, Overruled(t)
  PROVE  Overruled(t)'
<1> USE DEF storeVars, boardVars, runnerVars, sessionVars
<1>1. /\ t \notin ToSet(queued)
      /\ t \in running => token[t] /\ store[t] = "Cancelled"
    BY DEF BoardInv, QueueInv, StatusInv, ToSet, Overruled, TypeOK
<1>2. /\ store \in [Task -> TaskStatus \union {"Absent"}]
      /\ runner \in [Task -> {"none", "spawned", "working", "sending", "done"}]
      /\ token \in [Task -> BOOLEAN] /\ channel \in Seq(TaskRunEvent)
    BY DEF BoardInv, TypeOK
<1>3. CASE DrainEvent
  <2> DEFINE event == channel[1]
  <2>1. /\ Head(channel) = event /\ 1 \in DOMAIN channel
        /\ \A i \in DOMAIN channel' : i + 1 \in DOMAIN channel /\ channel'[i] = channel[i + 1]
    BY <1>2, <1>3, TailEffect DEF DrainEvent
  <2>2. event.task = t => StatusFromEvent(event.outcome) \in {"Cancelled", "Failed"}
    BY <2>1 DEF Overruled, StatusFromEvent
  <2>3. store' = [store EXCEPT ![event.task] = StatusFromEvent(event.outcome)]
    BY <1>3, <2>1 DEF DrainEvent, SetStatus, Persist
  <2>4. store'[t] \in {"Cancelled", "Failed"}
    BY <1>2, <2>2, <2>3 DEF Overruled
  <2>5. \A i \in DOMAIN channel' :
          channel'[i].task = t => channel'[i].outcome \in {"Cancelled", "Failed"}
    BY <2>1 DEF Overruled
  <2>6. QED
    BY <1>3, <2>4, <2>5 DEF DrainEvent, Overruled
<1>4. CASE StartTask
  <2>1. Head(queued) = queued[1] /\ 1 \in DOMAIN queued
    BY <1>4, TailEffect DEF StartTask, BoardInv, TypeOK
  <2>2. Head(queued) # t
    BY <1>1, <2>1 DEF ToSet
  <2>3. QED
    BY <1>2, <1>4, <2>2 DEF StartTask, SetStatus, Persist, Overruled
<1>5. CASE CreateTask \/ Enqueue
  <2>1. target # t
    BY <1>5 DEF CreateTask, Enqueue, BoardInv, OperationInv, Overruled
  <2>2. QED
    BY <1>2, <1>5, <2>1 DEF CreateTask, Enqueue, SetStatus, Persist, Overruled
<1>6. ASSUME NEW u \in Task, CancelTask(u)
      PROVE  Overruled(t)'
  BY <1>2, <1>6 DEF CancelTask, CancelQueued, CancelRunning, SetStatus, Persist, Overruled
<1>7. ASSUME NEW u \in Task, Runner(u)
      PROVE  Overruled(t)'
  <2>1. UNCHANGED store
    BY <1>7 DEF Runner, RunnerStart, RunnerSend, EngineReturns, RunnerFinish, RunnerPanic
  <2>2. runner[t] \in {"spawned", "working", "sending"} => token[t]
    BY <1>1 DEF BoardInv, SlotInv, InFlight
  <2>3. runner'[t] = "sending" => outcome'[t] \in {"Cancelled", "Failed"}
    BY <1>2, <1>7, <2>2 DEF Runner, RunnerStart, RunnerSend, EngineReturns, RunnerFinish,
       RunnerPanic, EngineOutcome, Overruled, BoardInv, TypeOK
  <2>4. CASE UNCHANGED channel
    BY <2>1, <2>3, <2>4 DEF Overruled
  <2>5. ASSUME NEW o \in Outcome, Send(u, o), u = t => o \in {"Cancelled", "Failed"}
        PROVE  Overruled(t)'
    <3>1. \A i \in DOMAIN channel' :
            channel'[i].task = t => channel'[i].outcome \in {"Cancelled", "Failed"}
      <4>1. /\ Len(channel) \in Nat /\ DOMAIN channel = 1..Len(channel)
            /\ DOMAIN channel' = 1..(Len(channel) + 1)
            /\ \A i \in DOMAIN channel : channel'[i] = channel[i]
            /\ channel'[Len(channel) + 1] = [task |-> u, outcome |-> o]
        BY <1>2, <2>5, SendEffect
      <4>2. \A i \in DOMAIN channel' : i \in DOMAIN channel \/ i = Len(channel) + 1
        BY <4>1
      <4>3. QED
        BY <2>5, <4>1, <4>2 DEF Overruled
    <3>2. QED
      BY <2>1, <2>3, <3>1 DEF Overruled
  <2>6. \/ UNCHANGED channel \/ Send(u, "Cancelled") \/ Send(u, "Failed")
        \/ runner[u] = "sending" /\ Send(u, outcome[u])
    BY <1>7 DEF Runner, RunnerStart, RunnerSend, EngineReturns, RunnerFinish, RunnerPanic
  <2>7. runner[u] = "sending" => outcome[u] \in Outcome
    BY DEF BoardInv, SlotInv
  <2>8. QED
    BY <2>4, <2>5, <2>6, <2>7 DEF Outcome, Overruled
<1>8. CASE UNCHANGED <<store, channel, runner, outcome>>
  BY <1>8 DEF Overruled
<1>9. QED
  <2>1. ~Restart
    BY DEF Restart, BoardInv, TypeOK
  <2>2. \/ DrainEvent \/ StartTask \/ CreateTask \/ Enqueue
        \/ UNCHANGED <<store, channel, runner, outcome>>
        \/ \E u \in Task : CancelTask(u) \/ Runner(u)
    BY <2>1 DEF Next, SessionStep, DrainProgress, DrainDone, StartDone, CancelNothing, Persist,
       Tick, Submit, RequestCancel, Begin, vars
  <2>3. QED
    BY <1>3, <1>4, <1>5, <1>6, <1>7, <1>8, <2>2

\* A cancel that reaches a task before its engine run returned is never
\* overruled by the result of that run.
THEOREM CancelsBeatResults == Spec => CancelBeatsResult
<1> SUFFICES ASSUME NEW t \in Task
             PROVE  Spec => [](token[t] /\ runner[t] \in {"spawned", "working"} /\ crashes = 0
                                 => [](store[t] \in {"Cancelled", "Failed"} \/ crashes > 0))
  BY DEF CancelBeatsResult
<1> DEFINE InTime == token[t] /\ runner[t] \in {"spawned", "working"} /\ crashes = 0
           Holds == store[t] \in {"Cancelled", "Failed"} \/ crashes > 0
           Kept == Overruled(t) \/ crashes > 0
<1>1. BoardInv /\ InTime => Kept
  BY DEF BoardInv, StatusInv, SlotInv, InFlight, HasEvent, Overruled
<1>2. BoardInv /\ Kept /\ [Next]_vars => Kept'
  <2> SUFFICES ASSUME BoardInv, Kept, [Next]_vars
               PROVE  Kept'
    OBVIOUS
  <2>1. crashes \in Nat /\ (crashes' = crashes \/ crashes' = crashes + 1)
    BY DEF BoardInv, TypeOK, Next, SessionStep, DrainEvent, DrainProgress, DrainDone, StartTask,
       StartDone, CreateTask, Enqueue, CancelTask, CancelNothing, Tick, Submit, RequestCancel,
       Begin, Runner, EngineReturns, RunnerStart, RunnerFinish, RunnerSend, RunnerPanic, Restart,
       vars
  <2>2. CASE crashes' = crashes /\ Overruled(t)
    BY <2>2, OverruledStep
  <2>3. CASE crashes' = crashes + 1 \/ crashes > 0
    BY <2>1, <2>3
  <2>4. QED
    BY <2>1, <2>2, <2>3
<1>3. Kept => Holds
  BY DEF Overruled
<1> HIDE DEF InTime, Holds, Kept
<1>4. Spec => [](InTime => []Holds)
  BY <1>1, <1>2, <1>3, BoardInvariant, PTL DEF Spec
<1>5. QED
  BY <1>4 DEF InTime, Holds

\* A task is spawned once, from the queue: one cancelled there never runs.
THEOREM SpawnsComeFromQueue == Spec => SpawnedOnlyFromQueue
<1>1. BoardInv /\ [Next]_vars =>
        [\A t \in Task :
           runner'[t] = "spawned" /\ runner[t] # "spawned"
             => store[t] = "Queued" /\ runner[t] = "none"]_vars
  <2> SUFFICES ASSUME BoardInv, [Next]_vars, NEW t \in Task,
                      runner'[t] = "spawned", runner[t] # "spawned"
               PROVE  store[t] = "Queued" /\ runner[t] = "none"
    OBVIOUS
  <2> USE DEF storeVars, boardVars, runnerVars, sessionVars
  <2>1. runner \in [Task -> {"none", "spawned", "working", "sending", "done"}]
    BY DEF BoardInv, TypeOK
  <2>2. StartTask
    BY <2>1 DEF Next, SessionStep, DrainEvent, DrainProgress, DrainDone, StartDone, CreateTask,
       Enqueue, CancelTask, CancelNothing, Tick, Submit, RequestCancel, Begin, Runner, EngineReturns,
       RunnerStart, RunnerFinish, RunnerSend, RunnerPanic, Restart, vars
  <2>3. Head(queued) = queued[1] /\ 1 \in DOMAIN queued
    BY <2>2, TailEffect DEF StartTask, BoardInv, TypeOK
  <2>4. t = Head(queued)
    BY <2>1, <2>2 DEF StartTask
  <2>5. QED
    BY <2>3, <2>4 DEF BoardInv, QueueInv
<1>2. QED
  BY <1>1, BoardInvariant, PTL DEF Spec, SpawnedOnlyFromQueue

\* The file agrees with memory unless the last write failed.
DurableInv == ~persistErr => disk = store

LEMMA DurableStep ==
  ASSUME DurableInv, [Next]_vars
  PROVE  DurableInv'
<1> USE DEF storeVars, boardVars, runnerVars, sessionVars
<1>1. ASSUME NEW tasks, Persist(tasks) PROVE DurableInv'
  BY <1>1 DEF Persist, DurableInv
<1>2. CASE Restart
  BY <1>2 DEF Restart, Persist, DurableInv
<1>3. CASE UNCHANGED storeVars
  BY <1>3 DEF DurableInv
<1>4. QED
  BY <1>1, <1>2, <1>3 DEF Next, SessionStep, DrainEvent, DrainProgress, DrainDone, StartTask,
     StartDone, CreateTask, Enqueue, CancelTask, CancelQueued, CancelRunning, CancelNothing,
     SetStatus, Tick, Submit, RequestCancel, Begin, Runner, EngineReturns, RunnerStart, RunnerFinish,
     RunnerSend, RunnerPanic, vars

THEOREM FileIsDurable == Spec => []DurableInv
<1>1. Init => DurableInv
  BY DEF Init, DurableInv
<1>2. DurableInv /\ [Next]_vars => DurableInv'
  BY DurableStep
<1>3. QED
  BY <1>1, <1>2, PTL DEF Spec

\* After a write that succeeded, a restart loses no outcome and fails
\* exactly the tasks that were in progress.
THEOREM RestartKeeps == Spec => RestartKeepsOutcomes
<1>1. DurableInv /\ [Next]_vars =>
        [crashes' # crashes /\ ~persistErr =>
           \A t \in Task :
             store'[t] = IF store[t] \in {"Created", "Queued", "Running"}
                         THEN "Failed" ELSE store[t]]_vars
  <2> SUFFICES ASSUME DurableInv, [Next]_vars, crashes' # crashes, ~persistErr, NEW t \in Task
               PROVE  store'[t] = IF store[t] \in {"Created", "Queued", "Running"}
                                  THEN "Failed" ELSE store[t]
    OBVIOUS
  <2> USE DEF storeVars, boardVars, runnerVars, sessionVars
  <2>1. Restart
    BY DEF Next, SessionStep, DrainEvent, DrainProgress, DrainDone, StartTask, StartDone,
       CreateTask, Enqueue, CancelTask, CancelNothing, Tick, Submit, RequestCancel, Begin,
       Runner, EngineReturns, RunnerStart, RunnerFinish, RunnerSend, RunnerPanic, vars
  <2> DEFINE read == [u \in Task |-> IF disk[u] \in Interrupted THEN "Failed" ELSE disk[u]]
  <2>2. store' = read
    BY <2>1 DEF Restart, Persist
  <2>3. QED
    BY <2>2 DEF DurableInv, Interrupted
<1>2. QED
  BY <1>1, FileIsDurable, PTL DEF Spec, RestartKeepsOutcomes

-----------------------------------------------------------------------------
(* The board implements the lifecycle as long as the file can be written.  *)

\* All that a step of the lifecycle needs to be recognised.
RefineInv == BoardInv /\ DurableInv /\ ~persistErr

LEMMA NoWriteFails == ASSUME ~PersistMayFail PROVE Spec => []RefineInv
<1>1. Init => ~persistErr
  BY DEF Init
<1>2. ~persistErr /\ [Next]_vars => (~persistErr)'
  BY DEF Next, SessionStep, DrainEvent, DrainProgress, DrainDone, StartTask, StartDone,
     CreateTask, Enqueue, CancelTask, CancelQueued, CancelRunning, CancelNothing, SetStatus,
     Persist, Tick, Submit, RequestCancel, Begin, Runner, EngineReturns, RunnerStart, RunnerFinish,
     RunnerSend, RunnerPanic, Restart, vars, storeVars, boardVars, runnerVars, sessionVars
<1>3. QED
  BY <1>1, <1>2, BoardInvariant, FileIsDurable, PTL DEF Spec, RefineInv

LEMMA InitRefines == Init => Lifecycle!Init
BY DEF Init, Lifecycle!Init

\* Each action of the board is the lifecycle action of the same purpose, or
\* a step the lifecycle does not see.
LEMMA StepRefines ==
  ASSUME RefineInv, ~PersistMayFail, [Next]_vars
  PROVE  [Lifecycle!Next]_(Lifecycle!vars)
<1> USE DEF storeVars, boardVars, runnerVars, sessionVars, RefineInv
<1>1. CASE DrainEvent
  <2> DEFINE t == Head(channel).task
             s == StatusFromEvent(Head(channel).outcome)
  <2>1. Head(channel) = channel[1] /\ 1 \in DOMAIN channel /\ channel[1] \in TaskRunEvent
    BY <1>1, TailEffect DEF DrainEvent, BoardInv, TypeOK
  <2>2. t \in Task /\ s \in {"Completed", "WaitingForInput", "Failed", "Cancelled"}
    BY <2>1, StatusFromEventType DEF TaskRunEvent
  <2>3. t \in running
    BY <2>1, <2>2 DEF BoardInv, SlotInv, HasEvent
  <2>4. store' = [store EXCEPT ![t] = s] /\ running' = running \ {t}
    BY <1>1 DEF DrainEvent, SetStatus, Persist
  <2>5. s \in Lifecycle!Reported \union {"Cancelled"}
    BY <2>2 DEF Lifecycle!Reported
  <2>6. QED
    BY <2>2, <2>3, <2>4, <2>5 DEF Lifecycle!Next, Lifecycle!Report
<1>2. CASE StartTask
  <2> DEFINE t == Head(queued)
  <2>1. t = queued[1] /\ 1 \in DOMAIN queued /\ t \in Task
    BY <1>2, TailEffect DEF StartTask, BoardInv, TypeOK
  <2>2. store[t] = "Queued"
    BY <2>1 DEF BoardInv, QueueInv
  <2>3. /\ store' = [store EXCEPT ![t] = "Running"] /\ running' = running \union {t}
        /\ Cardinality(running) < Slots
    BY <1>2 DEF StartTask, SetStatus, Persist, HasFreeSlot
  <2> HIDE DEF t
  <2>4. Lifecycle!Start(t)
    BY <2>2, <2>3 DEF Lifecycle!Start, Lifecycle!Cardinality, Cardinality
  <2>5. QED
    BY <2>1, <2>4 DEF Lifecycle!Next
<1>3. CASE CreateTask
  BY <1>3 DEF CreateTask, SetStatus, Persist, BoardInv, OperationInv, Lifecycle!Next, Lifecycle!Create
<1>4. CASE Enqueue
  BY <1>4 DEF Enqueue, SetStatus, Persist, BoardInv, OperationInv, Lifecycle!Next, Lifecycle!Queue
<1>5. ASSUME NEW t \in Task, CancelTask(t)
      PROVE  [Lifecycle!Next]_(Lifecycle!vars)
  <2>1. store' = [store EXCEPT ![t] = "Cancelled"] /\ running' = running
    BY <1>5 DEF CancelTask, CancelQueued, CancelRunning, SetStatus, Persist
  <2>2. store[t] \in {"Queued", "Running", "Cancelled"}
    <3>1. t \in running \/ \E i \in DOMAIN queued : queued[i] = t
      BY <1>5, TailEffect DEF CancelTask, Victims, Active, ToSet, BoardInv, TypeOK
    <3>2. QED
      BY <3>1 DEF BoardInv, QueueInv, StatusInv
  <2>3. CASE store[t] = "Cancelled"
    BY <2>1, <2>3 DEF BoardInv, TypeOK, Lifecycle!vars
  <2>4. CASE store[t] # "Cancelled"
    BY <2>1, <2>2, <2>4 DEF Lifecycle!Next, Lifecycle!Cancel
  <2>5. QED
    BY <2>3, <2>4
<1>6. CASE Restart
  <2> DEFINE read == [u \in Task |-> IF disk[u] \in Interrupted THEN "Failed" ELSE disk[u]]
  <2>1. store' = read /\ running' = {}
    BY <1>6 DEF Restart, Persist
  <2>2. QED
    BY <2>1 DEF DurableInv, Interrupted, Lifecycle!Next, Lifecycle!Restart, Lifecycle!InProgress
<1>7. CASE UNCHANGED <<store, running>>
  BY <1>7 DEF Lifecycle!vars
<1>8. QED
  <2>1. \/ DrainEvent \/ StartTask \/ CreateTask \/ Enqueue \/ Restart
        \/ (\E t \in Task : CancelTask(t)) \/ UNCHANGED <<store, running>>
    BY DEF Next, SessionStep, DrainProgress, DrainDone, StartDone, CancelNothing, Persist,
       Tick, Submit, RequestCancel, Begin, Runner, EngineReturns, RunnerStart, RunnerFinish, RunnerSend,
       RunnerPanic, vars
  <2>2. QED
    BY <1>1, <1>2, <1>3, <1>4, <1>5, <1>6, <1>7, <2>1

\* Whatever the interleaving of clients, timer and futures, a user sees the
\* task lifecycle, restarts included.
THEOREM BoardImplementsLifecycle ==
  ASSUME ~PersistMayFail
  PROVE  Spec => ImplementsLifecycle
<1>1. RefineInv /\ [Next]_vars => [Lifecycle!Next]_(Lifecycle!vars)
  BY StepRefines
<1>2. QED
  BY <1>1, InitRefines, NoWriteFails, PTL DEF Spec, ImplementsLifecycle, Lifecycle!Spec
=============================================================================

--------------------------- MODULE TaskLifecycle ---------------------------
(***************************************************************************)
(* What the task board promises to a user of siko, without the queue, the  *)
(* event channel, the spawned tokio tasks or the file: a durable task has  *)
(* one status, a bounded number of tasks hold an execution slot, a slot is *)
(* held from the start of a task to the report of its outcome, and a       *)
(* restart of the process fails every task that was still in progress.     *)
(* TaskBoard is shown to implement this specification.                     *)
(***************************************************************************)
EXTENDS Naturals, FiniteSets

CONSTANTS Task,   \* the identities a task may get
          Slots   \* how many tasks may execute at the same time

VARIABLES status,   \* what `siko task list` shows for each task
          holders   \* the tasks that hold an execution slot

vars == <<status, holders>>

\* The statuses a report or a failure leaves: nothing in the process moves
\* a task out of them.
Reported == {"Completed", "WaitingForInput", "Failed"}

\* The statuses that mean "still to be worked on by this process".
InProgress == {"Created", "Queued", "Running"}

Init ==
  /\ status \in [Task -> {"Absent"}]
  /\ holders = {}

Create(t) ==
  /\ status[t] = "Absent"
  /\ status' = [status EXCEPT ![t] = "Created"]
  /\ UNCHANGED holders

Queue(t) ==
  /\ status[t] = "Created"
  /\ status' = [status EXCEPT ![t] = "Queued"]
  /\ UNCHANGED holders

Start(t) ==
  /\ status[t] = "Queued"
  /\ Cardinality(holders) < Slots
  /\ status' = [status EXCEPT ![t] = "Running"]
  /\ holders' = holders \union {t}

\* A cancelled task that already runs keeps its slot until it reports.
Cancel(t) ==
  /\ status[t] \in {"Queued", "Running"}
  /\ status' = [status EXCEPT ![t] = "Cancelled"]
  /\ UNCHANGED holders

\* The only step that gives a slot back.
Report(t, s) ==
  /\ t \in holders
  /\ status' = [status EXCEPT ![t] = s]
  /\ holders' = holders \ {t}

Restart ==
  /\ holders' = {}
  /\ status' = [t \in Task |->
                  IF status[t] \in InProgress THEN "Failed" ELSE status[t]]

Next ==
  \/ \E t \in Task : Create(t) \/ Queue(t) \/ Start(t) \/ Cancel(t)
  \/ \E t \in Task, s \in Reported \union {"Cancelled"} : Report(t, s)
  \/ Restart

Spec == Init /\ [][Next]_vars
=============================================================================

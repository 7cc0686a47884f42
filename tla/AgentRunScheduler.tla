------------------------- MODULE AgentRunScheduler -------------------------
(***************************************************************************)
(* How agent runs reach the agent host: one ProcessAgentRunScheduler       *)
(* behind a tokio Mutex shared by the assistant loop and all engine        *)
(* branches (src/agent_run/run_scheduler.rs, src/interface/daemon.rs), a   *)
(* child process it starts lazily, and the JSON lines between them         *)
(* (packages/agent-host/src/runtime-host.ts).                              *)
(*                                                                         *)
(* A run waits for the mutex, starts the host if there is none, writes its *)
(* request line and reads lines until its own answer, an error, end of     *)
(* file or the cancellation of its token, for which it waits with the      *)
(* flag and the Notify of src/agent_run/run.rs.  The future of a run may   *)
(* be dropped at every await (an aborted parallel branch), the host may    *)
(* die.  Event lines are left out: they are passed on or skipped.          *)
(*                                                                         *)
(* A definition named X_Y is X with the fault Y, kept to show that a       *)
(* property would notice it.                                               *)
(***************************************************************************)
EXTENDS Naturals, Sequences, FiniteSets, SequencesExt

CONSTANTS
  Run,           \* the agent runs requested; nanoid ids do not repeat
  Unknown,       \* the id "unknown" of an answer to a line without an id
  MaxFaults,     \* bound on failing starts and deaths of the host
  MayDrop        \* whether futures of runs may be dropped

ASSUME SchedulerAssumption ==
  /\ Unknown \notin Run
  /\ MaxFaults \in Nat
  /\ MayDrop \in BOOLEAN

VARIABLES
  pc,        \* where the future of each run is
  token,     \* the flag of the run's CancellationToken is set
  calling,   \* the cancel() of the holder's token has yet to call notify_waiters
  ear,       \* the cancelled() future in the select! of the holder: "new",
             \* "made" its Notified, "asleep" at its await, "woken"
  result,    \* how it ended: "ok", the failure class, or "dropped"
  lock,      \* the tokio Mutex: its holder, then the waiters in order
  dir,       \* the temporary socket directory exists
  handle,    \* child and transport: "none", "open", or "closed": child Some,
             \* writer and reader None
  host,      \* the process behind the handle
  orphans,   \* host processes that nothing refers to any more
  inbox,     \* request lines on their way to the host, the first in work
  dangling,  \* the last bytes written are an unfinished line
  outbox,    \* answer lines on their way back
  torn,      \* the first of them was read in part by a dropped run
  served,    \* history: runs whose request the host completed
  faults     \* failing starts and deaths of the host so far

cancelVars == <<token, calling>>
runVars  == <<pc, cancelVars, ear, result, lock>>
hostVars == <<dir, handle, host, orphans>>
wireVars == <<inbox, dangling, outbox, torn>>
vars == <<runVars, hostVars, wireVars, served, faults>>

FailureClass == {"startup", "transport", "protocol", "host", "cancelled"}

Answer == [id : Run \union {Unknown}, type : {"result", "error"}]

Init ==
  /\ pc = [r \in Run |-> "idle"]
  /\ token = [r \in Run |-> FALSE]
  /\ calling = FALSE
  /\ ear = "new"
  /\ result = [r \in Run |-> "none"]
  /\ lock = <<>>
  /\ dir = TRUE
  /\ handle = "none"
  /\ host = "none"
  /\ orphans = 0
  /\ inbox = <<>>
  /\ dangling = FALSE
  /\ outbox = <<>>
  /\ torn = FALSE
  /\ served = {}
  /\ faults = 0

-----------------------------------------------------------------------------
(* A run asks for the scheduler and gets it in turn.                       *)

Request(r) ==
  /\ pc[r] = "idle"
  /\ pc' = [pc EXCEPT ![r] = "waiting"]
  /\ lock' = Append(lock, r)
  /\ UNCHANGED <<cancelVars, ear, result, hostVars, wireVars, served, faults>>

Holds(r) == lock # <<>> /\ Head(lock) = r

\* CancellationToken::cancel sets the flag and then wakes who waits: only a
\* run that reads ever waits, and one that comes to it later sees the flag.
Cancel(r) ==
  /\ pc[r] # "ended" /\ ~token[r]
  /\ token' = [token EXCEPT ![r] = TRUE]
  /\ calling' = (calling \/ pc[r] = "reading")
  /\ UNCHANGED <<pc, ear, result, lock, hostVars, wireVars, served, faults>>

\* notify_waiters wakes each Notified from its creation on.
NotifyWaiters ==
  /\ calling
  /\ calling' = FALSE
  /\ ear' = IF ear \in {"made", "asleep"} THEN "woken" ELSE ear
  /\ UNCHANGED <<pc, token, result, lock, hostVars, wireVars, served, faults>>

\* The queue without r, which is in it once.
Without(r) == RemoveAt(lock, CHOOSE i \in DOMAIN lock : lock[i] = r)

\* The future returns (or is dropped) and with it the mutex guard or place.
End(r, how) ==
  /\ pc' = [pc EXCEPT ![r] = "ended"]
  /\ result' = [result EXCEPT ![r] = how]
  /\ lock' = Without(r)
  /\ ear' = IF Holds(r) THEN "new" ELSE ear
  /\ calling' = (calling /\ ~Holds(r))
  /\ UNCHANGED token

MoveTo(r, place) ==
  /\ pc' = [pc EXCEPT ![r] = place]
  /\ ear' = "new"
  /\ calling' = (calling /\ place = "reading")
  /\ UNCHANGED <<token, result, lock>>

Acquire(r) ==
  /\ pc[r] = "waiting" /\ Holds(r)
  /\ IF token[r] THEN End(r, "cancelled") ELSE MoveTo(r, "starting")
  /\ UNCHANGED <<hostVars, wireVars, served, faults>>

-----------------------------------------------------------------------------
(* ensure_started                                                          *)

\* child.is_some() is all that is asked; the process may be dead.
UseRunningHost(r) ==
  /\ pc[r] = "starting" /\ handle # "none"
  /\ MoveTo(r, "sending")
  /\ UNCHANGED <<hostVars, wireVars, served, faults>>

Fault == faults < MaxFaults /\ faults' = faults + 1

\* The stderr log cannot be created in the socket directory, or the command
\* does not start.
StartFails(r) ==
  /\ pc[r] = "starting" /\ handle = "none"
  /\ IF dir THEN Fault ELSE UNCHANGED faults
  /\ End(r, "startup")
  /\ UNCHANGED <<hostVars, wireVars, served>>

Spawn(r) ==
  /\ pc[r] = "starting" /\ handle = "none" /\ dir
  /\ host' = "starting"
  /\ MoveTo(r, "connecting")
  /\ UNCHANGED <<dir, handle, orphans, wireVars, served, faults>>

Connect(r) ==
  /\ pc[r] = "connecting"
  /\ handle' = "open"
  /\ host' = "up"
  /\ MoveTo(r, "sending")
  /\ UNCHANGED <<dir, orphans, wireVars, served, faults>>

\* The child exits early or is not ready in time: it is stopped.
ConnectFails(r) ==
  /\ pc[r] = "connecting"
  /\ Fault
  /\ host' = "none"
  /\ End(r, "startup")
  /\ UNCHANGED <<dir, handle, orphans, wireVars, served>>

-----------------------------------------------------------------------------
(* send_message and read_response_or_cancel                                *)

\* What the host finds on the line: a request, or garbage when the line
\* continues the unfinished one of a dropped run.
Line(r) == IF dangling THEN Unknown ELSE r

Send(r) ==
  /\ pc[r] = "sending"
  /\ \/ /\ host = "up"
        /\ inbox' = Append(inbox, Line(r))
        /\ dangling' = FALSE
        /\ MoveTo(r, "reading")
     \/ /\ host # "up"
        /\ End(r, "transport")
        /\ UNCHANGED <<inbox, dangling>>
  /\ UNCHANGED <<hostVars, outbox, torn, served, faults>>

CanSleep_Unchecked(r) == ear = "made"

\* Between the creation of the Notified and the await on it.
CanSleep(r) == ear = "made" /\ ~token[r]

\* cancelled() up to its await, in the poll of the select!.  Its first look
\* at the flag may come before a cancel, the creation of its Notified after it.
Listen(r) ==
  /\ pc[r] = "reading"
  /\ \/ ear = "new" /\ ear' = "made"
     \/ CanSleep(r) /\ ear' = "asleep"
  /\ UNCHANGED <<pc, cancelVars, result, lock, hostVars, wireVars, served, faults>>

\* The future of cancelled() is not in the middle of a poll.
Between == ear \in {"new", "asleep", "woken"}

IsFor_AnyId(r, answer) == TRUE

IsFor(r, answer) == answer.id = r

\* One line: the answer, an answer for somebody else, or the rest of a line
\* whose beginning a dropped run has read.
Read(r) ==
  /\ pc[r] = "reading" /\ outbox # <<>> /\ Between
  /\ IF torn THEN End(r, "protocol")
     ELSE IF IsFor(r, Head(outbox))
     THEN End(r, IF Head(outbox).type = "result" THEN "ok" ELSE "host")
     ELSE MoveTo(r, "reading")
  /\ outbox' = Tail(outbox)
  /\ torn' = FALSE
  /\ UNCHANGED <<hostVars, inbox, dangling, served, faults>>

Closed_Ignored(r) == FALSE /\ UNCHANGED vars

\* End of file, possibly in the middle of a line.
Closed(r) ==
  /\ pc[r] = "reading" /\ outbox = <<>> /\ host = "dead" /\ Between
  /\ End(r, "transport") \/ End(r, "protocol")
  /\ UNCHANGED <<hostVars, wireVars, served, faults>>

\* The select! in read_response_or_cancel takes the token's branch: the
\* transport is closed and the child killed.
Cancelled(r) ==
  /\ pc[r] = "reading" /\ token[r] /\ ear \in {"new", "made", "woken"}
  /\ handle' = "closed"
  /\ host' = "none"
  /\ MoveTo(r, "terminating")
  /\ inbox' = <<>> /\ outbox' = <<>> /\ dangling' = FALSE /\ torn' = FALSE
  /\ UNCHANGED <<dir, orphans, served, faults>>

Terminated_KeepsChild(r) ==
  /\ pc[r] = "terminating"
  /\ dir' = FALSE
  /\ End(r, "cancelled")
  /\ UNCHANGED <<handle, host, orphans, wireVars, served, faults>>

\* The child has been waited for: the socket and its directory are removed.
Terminated(r) ==
  /\ pc[r] = "terminating"
  /\ handle' = "none"
  /\ dir' = FALSE
  /\ End(r, "cancelled")
  /\ UNCHANGED <<host, orphans, wireVars, served, faults>>

-----------------------------------------------------------------------------
(* A future is dropped where it awaits.                                    *)

\* Waiting for the mutex, for the stale socket to be removed, or for the
\* killed child, which then stays Some without a transport.
DropWaiting(r) ==
  /\ pc[r] \in {"waiting", "starting", "terminating"}
  /\ pc[r] = "starting" => handle = "none"
  /\ End(r, "dropped")
  /\ UNCHANGED <<hostVars, wireVars>>

\* The Child is still a local of ensure_started: tokio does not kill it.
DropConnecting(r) ==
  /\ pc[r] = "connecting"
  /\ End(r, "dropped")
  /\ host' = "none"
  /\ orphans' = orphans + 1
  /\ UNCHANGED <<dir, handle, wireVars>>

\* None, some or all of the line was written.
DropSending(r) ==
  /\ pc[r] = "sending"
  /\ End(r, "dropped")
  /\ \/ UNCHANGED <<inbox, dangling>>
     \/ host = "up" /\ dangling' = TRUE /\ UNCHANGED inbox
     \/ host = "up" /\ inbox' = Append(inbox, Line(r)) /\ dangling' = FALSE
  /\ UNCHANGED <<hostVars, outbox, torn>>

\* The bytes read_line took from a line that is not complete are lost.
DropReading(r) ==
  /\ pc[r] = "reading" /\ ear \in {"asleep", "woken"}
  /\ End(r, "dropped")
  /\ UNCHANGED torn \/ (outbox # <<>> /\ torn' = TRUE)
  /\ UNCHANGED <<hostVars, inbox, dangling, outbox>>

Drop(r) ==
  /\ MayDrop
  /\ DropWaiting(r) \/ DropConnecting(r) \/ DropSending(r) \/ DropReading(r)
  /\ UNCHANGED <<served, faults>>

-----------------------------------------------------------------------------
(* The host answers the lines of a connection one after the other.         *)

HostServes ==
  /\ host = "up" /\ inbox # <<>>
  /\ LET id == Head(inbox) IN
       \E type \in {"result", "error"} :
         /\ id = Unknown => type = "error"
         /\ outbox' = Append(outbox, [id |-> id, type |-> type])
         /\ served' = IF type = "result" THEN served \union {id} ELSE served
  /\ inbox' = Tail(inbox)
  /\ UNCHANGED <<runVars, hostVars, dangling, torn, faults>>

HostDies ==
  /\ host = "up"
  /\ Fault
  /\ host' = "dead"
  /\ inbox' = <<>>
  /\ dangling' = FALSE
  /\ UNCHANGED <<runVars, dir, handle, orphans, outbox, torn, served>>

-----------------------------------------------------------------------------

Step(r) ==
  \/ Acquire(r) \/ UseRunningHost(r) \/ StartFails(r) \/ Spawn(r) \/ Connect(r)
  \/ ConnectFails(r) \/ Send(r) \/ Listen(r) \/ Read(r) \/ Closed(r) \/ Cancelled(r)
  \/ Terminated(r)

Next ==
  \/ \E r \in Run : Request(r) \/ Cancel(r) \/ Step(r) \/ Drop(r)
  \/ NotifyWaiters
  \/ HostServes
  \/ HostDies

Spec == Init /\ [][Next]_vars

\* tokio polls a future that can go on, select! sees a cancelled token
\* whatever the host sends, and cancel() does not stop in the middle.
LocalFairness ==
  /\ \A r \in Run : WF_vars(Step(r)) /\ WF_vars(Cancelled(r))
  /\ WF_vars(NotifyWaiters)

LocalSpec == Spec /\ LocalFairness

\* The worker in the host ends every request.
WorkerAnswers == WF_vars(HostServes)

-----------------------------------------------------------------------------
(* Properties.                                                             *)

\* Types; a transport is kept only with its directory, and the host behind
\* it is up or has died by itself.
TypeOK ==
  /\ pc \in [Run -> {"idle", "waiting", "starting", "connecting", "sending",
                   "reading", "terminating", "ended"}]
  /\ token \in [Run -> BOOLEAN]
  /\ calling => lock # <<>> /\ token[Head(lock)]
  /\ ear \in {"new", "made", "asleep", "woken"}
  /\ result \in [Run -> FailureClass \union {"none", "ok", "dropped"}]
  /\ lock \in Seq(Run)
  /\ dir \in BOOLEAN
  /\ handle \in {"none", "open", "closed"}
  /\ handle = "open" => host \in {"up", "dead"}
  /\ handle # "none" => dir
  /\ host \in {"none", "starting", "up", "dead"}
  /\ orphans \in Nat
  /\ inbox \in Seq(Run \union {Unknown})
  /\ dangling \in BOOLEAN
  /\ outbox \in Seq(Answer)
  /\ torn \in BOOLEAN
  /\ served \in SUBSET Run
  /\ faults \in 0..MaxFaults

\* A run that succeeds got the answer to its own request, also when runs
\* before it on the connection were dropped with their answers under way.
OwnAnswer == \A r \in Run : result[r] = "ok" => r \in served

\* A run fails for no reason of its own only if the host failed, an earlier
\* run was cancelled with the host, one was dropped on the connection, or
\* one was dropped while it stopped the host after its cancel.
FailuresHaveCause ==
  \A r \in Run :
    /\ result[r] = "transport" =>
         faults > 0 \/ \E q \in Run : token[q] /\ result[q] = "dropped"
    /\ result[r] = "protocol" => faults > 0 \/ \E q \in Run : result[q] = "dropped"
    /\ result[r] = "startup" => faults > 0 \/ \E q \in Run : result[q] = "cancelled"

\* A cancelled run that has the scheduler returns, though the host is silent:
\* no wakeup is lost between the checks of the flag and the wait.
HolderCancelReturns == \A r \in Run : (token[r] /\ Holds(r)) ~> pc[r] = "ended"

\* Every run ends when the worker ends its requests, whatever happened to
\* the host and to other runs, unless a dropped run left half a line behind.
EveryRunEndsUnlessTorn ==
  WorkerAnswers => \A r \in Run : (pc[r] = "waiting" ~> pc[r] = "ended") \/ <>dangling

-----------------------------------------------------------------------------
(* What the repository says and the code does not do.                      *)

\* assistant-agent-protocol.md: `session/cancel` cancels "the currently
\* running task"; no other run fails to start for it.
CancelStaysLocal == \A r \in Run : result[r] = "startup" => faults > 0

\* run_scheduler.rs: sharing "prevents spawning duplicate agent-host
\* processes": at most one is alive.
OneHost == orphans + (IF host \in {"starting", "up"} THEN 1 ELSE 0) <= 1

-----------------------------------------------------------------------------
(* What the code does not rule out.                                        *)

\* EveryRunEndsUnlessTorn without its exception: after half a line of a dropped
\* run nobody answers the request that continues it, and its run waits for ever.
EveryRunEnds == WorkerAnswers => \A r \in Run : pc[r] = "waiting" ~> pc[r] = "ended"
=============================================================================

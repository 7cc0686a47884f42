------------------------------ MODULE RunHandle ------------------------------
(***************************************************************************)
(* One run of the agent loop (packages/agent-loop/src): startRun of        *)
(* executor/run-handle.ts with its replayed event streams, steering,       *)
(* cancel, cleanup and settlement, over the run an adapter returns         *)
(* (adapters/ai-sdk.ts, claude.ts, codex.ts, cursor.ts, mock.ts).          *)
(*                                                                         *)
(* JavaScript runs between two awaits without interruption, so an action   *)
(* is the code between two awaits.  pc is where pump awaits; callers of    *)
(* the handle (Steer, Cancel, Cleanup, Subscribe) and the backend move at  *)
(* every await.  The SDK or process behind an adapter may emit, end or     *)
(* fail at any time.                                                       *)
(***************************************************************************)
EXTENDS Integers, Sequences, FiniteSets, SequencesExt

CONSTANTS
  Backend,     \* the adapters considered
  Message,     \* steer messages, each sent once
  Viewer,      \* consumers of the event stream
  MaxEvents    \* bound on the events of a run

ASSUME RunHandleAssumption ==
  /\ Backend \subseteq {"ai-sdk", "claude-code", "codex", "cursor", "mock"}
  /\ IsFiniteSet(Message) /\ IsFiniteSet(Viewer) /\ MaxEvents \in Nat

VARIABLES
  backend,        \* the adapter of this run
  pc,             \* the await of pump
  started,        \* backendRun is set
  wasCancelled,   \* and, while ~started, cancelledBeforeStart
  signal,         \* input.signal is aborted
  pendingSteers,  \* steers queued before backendRun was set
  applying,       \* those pump has taken from the queue
  held,           \* the event whose hook asked for a steer
  flight,         \* per message, the mode its call of backendRun.steer will have
  answer,         \* what the caller of steer was told
  collected,      \* every published event
  views,          \* what each subscriber's channel received
  subscribed,     \* viewers that have a channel
  closedAt,       \* length of collected when endStream ran, or NotClosed
  status,         \* argument of finalize, "none" while ~settled
  result,         \* what resultPromise resolved with
  cleanup,        \* answer of doCleanup
  phase,          \* the adapter's own run
  chan,           \* events in the adapter's channel
  chanDone,       \* "open", or how the channel was closed
  emitted,        \* number of events the backend produced
  promise,        \* backendRun.result
  abort,          \* backendRun.cancel was called
  inputClosed,    \* claude.ts: endInput was called
  inbox,          \* steers the adapter keeps for the agent
  delivered,      \* steers the agent got
  failed          \* history: adapter loading, backend, hook or steer failed

callVars == <<pendingSteers, applying, held, flight, answer>>
streamVars == <<collected, views, subscribed, closedAt>>
settleVars == <<status, result>>
steerVars == <<inputClosed, inbox, delivered>>
backendVars == <<phase, chan, chanDone, emitted, promise>>
vars == <<backend, pc, started, wasCancelled, signal, callVars, streamVars,
          settleVars, cleanup, backendVars, abort, steerVars, failed>>

Nothing == <<>>
NotClosed == -1

Event(k) == <<"event", k>>
SteerEvent(m, from) == <<"steer", m, from>>
ErrorEvent(from) == <<"error", from>>

Item ==
  {Event(k) : k \in 1..MaxEvents}
    \union {SteerEvent(m, "handle") : m \in Message}
    \union {SteerEvent(m, "backend") : m \in Message \union SUBSET Message}
    \union {ErrorEvent(from) : from \in {"handle", "backend"}}

settled == status # "none"

Init ==
  /\ backend \in Backend
  /\ pc = "onStart"
  /\ started = FALSE /\ wasCancelled = FALSE /\ signal \in BOOLEAN
  /\ pendingSteers = <<>> /\ applying = <<>> /\ held = Nothing
  /\ flight = [m \in Message |-> "none"]
  /\ answer = [m \in Message |-> "none"]
  /\ collected = <<>> /\ views = [v \in Viewer |-> <<>>]
  /\ subscribed = {} /\ closedAt = NotClosed
  /\ status = "none" /\ result = "none" /\ cleanup = "none"
  /\ phase = "none" /\ chan = <<>> /\ chanDone = "open" /\ emitted = 0
  /\ promise = "pending" /\ abort = FALSE
  /\ inputClosed = FALSE /\ inbox = {} /\ delivered = {}
  /\ failed = FALSE

-----------------------------------------------------------------------------
(* The replay broadcast.                                                   *)

\* A channel that has ended ignores what is pushed.
Published(evs) ==
  /\ collected' = collected \o evs
  /\ views' = [v \in Viewer |->
       IF v \in subscribed /\ closedAt = NotClosed THEN views[v] \o evs ELSE views[v]]
  /\ UNCHANGED <<subscribed, closedAt>>

Replay_LiveOnly == <<>>

\* What a new channel starts with.
Replay == collected

Subscribe(v) ==
  /\ v \notin subscribed
  /\ subscribed' = subscribed \union {v}
  /\ views' = [views EXCEPT ![v] = Replay]
  /\ UNCHANGED <<backend, pc, started, wasCancelled, signal, callVars, collected,
                 closedAt, settleVars, cleanup, backendVars, abort, steerVars, failed>>

-----------------------------------------------------------------------------
(* Steering.                                                               *)

\* A cursor run has no steer; the turn of codex exists from turn/start to finish.
CanSteer == backend # "cursor"
ModeNow == IF backend = "codex" /\ phase = "running" THEN "live" ELSE "deferred"

\* What steer of the adapter keeps before it returns.  The input generator of
\* claude.ts returns once it is closed and drained; codex drops what comes
\* without a turn; the mock only stores it.
InboxAfter(m) ==
  IF backend = "ai-sdk" \/ (backend = "claude-code" /\ ~(inputClosed /\ inbox = {}))
    THEN inbox \union {m} ELSE inbox

CallSteer(m) ==
  /\ flight' = [flight EXCEPT ![m] = ModeNow]
  /\ inbox' = InboxAfter(m)
  /\ UNCHANGED <<inputClosed, delivered>>

\* turn/steer fails when the client was closed, or when the server refuses.
SteerMayFail(m) == flight[m] = "live"
SteerMayReturn(m) ==
  /\ flight[m] # "none"
  /\ flight[m] = "live" => phase = "running"

\* codex.ts pushes an event of its own beside the one run-handle publishes.
Landed(m) ==
  /\ flight' = [flight EXCEPT ![m] = "none"]
  /\ IF flight[m] = "live"
       THEN /\ delivered' = delivered \union {m}
            /\ chan' = Append(chan, SteerEvent(m, "backend"))
       ELSE UNCHANGED <<delivered, chan>>
  /\ UNCHANGED <<inputClosed, inbox, phase, chanDone, emitted, promise>>

\* RunHandle.steer
Steer(m) ==
  /\ answer[m] = "none"
  /\ \/ /\ ~started
        /\ pendingSteers' = Append(pendingSteers, m)
        /\ answer' = [answer EXCEPT ![m] = "deferred"]
        /\ UNCHANGED <<flight, steerVars>>
     \/ /\ started /\ ~CanSteer
        /\ answer' = [answer EXCEPT ![m] = "rejected"]
        /\ UNCHANGED <<pendingSteers, flight, steerVars>>
     \/ /\ started /\ CanSteer
        /\ CallSteer(m)
        /\ answer' = [answer EXCEPT ![m] = "asked"]
        /\ UNCHANGED pendingSteers
  /\ UNCHANGED <<backend, pc, started, wasCancelled, signal, applying, held, streamVars,
                 settleVars, cleanup, backendVars, abort, failed>>

\* The rest of doSteer for a caller of the handle.
SteerReturns(m) ==
  /\ answer[m] = "asked"
  /\ \/ /\ SteerMayReturn(m) /\ Landed(m)
        /\ answer' = [answer EXCEPT ![m] = flight[m]]
        /\ Published(<<SteerEvent(m, "handle")>>)
     \/ /\ SteerMayFail(m)
        /\ flight' = [flight EXCEPT ![m] = "none"]
        /\ answer' = [answer EXCEPT ![m] = "thrown"]
        /\ UNCHANGED <<streamVars, backendVars, steerVars>>
  /\ UNCHANGED <<backend, pc, started, wasCancelled, signal, pendingSteers, applying, held,
                 settleVars, cleanup, abort, failed>>

-----------------------------------------------------------------------------
(* Cancel and cleanup.                                                     *)

DoCancel_FlagOnly == wasCancelled' = TRUE /\ UNCHANGED abort

DoCancel ==
  /\ wasCancelled' = TRUE
  /\ abort' = (abort \/ started)

\* RunHandle.cancel; no reason to call it twice.
Cancel ==
  /\ ~wasCancelled
  /\ DoCancel
  /\ UNCHANGED <<backend, pc, started, signal, callVars, streamVars, settleVars, cleanup,
                 backendVars, steerVars, failed>>

AbortSignal ==
  /\ ~signal
  /\ signal' = TRUE
  /\ UNCHANGED <<backend, pc, started, wasCancelled, callVars, streamVars, settleVars,
                 cleanup, backendVars, abort, steerVars, failed>>

\* CleanupResult.status of a settled run.
CleanupStatus == IF result = "cancelled" THEN "cancelled_settled" ELSE "settled"

\* doCleanup: no adapter has a cleanup of its own.
Cleanup ==
  /\ cleanup = "none"
  /\ IF settled THEN cleanup' = "waiting" /\ UNCHANGED <<wasCancelled, abort>>
                ELSE cleanup' = "timed" /\ DoCancel
  /\ UNCHANGED <<backend, pc, started, signal, callVars, streamVars, settleVars,
                 backendVars, steerVars, failed>>

CleanupReturns ==
  /\ cleanup \in {"waiting", "timed"}
  /\ \/ /\ result # "none"
        /\ cleanup' = CleanupStatus
     \/ /\ cleanup = "timed" /\ result = "none"
        /\ cleanup' = "unsettled"
  /\ UNCHANGED <<backend, pc, started, wasCancelled, signal, callVars, streamVars,
                 settleVars, backendVars, abort, steerVars, failed>>

-----------------------------------------------------------------------------
(* pump.                                                                   *)

Finalize(st) ==
  /\ status' = st
  /\ pc' = "onEnd"
  /\ UNCHANGED result

Caught_AtOnce ==
  IF wasCancelled THEN Finalize("cancelled") /\ UNCHANGED streamVars
                  ELSE Published(<<ErrorEvent("handle")>>) /\ Finalize("error")

\* The catch of pump: a cancelled run still waits for the usage of its backend.
Caught ==
  IF ~wasCancelled
    THEN Published(<<ErrorEvent("handle")>>) /\ Finalize("error")
    ELSE /\ UNCHANGED streamVars
         /\ IF started THEN pc' = "cancelledResult" /\ UNCHANGED settleVars
                       ELSE Finalize("cancelled")

Fails == Caught /\ failed' = TRUE

OnStart ==
  /\ pc = "onStart"
  /\ \/ pc' = "getAdapter" /\ UNCHANGED <<streamVars, settleVars, failed>>
     \/ Fails
  /\ UNCHANGED <<backend, started, wasCancelled, signal, callVars, cleanup, backendVars,
                 abort, steerVars>>

\* getAdapter has loaded the module: start the backend, unless cancelled.
AdapterReady ==
  /\ pc = "getAdapter"
  /\ IF wasCancelled
       THEN Finalize("cancelled") /\ UNCHANGED <<started, phase, applying, pendingSteers>>
       ELSE /\ pc' = "steers"
            /\ started' = TRUE /\ phase' = "setup"
            /\ applying' = pendingSteers /\ pendingSteers' = <<>>
            /\ UNCHANGED settleVars
  /\ UNCHANGED <<backend, wasCancelled, signal, held, flight, answer, streamVars, cleanup,
                 chan, chanDone, emitted, promise, abort, steerVars, failed>>

AdapterFails ==
  /\ pc = "getAdapter"
  /\ Fails
  /\ UNCHANGED <<backend, started, wasCancelled, signal, callVars, cleanup, backendVars,
                 abort, steerVars>>

\* The loop over pendingSteers.splice(0).
ApplySteer ==
  /\ pc = "steers"
  /\ \/ /\ applying = <<>>
        /\ pc' = "events"
        /\ UNCHANGED <<applying, flight, steerVars>>
     \/ /\ applying # <<>> /\ ~CanSteer
        /\ applying' = Tail(applying)
        /\ UNCHANGED <<pc, flight, steerVars>>
     \/ /\ applying # <<>> /\ CanSteer /\ flight[Head(applying)] = "none"
        /\ CallSteer(Head(applying))
        /\ UNCHANGED <<pc, applying>>
  /\ UNCHANGED <<backend, started, wasCancelled, signal, pendingSteers, held, answer,
                 streamVars, settleVars, cleanup, backendVars, abort, failed>>

SteerApplied ==
  /\ pc = "steers" /\ applying # <<>>
  /\ LET m == Head(applying) IN
     \/ /\ SteerMayReturn(m) /\ Landed(m)
        /\ Published(<<SteerEvent(m, "handle")>>)
        /\ applying' = Tail(applying)
        /\ UNCHANGED <<pc, settleVars, failed>>
     \/ /\ SteerMayFail(m)
        /\ Fails
        /\ flight' = [flight EXCEPT ![m] = "none"]
        /\ applying' = <<>>
        /\ UNCHANGED <<backendVars, steerVars>>
  /\ UNCHANGED <<backend, started, wasCancelled, signal, pendingSteers, held, answer,
                 cleanup, abort>>

\* One event of the backend: its hook may let it pass, stop the run or fail.
TakeEvent ==
  /\ pc = "events" /\ chan # <<>>
  /\ chan' = Tail(chan)
  /\ \/ Published(<<Head(chan)>>) /\ UNCHANGED <<pc, settleVars, failed, wasCancelled, abort>>
     \/ Published(<<Head(chan)>>) /\ DoCancel /\ UNCHANGED <<pc, settleVars, failed>>
     \/ Fails /\ UNCHANGED <<wasCancelled, abort>>
  /\ UNCHANGED <<backend, started, signal, callVars, cleanup, phase, chanDone, emitted,
                 promise, steerVars>>

\* The hook of an event asks for a steer: doSteer runs before the event is published.
TakeEventAndSteer(m) ==
  /\ pc = "events" /\ chan # <<>> /\ answer[m] = "none"
  /\ chan' = Tail(chan)
  /\ answer' = [answer EXCEPT ![m] = "hook"]
  /\ IF CanSteer
       THEN /\ CallSteer(m)
            /\ held' = <<Head(chan), m>> /\ pc' = "decide"
            /\ UNCHANGED streamVars
       ELSE Published(<<Head(chan)>>) /\ UNCHANGED <<flight, steerVars, held, pc>>
  /\ UNCHANGED <<backend, started, wasCancelled, signal, pendingSteers, applying,
                 settleVars, cleanup, phase, chanDone, emitted, promise, abort, failed>>

Decided ==
  /\ pc = "decide"
  /\ LET m == held[2] IN
     \/ /\ SteerMayReturn(m) /\ Landed(m)
        /\ Published(<<SteerEvent(m, "handle"), held[1]>>)
        /\ pc' = "events"
        /\ UNCHANGED <<settleVars, failed>>
     \/ /\ SteerMayFail(m)
        /\ Fails
        /\ flight' = [flight EXCEPT ![m] = "none"]
        /\ UNCHANGED <<backendVars, steerVars>>
  /\ held' = Nothing
  /\ UNCHANGED <<backend, started, wasCancelled, signal, pendingSteers, applying, answer,
                 cleanup, abort>>

Drained_DoneFirst == chanDone # "open"

\* The iterator of a channel returns when it is closed and empty.
Drained == chan = <<>> /\ chanDone # "open"

EventsEnd ==
  /\ pc = "events" /\ Drained
  /\ IF chanDone = "failed"
       THEN Fails
       ELSE /\ pc' = IF wasCancelled THEN "cancelledResult" ELSE "completedResult"
            /\ UNCHANGED <<streamVars, settleVars, failed>>
  /\ UNCHANGED <<backend, started, wasCancelled, signal, callVars, cleanup, backendVars,
                 abort, steerVars>>

\* await backendRun.result; a cancelled run swallows its error.
BackendResult ==
  /\ promise # "pending"
  /\ \/ /\ pc = "cancelledResult"
        /\ Finalize("cancelled") /\ UNCHANGED <<streamVars, failed>>
     \/ /\ pc = "completedResult"
        /\ IF promise = "resolved"
             THEN Finalize("completed") /\ UNCHANGED <<streamVars, failed>>
             ELSE Fails
  /\ UNCHANGED <<backend, started, wasCancelled, signal, callVars, cleanup, backendVars,
                 abort, steerVars>>

\* hooks.onEnd has returned or thrown: endStream, resolveResult.
OnEnd ==
  /\ pc = "onEnd"
  /\ pc' = "done"
  /\ closedAt' = Len(collected)
  /\ result' = status
  /\ UNCHANGED <<backend, started, wasCancelled, signal, callVars, collected, views,
                 subscribed, status, cleanup, backendVars, abort, steerVars, failed>>

-----------------------------------------------------------------------------
(* The adapter's own run, and the agent behind it.                         *)

Stopping == abort \/ signal

handleVars == <<backend, pc, started, wasCancelled, signal, callVars, streamVars,
                settleVars, cleanup, abort, failed>>

\* The session, thread, turn or query exists.
BackendReady ==
  /\ phase = "setup"
  /\ phase' = "running"
  /\ UNCHANGED <<handleVars, chan, chanDone, emitted, promise, steerVars>>

\* The first assistant message of claude.ts closes its input.
Emit ==
  /\ phase = "running" /\ emitted < MaxEvents
  /\ emitted' = emitted + 1
  /\ chan' = Append(chan, Event(emitted'))
  /\ inputClosed' \in {inputClosed, backend = "claude-code"}
  /\ UNCHANGED <<handleVars, phase, chanDone, promise, inbox, delivered>>

\* prepareStep of ai-sdk.ts before a step, the input generator of claude.ts.
Deliver ==
  /\ inbox # {} /\ phase \in {"setup", "running"}
  /\ delivered' = delivered \union inbox
  /\ inbox' = {}
  /\ chan' = IF backend = "ai-sdk"
               THEN Append(chan, SteerEvent(inbox, "backend")) ELSE chan
  /\ UNCHANGED <<handleVars, phase, chanDone, emitted, promise, inputClosed>>

Over(done, outcome) ==
  /\ phase' = "over"
  /\ chanDone' = done
  /\ promise' = outcome
  /\ UNCHANGED <<handleVars, emitted, steerVars>>

BackendCompletes ==
  /\ phase = "running"
  /\ Over("ended", "resolved")
  /\ UNCHANGED chan

\* An abort ends the run like a completion.  The mock does not look at it, and
\* codex looks at it once its turn has started.
BackendStops ==
  /\ Stopping /\ backend # "mock"
  /\ phase = "running" \/ (phase = "setup" /\ backend # "codex")
  /\ Over("ended", "resolved")
  /\ UNCHANGED chan

\* Failures that an abort does not excuse.
FailureCounts ==
  CASE backend \in {"ai-sdk", "claude-code"} -> ~Stopping
    [] backend = "cursor" -> ~abort
    [] backend = "codex" -> phase = "setup" \/ ~Stopping
    [] OTHER -> TRUE

FailedAs == IF backend = "codex" THEN "ended" ELSE "failed"
PromiseOfFailure == IF backend = "mock" THEN "pending" ELSE "rejected"

BackendFails ==
  /\ phase \in {"setup", "running"} /\ FailureCounts
  /\ Over(FailedAs, PromiseOfFailure)
  /\ chan' = IF backend = "mock" THEN chan ELSE Append(chan, ErrorEvent("backend"))

-----------------------------------------------------------------------------

Pump ==
  \/ OnStart \/ AdapterReady \/ AdapterFails \/ ApplySteer \/ SteerApplied
  \/ TakeEvent \/ Decided \/ EventsEnd \/ BackendResult \/ OnEnd
  \/ \E m \in Message : TakeEventAndSteer(m)

Ends == BackendCompletes \/ BackendStops \/ BackendFails

Next ==
  \/ Pump \/ BackendReady \/ Emit \/ Deliver \/ Ends
  \/ Cancel \/ AbortSignal \/ Cleanup \/ CleanupReturns
  \/ \E m \in Message : Steer(m) \/ SteerReturns(m)
  \/ \E v \in Viewer : Subscribe(v)

Spec == Init /\ [][Next]_vars

\* What the event loop promises: an await goes on when what it awaits is there.
\* The answer of the codex server to a steer is not promised before its end.
Answered == \A m \in Message : flight[m] = "live" => phase = "over"

LocalSpec ==
  /\ Spec /\ WF_vars(Answered /\ Pump)
  /\ \A m \in Message : WF_vars(Answered /\ SteerReturns(m))

\* SDKs and processes: they start, and end when asked to stop.
BackendsStop == WF_vars(BackendReady) /\ WF_vars(BackendStops)
BackendsEnd == WF_vars(BackendReady) /\ WF_vars(Ends)

-----------------------------------------------------------------------------
(* Properties.                                                             *)

TypeOK ==
  /\ backend \in Backend
  /\ pc \in {"onStart", "getAdapter", "steers", "events", "decide", "cancelledResult",
             "completedResult", "onEnd", "done"}
  /\ {started, wasCancelled, signal, abort, inputClosed, failed} \subseteq BOOLEAN
  /\ pendingSteers \in Seq(Message) /\ applying \in Seq(Message)
  /\ held \in {Nothing} \union (Item \X Message)
  /\ flight \in [Message -> {"none", "live", "deferred"}]
  /\ answer \in [Message -> {"none", "asked", "hook", "live", "deferred", "rejected",
                             "thrown"}]
  /\ collected \in Seq(Item) /\ views \in [Viewer -> Seq(Item)]
  /\ subscribed \subseteq Viewer /\ closedAt \in Nat \union {NotClosed}
  /\ {status, result} \subseteq {"none", "cancelled", "completed", "error"}
  /\ cleanup \in {"none", "waiting", "timed", "settled", "cancelled_settled", "unsettled"}
  /\ phase \in {"none", "setup", "running", "over"}
  /\ chan \in Seq(Item)
  /\ chanDone \in {"open", "ended", "failed"} /\ emitted \in 0..MaxEvents
  /\ promise \in {"pending", "resolved", "rejected"}
  /\ inbox \subseteq Message /\ delivered \subseteq Message

\* Every view replays the run: whenever a consumer subscribes, it gets every
\* event published before the stream ended, in order and once
\* (types.ts 194: "All views are independent and replayable").
ViewsReplayTheRun ==
  \A v \in subscribed :
    /\ IsPrefix(views[v], collected)
    /\ Len(views[v]) >= IF closedAt = NotClosed THEN Len(collected) ELSE closedAt

\* The events of the backend in a stream, and that they come in the order the
\* backend produced them, none of them twice.
EventsAt(s) == {i \in DOMAIN s : s[i][1] = "event"}
Numbers(s) == {s[i][2] : i \in EventsAt(s)}
Ordered(s) == \A i, j \in EventsAt(s) : i < j => s[i][2] < s[j][2]

\* What the result says happened: a completed run lost none of the events its
\* backend produced, a cancelled one was cancelled, an error had a cause that no
\* cancel excused before.
ResultTellsWhatHappened ==
  /\ result = "completed" =>
       /\ promise = "resolved"
       /\ Ordered(collected) /\ Numbers(collected) = 1..emitted
  /\ result = "cancelled" => wasCancelled
  /\ result = "error" => failed

\* No run is settled while its backend works on: an agent would change files for
\* a run that was reported as over.  A hook or a queued steer that fails is
\* excepted: pump does not cancel the backend then.
SettledMeansStopped ==
  result # "none" => phase \in {"none", "over"} \/ (failed /\ result = "error")

\* A run settles when its backend ends, and a cancelled one when its backend
\* obeys; the mock's promise stays open when it fails.
RunsSettle ==
  backend # "mock" =>
    /\ BackendsEnd => <>(result # "none")
    /\ BackendsStop => (wasCancelled ~> (result # "none"))

\* A steer that the stream of a completed run shows reached its agent.
\* (types.ts 182: `"deferred" = next step boundary`)
SteersReachTheAgent ==
  result = "completed" =>
    \A m \in Message :
      SteerEvent(m, "handle") \in ToSet(SubSeq(collected, 1, closedAt)) => m \in delivered

-----------------------------------------------------------------------------
(* What the code does not rule out.                                        *)

\* SettledMeansStopped without its exception: a hook or a queued steer that fails
\* settles the run, and the backend works on.
NothingWorksOn == result # "none" => phase \in {"none", "over"}
=============================================================================

--------------------------- MODULE RunHandleProofs ---------------------------
(***************************************************************************)
(* Proofs about RunHandle, for every adapter and every number of steers,   *)
(* viewers and events: what a viewer gets, what the result says, and that  *)
(* a settled run has no backend at work.                                   *)
(***************************************************************************)
EXTENDS RunHandle, SequenceTheorems, TLAPS

-----------------------------------------------------------------------------
(* Sequences.                                                              *)

\* What taking the first element leaves.
LEMMA TailEffect ==
  ASSUME NEW S, NEW s \in Seq(S), s # <<>>
  PROVE  /\ Len(s) \in Nat \ {0} /\ DOMAIN s = 1..Len(s)
         /\ Head(s) = s[1] /\ s[1] \in S
         /\ Tail(s) \in Seq(S) /\ DOMAIN Tail(s) = 1..(Len(s) - 1)
         /\ \A i \in DOMAIN Tail(s) : Tail(s)[i] = s[i + 1]
BY HeadTailProperties

\* A prefix, position by position.
LEMMA PrefixByPosition ==
  ASSUME NEW S, NEW s \in Seq(S), NEW t \in Seq(S), Len(s) <= Len(t),
         \A i \in 1..Len(s) : s[i] = t[i]
  PROVE  IsPrefix(s, t)
<1>1. /\ SubSeq(s, 1, Len(s)) \in Seq(S) /\ SubSeq(t, 1, Len(s)) \in Seq(S)
      /\ Len(SubSeq(s, 1, Len(s))) = Len(s) /\ Len(SubSeq(t, 1, Len(s))) = Len(s)
      /\ \A i \in 1..Len(s) : SubSeq(s, 1, Len(s))[i] = SubSeq(t, 1, Len(s))[i]
  OBVIOUS
<1>2. QED
  BY <1>1, SeqEqual DEF IsPrefix

-----------------------------------------------------------------------------
(* The inductive invariant.                                                *)

\* How far the adapter's run is, by the await of pump.
PhaseInv ==
  /\ started <=> phase # "none"
  /\ pc \in {"onStart", "getAdapter"} => ~started
  /\ phase = "over" <=> chanDone # "open"
  /\ promise # "pending" => phase = "over"
  /\ pc = "decide" <=> held # Nothing

\* What pump knows when it waits for the result of the backend.
PumpInv ==
  /\ pc = "completedResult" => phase = "over" /\ chan = <<>> /\ ~failed
  /\ pc = "cancelledResult" => wasCancelled
  /\ failed => pc \in {"cancelledResult", "onEnd", "done"}

\* What was true when the run was finalised is still true.
StatusInv ==
  /\ status # "none" <=> pc \in {"onEnd", "done"}
  /\ result = IF pc = "done" THEN status ELSE "none"
  /\ closedAt # NotClosed <=> pc = "done"
  /\ status = "cancelled" => wasCancelled /\ phase \in {"none", "over"}
  /\ status = "completed" => promise = "resolved" /\ chan = <<>> /\ ~failed
  /\ status = "error" => failed

\* Position by position, a view is what was published.
ViewInv ==
  /\ closedAt # NotClosed => closedAt <= Len(collected)
  /\ \A v \in subscribed :
       /\ Len(views[v]) <= Len(collected)
       /\ \A i \in 1..Len(views[v]) : views[v][i] = collected[i]
       /\ closedAt = NotClosed => Len(views[v]) = Len(collected)
       /\ closedAt # NotClosed => closedAt <= Len(views[v])

\* The event whose hook asked for a steer is neither published nor in the channel.
Held == IF held = Nothing THEN <<>> ELSE <<held[1]>>

Before(s, t) == \A a \in Numbers(s), b \in Numbers(t) : a < b

\* Published, held and waiting events are the backend's, in its order; none is
\* lost before something failed.
EventInv ==
  /\ Ordered(collected) /\ Ordered(chan)
  /\ Before(collected, Held) /\ Before(collected, chan) /\ Before(Held, chan)
  /\ Numbers(collected) \union Numbers(Held) \union Numbers(chan) \subseteq 1..emitted
  /\ ~failed =>
       1..emitted \subseteq Numbers(collected) \union Numbers(Held) \union Numbers(chan)

RunInv == TypeOK /\ PhaseInv /\ PumpInv /\ StatusInv /\ ViewInv /\ EventInv

-----------------------------------------------------------------------------
(* The streams.                                                            *)

\* The kinds of events there are.
LEMMA ItemFacts ==
  /\ \A k \in 1..MaxEvents : Event(k) \in Item /\ Event(k)[1] = "event" /\ Event(k)[2] = k
  /\ \A m \in Message : SteerEvent(m, "handle") \in Item /\ SteerEvent(m, "backend") \in Item
  /\ \A s \in SUBSET Message : SteerEvent(s, "backend") \in Item
  /\ \A s, from : SteerEvent(s, from)[1] = "steer"
  /\ \A from \in {"handle", "backend"} : ErrorEvent(from) \in Item
  /\ \A from : ErrorEvent(from)[1] = "error"
<1>1. \A k \in 1..MaxEvents : Event(k) \in Item /\ Event(k)[1] = "event" /\ Event(k)[2] = k
  BY DEF Item, Event
<1>2. \A m \in Message : SteerEvent(m, "handle") \in Item /\ SteerEvent(m, "backend") \in Item
  BY DEF Item
<1>3. \A s \in SUBSET Message : SteerEvent(s, "backend") \in Item
  BY DEF Item
<1>4. \A s, from : SteerEvent(s, from)[1] = "steer"
  BY DEF SteerEvent
<1>5. \A from \in {"handle", "backend"} : ErrorEvent(from) \in Item
  BY DEF Item
<1>6. \A from : ErrorEvent(from)[1] = "error"
  BY DEF ErrorEvent
<1>7. QED
  BY <1>1, <1>2, <1>3, <1>4, <1>5, <1>6

\* What one more element at the end changes.
LEMMA NumbersAppend ==
  ASSUME NEW S, NEW s \in Seq(S), NEW e \in S
  PROVE  /\ Append(s, e) \in Seq(S)
         /\ e[1] = "event" => Numbers(Append(s, e)) = Numbers(s) \union {e[2]}
         /\ e[1] # "event" => Numbers(Append(s, e)) = Numbers(s)
         /\ Ordered(s) /\ (e[1] = "event" => \A a \in Numbers(s) : a < e[2])
              => Ordered(Append(s, e))
<1> DEFINE t == Append(s, e)
<1>1. /\ t \in Seq(S) /\ Len(s) \in Nat
      /\ DOMAIN s = 1..Len(s) /\ DOMAIN t = 1..(Len(s) + 1)
      /\ \A i \in 1..Len(s) : t[i] = s[i]
      /\ t[Len(s) + 1] = e
  BY AppendProperties, LenProperties
<1> HIDE DEF t
<1>2. \A i \in EventsAt(s) : i \in EventsAt(t) /\ t[i] = s[i]
  BY <1>1 DEF EventsAt
<1>3. \A i \in EventsAt(t) :
        \/ i \in EventsAt(s) /\ t[i] = s[i] /\ i < Len(s) + 1
        \/ i = Len(s) + 1 /\ t[i] = e /\ e[1] = "event"
  BY <1>1 DEF EventsAt
<1>4. e[1] = "event" => Len(s) + 1 \in EventsAt(t)
  BY <1>1 DEF EventsAt
<1>5. ASSUME e[1] = "event"
      PROVE  Numbers(t) = Numbers(s) \union {e[2]}
  <2>1. \A x \in Numbers(t) : x \in Numbers(s) \union {e[2]}
    BY <1>3 DEF Numbers
  <2>2. \A x \in Numbers(s) : x \in Numbers(t)
    BY <1>2 DEF Numbers
  <2>3. e[2] \in Numbers(t)
    BY <1>1, <1>4, <1>5 DEF Numbers
  <2>4. QED
    BY <2>1, <2>2, <2>3
<1>6. ASSUME e[1] # "event"
      PROVE  Numbers(t) = Numbers(s)
  <2>1. \A x \in Numbers(t) : x \in Numbers(s)
    BY <1>3, <1>6 DEF Numbers
  <2>2. \A x \in Numbers(s) : x \in Numbers(t)
    BY <1>2 DEF Numbers
  <2>3. QED
    BY <2>1, <2>2
<1>7. ASSUME Ordered(s), e[1] = "event" => \A a \in Numbers(s) : a < e[2]
      PROVE  Ordered(t)
  <2>1. SUFFICES ASSUME NEW i \in EventsAt(t), NEW j \in EventsAt(t), i < j
                 PROVE  t[i][2] < t[j][2]
    BY DEF Ordered
  <2>2. i \in Nat /\ j \in Nat /\ j <= Len(s) + 1
    BY <1>1 DEF EventsAt
  <2>3. i \in EventsAt(s) /\ t[i] = s[i]
    BY <1>1, <1>3, <2>1, <2>2
  <2>4. CASE j \in EventsAt(s) /\ t[j] = s[j]
    BY <1>7, <2>1, <2>3, <2>4 DEF Ordered
  <2>5. CASE j = Len(s) + 1 /\ t[j] = e /\ e[1] = "event"
    <3>1. s[i][2] \in Numbers(s)
      BY <2>3 DEF Numbers
    <3>2. QED
      BY <1>7, <2>3, <2>5, <3>1
  <2>6. QED
    BY <1>3, <2>4, <2>5
<1>8. QED
  BY <1>1, <1>5, <1>6, <1>7 DEF t

\* What taking the first element changes.
LEMMA NumbersTail ==
  ASSUME NEW S, NEW s \in Seq(S), s # <<>>
  PROVE  /\ Head(s) \in S /\ Tail(s) \in Seq(S)
         /\ Numbers(Tail(s)) \subseteq Numbers(s)
         /\ Head(s)[1] = "event" => Numbers(s) = Numbers(Tail(s)) \union {Head(s)[2]}
         /\ Head(s)[1] # "event" => Numbers(s) = Numbers(Tail(s))
         /\ Ordered(s) => /\ Ordered(Tail(s))
                          /\ Head(s)[1] = "event" =>
                               \A b \in Numbers(Tail(s)) : Head(s)[2] < b
<1> DEFINE t == Tail(s)
<1>1. /\ Len(s) \in Nat \ {0} /\ DOMAIN s = 1..Len(s)
      /\ Head(s) = s[1] /\ s[1] \in S
      /\ t \in Seq(S) /\ DOMAIN t = 1..(Len(s) - 1)
      /\ \A i \in DOMAIN t : t[i] = s[i + 1]
  BY TailEffect
<1> HIDE DEF t
<1>2. \A i \in EventsAt(t) : i \in Nat \ {0} /\ i + 1 \in EventsAt(s) /\ t[i] = s[i + 1]
  BY <1>1 DEF EventsAt
<1>3. ASSUME NEW i \in EventsAt(s)
      PROVE  \/ i = 1 /\ s[1][1] = "event"
             \/ i - 1 \in EventsAt(t) /\ t[i - 1] = s[i]
  <2>1. i \in 1..Len(s) /\ s[i][1] = "event"
    BY <1>1 DEF EventsAt
  <2>2. CASE i # 1
    <3>1. i - 1 \in DOMAIN t /\ (i - 1) + 1 = i
      BY <1>1, <2>1, <2>2
    <3>2. t[i - 1] = s[i]
      BY <1>1, <3>1
    <3>3. QED
      BY <2>1, <3>1, <3>2 DEF EventsAt
  <2>3. QED
    BY <2>1, <2>2
<1>4. s[1][1] = "event" => 1 \in EventsAt(s)
  BY <1>1 DEF EventsAt
<1>5. \A x \in Numbers(t) : x \in Numbers(s)
  BY <1>2 DEF Numbers
<1>6. ASSUME NEW x \in Numbers(s)
      PROVE  x \in Numbers(t) \/ (s[1][1] = "event" /\ x = s[1][2])
  <2>1. PICK i \in EventsAt(s) : x = s[i][2]
    BY DEF Numbers
  <2>2. CASE i - 1 \in EventsAt(t) /\ t[i - 1] = s[i]
    BY <2>1, <2>2 DEF Numbers
  <2>3. QED
    BY <1>3, <2>1, <2>2
<1>7. s[1][1] = "event" => s[1][2] \in Numbers(s)
  BY <1>4 DEF Numbers
<1>8. ASSUME Ordered(s)
      PROVE  /\ Ordered(t)
             /\ s[1][1] = "event" => \A b \in Numbers(t) : s[1][2] < b
  <2>1. ASSUME NEW i \in EventsAt(t), NEW j \in EventsAt(t), i < j
        PROVE  t[i][2] < t[j][2]
    <3>1. i + 1 < j + 1
      BY <1>2, <2>1
    <3>2. QED
      BY <1>2, <1>8, <3>1 DEF Ordered
  <2>2. ASSUME s[1][1] = "event", NEW b \in Numbers(t)
        PROVE  s[1][2] < b
    <3>1. PICK i \in EventsAt(t) : b = t[i][2]
      BY DEF Numbers
    <3>2. 1 \in EventsAt(s) /\ i + 1 \in EventsAt(s) /\ 1 < i + 1 /\ t[i] = s[i + 1]
      BY <1>2, <1>4, <2>2
    <3>3. QED
      BY <1>8, <3>1, <3>2 DEF Ordered
  <2>3. QED
    BY <2>1, <2>2 DEF Ordered
<1>9. s[1][1] = "event" => Numbers(s) = Numbers(t) \union {s[1][2]}
  BY <1>5, <1>6, <1>7
<1>10. s[1][1] # "event" => Numbers(s) = Numbers(t)
  BY <1>5, <1>6
<1>11. QED
  BY <1>1, <1>5, <1>8, <1>9, <1>10 DEF t

LEMMA NumbersOfOne ==
  /\ Numbers(<<>>) = {} /\ Ordered(<<>>)
  /\ \A e : Numbers(<<e>>) = IF e[1] = "event" THEN {e[2]} ELSE {}
<1>1. Numbers(<<>>) = {} /\ Ordered(<<>>)
  BY DEF Numbers, EventsAt, Ordered
<1>2. ASSUME NEW e
      PROVE  Numbers(<<e>>) = IF e[1] = "event" THEN {e[2]} ELSE {}
  <2>1. DOMAIN <<e>> = {1} /\ <<e>>[1] = e
    OBVIOUS
  <2>2. EventsAt(<<e>>) = IF e[1] = "event" THEN {1} ELSE {}
    BY <2>1 DEF EventsAt
  <2>3. QED
    BY <2>1, <2>2 DEF Numbers
<1>3. QED
  BY <1>1, <1>2

-----------------------------------------------------------------------------
(* Types.                                                                  *)

LEMMA PublishedType ==
  ASSUME TypeOK, NEW evs \in Seq(Item), Published(evs)
  PROVE  /\ collected' \in Seq(Item) /\ views' \in [Viewer -> Seq(Item)]
         /\ subscribed' = subscribed /\ closedAt' = closedAt
<1>1. collected' \in Seq(Item)
  BY ConcatProperties DEF TypeOK, Published
<1>2. \A v \in Viewer : views[v] \o evs \in Seq(Item)
  BY ConcatProperties DEF TypeOK
<1>3. views' \in [Viewer -> Seq(Item)]
  BY <1>2 DEF TypeOK, Published
<1>4. QED
  BY <1>1, <1>3 DEF Published

\* The streams keep their types when they are left alone or published to.
StreamTypes ==
  /\ collected \in Seq(Item) /\ views \in [Viewer -> Seq(Item)]
  /\ subscribed \subseteq Viewer /\ closedAt \in Nat \union {NotClosed}

LEMMA PublishedTypes ==
  ASSUME TypeOK
  PROVE  /\ \A e \in Item : Published(<<e>>) => StreamTypes'
         /\ \A d, e \in Item : Published(<<d, e>>) => StreamTypes'
         /\ Published(<<ErrorEvent("handle")>>) => StreamTypes'
         /\ \A m \in Message : Published(<<SteerEvent(m, "handle")>>) => StreamTypes'
         /\ UNCHANGED streamVars => StreamTypes'
<1>1. ASSUME NEW e \in Item, Published(<<e>>)
      PROVE  StreamTypes'
  <2>1. <<e>> \in Seq(Item)
    OBVIOUS
  <2>2. QED
    BY <1>1, <2>1, PublishedType DEF StreamTypes, TypeOK
<1>2. ASSUME NEW d \in Item, NEW e \in Item, Published(<<d, e>>)
      PROVE  StreamTypes'
  <2>1. <<d, e>> \in Seq(Item)
    OBVIOUS
  <2>2. QED
    BY <1>2, <2>1, PublishedType DEF StreamTypes, TypeOK
<1>3. UNCHANGED streamVars => StreamTypes'
  BY DEF StreamTypes, TypeOK, streamVars
<1>4. QED
  BY <1>1, <1>2, <1>3, ItemFacts

\* So does the channel of the adapter when a steer lands.
LEMMA LandedTypes ==
  ASSUME TypeOK, NEW m \in Message, Landed(m)
  PROVE  /\ chan' \in Seq(Item) /\ flight' \in [Message -> {"none", "live", "deferred"}]
         /\ delivered' \subseteq Message
         /\ UNCHANGED <<inputClosed, inbox, phase, chanDone, emitted, promise>>
<1>1. Append(chan, SteerEvent(m, "backend")) \in Seq(Item)
  BY ItemFacts, AppendProperties DEF TypeOK
<1>2. QED
  BY <1>1 DEF TypeOK, Landed

LEMMA CallTypes ==
  ASSUME TypeOK, NEW m \in Message, CallSteer(m)
  PROVE  /\ flight' \in [Message -> {"none", "live", "deferred"}]
         /\ inbox' \subseteq Message
         /\ UNCHANGED <<inputClosed, delivered>>
BY DEF TypeOK, CallSteer, ModeNow, InboxAfter

\* What the catch of pump leaves.
LEMMA CaughtTypes ==
  ASSUME TypeOK, Caught
  PROVE  /\ StreamTypes'
         /\ pc' \in {"cancelledResult", "onEnd"}
         /\ {status', result'} \subseteq {"none", "cancelled", "completed", "error"}
<1>1. CASE ~wasCancelled
  BY <1>1, PublishedTypes DEF Caught, Finalize, TypeOK
<1>2. CASE wasCancelled
  BY <1>2, PublishedTypes DEF Caught, Finalize, settleVars, TypeOK
<1>3. QED
  BY <1>1, <1>2

LEMMA TypeInit ==
  ASSUME Init
  PROVE  TypeOK
<1>1. pendingSteers \in Seq(Message) /\ applying \in Seq(Message) /\ chan \in Seq(Item)
  BY DEF Init
<1>2. flight \in [Message -> {"none", "live", "deferred"}]
  BY DEF Init
<1>3. answer \in [Message -> {"none", "asked", "hook", "live", "deferred", "rejected",
                             "thrown"}]
  BY DEF Init
<1>4. StreamTypes
  <2>1. <<>> \in Seq(Item)
    OBVIOUS
  <2>2. QED
    BY <2>1 DEF Init, StreamTypes
<1>5. emitted \in 0..MaxEvents /\ backend \in Backend
  BY RunHandleAssumption DEF Init
<1>6. inbox \subseteq Message /\ delivered \subseteq Message
  BY DEF Init
<1>7. held \in {Nothing} \union (Item \X Message)
  BY DEF Init
<1>8. QED
  BY <1>1, <1>2, <1>3, <1>4, <1>5, <1>6, <1>7 DEF Init, TypeOK, StreamTypes

\* The parts of TypeOK that no stream is about.
CallTypesOK ==
  /\ pendingSteers \in Seq(Message) /\ applying \in Seq(Message)
  /\ held \in {Nothing} \union (Item \X Message)
  /\ flight \in [Message -> {"none", "live", "deferred"}]
  /\ answer \in [Message -> {"none", "asked", "hook", "live", "deferred", "rejected",
                             "thrown"}]

RunTypes ==
  /\ backend \in Backend
  /\ pc \in {"onStart", "getAdapter", "steers", "events", "decide", "cancelledResult",
             "completedResult", "onEnd", "done"}
  /\ {started, wasCancelled, signal, abort, inputClosed, failed} \subseteq BOOLEAN
  /\ {status, result} \subseteq {"none", "cancelled", "completed", "error"}
  /\ cleanup \in {"none", "waiting", "timed", "settled", "cancelled_settled", "unsettled"}

BackendTypes ==
  /\ phase \in {"none", "setup", "running", "over"}
  /\ chan \in Seq(Item)
  /\ chanDone \in {"open", "ended", "failed"} /\ emitted \in 0..MaxEvents
  /\ promise \in {"pending", "resolved", "rejected"}
  /\ inbox \subseteq Message /\ delivered \subseteq Message

LEMMA TypeParts ==
  /\ TypeOK => CallTypesOK /\ RunTypes /\ BackendTypes /\ StreamTypes
  /\ (CallTypesOK /\ RunTypes /\ BackendTypes /\ StreamTypes)' => TypeOK'
BY DEF TypeOK, CallTypesOK, RunTypes, BackendTypes, StreamTypes

LEMMA TypeSteers ==
  ASSUME TypeOK, NEW m \in Message, Steer(m) \/ SteerReturns(m)
  PROVE  TypeOK'
<1>1. CASE Steer(m)
  <2>1. StreamTypes'
    BY <1>1, PublishedTypes DEF Steer
  <2>2. RunTypes' /\ BackendTypes'
    BY <1>1, TypeParts, CallTypes DEF Steer, steerVars, backendVars, settleVars, RunTypes,
       BackendTypes
  <2>3. CallTypesOK'
    <3>1. Append(pendingSteers, m) \in Seq(Message)
      BY AppendProperties DEF TypeOK
    <3>2. QED
      BY <1>1, <3>1, CallTypes, TypeParts DEF Steer, CallTypesOK
  <2>4. QED
    BY <2>1, <2>2, <2>3, TypeParts
<1>2. CASE SteerReturns(m)
  <2>1. StreamTypes'
    BY <1>2, PublishedTypes DEF SteerReturns
  <2>2. RunTypes' /\ BackendTypes'
    BY <1>2, TypeParts, LandedTypes DEF SteerReturns, steerVars, backendVars, settleVars,
       RunTypes, BackendTypes, Landed
  <2>3. CallTypesOK'
    BY <1>2, LandedTypes, TypeParts DEF SteerReturns, SteerMayReturn, CallTypesOK
  <2>4. QED
    BY <2>1, <2>2, <2>3, TypeParts
<1>3. QED
  BY <1>1, <1>2

LEMMA TypeCallers ==
  ASSUME TypeOK, Cancel \/ AbortSignal \/ Cleanup \/ CleanupReturns
  PROVE  TypeOK'
<1>1. UNCHANGED <<backendVars, steerVars, callVars, streamVars, settleVars>>
  BY DEF Cancel, AbortSignal, Cleanup, CleanupReturns
<1>2. StreamTypes' /\ CallTypesOK' /\ BackendTypes'
  BY <1>1, TypeParts DEF backendVars, steerVars, callVars, streamVars, StreamTypes,
     CallTypesOK, BackendTypes
<1>3. RunTypes'
  BY <1>1, TypeParts DEF Cancel, AbortSignal, Cleanup, CleanupReturns, DoCancel,
     CleanupStatus, settleVars, steerVars, RunTypes
<1>4. QED
  BY <1>2, <1>3, TypeParts

LEMMA TypeSubscribe ==
  ASSUME TypeOK, NEW v \in Viewer, Subscribe(v)
  PROVE  TypeOK'
<1>1. StreamTypes'
  BY DEF Subscribe, Replay, TypeOK, StreamTypes
<1>2. CallTypesOK' /\ BackendTypes' /\ RunTypes'
  BY TypeParts DEF Subscribe, backendVars, steerVars, callVars, settleVars,
     CallTypesOK, BackendTypes, RunTypes
<1>3. QED
  BY <1>1, <1>2, TypeParts

LEMMA TypeBackend ==
  ASSUME TypeOK, BackendReady \/ Emit \/ Deliver \/ Ends
  PROVE  TypeOK'
<1>1. UNCHANGED handleVars
  BY DEF BackendReady, Emit, Deliver, Ends, BackendCompletes, BackendStops, BackendFails, Over
<1>2. StreamTypes' /\ CallTypesOK'
  BY <1>1, TypeParts DEF handleVars, callVars, streamVars, StreamTypes, CallTypesOK
<1>3. inputClosed' \in BOOLEAN
  BY DEF BackendReady, Emit, Deliver, Ends, BackendCompletes, BackendStops, BackendFails, Over,
     steerVars, TypeOK
<1>4. RunTypes'
  BY <1>1, <1>3, TypeParts DEF handleVars, settleVars, RunTypes
<1>5. BackendTypes'
  <2>1. CASE BackendReady
    BY <2>1, TypeParts DEF BackendReady, steerVars, BackendTypes
  <2>2. CASE Emit
    <3>1. emitted' \in 0..MaxEvents /\ emitted' \in 1..MaxEvents
      BY <2>2, RunHandleAssumption DEF Emit, TypeOK
    <3>2. chan' \in Seq(Item)
      BY <2>2, <3>1, ItemFacts, AppendProperties DEF Emit, TypeOK
    <3>3. QED
      BY <2>2, <3>1, <3>2, TypeParts DEF Emit, BackendTypes
  <2>3. CASE Deliver
    <3>1. SteerEvent(inbox, "backend") \in Item
      BY ItemFacts DEF TypeOK
    <3>2. chan' \in Seq(Item)
      BY <2>3, <3>1, AppendProperties DEF Deliver, TypeOK
    <3>3. QED
      BY <2>3, <3>2, TypeParts DEF Deliver, BackendTypes
  <2>4. CASE Ends
    <3>1. Append(chan, ErrorEvent("backend")) \in Seq(Item)
      BY ItemFacts, AppendProperties DEF TypeOK
    <3>2. QED
      BY <2>4, <3>1, TypeParts DEF Ends, BackendCompletes, BackendStops, BackendFails, Over,
         FailedAs, PromiseOfFailure, steerVars, BackendTypes
  <2>5. QED
    BY <2>1, <2>2, <2>3, <2>4
<1>6. QED
  BY <1>2, <1>4, <1>5, TypeParts

LEMMA TypePump ==
  ASSUME TypeOK, PhaseInv, Pump
  PROVE  TypeOK'
<1>1. CASE OnStart \/ AdapterFails \/ EventsEnd \/ BackendResult
  <2>1. UNCHANGED <<backend, started, wasCancelled, signal, callVars, cleanup, backendVars,
                    abort, steerVars>>
    BY <1>1 DEF OnStart, AdapterFails, EventsEnd, BackendResult
  <2>2. CallTypesOK' /\ BackendTypes'
    BY <2>1, TypeParts DEF callVars, backendVars, steerVars, CallTypesOK, BackendTypes
  <2>3. StreamTypes'
    BY <1>1, CaughtTypes, PublishedTypes DEF OnStart, AdapterFails, EventsEnd, BackendResult,
       Fails
  <2>4. RunTypes'
    BY <1>1, <2>1, TypeParts, CaughtTypes DEF OnStart, AdapterFails, EventsEnd, BackendResult,
       Fails, Finalize, settleVars, steerVars, RunTypes
  <2>5. QED
    BY <2>2, <2>3, <2>4, TypeParts
<1>2. CASE AdapterReady
  <2>1. StreamTypes'
    BY <1>2, PublishedTypes DEF AdapterReady
  <2>2. CallTypesOK'
    <3>1. <<>> \in Seq(Message)
      OBVIOUS
    <3>2. QED
      BY <1>2, <3>1, TypeParts DEF AdapterReady, CallTypesOK
  <2>3. BackendTypes' /\ RunTypes'
    BY <1>2, TypeParts DEF AdapterReady, Finalize, steerVars, settleVars, BackendTypes, RunTypes
  <2>4. QED
    BY <2>1, <2>2, <2>3, TypeParts
<1>3. CASE ApplySteer
  <2>1. StreamTypes'
    BY <1>3, PublishedTypes DEF ApplySteer
  <2>2. applying # <<>> => Head(applying) \in Message /\ Tail(applying) \in Seq(Message)
    BY HeadTailProperties DEF TypeOK
  <2>3. CallTypesOK' /\ inbox' \subseteq Message /\ UNCHANGED <<inputClosed, delivered>>
    BY <1>3, <2>2, CallTypes, TypeParts DEF ApplySteer, steerVars, CallTypesOK, BackendTypes
  <2>4. BackendTypes' /\ RunTypes'
    BY <1>3, <2>3, TypeParts DEF ApplySteer, backendVars, settleVars, BackendTypes, RunTypes
  <2>5. QED
    BY <2>1, <2>3, <2>4, TypeParts
<1>4. CASE SteerApplied
  <2>1. Head(applying) \in Message /\ Tail(applying) \in Seq(Message)
    BY <1>4, HeadTailProperties DEF TypeOK, SteerApplied
  <2>2. PICK m \in Message : m = Head(applying)
    BY <2>1
  <2>3. StreamTypes'
    BY <1>4, <2>2, PublishedTypes, CaughtTypes DEF SteerApplied, Fails
  <2>4. CallTypesOK'
    <3>1. <<>> \in Seq(Message)
      OBVIOUS
    <3>2. QED
      BY <1>4, <2>1, <2>2, <3>1, LandedTypes, TypeParts DEF SteerApplied, CallTypesOK
  <2>5. BackendTypes' /\ RunTypes'
    BY <1>4, <2>2, TypeParts, LandedTypes, CaughtTypes DEF SteerApplied, Fails, steerVars,
       backendVars, settleVars, BackendTypes, RunTypes
  <2>6. QED
    BY <2>3, <2>4, <2>5, TypeParts
<1>5. CASE TakeEvent
  <2>1. Head(chan) \in Item /\ Tail(chan) \in Seq(Item)
    BY <1>5, HeadTailProperties DEF TypeOK, TakeEvent
  <2>2. StreamTypes'
    BY <1>5, <2>1, PublishedTypes, CaughtTypes DEF TakeEvent, Fails
  <2>3. CallTypesOK'
    BY <1>5, TypeParts DEF TakeEvent, callVars, CallTypesOK
  <2>4. BackendTypes'
    BY <1>5, <2>1, TypeParts DEF TakeEvent, steerVars, BackendTypes
  <2>5. RunTypes'
    BY <1>5, TypeParts, CaughtTypes DEF TakeEvent, DoCancel, Fails, steerVars, settleVars,
       RunTypes
  <2>6. QED
    BY <2>2, <2>3, <2>4, <2>5, TypeParts
<1>6. CASE Decided
  <2>1. held[1] \in Item /\ held[2] \in Message
    BY <1>6 DEF TypeOK, PhaseInv, Decided
  <2>2. PICK m \in Message : m = held[2]
    BY <2>1
  <2>3. StreamTypes'
    BY <1>6, <2>1, <2>2, PublishedTypes, CaughtTypes, ItemFacts DEF Decided, Fails
  <2>4. CallTypesOK'
    BY <1>6, <2>2, LandedTypes, TypeParts DEF Decided, CallTypesOK
  <2>5. BackendTypes' /\ RunTypes'
    BY <1>6, <2>2, TypeParts, LandedTypes, CaughtTypes DEF Decided, Fails, steerVars,
       backendVars, settleVars, BackendTypes, RunTypes
  <2>6. QED
    BY <2>3, <2>4, <2>5, TypeParts
<1>7. ASSUME NEW m \in Message, TakeEventAndSteer(m)
      PROVE  TypeOK'
  <2>1. Head(chan) \in Item /\ Tail(chan) \in Seq(Item)
    BY <1>7, HeadTailProperties DEF TypeOK, TakeEventAndSteer
  <2>2. StreamTypes'
    BY <1>7, <2>1, PublishedTypes DEF TakeEventAndSteer
  <2>3. CallTypesOK' /\ inbox' \subseteq Message /\ UNCHANGED <<inputClosed, delivered>>
    BY <1>7, <2>1, CallTypes, TypeParts DEF TakeEventAndSteer, steerVars, CallTypesOK,
       BackendTypes
  <2>4. BackendTypes' /\ RunTypes'
    BY <1>7, <2>1, <2>3, TypeParts DEF TakeEventAndSteer, settleVars, BackendTypes, RunTypes
  <2>5. QED
    BY <2>2, <2>3, <2>4, TypeParts
<1>8. CASE OnEnd
  <2>1. CallTypesOK' /\ BackendTypes' /\ RunTypes'
    BY <1>8, TypeParts DEF OnEnd, callVars, backendVars, steerVars, CallTypesOK, BackendTypes,
       RunTypes
  <2>2. StreamTypes'
    BY <1>8, LenProperties DEF OnEnd, TypeOK, StreamTypes
  <2>3. QED
    BY <2>1, <2>2, TypeParts
<1>9. QED
  BY <1>1, <1>2, <1>3, <1>4, <1>5, <1>6, <1>7, <1>8 DEF Pump

-----------------------------------------------------------------------------
(* pump, and the run of the adapter.                                       *)

ControlInv == PhaseInv /\ PumpInv /\ StatusInv

\* What the catch of pump does to the control of the run.
LEMMA CaughtEffect ==
  ASSUME TypeOK, StatusInv, Fails, pc \notin {"onEnd", "done"}
  PROVE  /\ failed' = TRUE /\ closedAt' = closedAt /\ result' = result
         /\ \/ wasCancelled /\ started /\ pc' = "cancelledResult" /\ status' = status
            \/ wasCancelled /\ ~started /\ pc' = "onEnd" /\ status' = "cancelled"
            \/ ~wasCancelled /\ pc' = "onEnd" /\ status' = "error"
BY DEF TypeOK, StatusInv, Fails, Caught, Finalize, Published, streamVars, settleVars

LEMMA ControlInit ==
  ASSUME Init
  PROVE  ControlInv
BY DEF Init, ControlInv, PhaseInv, PumpInv, StatusInv

\* A caller of the handle moves neither pump nor the adapter's run.
LEMMA ControlCallers ==
  ASSUME TypeOK, ControlInv,
         UNCHANGED <<pc, started, held, closedAt, settleVars, phase, chanDone, emitted,
                     promise, failed>>,
         wasCancelled => wasCancelled',
         phase # "running" => UNCHANGED chan
  PROVE  ControlInv'
BY DEF TypeOK, ControlInv, PhaseInv, PumpInv, StatusInv, settleVars

LEMMA ControlStep ==
  ASSUME TypeOK, ControlInv, Next
  PROVE  ControlInv'
<1> USE DEF ControlInv
<1>1. CASE OnStart \/ AdapterFails
  <2>1. /\ UNCHANGED <<started, wasCancelled, held, backendVars>>
        /\ pc \in {"onStart", "getAdapter"}
    BY <1>1 DEF OnStart, AdapterFails, callVars
  <2>2. CASE Fails
    BY <2>1, <2>2, CaughtEffect DEF TypeOK, PhaseInv, PumpInv, StatusInv, backendVars
  <2>3. CASE pc' = "getAdapter" /\ UNCHANGED <<streamVars, settleVars, failed>>
    BY <2>1, <2>3 DEF TypeOK, PhaseInv, PumpInv, StatusInv, backendVars, streamVars, settleVars
  <2>4. QED
    BY <1>1, <2>2, <2>3 DEF OnStart, AdapterFails
<1>2. CASE AdapterReady
  BY <1>2 DEF AdapterReady, Finalize, TypeOK, PhaseInv, PumpInv, StatusInv, streamVars,
     settleVars
<1>3. CASE ApplySteer
  BY <1>3 DEF ApplySteer, TypeOK, PhaseInv, PumpInv, StatusInv, streamVars, settleVars,
     backendVars
<1>4. CASE SteerApplied
  <2>1. UNCHANGED <<started, wasCancelled, held>> /\ pc = "steers"
    BY <1>4 DEF SteerApplied
  <2>2. CASE Fails /\ UNCHANGED backendVars
    BY <2>1, <2>2, CaughtEffect DEF TypeOK, PhaseInv, PumpInv, StatusInv, backendVars
  <2>3. CASE /\ Landed(Head(applying)) /\ UNCHANGED <<pc, settleVars, failed>>
             /\ Published(<<SteerEvent(Head(applying), "handle")>>)
    BY <2>1, <2>3 DEF Landed, Published, TypeOK, PhaseInv, PumpInv, StatusInv, settleVars
  <2>4. QED
    BY <1>4, <2>2, <2>3 DEF SteerApplied
<1>5. CASE TakeEvent
  <2>1. UNCHANGED <<started, held, phase, chanDone, emitted, promise>> /\ pc = "events"
    BY <1>5 DEF TakeEvent, callVars
  <2>2. CASE Fails /\ UNCHANGED wasCancelled
    BY <2>1, <2>2, CaughtEffect DEF TypeOK, PhaseInv, PumpInv, StatusInv
  <2>3. CASE Published(<<Head(chan)>>) /\ UNCHANGED <<pc, settleVars, failed>>
             /\ (wasCancelled' = wasCancelled \/ wasCancelled')
    BY <2>1, <2>3 DEF Published, TypeOK, PhaseInv, PumpInv, StatusInv, settleVars
  <2>4. QED
    BY <1>5, <2>2, <2>3 DEF TakeEvent, DoCancel
<1>6. CASE Decided
  <2>1. UNCHANGED <<started, wasCancelled>> /\ pc = "decide" /\ held' = Nothing
    BY <1>6 DEF Decided
  <2>2. CASE Fails /\ UNCHANGED backendVars
    BY <2>1, <2>2, CaughtEffect DEF TypeOK, PhaseInv, PumpInv, StatusInv, backendVars
  <2>3. CASE /\ Landed(held[2]) /\ UNCHANGED <<settleVars, failed>> /\ pc' = "events"
             /\ Published(<<SteerEvent(held[2], "handle"), held[1]>>)
    BY <2>1, <2>3 DEF Landed, Published, TypeOK, PhaseInv, PumpInv, StatusInv, settleVars
  <2>4. QED
    BY <1>6, <2>2, <2>3 DEF Decided
<1>7. CASE EventsEnd
  <2>1. UNCHANGED <<started, wasCancelled, held, backendVars>> /\ pc = "events"
    BY <1>7 DEF EventsEnd, callVars
  <2>2. CASE Fails
    BY <2>1, <2>2, CaughtEffect DEF TypeOK, PhaseInv, PumpInv, StatusInv, backendVars
  <2>3. CASE ~Fails
    BY <1>7, <2>1, <2>3 DEF EventsEnd, Drained, TypeOK, PhaseInv, PumpInv, StatusInv,
       streamVars, settleVars, backendVars
  <2>4. QED
    BY <2>2, <2>3
<1>8. CASE BackendResult
  <2>1. /\ UNCHANGED <<started, wasCancelled, held, backendVars>>
        /\ pc \in {"cancelledResult", "completedResult"}
    BY <1>8 DEF BackendResult, callVars
  <2>2. CASE Fails
    BY <2>1, <2>2, CaughtEffect DEF TypeOK, PhaseInv, PumpInv, StatusInv, backendVars
  <2>3. CASE ~Fails
    BY <1>8, <2>1, <2>3 DEF BackendResult, Finalize, TypeOK, PhaseInv, PumpInv, StatusInv,
       streamVars, backendVars
  <2>4. QED
    BY <2>2, <2>3
<1>9. CASE OnEnd
  <2>1. Len(collected) \in Nat
    BY LenProperties DEF TypeOK
  <2>2. QED
    BY <1>9, <2>1 DEF OnEnd, NotClosed, callVars, TypeOK, PhaseInv, PumpInv, StatusInv,
       backendVars
<1>10. ASSUME NEW m \in Message, TakeEventAndSteer(m)
       PROVE  ControlInv'
  <2>1. /\ UNCHANGED <<started, wasCancelled, closedAt, settleVars, phase, chanDone, emitted,
                       promise, failed>>
        /\ pc = "events"
    BY <1>10 DEF TakeEventAndSteer, Published, streamVars
  <2>2. <<Head(chan), m>> # <<>>
    OBVIOUS
  <2>3. (pc' = "decide" /\ held' # Nothing) \/ (pc' = pc /\ held' = held)
    <3>1. CASE CanSteer
      BY <1>10, <2>2, <3>1 DEF TakeEventAndSteer, Nothing
    <3>2. CASE ~CanSteer
      BY <1>10, <3>2 DEF TakeEventAndSteer
    <3>3. QED
      BY <3>1, <3>2
  <2>4. QED
    BY <2>1, <2>3 DEF TypeOK, PhaseInv, PumpInv, StatusInv, settleVars
<1>11. CASE BackendReady \/ Emit \/ Deliver \/ Ends
  <2>1. UNCHANGED <<pc, started, wasCancelled, held, closedAt, status, result, failed>>
    BY <1>11 DEF BackendReady, Emit, Deliver, Ends, BackendCompletes, BackendStops,
       BackendFails, Over, handleVars, callVars, streamVars, settleVars
  <2>2. /\ phase \in {"setup", "running"} /\ chanDone = "open"
        /\ phase' = "over" \/ phase' \in {"setup", "running"}
        /\ phase' = "over" <=> chanDone' # "open"
        /\ promise' # "pending" => phase' = "over"
    BY <1>11 DEF BackendReady, Emit, Deliver, Ends, BackendCompletes, BackendStops,
       BackendFails, Over, FailedAs, TypeOK, PhaseInv
  <2>3. QED
    BY <2>1, <2>2 DEF TypeOK, PhaseInv, PumpInv, StatusInv
<1>12. CASE Cancel \/ AbortSignal \/ Cleanup \/ CleanupReturns
  BY <1>12, ControlCallers DEF Cancel, AbortSignal, Cleanup, CleanupReturns, DoCancel,
     callVars, streamVars, settleVars, backendVars
<1>13. ASSUME NEW m \in Message, Steer(m)
       PROVE  ControlInv'
  BY <1>13, ControlCallers DEF Steer, callVars, streamVars, settleVars, backendVars
<1>14. ASSUME NEW m \in Message, SteerReturns(m)
       PROVE  ControlInv'
  BY <1>14, ControlCallers DEF SteerReturns, SteerMayReturn, Landed, Published, streamVars,
     settleVars, backendVars
<1>15. ASSUME NEW v \in Viewer, Subscribe(v)
       PROVE  ControlInv'
  BY <1>15, ControlCallers DEF Subscribe, callVars, settleVars, backendVars
<1>16. QED
  BY <1>1, <1>2, <1>3, <1>4, <1>5, <1>6, <1>7, <1>8, <1>9, <1>10, <1>11, <1>12, <1>13,
     <1>14, <1>15 DEF Next, Pump

-----------------------------------------------------------------------------
(* The views.                                                              *)

\* Whatever is published, every open view gets it.
LEMMA PublishedViews ==
  ASSUME TypeOK, ViewInv, NEW evs \in Seq(Item), Published(evs)
  PROVE  ViewInv'
<1>1. /\ collected' = collected \o evs /\ subscribed' = subscribed /\ closedAt' = closedAt
      /\ \A v \in Viewer : views'[v] = IF v \in subscribed /\ closedAt = NotClosed
                                        THEN views[v] \o evs ELSE views[v]
  BY DEF Published
<1>2. /\ Len(collected) \in Nat /\ Len(evs) \in Nat
      /\ Len(collected \o evs) = Len(collected) + Len(evs)
      /\ \A i \in 1..(Len(collected) + Len(evs)) :
           (collected \o evs)[i] =
             IF i <= Len(collected) THEN collected[i] ELSE evs[i - Len(collected)]
  BY ConcatProperties, LenProperties DEF TypeOK
<1>3. closedAt' # NotClosed => closedAt' <= Len(collected')
  BY <1>1, <1>2 DEF TypeOK, ViewInv, NotClosed
<1>4. ASSUME NEW v \in subscribed'
      PROVE  /\ Len(views'[v]) <= Len(collected')
             /\ \A i \in 1..Len(views'[v]) : views'[v][i] = collected'[i]
             /\ closedAt' = NotClosed => Len(views'[v]) = Len(collected')
             /\ closedAt' # NotClosed => closedAt' <= Len(views'[v])
  <2>1. v \in subscribed /\ v \in Viewer /\ views[v] \in Seq(Item)
    BY <1>1 DEF TypeOK
  <2>2. /\ Len(views[v]) \in Nat
        /\ Len(views[v] \o evs) = Len(views[v]) + Len(evs)
        /\ \A i \in 1..(Len(views[v]) + Len(evs)) :
             (views[v] \o evs)[i] =
               IF i <= Len(views[v]) THEN views[v][i] ELSE evs[i - Len(views[v])]
    BY <2>1, ConcatProperties, LenProperties
  <2>3. /\ Len(views[v]) <= Len(collected)
        /\ \A i \in 1..Len(views[v]) : views[v][i] = collected[i]
        /\ closedAt = NotClosed => Len(views[v]) = Len(collected)
        /\ closedAt # NotClosed => closedAt <= Len(views[v])
    BY <2>1 DEF ViewInv
  <2>4. CASE closedAt = NotClosed
    <3>1. views'[v] = views[v] \o evs
      BY <1>1, <2>1, <2>4
    <3>2. \A i \in 1..(Len(collected) + Len(evs)) : (views[v] \o evs)[i] = (collected \o evs)[i]
      BY <1>2, <2>2, <2>3, <2>4
    <3>3. /\ Len(views'[v]) = Len(collected) + Len(evs)
          /\ Len(collected') = Len(collected) + Len(evs)
          /\ Len(collected) + Len(evs) \in Nat
      <4>1. Len(views[v] \o evs) = Len(collected) + Len(evs)
        BY <2>2, <2>3, <2>4
      <4>2. Len(collected') = Len(collected) + Len(evs)
        BY <1>1, <1>2
      <4>3. QED
        BY <1>2, <3>1, <4>1, <4>2
    <3>4. \A i \in 1..Len(views'[v]) : views'[v][i] = collected'[i]
      BY <1>1, <3>1, <3>2, <3>3
    <3>5. QED
      BY <1>1, <2>4, <3>3, <3>4
  <2>5. CASE closedAt # NotClosed
    <3>1. views'[v] = views[v]
      BY <1>1, <2>1, <2>5
    <3>2. \A i \in 1..Len(views[v]) : (collected \o evs)[i] = collected[i]
      BY <1>2, <2>2, <2>3
    <3>3. QED
      BY <1>1, <1>2, <2>2, <2>3, <2>5, <3>1, <3>2
  <2>6. QED
    BY <2>4, <2>5
<1>5. QED
  BY <1>3, <1>4 DEF ViewInv

\* A new view starts with everything there is.
LEMMA SubscribeViews ==
  ASSUME TypeOK, ViewInv, NEW w \in Viewer, Subscribe(w)
  PROVE  ViewInv'
<1>1. /\ collected' = collected /\ closedAt' = closedAt
      /\ subscribed' = subscribed \union {w}
      /\ views'[w] = collected
      /\ \A v \in subscribed : v \in Viewer /\ v # w /\ views'[v] = views[v]
  BY DEF Subscribe, Replay, TypeOK
<1>2. Len(collected) \in Nat
  BY LenProperties DEF TypeOK
<1>3. QED
  BY <1>1, <1>2 DEF ViewInv

LEMMA ViewStep ==
  ASSUME TypeOK, ControlInv, ViewInv, Next
  PROVE  ViewInv'
<1>1. ASSUME UNCHANGED streamVars
      PROVE  ViewInv'
  BY <1>1 DEF streamVars, ViewInv
<1>2. ASSUME NEW e \in Item, Published(<<e>>)
      PROVE  ViewInv'
  <2>1. <<e>> \in Seq(Item)
    OBVIOUS
  <2>2. QED
    BY <1>2, <2>1, PublishedViews
<1>3. ASSUME NEW e \in Item, NEW f \in Item, Published(<<e, f>>)
      PROVE  ViewInv'
  <2>1. <<e, f>> \in Seq(Item)
    OBVIOUS
  <2>2. QED
    BY <1>3, <2>1, PublishedViews
<1>4. Caught => ViewInv'
  BY <1>1, <1>2, ItemFacts DEF Caught
<1>5. CASE \/ AdapterReady \/ ApplySteer \/ BackendReady \/ Emit \/ Deliver \/ Ends
           \/ Cancel \/ AbortSignal \/ Cleanup \/ CleanupReturns
           \/ \E m \in Message : Steer(m)
  <2>1. UNCHANGED streamVars
    BY <1>5 DEF AdapterReady, ApplySteer, BackendReady, Emit, Deliver, Ends, BackendCompletes,
       BackendStops, BackendFails, Over, handleVars, Cancel, AbortSignal, Cleanup,
       CleanupReturns, Steer
  <2>2. QED
    BY <1>1, <2>1
<1>6. CASE OnStart \/ AdapterFails \/ EventsEnd \/ BackendResult
  BY <1>1, <1>4, <1>6 DEF OnStart, AdapterFails, EventsEnd, BackendResult, Fails
<1>7. CASE SteerApplied
  <2>1. Head(applying) \in Message
    BY <1>7, HeadTailProperties DEF SteerApplied, TypeOK
  <2>2. SteerEvent(Head(applying), "handle") \in Item
    BY <2>1, ItemFacts
  <2>3. QED
    BY <1>2, <1>4, <1>7, <2>2 DEF SteerApplied, Fails
<1>8. CASE TakeEvent \/ \E m \in Message : TakeEventAndSteer(m)
  <2>1. Head(chan) \in Item
    BY <1>8, HeadTailProperties DEF TakeEvent, TakeEventAndSteer, TypeOK
  <2>2. QED
    BY <1>1, <1>2, <1>4, <1>8, <2>1 DEF TakeEvent, TakeEventAndSteer, Fails
<1>9. CASE Decided
  <2>1. held[1] \in Item /\ held[2] \in Message
    BY <1>9 DEF TypeOK, ControlInv, PhaseInv, Decided
  <2>2. SteerEvent(held[2], "handle") \in Item
    BY <2>1, ItemFacts
  <2>3. QED
    BY <1>3, <1>4, <1>9, <2>1, <2>2 DEF Decided, Fails
<1>10. CASE OnEnd
  <2>1. /\ closedAt = NotClosed /\ closedAt' = Len(collected)
        /\ UNCHANGED <<collected, views, subscribed>> /\ Len(collected) \in Nat
    BY <1>10, LenProperties DEF OnEnd, ControlInv, StatusInv, TypeOK
  <2>2. QED
    BY <2>1 DEF ViewInv, NotClosed
<1>11. ASSUME NEW m \in Message, SteerReturns(m)
       PROVE  ViewInv'
  BY <1>1, <1>2, <1>11, ItemFacts DEF SteerReturns
<1>12. ASSUME NEW v \in Viewer, Subscribe(v)
       PROVE  ViewInv'
  BY <1>12, SubscribeViews
<1>13. QED
  BY <1>5, <1>6, <1>7, <1>8, <1>9, <1>10, <1>11, <1>12 DEF Next, Pump

-----------------------------------------------------------------------------
(* The events of the backend.                                              *)

\* Nothing but an event of the backend counts.
LEMMA EventFrame ==
  ASSUME EventInv,
         Numbers(collected') = Numbers(collected), Ordered(collected) => Ordered(collected'),
         Numbers(chan') = Numbers(chan), Ordered(chan) => Ordered(chan'),
         held' = held, emitted' = emitted, failed => failed'
  PROVE  EventInv'
<1>1. Held' = Held
  BY DEF Held
<1>2. QED
  BY <1>1 DEF EventInv, Before

\* What is published beside the events of the backend.
LEMMA PublishedQuiet ==
  ASSUME TypeOK
  PROVE  /\ \A e \in Item : Published(<<e>>) => collected' = Append(collected, e)
         /\ \A d, e \in Item :
              Published(<<d, e>>) => collected' = Append(Append(collected, d), e)
         /\ \A e \in Item :
              Published(<<e>>) /\ e[1] # "event"
                => /\ Numbers(collected') = Numbers(collected)
                   /\ Ordered(collected) => Ordered(collected')
         /\ UNCHANGED streamVars
                => /\ Numbers(collected') = Numbers(collected)
                   /\ Ordered(collected) => Ordered(collected')
<1>1. \A e \in Item : Published(<<e>>) => collected' = Append(collected, e)
  BY AppendIsConcat DEF Published, TypeOK
<1>2. ASSUME NEW d \in Item, NEW e \in Item, Published(<<d, e>>)
      PROVE  collected' = Append(Append(collected, d), e)
  <2>1. /\ Append(collected, d) \in Seq(Item)
        /\ Append(collected, d) = collected \o <<d>>
    BY AppendIsConcat, AppendProperties DEF TypeOK
  <2>2. Append(Append(collected, d), e) = (collected \o <<d>>) \o <<e>>
    BY <2>1, AppendIsConcat
  <2>3. /\ <<d>> \in Seq(Item) /\ <<e>> \in Seq(Item) /\ <<d, e>> \in Seq(Item)
        /\ Len(<<d>>) = 1 /\ Len(<<e>>) = 1 /\ Len(<<d, e>>) = 2
        /\ <<d>>[1] = d /\ <<e>>[1] = e /\ <<d, e>>[1] = d /\ <<d, e>>[2] = e
    OBVIOUS
  <2>4. <<d>> \o <<e>> = <<d, e>>
    <3> DEFINE both == <<d>> \o <<e>>
               pair == <<d, e>>
    <3>1. both \in Seq(Item) /\ Len(both) = 2 /\ both[1] = d /\ both[2] = e
      BY <2>3, ConcatProperties
    <3>2. pair \in Seq(Item) /\ Len(pair) = 2 /\ pair[1] = d /\ pair[2] = e
      BY <2>3
    <3> HIDE DEF both, pair
    <3>3. \A i \in 1..Len(both) : both[i] = pair[i]
      BY <3>1, <3>2
    <3>4. both = pair
      BY <3>1, <3>2, <3>3, SeqEqual
    <3>5. QED
      BY <3>4 DEF both, pair
  <2>5. collected \in Seq(Item)
    BY DEF TypeOK
  <2>6. (collected \o <<d>>) \o <<e>> = collected \o (<<d>> \o <<e>>)
    BY <2>3, <2>5, ConcatAssociative
  <2>7. QED
    BY <1>2, <2>2, <2>4, <2>6 DEF Published
<1>3. ASSUME NEW e \in Item, Published(<<e>>), e[1] # "event"
      PROVE  /\ Numbers(collected') = Numbers(collected)
             /\ Ordered(collected) => Ordered(collected')
  <2>1. collected' = Append(collected, e)
    BY <1>1, <1>3
  <2>2. QED
    BY <1>3, <2>1, NumbersAppend DEF TypeOK
<1>4. UNCHANGED streamVars
        => /\ Numbers(collected') = Numbers(collected)
           /\ Ordered(collected) => Ordered(collected')
  BY DEF streamVars
<1>5. QED
  BY <1>1, <1>2, <1>3, <1>4

\* The catch of pump publishes no event of the backend.
LEMMA CaughtQuiet ==
  ASSUME TypeOK, Caught
  PROVE  /\ Numbers(collected') = Numbers(collected)
         /\ Ordered(collected) => Ordered(collected')
BY PublishedQuiet, ItemFacts DEF Caught

\* Nor does a steer that landed reach the channel as one.
LEMMA ChanQuiet ==
  ASSUME TypeOK
  PROVE  /\ \A e \in Item : e[1] # "event" /\ chan' = Append(chan, e)
              => Numbers(chan') = Numbers(chan) /\ (Ordered(chan) => Ordered(chan'))
         /\ \A m \in Message : Landed(m)
              => /\ Numbers(chan') = Numbers(chan) /\ (Ordered(chan) => Ordered(chan'))
                 /\ emitted' = emitted
<1>1. ASSUME NEW e \in Item, e[1] # "event", chan' = Append(chan, e)
      PROVE  Numbers(chan') = Numbers(chan) /\ (Ordered(chan) => Ordered(chan'))
  BY <1>1, NumbersAppend DEF TypeOK
<1>2. ASSUME NEW m \in Message, Landed(m)
      PROVE  /\ Numbers(chan') = Numbers(chan) /\ (Ordered(chan) => Ordered(chan'))
             /\ emitted' = emitted
  <2>1. SteerEvent(m, "backend") \in Item /\ SteerEvent(m, "backend")[1] # "event"
    BY ItemFacts
  <2>2. chan' = chan \/ chan' = Append(chan, SteerEvent(m, "backend"))
    BY <1>2 DEF Landed
  <2>3. QED
    BY <1>1, <1>2, <2>1, <2>2 DEF Landed
<1>3. QED
  BY <1>1, <1>2

LEMMA EventInit ==
  ASSUME Init
  PROVE  EventInv
<1>1. /\ collected = <<>> /\ chan = <<>> /\ Held = <<>> /\ emitted = 0
  BY DEF Init, Held
<1>2. QED
  BY <1>1, NumbersOfOne DEF EventInv, Before

\* The first event of the channel goes to the stream.
LEMMA PassEvent ==
  ASSUME TypeOK, EventInv, chan # <<>>, held = Nothing, held' = Nothing,
         collected' = Append(collected, Head(chan)), chan' = Tail(chan),
         emitted' = emitted, failed' = failed
  PROVE  EventInv'
<1> DEFINE e == Head(chan)
<1>1. /\ e \in Item
      /\ e[1] = "event" => Numbers(chan) = Numbers(chan') \union {e[2]}
      /\ e[1] # "event" => Numbers(chan) = Numbers(chan')
      /\ Ordered(chan')
      /\ e[1] = "event" => \A b \in Numbers(chan') : e[2] < b
  BY NumbersTail DEF TypeOK, EventInv
<1>2. e[1] = "event" => \A a \in Numbers(collected) : a < e[2]
  BY <1>1 DEF EventInv, Before
<1>3. /\ e[1] = "event" => Numbers(collected') = Numbers(collected) \union {e[2]}
      /\ e[1] # "event" => Numbers(collected') = Numbers(collected)
      /\ Ordered(collected')
  BY <1>1, <1>2, NumbersAppend DEF TypeOK, EventInv
<1>4. Numbers(Held) = {} /\ Numbers(Held') = {}
  BY NumbersOfOne DEF Held
<1> HIDE DEF e
<1>5. Before(collected, Held)' /\ Before(Held, chan)'
  BY <1>4 DEF Before
<1>6. Before(collected, chan)'
  BY <1>1, <1>3 DEF EventInv, Before
<1>7. Numbers(collected') \union Numbers(chan') = Numbers(collected) \union Numbers(chan)
  BY <1>1, <1>3
<1>8. QED
  BY <1>1, <1>3, <1>4, <1>5, <1>6, <1>7 DEF EventInv

\* It waits for the steer its hook asked for.
LEMMA HoldEvent ==
  ASSUME TypeOK, EventInv, chan # <<>>, held = Nothing,
         Held' = <<Head(chan)>>, chan' = Tail(chan),
         collected' = collected, emitted' = emitted, failed' = failed
  PROVE  EventInv'
<1> DEFINE e == Head(chan)
<1>1. /\ e \in Item
      /\ e[1] = "event" => Numbers(chan) = Numbers(chan') \union {e[2]}
      /\ e[1] # "event" => Numbers(chan) = Numbers(chan')
      /\ Ordered(chan')
      /\ e[1] = "event" => \A b \in Numbers(chan') : e[2] < b
  BY NumbersTail DEF TypeOK, EventInv
<1>2. /\ Numbers(Held) = {}
      /\ Numbers(Held') = IF e[1] = "event" THEN {e[2]} ELSE {}
  BY NumbersOfOne DEF Held
<1> HIDE DEF e
<1>3. Before(collected, Held)' /\ Before(Held, chan)' /\ Before(collected, chan)'
  BY <1>1, <1>2 DEF EventInv, Before
<1>4. Numbers(Held') \union Numbers(chan') = Numbers(chan)
  BY <1>1, <1>2
<1>5. QED
  BY <1>1, <1>2, <1>3, <1>4 DEF EventInv

\* And is published after it.
LEMMA ReleaseEvent ==
  ASSUME TypeOK, EventInv, held # Nothing, held' = Nothing, NEW m \in Message,
         collected' = Append(Append(collected, SteerEvent(m, "handle")), held[1]),
         Numbers(chan') = Numbers(chan), Ordered(chan) => Ordered(chan'),
         emitted' = emitted, failed' = failed
  PROVE  EventInv'
<1> DEFINE e == held[1]
           s == SteerEvent(m, "handle")
           c == Append(collected, s)
<1>1. e \in Item /\ s \in Item /\ s[1] # "event" /\ collected \in Seq(Item)
  BY ItemFacts DEF TypeOK
<1>2. /\ Numbers(Held) = IF e[1] = "event" THEN {e[2]} ELSE {}
      /\ Numbers(Held') = {}
  BY NumbersOfOne DEF Held
<1>3. c \in Seq(Item) /\ Numbers(c) = Numbers(collected) /\ Ordered(c)
  BY <1>1, NumbersAppend DEF EventInv
<1>4. collected' = Append(c, e)
  OBVIOUS
<1> HIDE DEF c, e, s
<1>5. e[1] = "event" => \A a \in Numbers(c) : a < e[2]
  BY <1>2, <1>3 DEF EventInv, Before
<1>6. /\ e[1] = "event" => Numbers(collected') = Numbers(c) \union {e[2]}
      /\ e[1] # "event" => Numbers(collected') = Numbers(c)
      /\ Ordered(collected')
  <2>1. /\ e[1] = "event" => Numbers(Append(c, e)) = Numbers(c) \union {e[2]}
        /\ e[1] # "event" => Numbers(Append(c, e)) = Numbers(c)
        /\ Ordered(Append(c, e))
    BY <1>1, <1>3, <1>5, NumbersAppend
  <2>2. QED
    BY <1>4, <2>1
<1>7. Numbers(collected') = Numbers(collected) \union Numbers(Held)
  BY <1>2, <1>3, <1>6
<1>8. Before(collected, Held)' /\ Before(Held, chan)'
  BY <1>2 DEF Before
<1>9. Before(collected, chan)'
  BY <1>7 DEF EventInv, Before
<1>10. QED
  BY <1>2, <1>6, <1>7, <1>8, <1>9 DEF EventInv

\* When pump fails, the event it has at hand is lost.
LEMMA LoseEvent ==
  ASSUME TypeOK, EventInv, Fails, held' = Nothing, emitted' = emitted,
         chan' = chan \/ (chan # <<>> /\ chan' = Tail(chan))
  PROVE  EventInv'
<1>1. Numbers(collected') = Numbers(collected) /\ Ordered(collected')
  BY CaughtQuiet DEF Fails, EventInv
<1>2. Numbers(Held') = {}
  BY NumbersOfOne DEF Held
<1>3. Numbers(chan') \subseteq Numbers(chan) /\ Ordered(chan')
  <2>1. CASE chan' = chan
    BY <2>1 DEF EventInv
  <2>2. CASE chan # <<>> /\ chan' = Tail(chan)
    BY <2>2, NumbersTail DEF TypeOK, EventInv
  <2>3. QED
    BY <2>1, <2>2
<1>4. Before(collected, Held)' /\ Before(Held, chan)' /\ Before(collected, chan)'
  BY <1>1, <1>2, <1>3 DEF EventInv, Before
<1>5. QED
  BY <1>1, <1>2, <1>3, <1>4 DEF EventInv, Fails

LEMMA EmitEvent ==
  ASSUME TypeOK, EventInv, Emit
  PROVE  EventInv'
<1>1. /\ emitted' = emitted + 1 /\ emitted \in Nat /\ emitted + 1 \in 1..MaxEvents
      /\ chan' = Append(chan, Event(emitted + 1))
      /\ UNCHANGED <<collected, held, failed>>
  BY RunHandleAssumption DEF Emit, TypeOK, handleVars, callVars, streamVars
<1>2. /\ Event(emitted + 1) \in Item /\ Event(emitted + 1)[1] = "event"
      /\ Event(emitted + 1)[2] = emitted + 1
  BY <1>1, ItemFacts
<1>3. \A a \in Numbers(collected) \union Numbers(Held) \union Numbers(chan) : a < emitted + 1
  BY <1>1 DEF EventInv
<1>4. Numbers(chan') = Numbers(chan) \union {emitted + 1} /\ Ordered(chan')
  BY <1>1, <1>2, <1>3, NumbersAppend DEF TypeOK, EventInv
<1>5. Held' = Held
  BY <1>1 DEF Held
<1>6. Before(collected, Held)' /\ Before(Held, chan)' /\ Before(collected, chan)'
  BY <1>1, <1>3, <1>4, <1>5 DEF EventInv, Before
<1>7. 1..emitted' = 1..emitted \union {emitted + 1}
  BY <1>1
<1>8. QED
  BY <1>1, <1>4, <1>5, <1>6, <1>7 DEF EventInv

LEMMA EventStep ==
  ASSUME TypeOK, ControlInv, EventInv, Next
  PROVE  EventInv'
<1>1. ASSUME Caught, UNCHANGED <<held, chan, emitted>>, failed => failed'
      PROVE  EventInv'
  BY <1>1, CaughtQuiet, EventFrame
<1>2. ASSUME UNCHANGED streamVars, UNCHANGED <<held, chan, emitted>>, failed => failed'
      PROVE  EventInv'
  BY <1>2, PublishedQuiet, EventFrame
<1>3. ASSUME NEW m \in Message, Landed(m), Published(<<SteerEvent(m, "handle")>>),
             UNCHANGED <<held, failed>>
      PROVE  EventInv'
  <2>1. SteerEvent(m, "handle") \in Item /\ SteerEvent(m, "handle")[1] # "event"
    BY ItemFacts
  <2>2. QED
    BY <1>3, <2>1, PublishedQuiet, ChanQuiet, EventFrame
<1>4. CASE OnStart \/ AdapterFails \/ EventsEnd \/ BackendResult
  <2>1. UNCHANGED <<held, chan, emitted>>
    BY <1>4 DEF OnStart, AdapterFails, EventsEnd, BackendResult, callVars, backendVars
  <2>2. Caught \/ UNCHANGED streamVars
    BY <1>4 DEF OnStart, AdapterFails, EventsEnd, BackendResult, Fails
  <2>3. failed => failed'
    BY <1>4 DEF OnStart, AdapterFails, EventsEnd, BackendResult, Fails
  <2>4. QED
    BY <1>1, <1>2, <2>1, <2>2, <2>3
<1>5. CASE \/ AdapterReady \/ ApplySteer \/ BackendReady \/ Cancel \/ AbortSignal
           \/ Cleanup \/ CleanupReturns \/ \E m \in Message : Steer(m)
  <2>1. UNCHANGED streamVars /\ UNCHANGED <<held, chan, emitted, failed>>
    BY <1>5 DEF AdapterReady, ApplySteer, BackendReady, Cancel, AbortSignal, Cleanup,
       CleanupReturns, Steer, handleVars, callVars, backendVars
  <2>2. QED
    BY <1>2, <2>1
<1>6. CASE OnEnd \/ \E v \in Viewer : Subscribe(v)
  <2>1. UNCHANGED <<collected, held, chan, emitted, failed>>
    BY <1>6 DEF OnEnd, Subscribe, callVars, backendVars
  <2>2. QED
    BY <2>1, EventFrame
<1>7. CASE SteerApplied
  <2>1. PICK m \in Message : m = Head(applying)
    BY <1>7, HeadTailProperties DEF SteerApplied, TypeOK
  <2>2. UNCHANGED held
    BY <1>7 DEF SteerApplied
  <2>3. CASE Landed(m) /\ Published(<<SteerEvent(m, "handle")>>) /\ UNCHANGED failed
    BY <1>3, <2>2, <2>3
  <2>4. CASE Fails /\ UNCHANGED backendVars
    BY <1>1, <2>2, <2>4 DEF Fails, backendVars
  <2>5. QED
    BY <1>7, <2>1, <2>3, <2>4 DEF SteerApplied
<1>8. CASE TakeEvent
  <2>1. /\ chan # <<>> /\ chan' = Tail(chan) /\ held' = held /\ held = Nothing
        /\ emitted' = emitted
    BY <1>8 DEF TakeEvent, callVars, ControlInv, PhaseInv
  <2>2. CASE Fails
    BY <2>1, <2>2, LoseEvent
  <2>3. CASE Published(<<Head(chan)>>) /\ UNCHANGED failed
    <3>1. Head(chan) \in Item
      BY <2>1, HeadTailProperties DEF TypeOK
    <3>2. QED
      BY <2>1, <2>3, <3>1, PublishedQuiet, PassEvent
  <2>4. QED
    BY <1>8, <2>2, <2>3 DEF TakeEvent
<1>9. ASSUME NEW m \in Message, TakeEventAndSteer(m)
      PROVE  EventInv'
  <2>1. /\ chan # <<>> /\ chan' = Tail(chan) /\ held = Nothing
        /\ emitted' = emitted /\ failed' = failed
    BY <1>9 DEF TakeEventAndSteer, ControlInv, PhaseInv
  <2>2. CASE CanSteer
    <3>1. held' = <<Head(chan), m>> /\ collected' = collected
      BY <1>9, <2>2 DEF TakeEventAndSteer, streamVars
    <3>2. <<Head(chan), m>> # <<>>
      OBVIOUS
    <3>3. Held' = <<Head(chan)>>
      BY <3>1, <3>2 DEF Held, Nothing
    <3>4. QED
      BY <2>1, <3>1, <3>3, HoldEvent
  <2>3. CASE ~CanSteer
    <3>1. Published(<<Head(chan)>>) /\ held' = Nothing
      BY <1>9, <2>1, <2>3 DEF TakeEventAndSteer
    <3>2. Head(chan) \in Item
      BY <2>1, HeadTailProperties DEF TypeOK
    <3>3. QED
      BY <2>1, <3>1, <3>2, PublishedQuiet, PassEvent
  <2>4. QED
    BY <2>2, <2>3
<1>10. CASE Decided
  <2>1. held # Nothing /\ held' = Nothing /\ held[1] \in Item
    BY <1>10 DEF Decided, ControlInv, PhaseInv, TypeOK
  <2>2. PICK m \in Message : m = held[2]
    BY <2>1 DEF TypeOK
  <2>3. CASE Fails /\ UNCHANGED backendVars
    BY <2>1, <2>3, LoseEvent DEF backendVars
  <2>4. CASE /\ Landed(m) /\ Published(<<SteerEvent(m, "handle"), held[1]>>)
             /\ UNCHANGED failed
    <3>1. collected' = Append(Append(collected, SteerEvent(m, "handle")), held[1])
      BY <2>1, <2>4, ItemFacts, PublishedQuiet
    <3>2. QED
      BY <2>1, <2>4, <3>1, ChanQuiet, ReleaseEvent
  <2>5. QED
    BY <1>10, <2>2, <2>3, <2>4 DEF Decided
<1>11. CASE Emit
  BY <1>11, EmitEvent
<1>12. CASE Deliver \/ Ends
  <2>1. UNCHANGED <<held, emitted, failed, collected>>
    BY <1>12 DEF Deliver, Ends, BackendCompletes, BackendStops, BackendFails, Over, handleVars,
       callVars, streamVars
  <2>2. \/ chan' = chan \/ chan' = Append(chan, SteerEvent(inbox, "backend"))
        \/ chan' = Append(chan, ErrorEvent("backend"))
    BY <1>12 DEF Deliver, Ends, BackendCompletes, BackendStops, BackendFails
  <2>3. /\ SteerEvent(inbox, "backend") \in Item /\ SteerEvent(inbox, "backend")[1] # "event"
        /\ ErrorEvent("backend") \in Item /\ ErrorEvent("backend")[1] # "event"
    BY ItemFacts DEF TypeOK
  <2>4. Numbers(chan') = Numbers(chan) /\ (Ordered(chan) => Ordered(chan'))
    BY <2>2, <2>3, ChanQuiet
  <2>5. QED
    BY <2>1, <2>4, EventFrame
<1>13. ASSUME NEW m \in Message, SteerReturns(m)
       PROVE  EventInv'
  <2>1. UNCHANGED <<held, failed>>
    BY <1>13 DEF SteerReturns
  <2>2. CASE Landed(m) /\ Published(<<SteerEvent(m, "handle")>>)
    BY <1>3, <2>1, <2>2
  <2>3. CASE UNCHANGED <<streamVars, backendVars>>
    BY <1>2, <2>1, <2>3 DEF backendVars
  <2>4. QED
    BY <1>13, <2>2, <2>3 DEF SteerReturns
<1>14. QED
  BY <1>4, <1>5, <1>6, <1>7, <1>8, <1>9, <1>10, <1>11, <1>12, <1>13 DEF Next, Pump

-----------------------------------------------------------------------------
(* The theorems.                                                           *)

LEMMA InitInv == Init => RunInv
<1> SUFFICES ASSUME Init PROVE RunInv
  OBVIOUS
<1>1. ViewInv
  BY DEF Init, ViewInv
<1>2. QED
  BY <1>1, TypeInit, ControlInit, EventInit DEF RunInv, ControlInv

LEMMA NextInv == RunInv /\ [Next]_vars => RunInv'
<1> SUFFICES ASSUME RunInv, [Next]_vars PROVE RunInv'
  OBVIOUS
<1>1. ASSUME UNCHANGED vars PROVE RunInv'
  <2>1. TypeOK'
    BY <1>1 DEF RunInv, TypeOK, vars, callVars, streamVars, settleVars, backendVars, steerVars
  <2>2. PhaseInv' /\ PumpInv' /\ StatusInv'
    BY <1>1 DEF RunInv, PhaseInv, PumpInv, StatusInv, vars, callVars, streamVars, settleVars,
       backendVars
  <2>3. ViewInv'
    BY <1>1 DEF RunInv, ViewInv, vars, streamVars
  <2>4. EventInv'
    BY <1>1, EventFrame DEF RunInv, vars, callVars, streamVars, backendVars
  <2>5. QED
    BY <2>1, <2>2, <2>3, <2>4 DEF RunInv
<1>2. ASSUME Next PROVE RunInv'
  <2>1. TypeOK /\ ControlInv /\ PhaseInv /\ ViewInv /\ EventInv
    BY DEF RunInv, ControlInv
  <2>2. TypeOK'
    BY <1>2, <2>1, TypePump, TypeBackend, TypeCallers, TypeSteers, TypeSubscribe DEF Next
  <2>3. ControlInv' /\ ViewInv' /\ EventInv'
    BY <1>2, <2>1, ControlStep, ViewStep, EventStep
  <2>4. QED
    BY <2>2, <2>3 DEF RunInv, ControlInv
<1>3. QED
  BY <1>1, <1>2

THEOREM Invariance == Spec => []RunInv
BY InitInv, NextInv, PTL DEF Spec

\* Every variable of a run keeps its type.
THEOREM TypeCorrect == Spec => []TypeOK
BY Invariance, PTL DEF RunInv

\* Whenever a consumer subscribes, its channel holds what was published, in
\* order and once, up to the end of the stream.
THEOREM ViewsReplay == Spec => []ViewsReplayTheRun
<1>1. RunInv => ViewsReplayTheRun
  <2> SUFFICES ASSUME RunInv, NEW v \in subscribed
               PROVE  /\ IsPrefix(views[v], collected)
                      /\ Len(views[v]) >= IF closedAt = NotClosed THEN Len(collected)
                                                                 ELSE closedAt
    BY DEF ViewsReplayTheRun
  <2>1. /\ views[v] \in Seq(Item) /\ collected \in Seq(Item)
        /\ Len(views[v]) \in Nat /\ Len(collected) \in Nat
        /\ closedAt \in Nat \union {NotClosed}
    BY LenProperties DEF RunInv, TypeOK
  <2>2. /\ Len(views[v]) <= Len(collected)
        /\ \A i \in 1..Len(views[v]) : views[v][i] = collected[i]
        /\ closedAt = NotClosed => Len(views[v]) = Len(collected)
        /\ closedAt # NotClosed => closedAt <= Len(views[v])
    BY DEF RunInv, ViewInv
  <2>3. IsPrefix(views[v], collected)
    BY <2>1, <2>2, PrefixByPosition
  <2>4. QED
    BY <2>1, <2>2, <2>3
<1>2. QED
  BY <1>1, Invariance, PTL

\* A completed run published all its backend's events, in their order; a
\* cancelled one was cancelled; an error had a cause.
THEOREM ResultIsTrue == Spec => []ResultTellsWhatHappened
<1>1. RunInv => ResultTellsWhatHappened
  <2> SUFFICES ASSUME RunInv
               PROVE  ResultTellsWhatHappened
    OBVIOUS
  <2>1. result # "none" => pc = "done" /\ result = status
    BY DEF RunInv, StatusInv
  <2>2. result = "completed" => Numbers(collected) = 1..emitted /\ Ordered(collected)
    <3> SUFFICES ASSUME result = "completed"
                 PROVE  Numbers(collected) = 1..emitted /\ Ordered(collected)
      OBVIOUS
    <3>1. chan = <<>> /\ Held = <<>> /\ ~failed
      BY <2>1 DEF RunInv, StatusInv, PhaseInv, Held
    <3>2. QED
      BY <3>1, NumbersOfOne DEF RunInv, EventInv
  <2>3. QED
    BY <2>1, <2>2 DEF RunInv, StatusInv, ResultTellsWhatHappened
<1>2. QED
  BY <1>1, Invariance, PTL

\* When the result is out the agent is not at work, unless a hook or a queued
\* steer failed.
THEOREM SettledStops == Spec => []SettledMeansStopped
<1>1. RunInv => SettledMeansStopped
  BY DEF RunInv, TypeOK, PhaseInv, StatusInv, SettledMeansStopped
<1>2. QED
  BY <1>1, Invariance, PTL
=============================================================================

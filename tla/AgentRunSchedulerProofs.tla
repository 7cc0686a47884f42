----------------------- MODULE AgentRunSchedulerProofs -----------------------
(***************************************************************************)
(* Proofs about AgentRunScheduler for every set of runs and every number   *)
(* of faults.                                                              *)
(***************************************************************************)
EXTENDS AgentRunScheduler, Integers, SequenceTheorems, TLAPS

-----------------------------------------------------------------------------
(* Sequences.                                                              *)

\* RemoveAt leaves the others in their order.
LEMMA RemoveAtType ==
  ASSUME NEW S, NEW q \in Seq(S), NEW i \in DOMAIN q
  PROVE  /\ RemoveAt(q, i) \in Seq(S)
         /\ Len(RemoveAt(q, i)) = Len(q) - 1
         /\ \A j \in 1..(Len(q) - 1) :
              RemoveAt(q, i)[j] = IF j < i THEN q[j] ELSE q[j + 1]
<1> DEFINE left == SubSeq(q, 1, i - 1)
           right == SubSeq(q, i + 1, Len(q))
<1>1. Len(q) \in Nat /\ i \in 1..Len(q) /\ \A j \in 1..Len(q) : q[j] \in S
  OBVIOUS
<1>2. left \in Seq(S) /\ Len(left) = i - 1 /\ \A j \in 1..(i - 1) : left[j] = q[j]
  BY <1>1
<1>3. right \in Seq(S) /\ Len(right) = Len(q) - i /\ \A j \in 1..(Len(q) - i) : right[j] = q[i + j]
  BY <1>1
<1> HIDE DEF left, right
<1>4. RemoveAt(q, i) = left \o right
  BY DEF RemoveAt, left, right
<1>5. QED
  BY <1>1, <1>2, <1>3, <1>4, ConcatProperties

\* What taking the first element leaves.
LEMMA TailEffect ==
  ASSUME NEW S, NEW s \in Seq(S), s # <<>>
  PROVE  /\ Len(s) \in Nat \ {0} /\ DOMAIN s = 1..Len(s)
         /\ Head(s) = s[1] /\ s[1] \in S
         /\ Tail(s) \in Seq(S) /\ DOMAIN Tail(s) = 1..(Len(s) - 1)
         /\ \A i \in DOMAIN Tail(s) : Tail(s)[i] = s[i + 1]
BY HeadTailProperties

-----------------------------------------------------------------------------

\* Where a run has the mutex.
Holding == {"starting", "connecting", "sending", "reading", "terminating"}

\* The queue of the mutex holds each run that asked and has not ended, once,
\* and only its head has got past the wait.
MutexInv ==
  /\ \A i, j \in DOMAIN lock : lock[i] = lock[j] => i = j
  /\ \A i \in DOMAIN lock : pc[lock[i]] \notin {"idle", "ended"}
  /\ \A r \in Run : pc[r] = "waiting" => \E i \in DOMAIN lock : lock[i] = r
  /\ \A r \in Run : pc[r] \in Holding => Holds(r)

\* What the holder may rely on where it is, and what the fields of the
\* scheduler say of the process.
HandleInv ==
  /\ \A r \in Run :
       /\ pc[r] = "connecting" => handle = "none" /\ host = "starting" /\ dir
       /\ pc[r] = "sending" => handle # "none"
       /\ pc[r] = "reading" => handle = "open"
       /\ pc[r] = "terminating" => handle = "closed" /\ token[r]
  /\ host \in {"up", "dead"} => handle = "open"

\* What has happened when a shared part of the scheduler is not as new.
CauseInv ==
  /\ \A r \in Run : result[r] # "none" <=> pc[r] = "ended"
  /\ handle = "closed" =>
       \E q \in Run : token[q] /\ (pc[q] = "terminating" \/ result[q] = "dropped")
  /\ host = "dead" => faults > 0
  /\ torn => \E q \in Run : result[q] = "dropped"
  /\ ~dir => \E q \in Run : result[q] = "cancelled"

\* A result on its way back is that of a request the host completed.
WireInv ==
  \A i \in DOMAIN outbox : outbox[i].type = "result" => outbox[i].id \in served

\* No wakeup is lost: a run that sleeps in cancelled() with its flag set is
\* about to be woken (cancelled() creates its Notified before it looks).
NoWakeupLost ==
  \A r \in Run : pc[r] = "reading" /\ token[r] /\ ear = "asleep" => calling

SchedulerInv ==
  /\ TypeOK /\ MutexInv /\ HandleInv /\ CauseInv /\ WireInv
  /\ NoWakeupLost /\ OwnAnswer /\ FailuresHaveCause

-----------------------------------------------------------------------------
(* The mutex, the token and the future of a run.                           *)

\* A run that has asked is in the queue, and the queue without it is the
\* queue with its place closed.
LEMMA WithoutEffect ==
  ASSUME SchedulerInv, NEW r \in Run, pc[r] \notin {"idle", "ended"}
  PROVE  \E i \in 1..Len(lock) :
           /\ lock[i] = r /\ (i = 1 <=> Holds(r))
           /\ Without(r) \in Seq(Run) /\ Len(Without(r)) = Len(lock) - 1
           /\ \A j \in 1..(Len(lock) - 1) :
                Without(r)[j] = IF j < i THEN lock[j] ELSE lock[j + 1]
<1> DEFINE i == CHOOSE k \in DOMAIN lock : lock[k] = r
<1>1. lock \in Seq(Run) /\ Len(lock) \in Nat /\ DOMAIN lock = 1..Len(lock)
  BY DEF SchedulerInv, TypeOK
<1>2. \E k \in DOMAIN lock : lock[k] = r
  <2>1. CASE pc[r] = "waiting"
    BY <2>1 DEF SchedulerInv, MutexInv
  <2>2. CASE pc[r] # "waiting"
    <3>1. Holds(r)
      BY <2>2 DEF SchedulerInv, TypeOK, MutexInv, Holding
    <3>2. QED
      BY <1>1, <3>1 DEF Holds
  <2>3. QED
    BY <2>1, <2>2
<1>3. i \in 1..Len(lock) /\ lock[i] = r
  BY <1>1, <1>2
<1>4. i = 1 <=> Holds(r)
  BY <1>1, <1>3 DEF Holds, SchedulerInv, MutexInv
<1>5. Without(r) = RemoveAt(lock, i)
  BY DEF Without
<1> HIDE DEF i
<1>6. /\ RemoveAt(lock, i) \in Seq(Run) /\ Len(RemoveAt(lock, i)) = Len(lock) - 1
      /\ \A j \in 1..(Len(lock) - 1) :
           RemoveAt(lock, i)[j] = IF j < i THEN lock[j] ELSE lock[j + 1]
  BY <1>1, <1>3, RemoveAtType
<1>7. QED
  BY <1>3, <1>4, <1>5, <1>6

\* What the conjuncts below say of the future of a run, whatever else a
\* step does.
RunInv ==
  /\ pc \in [Run -> {"idle", "waiting", "starting", "connecting", "sending",
                   "reading", "terminating", "ended"}]
  /\ token \in [Run -> BOOLEAN]
  /\ calling => lock # <<>> /\ token[Head(lock)]
  /\ ear \in {"new", "made", "asleep", "woken"}
  /\ result \in [Run -> FailureClass \union {"none", "ok", "dropped"}]
  /\ lock \in Seq(Run)
  /\ MutexInv
  /\ NoWakeupLost
  /\ \A r \in Run : result[r] # "none" <=> pc[r] = "ended"

LEMMA InvGivesRunInv == SchedulerInv => RunInv
BY DEF SchedulerInv, TypeOK, CauseInv, RunInv

\* A run that ends leaves the mutex to the next, whose wait has not begun.
LEMMA EndEffect ==
  ASSUME SchedulerInv, NEW r \in Run, pc[r] \notin {"idle", "ended"},
         NEW how \in FailureClass \union {"ok", "dropped"}, End(r, how)
  PROVE  RunInv'
<1> USE InvGivesRunInv
<1>1. PICK i \in 1..Len(lock) :
        /\ lock[i] = r /\ (i = 1 <=> Holds(r))
        /\ lock' \in Seq(Run) /\ Len(lock') = Len(lock) - 1
        /\ \A j \in 1..(Len(lock) - 1) :
             lock'[j] = IF j < i THEN lock[j] ELSE lock[j + 1]
  BY WithoutEffect DEF End
<1>2. lock \in Seq(Run) /\ Len(lock) \in Nat /\ DOMAIN lock = 1..Len(lock)
      /\ DOMAIN lock' = 1..(Len(lock) - 1)
  BY <1>1 DEF RunInv
<1>3. /\ pc' = [pc EXCEPT ![r] = "ended"] /\ result' = [result EXCEPT ![r] = how]
      /\ token' = token /\ ear' \in {ear, "new"}
      /\ calling' = (calling /\ ~Holds(r))
  BY DEF End
<1>4. \A j \in DOMAIN lock' : \E k \in DOMAIN lock : lock'[j] = lock[k] /\ k # i
  BY <1>1, <1>2
<1>5. \A j \in DOMAIN lock : j = i \/ \E k \in DOMAIN lock' : lock'[k] = lock[j]
  <2> SUFFICES ASSUME NEW j \in DOMAIN lock, j # i
               PROVE  \E k \in DOMAIN lock' : lock'[k] = lock[j]
    OBVIOUS
  <2>1. CASE j < i
    <3>1. j \in DOMAIN lock' /\ lock'[j] = lock[j]
      BY <1>1, <1>2, <2>1
    <3>2. QED
      BY <3>1
  <2>2. CASE j > i
    <3>1. j - 1 \in DOMAIN lock' /\ lock'[j - 1] = lock[j]
      BY <1>1, <1>2, <2>2
    <3>2. QED
      BY <3>1
  <2>3. QED
    BY <1>1, <1>2, <2>1, <2>2
<1>6. \A k, l \in DOMAIN lock : lock[k] = lock[l] => k = l
  BY DEF RunInv, MutexInv
<1>7. \A j, k \in DOMAIN lock' : lock'[j] = lock'[k] => j = k
  <2> SUFFICES ASSUME NEW j \in DOMAIN lock', NEW k \in DOMAIN lock', lock'[j] = lock'[k]
               PROVE  j = k
    OBVIOUS
  <2> DEFINE from(l) == IF l < i THEN l ELSE l + 1
  <2>1. from(j) \in DOMAIN lock /\ from(k) \in DOMAIN lock
    BY <1>1, <1>2
  <2>2. lock'[j] = lock[from(j)] /\ lock'[k] = lock[from(k)]
    BY <1>1, <1>2
  <2>3. from(j) = from(k)
    <3> HIDE DEF from
    <3>1. QED
      BY <1>6, <2>1, <2>2
  <2>4. QED
    BY <1>1, <1>2, <2>3
<1>8. \A j \in DOMAIN lock' : pc'[lock'[j]] \notin {"idle", "ended"}
  <2> SUFFICES ASSUME NEW j \in DOMAIN lock' PROVE pc'[lock'[j]] \notin {"idle", "ended"}
    OBVIOUS
  <2>1. PICK k \in DOMAIN lock : lock'[j] = lock[k] /\ k # i
    BY <1>4
  <2>2. lock[k] # r /\ lock[k] \in Run
    BY <1>1, <1>2, <1>6, <2>1
  <2>3. QED
    BY <1>3, <2>1, <2>2 DEF RunInv, MutexInv
<1>9. \A q \in Run : pc'[q] = "waiting" => \E j \in DOMAIN lock' : lock'[j] = q
  BY <1>1, <1>3, <1>5 DEF RunInv, MutexInv
<1>10. \A q \in Run : Holds(q) /\ ~Holds(r) => Holds(q)'
  <2> SUFFICES ASSUME NEW q \in Run, Holds(q), ~Holds(r) PROVE Holds(q)'
    OBVIOUS
  <2>1. i > 1 /\ lock[1] = q
    BY <1>1, <1>2 DEF Holds
  <2>2. 1 \in DOMAIN lock' /\ lock'[1] = q
    BY <1>1, <1>2, <2>1
  <2>3. QED
    BY <1>1, <2>2 DEF Holds
<1>11. \A q \in Run : pc'[q] \in Holding => Holds(q)'
  <2> SUFFICES ASSUME NEW q \in Run, pc'[q] \in Holding PROVE Holds(q)'
    OBVIOUS
  <2>1. q # r /\ pc'[q] = pc[q]
    BY <1>3 DEF RunInv, Holding
  <2>2. Holds(q) /\ ~Holds(r)
    BY <2>1 DEF RunInv, MutexInv, Holds
  <2>3. QED
    BY <1>10, <2>2
<1>12. MutexInv'
  BY <1>7, <1>8, <1>9, <1>11 DEF MutexInv
<1>13. calling' => lock' # <<>> /\ token'[Head(lock')]
  <2> SUFFICES ASSUME calling' PROVE lock' # <<>> /\ token'[Head(lock')]
    OBVIOUS
  <2>1. calling /\ ~Holds(r) /\ lock # <<>> /\ token[Head(lock)]
    BY <1>3 DEF RunInv
  <2>2. PICK h \in Run : h = Head(lock) /\ Holds(h) /\ token[h]
    BY <1>2, <2>1 DEF Holds
  <2>3. Holds(h)'
    BY <1>10, <2>1, <2>2
  <2>4. QED
    BY <1>3, <2>2, <2>3 DEF Holds
<1>14. NoWakeupLost'
  <2> SUFFICES ASSUME NEW q \in Run, pc'[q] = "reading", token'[q], ear' = "asleep"
               PROVE  calling'
    BY DEF NoWakeupLost
  <2>1. q # r /\ pc[q] = "reading" /\ token[q] /\ ear = "asleep"
    BY <1>3 DEF RunInv
  <2>2. ~Holds(r)
    BY <2>1 DEF RunInv, MutexInv, Holding, Holds
  <2>3. QED
    BY <1>3, <2>1, <2>2 DEF RunInv, NoWakeupLost
<1>15. QED
  BY <1>1, <1>3, <1>12, <1>13, <1>14 DEF RunInv, FailureClass

\* The holder goes on; its wait for the token begins anew.
LEMMA MoveEffect ==
  ASSUME SchedulerInv, NEW r \in Run, Holds(r), pc[r] \in Holding \union {"waiting"},
         NEW place \in Holding, MoveTo(r, place)
  PROVE  RunInv'
<1> USE InvGivesRunInv
<1>1. /\ pc' = [pc EXCEPT ![r] = place] /\ ear' = "new" /\ (calling' => calling)
      /\ UNCHANGED <<token, result, lock>>
  BY DEF MoveTo
<1>2. MutexInv'
  <2>1. \A i \in DOMAIN lock : lock[i] \in Run
    BY DEF RunInv
  <2>2. \A i \in DOMAIN lock' : pc'[lock'[i]] \notin {"idle", "ended"}
    BY <1>1, <2>1 DEF RunInv, MutexInv, Holding
  <2>3. \A q \in Run : pc'[q] = "waiting" => \E i \in DOMAIN lock' : lock'[i] = q
    BY <1>1 DEF RunInv, MutexInv, Holding
  <2>4. \A q \in Run : pc'[q] \in Holding => Holds(q)'
    BY <1>1 DEF RunInv, MutexInv, Holds
  <2>5. QED
    BY <1>1, <2>2, <2>3, <2>4 DEF RunInv, MutexInv
<1>3. NoWakeupLost'
  BY <1>1 DEF NoWakeupLost
<1>4. pc' \in [Run -> {"idle", "waiting", "starting", "connecting", "sending",
                     "reading", "terminating", "ended"}]
  BY <1>1 DEF RunInv, Holding
<1>5. \A q \in Run : result'[q] # "none" <=> pc'[q] = "ended"
  BY <1>1 DEF RunInv, Holding
<1>6. QED
  BY <1>1, <1>2, <1>3, <1>4, <1>5 DEF RunInv

-----------------------------------------------------------------------------
(* What runs share: the host, the lines and the outcomes.                  *)

\* The types of the shared variables.
SharedTypes ==
  /\ dir \in BOOLEAN
  /\ handle \in {"none", "open", "closed"}
  /\ handle = "open" => host \in {"up", "dead"}
  /\ handle # "none" => dir
  /\ host \in {"none", "starting", "up", "dead"}
  /\ orphans \in Nat
  /\ inbox \in Seq(Run \union {Unknown})
  /\ dangling \in BOOLEAN
  /\ outbox \in Seq(Answer)
  /\ torn \in BOOLEAN
  /\ served \in SUBSET Run
  /\ faults \in 0..MaxFaults

LEMMA InvParts ==
  SchedulerInv <=> /\ RunInv /\ SharedTypes /\ HandleInv /\ CauseInv /\ WireInv
                   /\ OwnAnswer /\ FailuresHaveCause
BY DEF SchedulerInv, TypeOK, CauseInv, RunInv, SharedTypes

\* Two runs never have the mutex.
LEMMA OneHolder ==
  ASSUME SchedulerInv, NEW r \in Run, NEW q \in Run, pc[q] \in Holding, Holds(r)
  PROVE  q = r
BY DEF SchedulerInv, MutexInv, Holds

LEMMA HolderHolds ==
  ASSUME SchedulerInv, NEW r \in Run, pc[r] \in Holding
  PROVE  Holds(r)
BY DEF SchedulerInv, MutexInv

\* A cause that was there is there after a step that forgets none.
LEMMA CausesStay ==
  ASSUME SchedulerInv, faults' \in Nat, faults' >= faults,
         \A q \in Run : token[q] => token'[q],
         \A q \in Run : result[q] # "none" => result'[q] = result[q]
  PROVE  /\ faults > 0 => faults' > 0
         /\ (\E q \in Run : token[q] /\ result[q] = "dropped")
              => \E q \in Run : token'[q] /\ result'[q] = "dropped"
         /\ (\E q \in Run : result[q] = "dropped") => \E q \in Run : result'[q] = "dropped"
         /\ (\E q \in Run : result[q] = "cancelled") => \E q \in Run : result'[q] = "cancelled"
         /\ \A r \in Run : result'[r] = result[r] =>
              /\ result'[r] = "transport" =>
                   faults' > 0 \/ \E q \in Run : token'[q] /\ result'[q] = "dropped"
              /\ result'[r] = "protocol" => faults' > 0 \/ \E q \in Run : result'[q] = "dropped"
              /\ result'[r] = "startup" => faults' > 0 \/ \E q \in Run : result'[q] = "cancelled"
<1>1. /\ faults \in Nat
      /\ \A q \in Run : result[q] = "dropped" => result'[q] = "dropped"
      /\ \A q \in Run : result[q] = "cancelled" => result'[q] = "cancelled"
  BY SchedulerAssumption DEF SchedulerInv, TypeOK
<1>2. faults > 0 => faults' > 0
  BY <1>1
<1>3. /\ (\E q \in Run : token[q] /\ result[q] = "dropped")
           => \E q \in Run : token'[q] /\ result'[q] = "dropped"
      /\ (\E q \in Run : result[q] = "dropped") => \E q \in Run : result'[q] = "dropped"
      /\ (\E q \in Run : result[q] = "cancelled") => \E q \in Run : result'[q] = "cancelled"
  BY <1>1
<1>4. QED
  BY <1>2, <1>3 DEF SchedulerInv, FailuresHaveCause

\* A run ends for a reason that is its own or has a cause.
LEMMA EndShared ==
  ASSUME SchedulerInv, NEW r \in Run, pc[r] \notin {"idle", "ended"},
         NEW how \in FailureClass \union {"ok", "dropped"}, End(r, how),
         faults' \in Nat, faults' >= faults,
         served \subseteq served', how = "ok" => r \in served',
         how = "transport" =>
           faults' > 0 \/ \E q \in Run : token[q] /\ result[q] = "dropped",
         how = "protocol" => faults' > 0 \/ \E q \in Run : result[q] = "dropped",
         how = "startup" => faults' > 0 \/ \E q \in Run : result[q] = "cancelled"
  PROVE  /\ OwnAnswer' /\ FailuresHaveCause'
         /\ \A q \in Run : token'[q] = token[q]
         /\ \A q \in Run : q # r => pc'[q] = pc[q]
         /\ \A q \in Run : result[q] # "none" => result'[q] = result[q]
         /\ pc'[r] = "ended" /\ result'[r] = how
<1>1. /\ pc' = [pc EXCEPT ![r] = "ended"] /\ result' = [result EXCEPT ![r] = how]
      /\ token' = token
  BY DEF End
<1>2. result[r] = "none"
  BY DEF SchedulerInv, CauseInv
<1>3. /\ \A q \in Run : q # r => pc'[q] = pc[q] /\ result'[q] = result[q]
      /\ pc'[r] = "ended" /\ result'[r] = how
  BY <1>1 DEF SchedulerInv, TypeOK
<1>4. \A q \in Run : result[q] # "none" => result'[q] = result[q]
  BY <1>2, <1>3
<1>5. OwnAnswer'
  BY <1>3 DEF SchedulerInv, OwnAnswer
<1>6. FailuresHaveCause'
  BY <1>1, <1>3, <1>4, CausesStay DEF FailuresHaveCause
<1>7. QED
  BY <1>1, <1>3, <1>4, <1>5, <1>6

\* A run that goes on changes no outcome.
LEMMA MoveShared ==
  ASSUME SchedulerInv, NEW r \in Run, NEW place \in Holding, MoveTo(r, place),
         UNCHANGED <<faults, served>>
  PROVE  /\ OwnAnswer' /\ FailuresHaveCause'
         /\ token' = token /\ result' = result
         /\ \A q \in Run : q # r => pc'[q] = pc[q]
         /\ pc'[r] = place
BY DEF MoveTo, SchedulerInv, TypeOK, OwnAnswer, FailuresHaveCause

\* The invariant after a step with which the holder goes on.
LEMMA MoveInv ==
  ASSUME SchedulerInv, NEW r \in Run, Holds(r), pc[r] \in Holding \union {"waiting"},
         NEW place \in Holding, MoveTo(r, place), UNCHANGED <<faults, served, dir>>,
         SharedTypes', WireInv',
         place = "connecting" => handle' = "none" /\ host' = "starting" /\ dir',
         place = "sending" => handle' # "none",
         place = "reading" => handle' = "open",
         place = "terminating" => handle' = "closed" /\ token[r],
         host' \in {"up", "dead"} => handle' = "open",
         handle' = "closed" =>
           place = "terminating" \/ (handle = "closed" /\ pc[r] # "terminating"),
         host' = "dead" => host = "dead",
         torn' => torn
  PROVE  SchedulerInv'
<1>1. RunInv'
  BY MoveEffect
<1>2. /\ OwnAnswer' /\ FailuresHaveCause'
      /\ token' = token /\ result' = result
      /\ \A q \in Run : q # r => pc'[q] = pc[q]
      /\ pc'[r] = place
  BY MoveShared
<1>3. \A q \in Run : q # r => pc'[q] \notin Holding
  BY <1>2, OneHolder
<1>4. HandleInv'
  BY <1>2, <1>3 DEF HandleInv, Holding
<1>5. handle' = "closed" =>
        \E q \in Run : token'[q] /\ (pc'[q] = "terminating" \/ result'[q] = "dropped")
  <2>1. CASE place = "terminating"
    BY <1>2, <2>1
  <2>2. CASE handle = "closed" /\ pc[r] # "terminating"
    BY <1>2, <2>2 DEF SchedulerInv, CauseInv
  <2>3. QED
    BY <2>1, <2>2
<1>6. CauseInv'
  BY <1>1, <1>2, <1>5 DEF RunInv, CauseInv, SchedulerInv
<1>7. QED
  BY <1>1, <1>2, <1>4, <1>6 DEF SchedulerInv, RunInv, CauseInv, TypeOK, SharedTypes

\* The invariant after a step with which a run ends.
LEMMA EndInv ==
  ASSUME SchedulerInv, NEW r \in Run, pc[r] \notin {"idle", "ended"},
         NEW how \in FailureClass \union {"ok", "dropped"}, End(r, how),
         faults' >= faults, served \subseteq served', how = "ok" => r \in served',
         how = "transport" =>
           faults' > 0 \/ \E q \in Run : token[q] /\ result[q] = "dropped",
         how = "protocol" => faults' > 0 \/ \E q \in Run : result[q] = "dropped",
         how = "startup" => faults' > 0 \/ \E q \in Run : result[q] = "cancelled",
         SharedTypes', WireInv',
         pc[r] = "waiting" => UNCHANGED <<handle, host, dir>>,
         host' \in {"up", "dead"} => handle' = "open",
         handle' = "closed" => handle = "closed" /\ (pc[r] = "terminating" => how = "dropped"),
         host' = "dead" => host = "dead",
         torn' => torn \/ how = "dropped",
         ~dir' => ~dir \/ how = "cancelled"
  PROVE  SchedulerInv'
<1>1. RunInv'
  BY EndEffect
<1>2. faults \in Nat /\ faults' \in Nat
  BY SchedulerAssumption DEF SchedulerInv, TypeOK, SharedTypes
<1>3. /\ OwnAnswer' /\ FailuresHaveCause'
      /\ \A q \in Run : token'[q] = token[q]
      /\ \A q \in Run : q # r => pc'[q] = pc[q]
      /\ \A q \in Run : result[q] # "none" => result'[q] = result[q]
      /\ pc'[r] = "ended" /\ result'[r] = how
  BY <1>2, EndShared
<1>4. HandleInv'
  <2>1. CASE pc[r] = "waiting"
    BY <1>3, <2>1 DEF HandleInv, SchedulerInv
  <2>2. CASE pc[r] # "waiting"
    <3>1. pc[r] \in Holding /\ Holds(r)
      BY <2>2, HolderHolds DEF SchedulerInv, TypeOK, Holding
    <3>2. \A q \in Run : pc'[q] \notin Holding
      BY <1>3, <3>1, OneHolder DEF Holding
    <3>3. QED
      BY <3>2 DEF HandleInv, Holding
  <2>3. QED
    BY <2>1, <2>2
<1>5. handle' = "closed" =>
        \E q \in Run : token'[q] /\ (pc'[q] = "terminating" \/ result'[q] = "dropped")
  <2> SUFFICES ASSUME handle' = "closed"
               PROVE  \E q \in Run : token'[q] /\ (pc'[q] = "terminating" \/ result'[q] = "dropped")
    OBVIOUS
  <2>1. PICK q \in Run : token[q] /\ (pc[q] = "terminating" \/ result[q] = "dropped")
    BY DEF SchedulerInv, CauseInv
  <2>2. token'[q] /\ (pc'[q] = "terminating" \/ result'[q] = "dropped")
    BY <1>3, <2>1
  <2>3. QED
    BY <2>2
<1>6. host' = "dead" => faults' > 0
  BY <1>2 DEF SchedulerInv, CauseInv
<1>7. torn' => \E q \in Run : result'[q] = "dropped"
  BY <1>3 DEF SchedulerInv, CauseInv
<1>8. ~dir' => \E q \in Run : result'[q] = "cancelled"
  BY <1>3 DEF SchedulerInv, CauseInv
<1>9. CauseInv'
  BY <1>1, <1>5, <1>6, <1>7, <1>8 DEF RunInv, CauseInv
<1>10. QED
  BY <1>1, <1>3, <1>4, <1>9 DEF SchedulerInv, RunInv, CauseInv, TypeOK, SharedTypes

\* Taking a line off the wire, or a completed request, keeps WireInv.
LEMMA WireStays ==
  ASSUME SchedulerInv, served \subseteq served',
         outbox' = outbox \/ outbox' = <<>> \/ (outbox # <<>> /\ outbox' = Tail(outbox))
  PROVE  WireInv' /\ outbox' \in Seq(Answer)
<1>1. outbox \in Seq(Answer) /\ WireInv
  BY DEF SchedulerInv, TypeOK
<1>2. CASE outbox' = outbox
  BY <1>1, <1>2 DEF WireInv
<1>3. CASE outbox' = <<>>
  BY <1>3 DEF WireInv
<1>4. CASE outbox # <<>> /\ outbox' = Tail(outbox)
  <2>1. /\ Tail(outbox) \in Seq(Answer) /\ DOMAIN Tail(outbox) = 1..(Len(outbox) - 1)
        /\ DOMAIN outbox = 1..Len(outbox) /\ Len(outbox) \in Nat
        /\ \A i \in DOMAIN Tail(outbox) : Tail(outbox)[i] = outbox[i + 1]
    BY <1>1, <1>4, TailEffect
  <2>2. ASSUME NEW i \in DOMAIN outbox', outbox'[i].type = "result"
        PROVE  outbox'[i].id \in served'
    <3>1. i \in DOMAIN Tail(outbox) /\ outbox'[i] = Tail(outbox)[i]
      BY <1>4
    <3>2. i + 1 \in DOMAIN outbox /\ outbox'[i] = outbox[i + 1]
      BY <2>1, <3>1
    <3>3. QED
      BY <1>1, <2>2, <3>2 DEF WireInv
  <2>3. QED
    BY <1>4, <2>1, <2>2 DEF WireInv
<1>5. QED
  BY <1>2, <1>3, <1>4

-----------------------------------------------------------------------------
(* One lemma for each stage of a run.                                      *)

LEMMA RequestInv ==
  ASSUME SchedulerInv, NEW r \in Run, Request(r)
  PROVE  SchedulerInv'
<1> DEFINE n == Len(lock)
<1>1. /\ pc[r] = "idle" /\ pc' = [pc EXCEPT ![r] = "waiting"] /\ lock' = Append(lock, r)
      /\ UNCHANGED <<token, calling, ear, result, dir, handle, host, orphans,
                     inbox, dangling, outbox, torn, served, faults>>
  BY DEF Request, cancelVars, hostVars, wireVars
<1>2. /\ lock \in Seq(Run) /\ lock' \in Seq(Run) /\ n \in Nat
      /\ DOMAIN lock = 1..n /\ DOMAIN lock' = 1..(n + 1)
      /\ lock'[n + 1] = r /\ \A i \in 1..n : lock'[i] = lock[i]
  BY <1>1 DEF SchedulerInv, TypeOK
<1> HIDE DEF n
<1>3. \A i \in DOMAIN lock : lock[i] # r /\ lock[i] \in Run
  BY <1>1, <1>2 DEF SchedulerInv, MutexInv
<1>4. \A q \in Run : q # r => pc'[q] = pc[q]
  BY <1>1 DEF SchedulerInv, TypeOK
<1>5. pc'[r] = "waiting"
  BY <1>1 DEF SchedulerInv, TypeOK
<1>6. lock # <<>> => lock' # <<>> /\ Head(lock') = Head(lock)
  BY <1>1, <1>2 DEF n
<1>7. MutexInv'
  <2>1. \A i, j \in DOMAIN lock' : lock'[i] = lock'[j] => i = j
    <3>1. \A i \in DOMAIN lock' : i \in DOMAIN lock \/ i = n + 1
      BY <1>2
    <3>2. QED
      BY <1>2, <1>3, <3>1 DEF SchedulerInv, MutexInv
  <2>2. \A i \in DOMAIN lock' : pc'[lock'[i]] \notin {"idle", "ended"}
    <3>1. \A i \in DOMAIN lock' : i \in DOMAIN lock \/ i = n + 1
      BY <1>2
    <3>2. QED
      BY <1>2, <1>3, <1>4, <1>5, <3>1 DEF SchedulerInv, MutexInv
  <2>3. \A q \in Run : pc'[q] = "waiting" => \E i \in DOMAIN lock' : lock'[i] = q
    <3> SUFFICES ASSUME NEW q \in Run, pc'[q] = "waiting"
                 PROVE  \E i \in DOMAIN lock' : lock'[i] = q
      OBVIOUS
    <3>1. CASE q = r
      BY <1>2, <3>1
    <3>2. CASE q # r
      <4>1. PICK i \in DOMAIN lock : lock[i] = q
        BY <1>4, <3>2 DEF SchedulerInv, MutexInv
      <4>2. i \in DOMAIN lock' /\ lock'[i] = q
        BY <1>2, <4>1
      <4>3. QED
        BY <4>2
    <3>3. QED
      BY <3>1, <3>2
  <2>4. \A q \in Run : pc'[q] \in Holding => Holds(q)'
    BY <1>4, <1>5, <1>6 DEF SchedulerInv, MutexInv, Holding, Holds
  <2>5. QED
    BY <2>1, <2>2, <2>3, <2>4 DEF MutexInv
<1>8. RunInv'
  <2>1. NoWakeupLost'
    BY <1>1, <1>4, <1>5 DEF SchedulerInv, NoWakeupLost
  <2>2. calling' => lock' # <<>> /\ token'[Head(lock')]
    BY <1>1, <1>6 DEF SchedulerInv, TypeOK
  <2>3. \A q \in Run : result'[q] # "none" <=> pc'[q] = "ended"
    BY <1>1, <1>4, <1>5 DEF SchedulerInv, CauseInv
  <2>4. QED
    BY <1>1, <1>2, <1>7, <2>1, <2>2, <2>3 DEF SchedulerInv, TypeOK, RunInv
<1>9. HandleInv'
  BY <1>1, <1>4, <1>5 DEF SchedulerInv, HandleInv
<1>10. CauseInv'
  <2>1. handle' = "closed" =>
          \E q \in Run : token'[q] /\ (pc'[q] = "terminating" \/ result'[q] = "dropped")
    BY <1>1, <1>4 DEF SchedulerInv, CauseInv
  <2>2. QED
    BY <1>1, <1>8, <2>1 DEF RunInv, SchedulerInv, CauseInv
<1>11. WireInv' /\ OwnAnswer' /\ FailuresHaveCause'
  BY <1>1 DEF SchedulerInv, WireInv, OwnAnswer, FailuresHaveCause
<1>12. SharedTypes'
  BY <1>1 DEF SchedulerInv, TypeOK, SharedTypes
<1>13. QED
  BY <1>8, <1>9, <1>10, <1>11, <1>12 DEF SchedulerInv, TypeOK, RunInv, CauseInv, SharedTypes

\* A cancel before its notify_waiters, and that call: the flag of a reader
\* is set only together with the promise to wake it.
LEMMA CancelInv ==
  ASSUME SchedulerInv, \/ \E r \in Run : Cancel(r) \/ Listen(r)
                       \/ NotifyWaiters
  PROVE  SchedulerInv'
<1>1. /\ UNCHANGED <<pc, result, lock, dir, handle, host, orphans,
                     inbox, dangling, outbox, torn, served, faults>>
      /\ token' \in [Run -> BOOLEAN] /\ \A q \in Run : token[q] => token'[q]
      /\ ear' \in {"new", "made", "asleep", "woken"}
  BY DEF Cancel, Listen, CanSleep, NotifyWaiters, cancelVars, hostVars, wireVars, SchedulerInv, TypeOK
<1>2. MutexInv' /\ HandleInv' /\ WireInv' /\ OwnAnswer' /\ SharedTypes'
  BY <1>1 DEF SchedulerInv, TypeOK, SharedTypes, MutexInv, Holds, HandleInv, WireInv, OwnAnswer
<1>3. CauseInv'
  BY <1>1 DEF SchedulerInv, CauseInv
<1>4. FailuresHaveCause'
  BY <1>1 DEF SchedulerInv, FailuresHaveCause
<1>5. \A q, r \in Run : pc[q] = "reading" /\ pc[r] = "reading" => q = r
  BY OneHolder, HolderHolds DEF Holding
<1>6. (calling' => lock' # <<>> /\ token'[Head(lock')]) /\ NoWakeupLost'
  <2>1. CASE \E r \in Run : Cancel(r)
    <3> PICK r \in Run : Cancel(r)
      BY <2>1
    <3>1. /\ token' = [token EXCEPT ![r] = TRUE] /\ ear' = ear
          /\ calling' = (calling \/ pc[r] = "reading")
      BY DEF Cancel
    <3>2. pc[r] = "reading" => lock # <<>> /\ Head(lock) = r
      BY HolderHolds DEF Holding, Holds
    <3>3. calling' => lock' # <<>> /\ token'[Head(lock')]
      <4> SUFFICES ASSUME calling' PROVE lock # <<>> /\ token'[Head(lock)]
        BY <1>1
      <4>1. lock # <<>> /\ (token[Head(lock)] \/ Head(lock) = r)
        BY <3>1, <3>2 DEF SchedulerInv, TypeOK
      <4>2. PICK h \in Run : h = Head(lock)
        BY <4>1, TailEffect DEF SchedulerInv, TypeOK
      <4>3. token'[h]
        BY <3>1, <4>1, <4>2 DEF SchedulerInv, TypeOK
      <4>4. QED
        BY <4>1, <4>2, <4>3
    <3>4. NoWakeupLost'
      BY <1>1, <3>1 DEF SchedulerInv, TypeOK, NoWakeupLost
    <3>5. QED
      BY <3>3, <3>4
  <2>2. CASE \E r \in Run : Listen(r)
    <3> PICK r \in Run : Listen(r)
      BY <2>2
    <3>1. /\ pc[r] = "reading" /\ token' = token /\ calling' = calling
          /\ ear' = "asleep" => ~token[r]
      BY DEF Listen, CanSleep, cancelVars
    <3>2. QED
      BY <1>1, <1>5, <3>1 DEF SchedulerInv, TypeOK, NoWakeupLost
  <2>3. CASE NotifyWaiters
    BY <1>1, <2>3 DEF SchedulerInv, NoWakeupLost, NotifyWaiters
  <2>4. QED
    BY <2>1, <2>2, <2>3
<1>7. QED
  BY <1>1, <1>2, <1>3, <1>4, <1>6 DEF SchedulerInv, TypeOK, SharedTypes

\* Acquire and ensure_started.
LEMMA StartInv ==
  ASSUME SchedulerInv, NEW r \in Run,
         \/ Acquire(r) \/ UseRunningHost(r) \/ StartFails(r) \/ Spawn(r)
         \/ Connect(r) \/ ConnectFails(r)
  PROVE  SchedulerInv'
<1> USE DEF hostVars, wireVars, Holding, FailureClass
<1>1. SharedTypes /\ HandleInv /\ CauseInv
  BY InvParts
<1>2. faults \in Nat /\ MaxFaults \in Nat
  BY <1>1, SchedulerAssumption DEF SharedTypes
<1>3. outbox' = outbox /\ served' = served => WireInv'
  BY WireStays
<1>4. Holds(r)
  <2>1. pc[r] = "waiting" => Holds(r)
    BY DEF Acquire, UseRunningHost, StartFails, Spawn, Connect, ConnectFails
  <2>2. pc[r] = "waiting" \/ pc[r] \in Holding
    BY DEF Acquire, UseRunningHost, StartFails, Spawn, Connect, ConnectFails
  <2>3. QED
    BY <2>1, <2>2, HolderHolds
<1>5. CASE Acquire(r)
  <2>1. pc[r] = "waiting" /\ UNCHANGED <<hostVars, wireVars, served, faults>>
    BY <1>5 DEF Acquire
  <2>2. SharedTypes' /\ WireInv'
    BY <1>1, <1>3, <2>1 DEF SharedTypes
  <2>3. CASE token[r]
    <3>1. End(r, "cancelled")
      BY <1>5, <2>3 DEF Acquire
    <3>2. QED
      BY <1>1, <1>2, <2>1, <2>2, <3>1, EndInv DEF HandleInv
  <2>4. CASE ~token[r]
    <3>1. MoveTo(r, "starting")
      BY <1>5, <2>4 DEF Acquire
    <3>2. QED
      BY <1>1, <1>4, <2>1, <2>2, <3>1, MoveInv DEF HandleInv
  <2>5. QED
    BY <2>3, <2>4
<1>6. CASE UseRunningHost(r)
  <2>1. /\ pc[r] = "starting" /\ handle # "none" /\ MoveTo(r, "sending")
        /\ UNCHANGED <<hostVars, wireVars, served, faults>>
    BY <1>6 DEF UseRunningHost
  <2>2. SharedTypes' /\ WireInv'
    BY <1>1, <1>3, <2>1 DEF SharedTypes
  <2>3. QED
    BY <1>1, <1>4, <2>1, <2>2, MoveInv DEF HandleInv
<1>7. CASE StartFails(r)
  <2>1. /\ pc[r] = "starting" /\ handle = "none" /\ End(r, "startup")
        /\ UNCHANGED <<hostVars, wireVars, served>>
        /\ IF dir THEN faults < MaxFaults /\ faults' = faults + 1 ELSE faults' = faults
    BY <1>7 DEF StartFails, Fault
  <2>2. faults' \in 0..MaxFaults /\ faults' >= faults /\ (dir => faults' > 0)
    BY <1>1, <1>2, <2>1 DEF SharedTypes
  <2>3. faults' > 0 \/ \E q \in Run : result[q] = "cancelled"
    BY <1>1, <2>2 DEF CauseInv
  <2>4. SharedTypes' /\ WireInv'
    BY <1>1, <1>3, <2>1, <2>2 DEF SharedTypes
  <2>5. QED
    BY <1>1, <2>1, <2>2, <2>3, <2>4, EndInv DEF HandleInv
<1>8. CASE Spawn(r)
  <2>1. /\ pc[r] = "starting" /\ handle = "none" /\ dir /\ MoveTo(r, "connecting")
        /\ host' = "starting"
        /\ UNCHANGED <<dir, handle, orphans, wireVars, served, faults>>
    BY <1>8 DEF Spawn
  <2>2. SharedTypes' /\ WireInv'
    BY <1>1, <1>3, <2>1 DEF SharedTypes
  <2>3. QED
    BY <1>1, <1>4, <2>1, <2>2, MoveInv
<1>9. CASE Connect(r)
  <2>1. /\ pc[r] = "connecting" /\ MoveTo(r, "sending")
        /\ host' = "up" /\ handle' = "open"
        /\ UNCHANGED <<dir, orphans, wireVars, served, faults>>
    BY <1>9 DEF Connect
  <2>2. handle = "none" /\ dir
    BY <1>1, <2>1 DEF HandleInv
  <2>3. SharedTypes' /\ WireInv'
    BY <1>1, <1>3, <2>1, <2>2 DEF SharedTypes
  <2>4. QED
    BY <1>1, <1>4, <2>1, <2>3, MoveInv
<1>10. CASE ConnectFails(r)
  <2>1. /\ pc[r] = "connecting" /\ End(r, "startup") /\ host' = "none"
        /\ faults < MaxFaults /\ faults' = faults + 1
        /\ UNCHANGED <<dir, handle, orphans, wireVars, served>>
    BY <1>10 DEF ConnectFails, Fault
  <2>2. faults' \in 0..MaxFaults /\ faults' >= faults /\ faults' > 0
    BY <1>2, <2>1
  <2>3. handle = "none"
    BY <1>1, <2>1 DEF HandleInv
  <2>4. SharedTypes' /\ WireInv'
    BY <1>1, <1>3, <2>1, <2>2, <2>3 DEF SharedTypes
  <2>5. QED
    BY <1>1, <2>1, <2>2, <2>3, <2>4, EndInv
<1>11. QED
  BY <1>5, <1>6, <1>7, <1>8, <1>9, <1>10

\* send_message and read_response_or_cancel.
LEMMA ExchangeInv ==
  ASSUME SchedulerInv, NEW r \in Run,
         Send(r) \/ Read(r) \/ Closed(r) \/ Cancelled(r) \/ Terminated(r)
  PROVE  SchedulerInv'
<1> USE DEF hostVars, wireVars, Holding, FailureClass
<1>1. /\ SharedTypes /\ HandleInv /\ CauseInv /\ WireInv
      /\ (served' = served => served \subseteq served')
  BY InvParts
<1>2. faults \in Nat
  BY <1>1, SchedulerAssumption DEF SharedTypes
<1>3. pc[r] \in {"sending", "reading", "terminating"} /\ Holds(r)
  <2>1. pc[r] \in {"sending", "reading", "terminating"}
    BY DEF Send, Read, Closed, Cancelled, Terminated
  <2>2. QED
    BY <2>1, HolderHolds
<1>4. host = "dead" => faults > 0
  BY <1>1 DEF CauseInv
<1>5. CASE Send(r)
  <2>1. /\ pc[r] = "sending"
        /\ UNCHANGED <<dir, handle, host, orphans, outbox, torn, served, faults>>
    BY <1>5 DEF Send
  <2>2. handle # "none" /\ WireInv'
    BY <1>1, <2>1, WireStays DEF HandleInv
  <2>3. CASE host = "up"
    <3>1. /\ MoveTo(r, "reading") /\ inbox' = Append(inbox, Line(r)) /\ dangling' = FALSE
      BY <1>5, <2>3 DEF Send
    <3>2. handle = "open"
      BY <1>1, <2>3 DEF HandleInv
    <3>3. inbox' \in Seq(Run \union {Unknown})
      <4>1. Line(r) \in Run \union {Unknown}
        BY DEF Line
      <4>2. QED
        BY <1>1, <3>1, <4>1 DEF SharedTypes
    <3>4. SharedTypes'
      BY <1>1, <2>1, <3>1, <3>3 DEF SharedTypes
    <3>5. QED
      BY <1>3, <2>1, <2>2, <2>3, <3>1, <3>2, <3>4, MoveInv
  <2>4. CASE host # "up"
    <3>1. End(r, "transport") /\ UNCHANGED <<inbox, dangling>>
      BY <1>5, <2>4 DEF Send
    <3>2. SharedTypes'
      BY <1>1, <2>1, <3>1 DEF SharedTypes
    <3>3. faults > 0 \/ \E q \in Run : token[q] /\ result[q] = "dropped"
      <4>1. CASE handle = "open"
        BY <1>1, <1>4, <2>4, <4>1 DEF SharedTypes
      <4>2. CASE handle = "closed"
        <5>1. PICK q \in Run : token[q] /\ (pc[q] = "terminating" \/ result[q] = "dropped")
          BY <1>1, <4>2 DEF CauseInv
        <5>2. pc[q] # "terminating"
          BY <1>3, <2>1, OneHolder
        <5>3. QED
          BY <5>1, <5>2
      <4>3. QED
        BY <1>1, <2>2, <4>1, <4>2 DEF SharedTypes
    <3>4. QED
      BY <1>1, <1>2, <2>1, <2>2, <2>4, <3>1, <3>2, <3>3, EndInv DEF HandleInv
  <2>5. QED
    BY <2>3, <2>4
<1>6. CASE Read(r)
  <2>1. /\ pc[r] = "reading" /\ outbox # <<>> /\ outbox' = Tail(outbox) /\ torn' = FALSE
        /\ UNCHANGED <<dir, handle, host, orphans, inbox, dangling, served, faults>>
    BY <1>6 DEF Read
  <2>2. WireInv' /\ outbox' \in Seq(Answer)
    BY <2>1, WireStays
  <2>3. SharedTypes'
    BY <1>1, <2>1, <2>2 DEF SharedTypes
  <2>4. handle = "open"
    BY <1>1, <2>1 DEF HandleInv
  <2>5. CASE torn
    <3>1. End(r, "protocol")
      BY <1>6, <2>5 DEF Read
    <3>2. \E q \in Run : result[q] = "dropped"
      BY <1>1, <2>5 DEF CauseInv
    <3>3. QED
      BY <1>1, <1>2, <2>1, <2>2, <2>3, <2>4, <3>1, <3>2, EndInv
  <2>6. CASE ~torn /\ IsFor(r, Head(outbox))
    <3>1. End(r, IF Head(outbox).type = "result" THEN "ok" ELSE "host")
      BY <1>6, <2>6 DEF Read
    <3>2. Head(outbox) = outbox[1] /\ 1 \in DOMAIN outbox
      BY <1>1, <2>1, TailEffect DEF SharedTypes
    <3>3. CASE Head(outbox).type = "result"
      <4>1. r \in served
        BY <1>1, <2>6, <3>2, <3>3 DEF WireInv, IsFor
      <4>2. End(r, "ok")
        BY <3>1, <3>3
      <4>3. QED
        BY <1>1, <1>2, <2>1, <2>2, <2>3, <2>4, <4>1, <4>2, EndInv
    <3>4. CASE Head(outbox).type # "result"
      <4>1. End(r, "host")
        BY <3>1, <3>4
      <4>2. QED
        BY <1>1, <1>2, <2>1, <2>2, <2>3, <2>4, <4>1, EndInv
    <3>5. QED
      BY <3>3, <3>4
  <2>7. CASE ~torn /\ ~IsFor(r, Head(outbox))
    <3>1. MoveTo(r, "reading")
      BY <1>6, <2>7 DEF Read
    <3>2. QED
      BY <1>3, <2>1, <2>2, <2>3, <2>4, <3>1, MoveInv
  <2>8. QED
    BY <2>5, <2>6, <2>7
<1>7. CASE Closed(r)
  <2>1. PICK how \in {"transport", "protocol"} : End(r, how)
    BY <1>7 DEF Closed
  <2>2. /\ host = "dead" /\ faults' = faults /\ faults > 0
        /\ UNCHANGED <<hostVars, wireVars, served>>
    BY <1>4, <1>7 DEF Closed
  <2>3. SharedTypes' /\ WireInv'
    BY <1>1, <2>2, WireStays DEF SharedTypes
  <2>4. pc[r] = "reading" /\ handle = "open"
    BY <1>1, <1>7 DEF Closed, HandleInv
  <2>5. QED
    BY <1>1, <1>2, <2>1, <2>2, <2>3, <2>4, EndInv DEF HandleInv
<1>8. CASE Cancelled(r)
  <2>1. /\ pc[r] = "reading" /\ token[r] /\ handle' = "closed" /\ host' = "none"
        /\ MoveTo(r, "terminating")
        /\ inbox' = <<>> /\ outbox' = <<>> /\ dangling' = FALSE /\ torn' = FALSE
        /\ UNCHANGED <<dir, orphans, served, faults>>
    BY <1>8 DEF Cancelled
  <2>2. WireInv' /\ dir
    <3>1. handle = "open"
      BY <1>1, <2>1 DEF HandleInv
    <3>2. QED
      BY <1>1, <2>1, <3>1, WireStays DEF SharedTypes
  <2>3. SharedTypes'
    <3>1. inbox' \in Seq(Run \union {Unknown}) /\ outbox' \in Seq(Answer)
      BY <2>1
    <3>2. QED
      BY <1>1, <2>1, <2>2, <3>1 DEF SharedTypes
  <2>4. QED
    BY <1>3, <2>1, <2>2, <2>3, MoveInv
<1>9. CASE Terminated(r)
  <2>1. /\ pc[r] = "terminating" /\ handle' = "none" /\ dir' = FALSE /\ End(r, "cancelled")
        /\ UNCHANGED <<host, orphans, wireVars, served, faults>>
    BY <1>9 DEF Terminated
  <2>2. handle = "closed" /\ host \notin {"up", "dead"}
    BY <1>1, <2>1 DEF HandleInv
  <2>3. SharedTypes' /\ WireInv'
    BY <1>1, <2>1, <2>2, WireStays DEF SharedTypes
  <2>4. QED
    BY <1>1, <1>2, <2>1, <2>2, <2>3, EndInv
<1>10. QED
  BY <1>5, <1>6, <1>7, <1>8, <1>9

\* A future dropped at an await.
LEMMA DropInv ==
  ASSUME SchedulerInv, NEW r \in Run, Drop(r)
  PROVE  SchedulerInv'
<1> USE DEF hostVars, wireVars, FailureClass
<1>1. /\ SharedTypes /\ HandleInv /\ CauseInv /\ faults' = faults /\ served' = served
      /\ End(r, "dropped")
  BY InvParts DEF Drop, DropWaiting, DropConnecting, DropSending, DropReading
<1>2. faults \in Nat
  BY <1>1, SchedulerAssumption DEF SharedTypes
<1>3. UNCHANGED outbox => WireInv'
  BY <1>1, WireStays
<1>4. CASE DropWaiting(r)
  <2>1. pc[r] \in {"waiting", "starting", "terminating"} /\ UNCHANGED <<hostVars, wireVars>>
    BY <1>4 DEF DropWaiting
  <2>2. SharedTypes' /\ WireInv'
    BY <1>1, <1>3, <2>1 DEF SharedTypes
  <2>3. QED
    BY <1>1, <1>2, <2>1, <2>2, EndInv DEF HandleInv
<1>5. CASE DropConnecting(r)
  <2>1. /\ pc[r] = "connecting" /\ host' = "none" /\ orphans' = orphans + 1
        /\ UNCHANGED <<dir, handle, wireVars>>
    BY <1>5 DEF DropConnecting
  <2>2. handle = "none"
    BY <1>1, <2>1 DEF HandleInv
  <2>3. SharedTypes' /\ WireInv'
    BY <1>1, <1>3, <2>1, <2>2 DEF SharedTypes
  <2>4. QED
    BY <1>1, <1>2, <2>1, <2>2, <2>3, EndInv
<1>6. CASE DropSending(r)
  <2>1. /\ pc[r] = "sending" /\ UNCHANGED <<hostVars, outbox, torn>>
        /\ inbox' \in {inbox, Append(inbox, Line(r))} /\ dangling' \in BOOLEAN
    BY <1>1, <1>6 DEF DropSending, SharedTypes
  <2>2. inbox' \in Seq(Run \union {Unknown})
    <3>1. Line(r) \in Run \union {Unknown}
      BY DEF Line
    <3>2. QED
      BY <1>1, <2>1, <3>1 DEF SharedTypes
  <2>3. SharedTypes' /\ WireInv'
    BY <1>1, <1>3, <2>1, <2>2 DEF SharedTypes
  <2>4. QED
    BY <1>1, <1>2, <2>1, <2>3, EndInv DEF HandleInv
<1>7. CASE DropReading(r)
  <2>1. /\ pc[r] = "reading" /\ torn' \in {torn, TRUE}
        /\ UNCHANGED <<hostVars, inbox, dangling, outbox>>
    BY <1>7 DEF DropReading
  <2>2. SharedTypes' /\ WireInv'
    BY <1>1, <1>3, <2>1 DEF SharedTypes
  <2>3. QED
    BY <1>1, <1>2, <2>1, <2>2, EndInv DEF HandleInv
<1>8. QED
  BY <1>4, <1>5, <1>6, <1>7 DEF Drop

\* The host, which touches no run: it completes a request or dies.
LEMMA HostInv ==
  ASSUME SchedulerInv, HostServes \/ HostDies
  PROVE  SchedulerInv'
<1>1. /\ SharedTypes /\ HandleInv /\ CauseInv /\ WireInv /\ RunInv
      /\ OwnAnswer /\ FailuresHaveCause
  BY InvParts
<1>2. UNCHANGED <<pc, token, calling, ear, result, lock, dir, handle, orphans, torn>>
  BY DEF HostServes, HostDies, runVars, hostVars, cancelVars
<1>3. RunInv'
  BY <1>1, <1>2 DEF RunInv, MutexInv, NoWakeupLost, Holds
<1>4. host = "up" /\ host' \in {"up", "dead"} /\ handle = "open"
  BY <1>1 DEF HostServes, HostDies, hostVars, HandleInv
<1>5. faults \in Nat /\ MaxFaults \in Nat /\ faults' \in 0..MaxFaults /\ faults' >= faults
      /\ (host' = "dead" => faults' > 0)
  <2>1. faults \in 0..MaxFaults /\ MaxFaults \in Nat
    BY <1>1, SchedulerAssumption DEF SharedTypes
  <2>2. \/ faults' = faults /\ host' = "up"
        \/ faults < MaxFaults /\ faults' = faults + 1
    BY <1>4 DEF HostServes, HostDies, Fault, hostVars
  <2>3. QED
    BY <2>1, <2>2
<1>6. HandleInv'
  BY <1>1, <1>2, <1>4 DEF HandleInv
<1>7. CauseInv'
  BY <1>1, <1>2, <1>4, <1>5 DEF CauseInv
<1>8. FailuresHaveCause'
  BY <1>2, <1>5, CausesStay DEF FailuresHaveCause
<1>9. CASE HostServes
  <2>1. PICK id, type :
          /\ inbox # <<>> /\ id = Head(inbox) /\ type \in {"result", "error"}
          /\ (id = Unknown => type = "error")
          /\ outbox' = Append(outbox, [id |-> id, type |-> type])
          /\ served' = IF type = "result" THEN served \union {id} ELSE served
    BY <1>9 DEF HostServes
  <2>2. /\ inbox' = Tail(inbox) /\ UNCHANGED <<dangling, faults, host>>
    BY <1>9 DEF HostServes, hostVars
  <2>3. id \in Run \union {Unknown} /\ inbox' \in Seq(Run \union {Unknown})
    BY <1>1, <2>1, <2>2, TailEffect DEF SharedTypes
  <2>4. [id |-> id, type |-> type] \in Answer
    BY <2>1, <2>3 DEF Answer
  <2>5. /\ outbox' \in Seq(Answer) /\ DOMAIN outbox' = 1..(Len(outbox) + 1)
        /\ Len(outbox) \in Nat /\ DOMAIN outbox = 1..Len(outbox)
        /\ \A i \in DOMAIN outbox : outbox'[i] = outbox[i]
        /\ outbox'[Len(outbox) + 1] = [id |-> id, type |-> type]
    BY <1>1, <2>1, <2>4 DEF SharedTypes
  <2>6. served' \in SUBSET Run /\ served \subseteq served' /\ (type = "result" => id \in served')
    BY <1>1, <2>1, <2>3 DEF SharedTypes
  <2>7. WireInv'
    <3>1. \A i \in DOMAIN outbox' : i \in DOMAIN outbox \/ i = Len(outbox) + 1
      BY <2>5
    <3>2. QED
      BY <1>1, <2>5, <2>6, <3>1 DEF WireInv
  <2>8. OwnAnswer'
    BY <1>1, <1>2, <2>6 DEF OwnAnswer
  <2>9. SharedTypes'
    BY <1>1, <1>2, <2>2, <2>3, <2>5, <2>6 DEF SharedTypes
  <2>10. QED
    BY <1>3, <1>6, <1>7, <1>8, <2>7, <2>8, <2>9 DEF SchedulerInv, RunInv, CauseInv, TypeOK, SharedTypes
<1>10. CASE HostDies
  <2>1. /\ inbox' = <<>> /\ dangling' = FALSE /\ host' = "dead"
        /\ UNCHANGED <<outbox, served>>
    BY <1>10 DEF HostDies
  <2>2. inbox' \in Seq(Run \union {Unknown})
    BY <2>1
  <2>3. WireInv' /\ OwnAnswer'
    BY <1>1, <1>2, <2>1 DEF WireInv, OwnAnswer
  <2>4. SharedTypes'
    BY <1>1, <1>2, <1>4, <1>5, <2>1, <2>2 DEF SharedTypes
  <2>5. QED
    BY <1>3, <1>6, <1>7, <1>8, <2>3, <2>4 DEF SchedulerInv, RunInv, CauseInv, TypeOK, SharedTypes
<1>11. QED
  BY <1>9, <1>10

-----------------------------------------------------------------------------
(* The invariant, and what follows from it.                                *)

LEMMA InitInv == Init => SchedulerInv
<1> SUFFICES ASSUME Init PROVE SchedulerInv
  OBVIOUS
<1>1. TypeOK
  <2>1. lock \in Seq(Run) /\ inbox \in Seq(Run \union {Unknown}) /\ outbox \in Seq(Answer)
    BY DEF Init
  <2>2. pc \in [Run -> {"idle", "waiting", "starting", "connecting", "sending",
                     "reading", "terminating", "ended"}]
    BY DEF Init
  <2>3. result \in [Run -> FailureClass \union {"none", "ok", "dropped"}]
    BY DEF Init
  <2>4. token \in [Run -> BOOLEAN] /\ served \in SUBSET Run
    BY DEF Init
  <2>5. faults \in 0..MaxFaults /\ orphans \in Nat
    BY SchedulerAssumption DEF Init
  <2>6. QED
    BY <2>1, <2>2, <2>3, <2>4, <2>5 DEF Init, TypeOK
<1>2. MutexInv /\ HandleInv /\ CauseInv /\ NoWakeupLost
  BY DEF Init, MutexInv, HandleInv, CauseInv, NoWakeupLost, Holding
<1>3. WireInv /\ OwnAnswer /\ FailuresHaveCause
  BY DEF Init, WireInv, OwnAnswer, FailuresHaveCause
<1>4. QED
  BY <1>1, <1>2, <1>3 DEF SchedulerInv

LEMMA NextInv ==
  ASSUME SchedulerInv, [Next]_vars
  PROVE  SchedulerInv'
<1>1. CASE \E r \in Run : Request(r)
  BY <1>1, RequestInv
<1>2. CASE (\E r \in Run : Cancel(r) \/ Listen(r)) \/ NotifyWaiters
  BY <1>2, CancelInv
<1>3. CASE \E r \in Run : \/ Acquire(r) \/ UseRunningHost(r) \/ StartFails(r)
                          \/ Spawn(r) \/ Connect(r) \/ ConnectFails(r)
  BY <1>3, StartInv
<1>4. CASE \E r \in Run : Send(r) \/ Read(r) \/ Closed(r) \/ Cancelled(r) \/ Terminated(r)
  BY <1>4, ExchangeInv
<1>5. CASE \E r \in Run : Drop(r)
  BY <1>5, DropInv
<1>6. CASE HostServes \/ HostDies
  BY <1>6, HostInv
<1>7. CASE UNCHANGED vars
  BY <1>7 DEF vars, runVars, cancelVars, hostVars, wireVars, SchedulerInv, TypeOK,
              MutexInv, HandleInv, CauseInv, WireInv, NoWakeupLost, OwnAnswer,
              FailuresHaveCause, Holds
<1>8. QED
  BY <1>1, <1>2, <1>3, <1>4, <1>5, <1>6, <1>7 DEF Next, Step

THEOREM Invariance == Spec => []SchedulerInv
<1>1. Init => SchedulerInv
  BY InitInv
<1>2. SchedulerInv /\ [Next]_vars => SchedulerInv'
  BY NextInv
<1>3. QED
  BY <1>1, <1>2, PTL DEF Spec

\* The fields of the scheduler stay well-formed: a transport is kept only
\* with its directory, and the process behind it is up or died by itself.
THEOREM TypeCorrect == Spec => []TypeOK
BY Invariance, PTL DEF SchedulerInv

\* One run at a time is between acquiring the scheduler and returning from
\* run_with_event_sink, whatever is cancelled or dropped.
THEOREM OneRunAtATime ==
  Spec => [](\A q, r \in Run : pc[q] \in Holding /\ pc[r] \in Holding => q = r)
<1>1. SchedulerInv => \A q, r \in Run : pc[q] \in Holding /\ pc[r] \in Holding => q = r
  BY OneHolder, HolderHolds
<1>2. QED
  BY <1>1, Invariance, PTL

\* A run that returns Ok got the answer to its own request: read_response
\* compares run ids, so no answer left by a dropped run passes for it.
THEOREM AnswersAreOwn == Spec => []OwnAnswer
BY Invariance, PTL DEF SchedulerInv

\* A run fails on the transport, the protocol or the start of the host only
\* after a fault of the host or after a run that was dropped or cancelled.
THEOREM FailuresAreCaused == Spec => []FailuresHaveCause
BY Invariance, PTL DEF SchedulerInv

\* cancelled() makes its Notified before it looks at the flag, so a reader
\* that sleeps with its token cancelled has its wakeup still to come.
THEOREM WakeupsAreKept == Spec => []NoWakeupLost
BY Invariance, PTL DEF SchedulerInv

=============================================================================

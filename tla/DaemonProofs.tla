---------------------------- MODULE DaemonProofs ----------------------------
(***************************************************************************)
(* Proofs about Daemon, for every number of clients, daemon processes and  *)
(* slots, and whatever the clients ask for: a task keeps the root of its   *)
(* request, a client that waited is told a final status, and what a client *)
(* was told stays on file.                                                 *)
(***************************************************************************)
EXTENDS Daemon, Integers, SequenceTheorems, FiniteSetTheorems, TLAPS

-----------------------------------------------------------------------------
(* Sequences.                                                              *)

\* RemoveAt leaves the others in their order.
LEMMA RemoveAtType ==
  ASSUME NEW S, NEW q \in Seq(S), NEW i \in DOMAIN q
  PROVE  /\ RemoveAt(q, i) \in Seq(S)
         /\ Len(RemoveAt(q, i)) = Len(q) - 1
         /\ \A j \in 1..(Len(q) - 1) :
              RemoveAt(q, i)[j] = IF j < i THEN q[j] ELSE q[j + 1]
<1> DEFINE left == SubSeq(q, 1, i - 1)
           right == SubSeq(q, i + 1, Len(q))
<1>1. Len(q) \in Nat /\ i \in 1..Len(q) /\ \A j \in 1..Len(q) : q[j] \in S
  OBVIOUS
<1>2. left \in Seq(S) /\ Len(left) = i - 1 /\ \A j \in 1..(i - 1) : left[j] = q[j]
  BY <1>1
<1>3. right \in Seq(S) /\ Len(right) = Len(q) - i /\ \A j \in 1..(Len(q) - i) : right[j] = q[i + j]
  BY <1>1
<1> HIDE DEF left, right
<1>4. RemoveAt(q, i) = left \o right
  BY DEF RemoveAt, left, right
<1>5. QED
  BY <1>1, <1>2, <1>3, <1>4, ConcatProperties

\* What taking the first element leaves.
LEMMA TailEffect ==
  ASSUME NEW S, NEW s \in Seq(S), s # <<>>
  PROVE  /\ Len(s) \in Nat \ {0} /\ DOMAIN s = 1..Len(s)
         /\ Head(s) = s[1] /\ s[1] \in S
         /\ Tail(s) \in Seq(S) /\ DOMAIN Tail(s) = 1..(Len(s) - 1)
         /\ \A i \in DOMAIN Tail(s) : Tail(s)[i] = s[i + 1]
BY HeadTailProperties

\* The first n elements and the others.
LEMMA SplitAt ==
  ASSUME NEW S, NEW q \in Seq(S), NEW n \in 0..Len(q)
  PROVE  /\ Len(q) \in Nat /\ DOMAIN q = 1..Len(q) /\ n \in Nat
         /\ SubSeq(q, n + 1, Len(q)) \in Seq(S)
         /\ DOMAIN SubSeq(q, n + 1, Len(q)) = 1..(Len(q) - n)
         /\ \A i \in 1..(Len(q) - n) : SubSeq(q, n + 1, Len(q))[i] = q[n + i]
         /\ ToSet(SubSeq(q, 1, n)) = {q[i] : i \in 1..n}
<1>1. /\ Len(q) \in Nat /\ DOMAIN q = 1..Len(q) /\ n \in Nat
      /\ SubSeq(q, n + 1, Len(q)) \in Seq(S)
      /\ DOMAIN SubSeq(q, n + 1, Len(q)) = 1..(Len(q) - n)
      /\ \A i \in 1..(Len(q) - n) : SubSeq(q, n + 1, Len(q))[i] = q[n + i]
  OBVIOUS
<1>2. DOMAIN SubSeq(q, 1, n) = 1..n /\ \A i \in 1..n : SubSeq(q, 1, n)[i] = q[i]
  OBVIOUS
<1>3. ToSet(SubSeq(q, 1, n)) = {q[i] : i \in 1..n}
  BY <1>2 DEF ToSet
<1>4. QED
  BY <1>1, <1>3

-----------------------------------------------------------------------------
(* The inductive invariant.                                                *)

\* Where the handler of a request runs, it has a daemon that serves.
Unconnected == {"new", "poll", "connect"}
Handled == Place \ (Unconnected \union {"sent", "answered", "failed"})

PlaceInv ==
  \A c \in Client :
    /\ at[c] \in Unconnected => peer[c] = Nobody
    /\ at[c] = "sent" => peer[c] \in Proc /\ proc[peer[c]] \in {"bound", "up"}
    /\ at[c] \in Handled => peer[c] \in Proc /\ proc[peer[c]] = "up"
    /\ at[c] \in {"second", "again", "snapshot", "wait", "asking", "asking again", "report"}
         => kind[c] # "view"

\* Who holds the session mutex, and the root an asking turn set under it.
InSession == {"second", "snapshot", "asking", "asking again"}

SessionInv ==
  \A c \in Client :
    /\ at[c] \in InSession => Holds(peer[c], "session", c)
    /\ at[c] \in {"asking", "asking again"} => default[peer[c]] = c

\* A task has a future only after its request created it, in the daemon of the
\* request and while that one is up.
RunInv ==
  \A t \in Client :
    run[t] # "none" => /\ peer[t] \in Proc /\ proc[peer[t]] = "up"
                       /\ at[t] \notin Unconnected \union {"sent", "first", "second",
                                                           "asking", "asking again"}

\* Queue, futures, roots and store of a board b agree with each other.
BoardOK(b) ==
  /\ \A i, j \in DOMAIN b.queue : b.queue[i] = b.queue[j] => i = j
  /\ \A i \in DOMAIN b.queue : b.queue[i] \in b.mine /\ b.run[b.queue[i]] = "queued"
  /\ \A t \in b.mine :
       /\ b.run[t] = "queued" => \E i \in DOMAIN b.queue : b.queue[i] = t
       /\ b.run[t] \notin {"none", "over"} => b.root[t] = t
       /\ b.store[t] \in {"Completed", "Failed"} => b.run[t] \in {"none", "over"}
  /\ \A t \in Client :
       /\ b.store[t] = "Queued" => t \in b.mine /\ b.run[t] = "queued"
       /\ b.store[t] = "Running" => t \in b.mine /\ b.run[t] \in Started

BoardsInv ==
  /\ \A p \in Proc : proc[p] = "up" => BoardOK(Board(p))
  /\ \A p \in Proc : proc[p] # "up" => queue[p] = <<>>

\* An idle board has no future of the client; a final answer was read from a
\* task that is over.
AnswerInv ==
  \A c \in Client :
    /\ idle[c] => run[c] \in {"none", "over"}
    /\ at[c] = "report" /\ ~late[c] => idle[c]
    /\ told[c] # "nothing" => at[c] \in {"write", "answered", "failed"}
    /\ told[c] \in {"Completed", "Failed"} => run[c] \in {"none", "over"}

\* Without a rival the file is the store of the one daemon there is.
FileInv ==
  ~rivals =>
    /\ \A p, q \in Proc : Alive(p) /\ Alive(q) => p = q
    /\ \A p \in Proc : proc[p] = "up" => store[p] = file
    /\ \A c \in Client : told[c] \in {"Completed", "Failed"} => file[c] = told[c]

DaemonInv ==
  /\ TypeOK /\ PlaceInv /\ SessionInv /\ RunInv /\ BoardsInv /\ AnswerInv /\ FileInv
  /\ WaitedReplyIsSettled

-----------------------------------------------------------------------------
(* What the calls make of a board.                                         *)

Statuses == [Client -> Status]
Futures == [Client -> {"none", "queued", "over"} \union Started]
Tokens == [Client -> BOOLEAN]
Roots == [Client -> Client \union {Nobody}]
Someone == Client \union {Nobody}
Queues == Seq(Client)

BoardType ==
  [store : Statuses, queue : Queues, focus : Someone, run : Futures, token : Tokens,
   root : Roots, mine : SUBSET Client, default : Someone]

\* b came from a by calls that created at most the tasks of `new`: they keep
\* what other daemons did, and tasks that are over.
From(a, new, b) ==
  /\ b \in BoardType /\ BoardOK(b)
  /\ b.mine = a.mine /\ b.default = a.default
  /\ \A t \in Client \ new :
       (t \notin a.mine \/ a.run[t] \in {"none", "over"})
         => b.store[t] = a.store[t] /\ b.run[t] = a.run[t] /\ b.root[t] = a.root[t]

LEMMA BoardFields ==
  ASSUME NEW b \in BoardType
  PROVE  /\ b.store \in [Client -> Status] /\ b.queue \in Seq(Client)
         /\ b.focus \in Client \union {Nobody}
         /\ b.run \in [Client -> {"none", "queued", "over"} \union Started]
         /\ b.token \in [Client -> BOOLEAN]
         /\ b.root \in [Client -> Client \union {Nobody}]
         /\ b.mine \subseteq Client /\ b.default \in Client \union {Nobody}
         /\ Len(b.queue) \in Nat /\ DOMAIN b.queue = 1..Len(b.queue)
         /\ \A i \in DOMAIN b.queue : b.queue[i] \in Client
<1>1. /\ b.store \in Statuses /\ b.queue \in Queues /\ b.focus \in Someone
      /\ b.run \in Futures /\ b.token \in Tokens /\ b.root \in Roots
      /\ b.mine \in SUBSET Client /\ b.default \in Someone
  BY DEF BoardType
<1>2. QED
  BY <1>1 DEF Statuses, Futures, Tokens, Roots, Someone, Queues

LEMMA ReadyRange ==
  ASSUME NEW b \in BoardType
  PROVE  Ready(b) \in 0..Len(b.queue)
<1>1. HoldsSlot(b) \subseteq Client
  BY BoardFields DEF HoldsSlot
<1>2. IsFiniteSet(HoldsSlot(b))
  BY <1>1, DaemonAssumption, FS_Subset
<1>3. Cardinality(HoldsSlot(b)) \in Nat
  BY <1>2, FS_CardinalityType
<1>4. Len(b.queue) \in Nat /\ Slots \in Nat
  BY BoardFields, DaemonAssumption
<1>5. QED
  BY <1>3, <1>4 DEF Ready

LEMMA StartReadyFrom ==
  ASSUME NEW a, NEW new, NEW b, From(a, new, b)
  PROVE  From(a, new, StartReady(b))
<1> DEFINE n == Ready(b)
           ready == {b.queue[i] : i \in 1..n}
           d == StartReady(b)
<1>1. b \in BoardType /\ BoardOK(b)
  BY DEF From
<1>2. n \in 0..Len(b.queue)
  BY <1>1, ReadyRange
<1>3. /\ Len(b.queue) \in Nat /\ DOMAIN b.queue = 1..Len(b.queue) /\ n \in Nat
      /\ SubSeq(b.queue, n + 1, Len(b.queue)) \in Seq(Client)
      /\ DOMAIN SubSeq(b.queue, n + 1, Len(b.queue)) = 1..(Len(b.queue) - n)
      /\ \A i \in 1..(Len(b.queue) - n) :
           SubSeq(b.queue, n + 1, Len(b.queue))[i] = b.queue[n + i]
      /\ ToSet(SubSeq(b.queue, 1, n)) = ready
  BY <1>1, <1>2, BoardFields, SplitAt
<1> DEFINE st == [t \in Client |-> IF t \in ready THEN "Running" ELSE b.store[t]]
           rn == [t \in Client |-> IF t \in ready THEN "spawned" ELSE b.run[t]]
           rt == [t \in Client |-> IF t \in ready THEN b.root[t] ELSE b.root[t]]
           qu == SubSeq(b.queue, n + 1, Len(b.queue))
<1>4. d = [b EXCEPT !.store = st, !.run = rn, !.root = rt, !.queue = qu]
  BY <1>1, <1>3 DEF StartReady, RootAtStart, BoardType
<1>5. /\ d.store = [t \in Client |-> IF t \in ready THEN "Running" ELSE b.store[t]]
      /\ d.run = [t \in Client |-> IF t \in ready THEN "spawned" ELSE b.run[t]]
      /\ d.root = [t \in Client |-> b.root[t]]
      /\ d.queue = SubSeq(b.queue, n + 1, Len(b.queue))
      /\ d.mine = b.mine /\ d.default = b.default
      /\ d \in BoardType
  <2>1. st \in Statuses
    BY <1>1, BoardFields DEF Statuses, Status
  <2>2. rn \in Futures
    BY <1>1, BoardFields DEF Futures, Started
  <2>3. rt = [t \in Client |-> b.root[t]] /\ rt \in Roots
    BY <1>1, BoardFields DEF Roots
  <2>4. qu \in Queues
    BY <1>3 DEF Queues
  <2> HIDE DEF st, rn, rt, qu, d
  <2>5. d \in BoardType
    BY <1>1, <1>4, <2>1, <2>2, <2>3, <2>4 DEF BoardType
  <2>6. /\ d.store = st /\ d.run = rn /\ d.root = rt /\ d.queue = qu
        /\ d.mine = b.mine /\ d.default = b.default
    BY <1>1, <1>4 DEF BoardType
  <2>7. QED
    BY <2>3, <2>5, <2>6 DEF st, rn, qu
<1> HIDE DEF st, rn, rt, qu
<1> HIDE DEF d, n, ready
<1>6. \A t \in ready : /\ t \in b.mine /\ b.run[t] = "queued" /\ t \in Client
                       /\ \E i \in 1..n : b.queue[i] = t
  BY <1>1, <1>2, <1>3, BoardFields DEF ready, BoardOK
<1>7. \A i \in DOMAIN d.queue : /\ i \in 1..(Len(b.queue) - n) /\ n + i \in DOMAIN b.queue
                                /\ d.queue[i] = b.queue[n + i]
  BY <1>3, <1>5
<1>8. \A i \in DOMAIN d.queue : d.queue[i] \notin ready
  <2> SUFFICES ASSUME NEW i \in DOMAIN d.queue, NEW j \in 1..n, b.queue[j] = d.queue[i]
               PROVE  FALSE
    BY <1>6
  <2>1. j \in DOMAIN b.queue /\ n + i \in DOMAIN b.queue /\ j # n + i
    BY <1>2, <1>3, <1>7
  <2>2. QED
    BY <1>1, <1>7, <2>1 DEF BoardOK
<1>9. BoardOK(d)
  <2>1. \A i, j \in DOMAIN d.queue : d.queue[i] = d.queue[j] => i = j
    <3> SUFFICES ASSUME NEW i \in DOMAIN d.queue, NEW j \in DOMAIN d.queue,
                        d.queue[i] = d.queue[j]
                 PROVE  i = j
      OBVIOUS
    <3>1. n + i = n + j
      BY <1>1, <1>7 DEF BoardOK
    <3>2. i \in Nat /\ j \in Nat
      BY <1>3, <1>7
    <3>3. QED
      BY <1>3, <3>1, <3>2
  <2>2. \A i \in DOMAIN d.queue : d.queue[i] \in d.mine /\ d.run[d.queue[i]] = "queued"
    <3> SUFFICES ASSUME NEW i \in DOMAIN d.queue
                 PROVE  d.queue[i] \in d.mine /\ d.run[d.queue[i]] = "queued"
      OBVIOUS
    <3>1. d.queue[i] \in b.mine /\ b.run[d.queue[i]] = "queued" /\ d.queue[i] \in Client
      BY <1>1, <1>7, BoardFields DEF BoardOK
    <3>2. QED
      BY <1>5, <1>8, <3>1
  <2>3. ASSUME NEW t \in d.mine, d.run[t] = "queued"
        PROVE  \E i \in DOMAIN d.queue : d.queue[i] = t
    <3>1. t \notin ready /\ b.run[t] = "queued" /\ t \in b.mine
      BY <1>1, <1>5, <2>3, BoardFields
    <3>2. PICK j \in DOMAIN b.queue : b.queue[j] = t
      BY <1>1, <3>1 DEF BoardOK
    <3>3. j \notin 1..n
      BY <3>1, <3>2 DEF ready
    <3>4. j - n \in 1..(Len(b.queue) - n) /\ n + (j - n) = j
      <4>1. Len(b.queue) \in Nat /\ n \in Nat /\ j \in 1..Len(b.queue)
        BY <1>3, <3>2
      <4>2. QED
        BY <3>3, <4>1
    <3>5. j - n \in DOMAIN d.queue /\ d.queue[j - n] = b.queue[j]
      BY <1>3, <1>5, <3>4
    <3>6. QED
      BY <3>2, <3>5
  <2>4. \A t \in d.mine :
          /\ d.run[t] \notin {"none", "over"} => d.root[t] = t
          /\ d.store[t] \in {"Completed", "Failed"} => d.run[t] \in {"none", "over"}
    BY <1>1, <1>5, <1>6, BoardFields DEF BoardOK
  <2>5. \A t \in Client :
          /\ d.store[t] = "Queued" => t \in d.mine /\ d.run[t] = "queued"
          /\ d.store[t] = "Running" => t \in d.mine /\ d.run[t] \in Started
    BY <1>1, <1>5, <1>6 DEF BoardOK, Started
  <2>6. QED
    BY <2>1, <2>2, <2>3, <2>4, <2>5 DEF BoardOK
<1>10. \A t \in Client \ new :
         (t \notin a.mine \/ a.run[t] \in {"none", "over"})
           => d.store[t] = a.store[t] /\ d.run[t] = a.run[t] /\ d.root[t] = a.root[t]
  <2> SUFFICES ASSUME NEW t \in Client \ new, t \notin a.mine \/ a.run[t] \in {"none", "over"}
               PROVE  d.store[t] = a.store[t] /\ d.run[t] = a.run[t] /\ d.root[t] = a.root[t]
    OBVIOUS
  <2>1. b.store[t] = a.store[t] /\ b.run[t] = a.run[t] /\ b.root[t] = a.root[t] /\ b.mine = a.mine
    BY DEF From
  <2>2. t \notin ready
    BY <1>6, <2>1
  <2>3. QED
    BY <1>5, <2>1, <2>2
<1>11. QED
  BY <1>5, <1>9, <1>10 DEF From, d

\* What a call leaves of one board.
Drained(b) == StartReady(Collected(b))

Created(b, t) == StartReady(Enqueued(b, t))

LEMMA OneBoard ==
  ASSUME NEW b, NEW t
  PROVE  Drain({b}) = {Drained(b)} /\ Create({b}, t) = {Created(b, t)}
BY DEF Drain, Create, Drained, Created

LEMMA DrainFrom ==
  ASSUME NEW a, NEW new, NEW b, From(a, new, b)
  PROVE  /\ From(a, new, Drained(b))
         /\ \A t \in Sent(b) : t \in b.mine /\ b.run[t] \in Final
<1> DEFINE d == [b EXCEPT !.store = [t \in Client |-> IF t \in Sent(b) THEN b.run[t] ELSE @[t]],
                          !.run   = [t \in Client |-> IF t \in Sent(b) THEN "over" ELSE @[t]]]
<1>1. b \in BoardType /\ BoardOK(b)
  BY DEF From
<1>2. \A t \in Sent(b) : t \in b.mine /\ b.run[t] \in Final /\ t \in Client
  BY <1>1, BoardFields DEF Sent
<1> DEFINE st == [t \in Client |-> IF t \in Sent(b) THEN b.run[t] ELSE b.store[t]]
           rn == [t \in Client |-> IF t \in Sent(b) THEN "over" ELSE b.run[t]]
<1>3. d = [b EXCEPT !.store = st, !.run = rn]
  BY <1>1 DEF BoardType
<1>4. /\ d.store = [t \in Client |-> IF t \in Sent(b) THEN b.run[t] ELSE b.store[t]]
      /\ d.run = [t \in Client |-> IF t \in Sent(b) THEN "over" ELSE b.run[t]]
      /\ d.queue = b.queue /\ d.root = b.root
      /\ d.mine = b.mine /\ d.default = b.default
      /\ d \in BoardType
  <2>1. st \in Statuses
    BY <1>1, <1>2, BoardFields DEF Statuses, Status
  <2>2. rn \in Futures
    BY <1>1, BoardFields DEF Futures, Started
  <2> HIDE DEF st, rn, d
  <2>3. d \in BoardType
    BY <1>1, <1>3, <2>1, <2>2 DEF BoardType
  <2>4. /\ d.store = st /\ d.run = rn /\ d.queue = b.queue /\ d.root = b.root
        /\ d.mine = b.mine /\ d.default = b.default
    BY <1>1, <1>3 DEF BoardType
  <2>5. QED
    BY <2>3, <2>4 DEF st, rn
<1> HIDE DEF d, st, rn
<1>5. BoardOK(d)
  <2>1. \A i, j \in DOMAIN d.queue : d.queue[i] = d.queue[j] => i = j
    BY <1>1, <1>4 DEF BoardOK
  <2>2. \A i \in DOMAIN d.queue : d.queue[i] \in d.mine /\ d.run[d.queue[i]] = "queued"
    BY <1>1, <1>2, <1>4, BoardFields DEF BoardOK, Final
  <2>3. \A t \in d.mine :
          /\ d.run[t] = "queued" => \E i \in DOMAIN d.queue : d.queue[i] = t
          /\ d.run[t] \notin {"none", "over"} => d.root[t] = t
          /\ d.store[t] \in {"Completed", "Failed"} => d.run[t] \in {"none", "over"}
    BY <1>1, <1>4, BoardFields DEF BoardOK
  <2>4. \A t \in Client :
          /\ d.store[t] = "Queued" => t \in d.mine /\ d.run[t] = "queued"
          /\ d.store[t] = "Running" => t \in d.mine /\ d.run[t] \in Started
    BY <1>1, <1>2, <1>4 DEF BoardOK, Final, Started
  <2>5. QED
    BY <2>1, <2>2, <2>3, <2>4 DEF BoardOK
<1>6. \A t \in Client \ new :
        (t \notin a.mine \/ a.run[t] \in {"none", "over"})
          => d.store[t] = a.store[t] /\ d.run[t] = a.run[t] /\ d.root[t] = a.root[t]
  <2> SUFFICES ASSUME NEW t \in Client \ new, t \notin a.mine \/ a.run[t] \in {"none", "over"}
               PROVE  d.store[t] = a.store[t] /\ d.run[t] = a.run[t] /\ d.root[t] = a.root[t]
    OBVIOUS
  <2>1. b.store[t] = a.store[t] /\ b.run[t] = a.run[t] /\ b.root[t] = a.root[t] /\ b.mine = a.mine
    BY DEF From
  <2>2. t \notin Sent(b)
    BY <1>2, <2>1 DEF Final
  <2>3. QED
    BY <1>4, <2>1, <2>2
<1>7. From(a, new, d)
  BY <1>4, <1>5, <1>6 DEF From
<1>8. From(a, new, StartReady(d))
  BY <1>7, StartReadyFrom
<1>9. QED
  BY <1>2, <1>8 DEF Drained, Collected, d

\* A request that has no task yet creates one, with the root of the session.
LEMMA CreateFrom ==
  ASSUME NEW a, NEW t \in Client, NEW b, From(a, {t}, b),
         t \in b.mine, b.run[t] = "none", b.default = t
  PROVE  From(a, {t}, Created(b, t))
<1> DEFINE d == [b EXCEPT !.store[t] = "Queued", !.run[t] = "queued", !.root[t] = b.default,
                          !.queue = Append(@, t), !.focus = t]
<1>1. b \in BoardType /\ BoardOK(b)
  BY DEF From
<1> DEFINE st == [b.store EXCEPT ![t] = "Queued"]
           rn == [b.run EXCEPT ![t] = "queued"]
           rt == [b.root EXCEPT ![t] = t]
           qu == Append(b.queue, t)
<1>2. d = [b EXCEPT !.store = st, !.run = rn, !.root = rt, !.queue = qu, !.focus = t]
  BY <1>1 DEF BoardType
<1>3. /\ Len(b.queue) \in Nat /\ DOMAIN b.queue = 1..Len(b.queue)
      /\ qu \in Seq(Client) /\ DOMAIN qu = 1..(Len(b.queue) + 1)
      /\ \A i \in DOMAIN b.queue : qu[i] = b.queue[i]
      /\ qu[Len(b.queue) + 1] = t
  BY <1>1, BoardFields, AppendProperties
<1>4. /\ d.store = st /\ d.run = rn /\ d.root = rt /\ d.queue = qu
      /\ d.mine = b.mine /\ d.default = b.default
      /\ d \in BoardType
  <2>1. st \in Statuses
    BY <1>1, BoardFields DEF Statuses, Status
  <2>2. rn \in Futures
    BY <1>1, BoardFields DEF Futures, Started
  <2>3. rt \in Roots
    BY <1>1, BoardFields DEF Roots
  <2>4. qu \in Queues /\ t \in Someone
    BY <1>3 DEF Queues, Someone
  <2> HIDE DEF st, rn, rt, qu, d
  <2>5. d \in BoardType
    BY <1>1, <1>2, <2>1, <2>2, <2>3, <2>4 DEF BoardType
  <2>6. QED
    BY <1>1, <1>2, <2>5 DEF BoardType
<1>5. /\ d.store[t] = "Queued" /\ d.run[t] = "queued" /\ d.root[t] = t
      /\ \A u \in Client : u # t => /\ d.store[u] = b.store[u] /\ d.run[u] = b.run[u]
                                   /\ d.root[u] = b.root[u]
  BY <1>1, <1>4, BoardFields
<1> HIDE DEF d, st, rn, rt, qu
<1>6. \A i \in DOMAIN b.queue : b.queue[i] # t /\ b.queue[i] \in Client
  BY <1>1, BoardFields DEF BoardOK
<1>7. BoardOK(d)
  <2>1. \A i, j \in DOMAIN d.queue : d.queue[i] = d.queue[j] => i = j
    <3> SUFFICES ASSUME NEW i \in DOMAIN d.queue, NEW j \in DOMAIN d.queue,
                        d.queue[i] = d.queue[j]
                 PROVE  i = j
      OBVIOUS
    <3>1. (i \in DOMAIN b.queue \/ i = Len(b.queue) + 1)
          /\ (j \in DOMAIN b.queue \/ j = Len(b.queue) + 1)
      BY <1>3, <1>4
    <3>2. QED
      BY <1>1, <1>3, <1>4, <1>6, <3>1 DEF BoardOK
  <2>2. \A i \in DOMAIN d.queue : d.queue[i] \in d.mine /\ d.run[d.queue[i]] = "queued"
    <3> SUFFICES ASSUME NEW i \in DOMAIN d.queue
                 PROVE  d.queue[i] \in d.mine /\ d.run[d.queue[i]] = "queued"
      OBVIOUS
    <3>1. i \in DOMAIN b.queue \/ i = Len(b.queue) + 1
      BY <1>3, <1>4
    <3>2. QED
      BY <1>1, <1>3, <1>4, <1>5, <1>6, <3>1 DEF BoardOK
  <2>3. ASSUME NEW u \in d.mine, d.run[u] = "queued"
        PROVE  \E i \in DOMAIN d.queue : d.queue[i] = u
    <3>1. CASE u = t
      BY <1>3, <1>4, <3>1
    <3>2. CASE u # t
      <4>1. u \in b.mine /\ b.run[u] = "queued"
        BY <1>1, <1>4, <1>5, <2>3, <3>2, BoardFields
      <4>2. PICK i \in DOMAIN b.queue : b.queue[i] = u
        BY <1>1, <4>1 DEF BoardOK
      <4>3. QED
        BY <1>3, <1>4, <4>2
    <3>3. QED
      BY <3>1, <3>2
  <2>4. \A u \in d.mine :
          /\ d.run[u] \notin {"none", "over"} => d.root[u] = u
          /\ d.store[u] \in {"Completed", "Failed"} => d.run[u] \in {"none", "over"}
    BY <1>1, <1>4, <1>5, BoardFields DEF BoardOK
  <2>5. \A u \in Client :
          /\ d.store[u] = "Queued" => u \in d.mine /\ d.run[u] = "queued"
          /\ d.store[u] = "Running" => u \in d.mine /\ d.run[u] \in Started
    BY <1>1, <1>4, <1>5 DEF BoardOK
  <2>6. QED
    BY <2>1, <2>2, <2>3, <2>4, <2>5 DEF BoardOK
<1>8. From(a, {t}, d)
  BY <1>4, <1>5, <1>7 DEF From
<1>9. From(a, {t}, StartReady(d))
  BY <1>8, StartReadyFrom
<1>10. QED
  BY <1>9 DEF Created, Enqueued, d

LEMMA WithoutEffect ==
  ASSUME NEW q \in Seq(Client), NEW t \in Client,
         \A i, j \in DOMAIN q : q[i] = q[j] => i = j
  PROVE  /\ Without(q, t) \in Seq(Client)
         /\ \A i, j \in DOMAIN Without(q, t) : Without(q, t)[i] = Without(q, t)[j] => i = j
         /\ \A i \in DOMAIN Without(q, t) : /\ Without(q, t)[i] # t
                                            /\ \E j \in DOMAIN q : q[j] = Without(q, t)[i]
         /\ \A j \in DOMAIN q : q[j] # t =>
              \E i \in DOMAIN Without(q, t) : Without(q, t)[i] = q[j]
<1>1. DOMAIN q = 1..Len(q) /\ Len(q) \in Nat
  BY LenProperties
<1>2. CASE t \notin ToSet(q)
  <2>1. Without(q, t) = q
    BY <1>2 DEF Without
  <2>2. \A i \in DOMAIN q : q[i] # t
    BY <1>2 DEF ToSet
  <2>3. QED
    BY <2>1, <2>2
<1>3. CASE t \in ToSet(q)
  <2>1. \E i \in DOMAIN q : q[i] = t
    BY <1>3 DEF ToSet
  <2>2. PICK k \in DOMAIN q : k = CHOOSE i \in DOMAIN q : q[i] = t
    BY <2>1
  <2>3. q[k] = t
    BY <2>1, <2>2
  <2> DEFINE r == RemoveAt(q, k)
  <2>4. Without(q, t) = r
    BY <1>3, <2>2 DEF Without
  <2>5. /\ r \in Seq(Client) /\ Len(r) = Len(q) - 1
        /\ \A j \in 1..(Len(q) - 1) : r[j] = IF j < k THEN q[j] ELSE q[j + 1]
    BY RemoveAtType
  <2>6. DOMAIN r = 1..(Len(q) - 1) /\ k \in 1..Len(q) /\ k \in Nat
    BY <1>1, <2>5, LenProperties
  <2> HIDE DEF r
  <2> DEFINE at0(j) == IF j < k THEN j ELSE j + 1
  <2>7. \A j \in DOMAIN r : at0(j) \in DOMAIN q /\ at0(j) # k /\ r[j] = q[at0(j)]
    BY <1>1, <2>5, <2>6
  <2>8. \A i, j \in DOMAIN r : at0(i) = at0(j) => i = j
    BY <1>1, <2>6
  <2>9. \A j \in DOMAIN q : j # k => \E i \in DOMAIN r : at0(i) = j
    <3> SUFFICES ASSUME NEW j \in DOMAIN q, j # k
                 PROVE  \E i \in DOMAIN r : at0(i) = j
      OBVIOUS
    <3>1. CASE j < k
      BY <1>1, <2>6, <3>1
    <3>2. CASE ~(j < k)
      <4>1. j - 1 \in DOMAIN r /\ at0(j - 1) = j
        BY <1>1, <2>6, <3>2
      <4>2. QED
        BY <4>1
    <3>3. QED
      BY <3>1, <3>2
  <2> HIDE DEF at0
  <2>10. \A i, j \in DOMAIN r : r[i] = r[j] => i = j
    BY <2>7, <2>8
  <2>11. \A i \in DOMAIN r : r[i] # t /\ \E j \in DOMAIN q : q[j] = r[i]
    BY <2>3, <2>7
  <2>12. \A j \in DOMAIN q : q[j] # t => \E i \in DOMAIN r : r[i] = q[j]
    BY <2>3, <2>7, <2>9
  <2>13. QED
    BY <2>4, <2>5, <2>10, <2>11, <2>12
<1>4. QED
  BY <1>2, <1>3

\* A task that waits or has a slot is cancelled; its slot stays.
LEMMA CancelFrom ==
  ASSUME NEW a, NEW new, NEW b, From(a, new, b), NEW t \in Victims(b)
  PROVE  From(a, new, CancelTask(b, t))
<1> DEFINE d == CancelTask(b, t)
           q == b.queue
           st == [b.store EXCEPT ![t] = "Cancelled"]
           rn == [b.run EXCEPT ![t] = IF t \in ToSet(q) THEN "over" ELSE b.run[t]]
           tk == [b.token EXCEPT ![t] = TRUE]
           qu == Without(q, t)
           fo == IF b.focus = t THEN Nobody ELSE b.focus
<1>1. b \in BoardType /\ BoardOK(b)
  BY DEF From
<1>2. \A u \in ToSet(q) : u \in b.mine /\ b.run[u] = "queued" /\ u \in Client
  BY <1>1, BoardFields DEF BoardOK, ToSet
<1>3. \A u \in HoldsSlot(b) : u \in b.mine /\ b.run[u] \in Started /\ u \in Client
  BY <1>1, BoardFields DEF HoldsSlot
<1>4. t \in ToSet(q) \union HoldsSlot(b)
  <2>1. q # <<>> => Head(q) \in ToSet(q)
    BY <1>1, BoardFields, TailEffect DEF ToSet
  <2>2. QED
    BY <2>1 DEF Victims
<1>5. /\ t \in Client /\ t \in b.mine
      /\ t \in ToSet(q) => b.run[t] = "queued"
      /\ t \notin ToSet(q) => b.run[t] \in Started
  BY <1>2, <1>3, <1>4
<1>6. /\ qu \in Seq(Client)
      /\ \A i, j \in DOMAIN qu : qu[i] = qu[j] => i = j
      /\ \A i \in DOMAIN qu : qu[i] # t /\ \E j \in DOMAIN q : q[j] = qu[i]
      /\ \A j \in DOMAIN q : q[j] # t => \E i \in DOMAIN qu : qu[i] = q[j]
  BY <1>1, <1>5, BoardFields, WithoutEffect DEF BoardOK
<1>7. d = [b EXCEPT !.store = st, !.queue = qu, !.run = rn, !.token = tk, !.focus = fo]
  BY <1>1 DEF CancelTask, BoardType
<1>8. /\ d.store = st /\ d.run = rn /\ d.queue = qu /\ d.root = b.root
      /\ d.mine = b.mine /\ d.default = b.default
      /\ d \in BoardType
  <2>1. st \in Statuses
    BY <1>1, BoardFields DEF Statuses, Status, Final
  <2>2. rn \in Futures
    BY <1>1, <1>5, BoardFields DEF Futures
  <2>3. tk \in Tokens
    BY <1>1, BoardFields DEF Tokens
  <2>4. qu \in Queues /\ fo \in Someone
    BY <1>1, <1>6, BoardFields DEF Queues, Someone
  <2> HIDE DEF st, rn, tk, qu, fo, d
  <2>5. d \in BoardType
    BY <1>1, <1>7, <2>1, <2>2, <2>3, <2>4 DEF BoardType
  <2>6. QED
    BY <1>1, <1>7, <2>5 DEF BoardType
<1>9. /\ d.store[t] = "Cancelled"
      /\ d.run[t] = IF t \in ToSet(q) THEN "over" ELSE b.run[t]
      /\ \A u \in Client : u # t => d.store[u] = b.store[u] /\ d.run[u] = b.run[u]
  BY <1>1, <1>5, <1>8, BoardFields
<1>10. t \notin ToSet(q) => \A j \in DOMAIN q : q[j] # t
  BY DEF ToSet
<1> HIDE DEF d, st, rn, tk, qu, fo
<1>11. BoardOK(d)
  <2>1. \A i, j \in DOMAIN d.queue : d.queue[i] = d.queue[j] => i = j
    BY <1>6, <1>8
  <2>2. \A i \in DOMAIN d.queue : d.queue[i] \in d.mine /\ d.run[d.queue[i]] = "queued"
    <3> SUFFICES ASSUME NEW i \in DOMAIN qu
                 PROVE  qu[i] \in d.mine /\ d.run[qu[i]] = "queued"
      BY <1>8
    <3>1. PICK j \in DOMAIN q : q[j] = qu[i]
      BY <1>6
    <3>2. qu[i] # t
      BY <1>6
    <3>3. q[j] \in b.mine /\ b.run[q[j]] = "queued" /\ q[j] \in Client
      BY <1>1, BoardFields DEF BoardOK
    <3>4. QED
      BY <1>8, <1>9, <3>1, <3>2, <3>3
  <2>3. ASSUME NEW u \in d.mine, d.run[u] = "queued"
        PROVE  \E i \in DOMAIN d.queue : d.queue[i] = u
    <3>1. u # t /\ u \in b.mine /\ u \in Client
      <4>1. "queued" \notin Started
        BY DEF Started, Final
      <4>2. QED
        BY <1>1, <1>5, <1>8, <1>9, <2>3, <4>1, BoardFields
    <3>2. b.run[u] = "queued"
      BY <1>9, <2>3, <3>1
    <3>3. PICK j \in DOMAIN q : q[j] = u
      BY <1>1, <3>1, <3>2 DEF BoardOK
    <3>4. QED
      BY <1>6, <1>8, <3>1, <3>3
  <2>4. \A u \in d.mine :
          /\ d.run[u] \notin {"none", "over"} => d.root[u] = u
          /\ d.store[u] \in {"Completed", "Failed"} => d.run[u] \in {"none", "over"}
    <3> SUFFICES ASSUME NEW u \in b.mine
                 PROVE  /\ d.run[u] \notin {"none", "over"} => b.root[u] = u
                        /\ d.store[u] \in {"Completed", "Failed"} => d.run[u] \in {"none", "over"}
      BY <1>8
    <3>1. u \in Client
      BY <1>1, BoardFields
    <3>2. /\ b.run[u] \notin {"none", "over"} => b.root[u] = u
          /\ b.store[u] \in {"Completed", "Failed"} => b.run[u] \in {"none", "over"}
      BY <1>1 DEF BoardOK
    <3>3. CASE u = t
      BY <1>9, <3>2, <3>3
    <3>4. CASE u # t
      BY <1>9, <3>1, <3>2, <3>4
    <3>5. QED
      BY <3>3, <3>4
  <2>5. \A u \in Client :
          /\ d.store[u] = "Queued" => u \in d.mine /\ d.run[u] = "queued"
          /\ d.store[u] = "Running" => u \in d.mine /\ d.run[u] \in Started
    BY <1>1, <1>8, <1>9 DEF BoardOK
  <2>6. QED
    BY <2>1, <2>2, <2>3, <2>4, <2>5 DEF BoardOK
<1>12. \A u \in Client \ new :
         (u \notin a.mine \/ a.run[u] \in {"none", "over"})
           => d.store[u] = a.store[u] /\ d.run[u] = a.run[u] /\ d.root[u] = a.root[u]
  <2> SUFFICES ASSUME NEW u \in Client \ new, u \notin a.mine \/ a.run[u] \in {"none", "over"}
               PROVE  d.store[u] = a.store[u] /\ d.run[u] = a.run[u] /\ d.root[u] = a.root[u]
    OBVIOUS
  <2>1. b.store[u] = a.store[u] /\ b.run[u] = a.run[u] /\ b.root[u] = a.root[u] /\ b.mine = a.mine
    BY DEF From
  <2>2. u # t
    BY <1>5, <2>1 DEF Started, Final
  <2>3. QED
    BY <1>8, <1>9, <2>1, <2>2
<1>13. QED
  BY <1>8, <1>11, <1>12 DEF From, d

LEMMA CancelOneFrom ==
  ASSUME NEW a, NEW new, NEW b, From(a, new, b), NEW d \in CancelOne({b})
  PROVE  From(a, new, d)
<1>1. From(a, new, Drained(b))
  BY DrainFrom
<1>2. d \in IF Victims(Drained(b)) = {} THEN {Drained(b)}
            ELSE {CancelTask(Drained(b), t) : t \in Victims(Drained(b))}
  BY OneBoard DEF CancelOne
<1>3. CASE d = Drained(b)
  BY <1>1, <1>3
<1>4. CASE \E t \in Victims(Drained(b)) : d = CancelTask(Drained(b), t)
  BY <1>1, <1>4, CancelFrom
<1>5. QED
  BY <1>2, <1>3, <1>4

-----------------------------------------------------------------------------
(* What a call on the board of one daemon leaves of the others.            *)

\* a is the board of p, whatever root the session has.
IsBoardOf(p, a) ==
  /\ a.store = store[p] /\ a.run = run /\ a.root = root
  /\ a.mine = {c \in Client : peer[c] = p}

LEMMA OwnBoard ==
  ASSUME TypeOK, BoardsInv, NEW p \in Proc, proc[p] = "up", NEW new
  PROVE  /\ IsBoardOf(p, Board(p)) /\ From(Board(p), new, Board(p))
         /\ Board(p).default = default[p]
<1> DEFINE mine == {c \in Client : peer[c] = p}
<1>1. Board(p) = [store |-> store[p], queue |-> queue[p], focus |-> focus[p], run |-> run,
                  token |-> token, root |-> root, mine |-> mine, default |-> default[p]]
  BY DEF Board
<1>2. /\ store[p] \in Statuses /\ queue[p] \in Queues /\ focus[p] \in Someone
      /\ run \in Futures /\ token \in Tokens /\ root \in Roots /\ default[p] \in Someone
      /\ mine \in SUBSET Client
  BY DEF TypeOK, Statuses, Queues, Someone, Futures, Tokens, Roots
<1> HIDE DEF mine
<1>3. Board(p) \in BoardType
  BY <1>1, <1>2 DEF BoardType
<1>4. BoardOK(Board(p))
  BY DEF BoardsInv
<1>5. QED
  BY <1>1, <1>3, <1>4 DEF From, IsBoardOf, mine

\* A request sets the root of the session and nothing else of the board.
LEMMA RootSet ==
  ASSUME TypeOK, BoardsInv, NEW p \in Proc, proc[p] = "up", NEW c \in Client, NEW new
  PROVE  LET a == [Board(p) EXCEPT !.default = c]
         IN  /\ IsBoardOf(p, a) /\ From(a, new, a) /\ a.default = c
             /\ a.queue = queue[p]
<1> DEFINE b == Board(p)
           a == [b EXCEPT !.default = c]
<1>1. IsBoardOf(p, b) /\ b \in BoardType /\ BoardOK(b) /\ b.queue = queue[p]
  BY OwnBoard DEF From, Board
<1> HIDE DEF b
<1>2. c \in Someone
  BY DEF Someone
<1>3. a \in BoardType /\ a.default = c
  BY <1>1, <1>2 DEF BoardType
<1>4. /\ a.store = b.store /\ a.queue = b.queue /\ a.run = b.run /\ a.root = b.root
      /\ a.mine = b.mine
  BY <1>1 DEF BoardType
<1> HIDE DEF a
<1>5. BoardOK(a)
  BY <1>1, <1>4 DEF BoardOK
<1>6. From(a, new, a)
  BY <1>3, <1>5 DEF From
<1>7. IsBoardOf(p, a)
  BY <1>1, <1>4 DEF IsBoardOf
<1>8. QED
  BY <1>1, <1>3, <1>4, <1>6, <1>7 DEF a, b

\* The board of q is one after a step that took none of its tasks away and
\* changed none but running ones.
LEMMA BoardFrame ==
  ASSUME TypeOK, NEW q \in Proc, BoardOK(Board(q)),
         store'[q] = store[q], queue'[q] = queue[q],
         \A t \in Client : peer[t] = q =>
           /\ peer'[t] = q /\ root'[t] = root[t]
           /\ run'[t] = run[t] \/ (run[t] \in Started /\ run'[t] \in Started),
         \A t \in Client : peer'[t] = q /\ peer[t] # q =>
           run'[t] = "none"
  PROVE  BoardOK(Board(q)')
<1> DEFINE a == Board(q)
           b == Board(q)'
<1>1. /\ a.store = store[q] /\ a.queue = queue[q] /\ a.run = run /\ a.root = root
      /\ a.mine = {t \in Client : peer[t] = q}
      /\ b.store = store[q] /\ b.queue = queue[q] /\ b.run = run' /\ b.root = root'
      /\ b.mine = {t \in Client : peer'[t] = q}
  BY DEF Board
<1> HIDE DEF a, b
<1>2. BoardOK(a)
  BY DEF a
<1>3. "queued" \notin Started /\ "none" \notin Started /\ "over" \notin Started
  BY DEF Started, Final
<1>4. \A i \in DOMAIN queue[q] : queue[q][i] \in b.mine /\ b.run[queue[q][i]] = "queued"
  BY <1>1, <1>2, <1>3 DEF BoardOK
<1>5. ASSUME NEW t \in b.mine
      PROVE  /\ b.run[t] = "queued" => \E i \in DOMAIN queue[q] : queue[q][i] = t
             /\ b.run[t] \notin {"none", "over"} => b.root[t] = t
             /\ b.store[t] \in {"Completed", "Failed"} => b.run[t] \in {"none", "over"}
  <2>1. CASE peer[t] = q
    BY <1>1, <1>2, <1>3, <2>1 DEF BoardOK
  <2>2. CASE peer[t] # q
    BY <1>1, <2>2
  <2>3. QED
    BY <2>1, <2>2
<1>6. \A t \in Client :
        /\ b.store[t] = "Queued" => t \in b.mine /\ b.run[t] = "queued"
        /\ b.store[t] = "Running" => t \in b.mine /\ b.run[t] \in Started
  BY <1>1, <1>2, <1>3 DEF BoardOK
<1>7. \A i, j \in DOMAIN b.queue : b.queue[i] = b.queue[j] => i = j
  BY <1>1, <1>2 DEF BoardOK
<1>8. BoardOK(b)
  BY <1>1, <1>4, <1>5, <1>6, <1>7 DEF BoardOK
<1>9. QED
  BY <1>8 DEF b

\* Calls on the board of p that created the tasks of `new` at most.
LEMMA PutEffect ==
  ASSUME TypeOK, BoardsInv, AnswerInv, FileInv, NEW p \in Proc, proc[p] = "up",
         NEW new \in SUBSET Client, \A t \in new : peer[t] = p /\ told[t] = "nothing",
         NEW a, IsBoardOf(p, a), NEW b, From(a, new, b), Put(p, b),
         UNCHANGED <<peer, told, procVars>>
  PROVE  /\ file' \in [Client -> Status] /\ store' \in [Proc -> [Client -> Status]]
         /\ queue' \in [Proc -> Seq(Client)]
         /\ focus' \in [Proc -> Client \union {Nobody}]
         /\ run' \in [Client -> {"none", "queued", "over"} \union Started]
         /\ token' \in [Client -> BOOLEAN] /\ root' \in [Client -> Client \union {Nobody}]
         /\ BoardsInv' /\ FileInv'
         /\ \A t \in Client \ new : run[t] \in {"none", "over"} => run'[t] = run[t]
         /\ \A t \in Client \ new : peer[t] # p => run'[t] = run[t]
<1>1. /\ a.store = store[p] /\ a.run = run /\ a.root = root
      /\ a.mine = {c \in Client : peer[c] = p}
  BY DEF IsBoardOf
<1>2. b \in BoardType /\ BoardOK(b) /\ b.mine = {c \in Client : peer[c] = p}
  BY <1>1 DEF From
<1>3. \A t \in Client \ new :
        (peer[t] # p \/ run[t] \in {"none", "over"})
          => b.store[t] = store[p][t] /\ b.run[t] = run[t] /\ b.root[t] = root[t]
  BY <1>1 DEF From
<1>4. /\ b.store \in [Client -> Status] /\ b.queue \in Seq(Client)
      /\ b.focus \in Client \union {Nobody}
      /\ b.run \in [Client -> {"none", "queued", "over"} \union Started]
      /\ b.token \in [Client -> BOOLEAN] /\ b.root \in [Client -> Client \union {Nobody}]
  BY <1>2, BoardFields
<1>5. /\ store' = [store EXCEPT ![p] = b.store] /\ queue' = [queue EXCEPT ![p] = b.queue]
      /\ focus' = [focus EXCEPT ![p] = b.focus]
      /\ file' = IF b.store = store[p] THEN file ELSE b.store
      /\ run' = b.run /\ token' = b.token /\ root' = b.root
  BY DEF Put
<1>6. /\ store \in [Proc -> [Client -> Status]] /\ queue \in [Proc -> Seq(Client)]
      /\ focus \in [Proc -> Client \union {Nobody}] /\ file \in [Client -> Status]
  BY DEF TypeOK
<1>7. /\ file' \in [Client -> Status] /\ store' \in [Proc -> [Client -> Status]]
      /\ queue' \in [Proc -> Seq(Client)] /\ focus' \in [Proc -> Client \union {Nobody}]
  BY <1>4, <1>5, <1>6
<1>8. /\ store'[p] = b.store /\ queue'[p] = b.queue
      /\ \A q \in Proc \ {p} : store'[q] = store[q] /\ queue'[q] = queue[q]
  BY <1>5, <1>6
<1>9. peer' = peer /\ told' = told /\ proc' = proc /\ rivals' = rivals
  BY DEF procVars
<1>10. BoardsInv'
  <2>1. BoardOK(Board(p)')
    <3>1. /\ Board(p)'.store = b.store /\ Board(p)'.queue = b.queue /\ Board(p)'.run = b.run
          /\ Board(p)'.root = b.root /\ Board(p)'.mine = b.mine
      BY <1>2, <1>5, <1>8, <1>9 DEF Board
    <3>2. QED
      BY <1>2, <3>1 DEF BoardOK
  <2>2. ASSUME NEW q \in Proc, q # p, proc[q] = "up"
        PROVE  BoardOK(Board(q)')
    <3>1. BoardOK(Board(q))
      BY <2>2 DEF BoardsInv
    <3>2. \A t \in Client : peer[t] = q =>
            peer'[t] = q /\ root'[t] = root[t] /\ run'[t] = run[t]
      BY <1>3, <1>5, <1>9, <2>2
    <3>3. QED
      BY <1>8, <1>9, <2>2, <3>1, <3>2, BoardFrame
  <2>3. \A q \in Proc : proc'[q] # "up" => queue'[q] = <<>>
    BY <1>8, <1>9 DEF BoardsInv
  <2>4. QED
    BY <1>9, <2>1, <2>2, <2>3 DEF BoardsInv
<1>11. FileInv'
  <2> SUFFICES ASSUME ~rivals
               PROVE  /\ \A q, r \in Proc : Alive(q)' /\ Alive(r)' => q = r
                      /\ \A q \in Proc : proc'[q] = "up" => store'[q] = file'
                      /\ \A c \in Client : told'[c] \in {"Completed", "Failed"}
                                             => file'[c] = told'[c]
    BY <1>9 DEF FileInv
  <2>1. /\ \A q, r \in Proc : Alive(q) /\ Alive(r) => q = r
        /\ store[p] = file
        /\ \A c \in Client : told[c] \in {"Completed", "Failed"} => file[c] = told[c]
    BY DEF FileInv
  <2>2. file' = b.store
    BY <1>5, <2>1
  <2>3. \A q, r \in Proc : Alive(q)' /\ Alive(r)' => q = r
    BY <1>9, <2>1 DEF Alive
  <2>4. \A q \in Proc : proc'[q] = "up" => q = p
    BY <1>9, <2>1 DEF Alive
  <2>5. ASSUME NEW c \in Client, told[c] \in {"Completed", "Failed"}
        PROVE  b.store[c] = told[c]
    <3>1. run[c] \in {"none", "over"} /\ c \notin new
      BY <2>5 DEF AnswerInv
    <3>2. QED
      BY <1>3, <2>1, <2>5, <3>1
  <2>6. QED
    BY <1>8, <1>9, <2>2, <2>3, <2>4, <2>5
<1>12. QED
  BY <1>3, <1>4, <1>5, <1>7, <1>10, <1>11

\* The client whose board is idle has no future left.
LEMMA IdleBoard ==
  ASSUME NEW b, BoardOK(b), b \in BoardType, NEW c \in b.mine, Idle(b)
  PROVE  b.run[c] \in {"none", "over"}
<1>1. b.run[c] \in {"none", "queued", "over"} \union Started
  BY BoardFields
<1>2. b.run[c] # "queued"
  BY DEF BoardOK, Idle
<1>3. b.run[c] \notin Started
  BY DEF Idle, HoldsSlot
<1>4. QED
  BY <1>1, <1>2, <1>3

-----------------------------------------------------------------------------
(* The mutexes.                                                            *)

Waiter == Client \union {Timer} \union {<<t>> : t \in Client}
Locks == [Proc -> [Mutex -> Seq(Waiter)]]

\* To wait for a mutex takes it from nobody.
LEMMA WaitForEffect ==
  ASSUME TypeOK, NEW p \in Proc, NEW m \in Mutex, NEW x \in Waiter, WaitFor(p, m, x)
  PROVE  /\ lock' \in Locks
         /\ \A q \in Proc : \A y : Holds(q, "session", y) => Holds(q, "session", y)'
<1>1. lock \in Locks
  BY DEF TypeOK, Locks, Waiter
<1>2. lock' = [lock EXCEPT ![p][m] = Append(lock[p][m], x)]
  BY <1>1 DEF WaitFor, Locks
<1>3. lock[p][m] \in Seq(Waiter)
  BY <1>1 DEF Locks
<1>4. Append(lock[p][m], x) \in Seq(Waiter) /\ Append(lock[p][m], x) # <<>>
      /\ (lock[p][m] # <<>> => Head(Append(lock[p][m], x)) = Head(lock[p][m]))
  BY <1>3, AppendProperties, HeadTailProperties
<1> DEFINE s == Append(lock[p][m], x)
<1> HIDE DEF s
<1>5. lock' \in Locks
  BY <1>1, <1>2, <1>4 DEF Locks, s
<1>6. \A q \in Proc : lock'[q]["session"] = IF q = p /\ m = "session" THEN s ELSE lock[q]["session"]
  BY <1>1, <1>2 DEF Locks, s, Mutex
<1>7. QED
  BY <1>4, <1>5, <1>6 DEF Holds, s, Mutex

\* Who lets go takes no mutex from another.
LEMMA ReleaseEffect ==
  ASSUME TypeOK, NEW p \in Proc, NEW ms, NEW x, Release(p, ms, x)
  PROVE  /\ lock' \in Locks
         /\ \A q \in Proc : \A y :
              Holds(q, "session", y) /\ (q # p \/ y # x \/ "session" \notin ms)
                => Holds(q, "session", y)'
<1>1. lock \in Locks
  BY DEF TypeOK, Locks, Waiter
<1> DEFINE row == [m \in Mutex |-> IF m \in ms /\ Holds(p, m, x) THEN Tail(lock[p][m])
                                   ELSE lock[p][m]]
<1>2. lock' = [lock EXCEPT ![p] = row]
  BY <1>1 DEF Release, Locks
<1>3. \A m \in Mutex : lock[p][m] \in Seq(Waiter)
  BY <1>1 DEF Locks
<1>4. \A m \in Mutex : row[m] \in Seq(Waiter)
  BY <1>3, TailEffect DEF Holds
<1>5. row \in [Mutex -> Seq(Waiter)]
  BY <1>4
<1>6. row["session"] = IF "session" \in ms /\ Holds(p, "session", x) THEN Tail(lock[p]["session"])
                       ELSE lock[p]["session"]
  BY DEF Mutex
<1> HIDE DEF row
<1>7. lock' \in Locks
  BY <1>1, <1>2, <1>5 DEF Locks
<1>8. \A q \in Proc : lock'[q] = IF q = p THEN row ELSE lock[q]
  BY <1>1, <1>2 DEF Locks
<1>9. QED
  BY <1>6, <1>7, <1>8 DEF Holds

-----------------------------------------------------------------------------
(* The handlers.                                                           *)

Asking == {"asking", "asking again"}

\* The handler of c moves on to `place`: what keeps the invariant, once the
\* boards and the file are in order.
LEMMA Moves ==
  ASSUME DaemonInv, TypeOK', BoardsInv', FileInv',
         NEW c \in Client, peer[c] \in Proc, proc[peer[c]] = "up",
         NEW place \in Handled \union {"answered"}, GoTo(c, place),
         UNCHANGED <<kind, peer, told, procVars>>,
         kind[c] = "view" => place \in {"first", "write", "exit", "answered"},
         \A t \in Client \ {c} : run[t] \in {"none", "over"} => run'[t] = run[t],
         \A t \in Client \ {c} : idle'[t] = idle[t] /\ late'[t] = late[t],
         late[c] => late'[c],
         run'[c] # "none" => place \notin {"first", "second"} \union Asking,
         idle'[c] => run'[c] \in {"none", "over"},
         place = "report" /\ ~late'[c] => idle'[c],
         told[c] = "nothing" \/ (place \in {"write", "answered"} /\ run'[c] = run[c]),
         place \in InSession => Holds(peer[c], "session", c)',
         place \in Asking => default'[peer[c]] = c,
         \A d \in Client \ {c} : at[d] \in InSession => Holds(peer[d], "session", d)',
         \A d \in Client \ {c} : at[d] \in Asking => default'[peer[d]] = default[peer[d]]
  PROVE  DaemonInv'
<1>1. /\ at' = [at EXCEPT ![c] = place] /\ at \in [Client -> Place]
      /\ kind' = kind /\ peer' = peer /\ told' = told /\ proc' = proc
  BY DEF GoTo, DaemonInv, TypeOK, procVars
<1>2. at'[c] = place /\ \A d \in Client \ {c} : at'[d] = at[d]
  BY <1>1
<1>3. PlaceInv'
  <2> SUFFICES ASSUME NEW d \in Client
               PROVE  /\ at'[d] \in Unconnected => peer[d] = Nobody
                      /\ at'[d] = "sent" => peer[d] \in Proc /\ proc[peer[d]] \in {"bound", "up"}
                      /\ at'[d] \in Handled => peer[d] \in Proc /\ proc[peer[d]] = "up"
                      /\ at'[d] \in {"second", "again", "snapshot", "wait", "asking",
                                     "asking again", "report"} => kind[d] # "view"
    BY <1>1 DEF PlaceInv
  <2>1. CASE d = c
    BY <1>2, <2>1 DEF Handled, Unconnected
  <2>2. CASE d # c
    BY <1>2, <2>2 DEF DaemonInv, PlaceInv
  <2>3. QED
    BY <2>1, <2>2
<1>4. SessionInv'
  <2> SUFFICES ASSUME NEW d \in Client
               PROVE  /\ at'[d] \in InSession => Holds(peer[d], "session", d)'
                      /\ at'[d] \in Asking => default'[peer[d]] = d
    BY <1>1 DEF SessionInv, Asking
  <2>1. CASE d = c
    BY <1>1, <1>2, <2>1
  <2>2. CASE d # c
    BY <1>1, <1>2, <2>2 DEF DaemonInv, SessionInv, Asking
  <2>3. QED
    BY <2>1, <2>2
<1>5. RunInv'
  <2> SUFFICES ASSUME NEW t \in Client, run'[t] # "none"
               PROVE  /\ peer[t] \in Proc /\ proc[peer[t]] = "up"
                      /\ at'[t] \notin Unconnected \union {"sent", "first", "second",
                                                           "asking", "asking again"}
    BY <1>1 DEF RunInv
  <2>1. CASE t = c
    BY <1>2, <2>1 DEF Handled, Asking, Unconnected
  <2>2. CASE t # c
    BY <1>2, <2>2 DEF DaemonInv, RunInv
  <2>3. QED
    BY <2>1, <2>2
<1>6. AnswerInv' /\ WaitedReplyIsSettled'
  <2> SUFFICES ASSUME NEW d \in Client
               PROVE  /\ idle'[d] => run'[d] \in {"none", "over"}
                      /\ at'[d] = "report" /\ ~late'[d] => idle'[d]
                      /\ told[d] # "nothing" => at'[d] \in {"write", "answered", "failed"}
                      /\ told[d] \in {"Completed", "Failed"} => run'[d] \in {"none", "over"}
                      /\ told[d] \in {"Queued", "Running"} => late'[d]
    BY <1>1 DEF AnswerInv, WaitedReplyIsSettled
  <2>1. CASE d = c
    BY <1>2, <2>1 DEF DaemonInv, AnswerInv, WaitedReplyIsSettled
  <2>2. CASE d # c
    BY <1>2, <2>2 DEF DaemonInv, AnswerInv, WaitedReplyIsSettled
  <2>3. QED
    BY <2>1, <2>2
<1>7. QED
  BY <1>3, <1>4, <1>5, <1>6 DEF DaemonInv

\* The session mutex has one holder.
LEMMA OneInSession ==
  ASSUME SessionInv, NEW c \in Client, Holds(peer[c], "session", c)
  PROVE  \A d \in Client \ {c} : at[d] \in InSession => peer[d] # peer[c]
BY DEF SessionInv, Holds

\* A step that leaves the boards alone leaves the file alone.
LEMMA BoardsKept ==
  ASSUME BoardsInv, FileInv, UNCHANGED <<boardVars, peer, procVars, told, default>>
  PROVE  BoardsInv' /\ FileInv'
<1>1. /\ store' = store /\ queue' = queue /\ file' = file /\ run' = run /\ root' = root
      /\ focus' = focus /\ token' = token
      /\ peer' = peer /\ told' = told /\ proc' = proc /\ rivals' = rivals /\ default' = default
  BY DEF boardVars, procVars
<1>2. BoardsInv'
  BY <1>1 DEF BoardsInv, Board
<1>3. FileInv'
  BY <1>1 DEF FileInv, Alive
<1>4. QED
  BY <1>2, <1>3

\* The same for a handler that only takes or leaves mutexes.
LEMMA Waits ==
  ASSUME DaemonInv, NEW c \in Client, peer[c] \in Proc, proc[peer[c]] = "up",
         NEW place \in Handled \union {"answered"}, GoTo(c, place),
         UNCHANGED <<idle, told, boardVars, default, kind, peer, procVars, timer>>,
         kind[c] = "view" => place \in {"first", "write", "exit", "answered"},
         late' \in [Client -> BOOLEAN], late[c] => late'[c],
         \A t \in Client \ {c} : late'[t] = late[t],
         run[c] # "none" => place \notin {"first", "second"} \union Asking,
         place = "report" /\ ~late'[c] => idle[c],
         told[c] = "nothing" \/ place \in {"write", "answered"},
         lock' \in Locks,
         place \in InSession => Holds(peer[c], "session", c)',
         place \in Asking => default[peer[c]] = c,
         \A d \in Client \ {c} : at[d] \in InSession => Holds(peer[d], "session", d)'
  PROVE  DaemonInv'
<1>1. BoardsInv' /\ FileInv'
  BY BoardsKept DEF DaemonInv
<1>2. TypeOK'
  <2>1. place \in Place
    BY DEF Handled, Place
  <2>2. at' \in [Client -> Place]
    BY <2>1 DEF DaemonInv, TypeOK, GoTo
  <2>3. QED
    BY <2>2 DEF DaemonInv, TypeOK, boardVars, procVars, Locks, Waiter
<1>3. run' = run /\ idle' = idle /\ default' = default
  BY DEF boardVars
<1>4. idle[c] => run[c] \in {"none", "over"}
  BY DEF DaemonInv, AnswerInv
<1>5. QED
  BY <1>1, <1>2, <1>3, <1>4, Moves

LEMMA AcceptKeeps ==
  ASSUME DaemonInv, NEW c \in Client, Accept(c)
  PROVE  DaemonInv'
<1>1. /\ at[c] = "sent" /\ peer[c] \in Proc /\ proc[peer[c]] = "up"
      /\ told[c] = "nothing" /\ run[c] = "none" /\ late' = late
      /\ UNCHANGED <<idle, told, boardVars, default, kind, peer, procVars, timer>>
  BY DEF Accept, Handler, Quiet, DaemonInv, PlaceInv, AnswerInv, RunInv
<1>2. /\ late' \in [Client -> BOOLEAN] /\ lock \in Locks
      /\ \A d \in Client : at[d] \in InSession => Holds(peer[d], "session", d)
                                                  /\ peer[d] \in Proc
  BY <1>1 DEF DaemonInv, TypeOK, SessionInv, Locks, Waiter, PlaceInv, InSession, Handled,
              Place, Unconnected
<1>3. CASE kind[c] = "shutdown"
  <2>1. GoTo(c, "exit") /\ lock' = lock
    BY <1>3 DEF Accept
  <2>2. \A d \in Client \ {c} : at[d] \in InSession => Holds(peer[d], "session", d)'
    BY <1>1, <1>2, <2>1 DEF Holds
  <2>3. "exit" \in Handled \ (InSession \union Asking)
    BY DEF Handled, Place, Unconnected, InSession, Asking
  <2>4. QED
    BY <1>1, <1>2, <2>1, <2>2, <2>3, Waits
<1>4. CASE kind[c] # "shutdown"
  <2>1. GoTo(c, "first") /\ WaitFor(peer[c], FirstLock(c), c)
    BY <1>4 DEF Accept
  <2>2. FirstLock(c) \in Mutex /\ c \in Waiter
    BY DEF FirstLock, Mutex, Waiter
  <2>3. /\ lock' \in Locks
        /\ \A q \in Proc : \A y : Holds(q, "session", y) => Holds(q, "session", y)'
    BY <1>1, <2>1, <2>2, WaitForEffect DEF DaemonInv
  <2>4. \A d \in Client \ {c} : at[d] \in InSession => Holds(peer[d], "session", d)'
    BY <1>1, <1>2, <2>3 DEF Holds
  <2>5. "first" \in Handled \ (InSession \union Asking)
    BY DEF Handled, Place, Unconnected, InSession, Asking
  <2>6. QED
    BY <1>1, <1>2, <2>1, <2>3, <2>4, <2>5, Waits
<1>5. QED
  BY <1>3, <1>4

\* What a handler past the accepted line can rely on.
LEMMA InHandler ==
  ASSUME DaemonInv, NEW c \in Client, at[c] \in Handled
  PROVE  /\ peer[c] \in Proc /\ proc[peer[c]] = "up"
         /\ told[c] # "nothing" => at[c] = "write"
         /\ at[c] \in {"first", "second"} \union Asking => run[c] = "none"
         /\ lock \in Locks /\ late \in [Client -> BOOLEAN] /\ idle \in [Client -> BOOLEAN]
         /\ \A d \in Client : at[d] \in InSession => /\ Holds(peer[d], "session", d)
                                                     /\ peer[d] \in Proc
<1>1. InSession \subseteq Handled
  BY DEF InSession, Handled, Place, Unconnected
<1>2. at[c] \notin {"answered", "failed"}
  BY DEF Handled
<1>3. QED
  BY <1>1, <1>2 DEF DaemonInv, TypeOK, PlaceInv, AnswerInv, RunInv, SessionInv, Locks, Waiter, Asking

\* The places of a handler, for the steps below.
LEMMA Places ==
  /\ {"first", "second", "again", "snapshot", "asking", "asking again", "wait", "report",
      "write", "exit"} = Handled
  /\ {"wait", "report", "write", "answered", "again", "first"}
       \intersect (InSession \union Asking) = {}
  /\ Asking \subseteq InSession
BY DEF Handled, Place, Unconnected, InSession, Asking

LEMMA SecondKeeps ==
  ASSUME DaemonInv, NEW c \in Client, Second(c)
  PROVE  DaemonInv'
<1> DEFINE place == IF at[c] = "first" THEN "second" ELSE "snapshot"
<1>1. /\ at[c] \in {"first", "again"} /\ kind[c] # "view" /\ late' = late
      /\ Holds(peer[c], "session", c) /\ WaitFor(peer[c], "store", c) /\ GoTo(c, place)
      /\ UNCHANGED <<idle, told, boardVars, default, kind, peer, procVars, timer>>
  BY DEF Second, Quiet, FirstLock, Other
<1>2. at[c] \in Handled /\ place \in Handled \ Asking /\ place \notin {"report", "first"}
  BY <1>1, Places DEF Asking
<1>3. "store" \in Mutex /\ c \in Waiter
  BY DEF Mutex, Waiter
<1>4. /\ lock' \in Locks
      /\ \A q \in Proc : \A y : Holds(q, "session", y) => Holds(q, "session", y)'
  BY <1>1, <1>2, <1>3, WaitForEffect, InHandler DEF DaemonInv
<1>5. /\ Holds(peer[c], "session", c)'
      /\ \A d \in Client \ {c} : at[d] \in InSession => Holds(peer[d], "session", d)'
  BY <1>1, <1>2, <1>4, InHandler DEF Holds
<1>6. run[c] # "none" => place # "second"
  BY <1>1, <1>2, InHandler
<1> HIDE DEF place
<1>7. /\ peer[c] \in Proc /\ proc[peer[c]] = "up" /\ told[c] = "nothing"
      /\ late' \in [Client -> BOOLEAN]
  BY <1>1, <1>2, InHandler
<1>8. QED
  BY <1>1, <1>2, <1>4, <1>5, <1>6, <1>7, Waits

LEMMA WaitKeeps ==
  ASSUME DaemonInv, NEW c \in Client, Wait(c)
  PROVE  DaemonInv'
<1>1. /\ at[c] = "wait"
      /\ UNCHANGED <<idle, told, boardVars, default, kind, peer, procVars, timer>>
  BY DEF Wait, Handler, Quiet
<1>2. /\ at[c] \in Handled /\ kind[c] # "view" /\ peer[c] \in Proc /\ proc[peer[c]] = "up"
      /\ told[c] = "nothing" /\ late \in [Client -> BOOLEAN] /\ c \in Waiter
  BY <1>1, Places, InHandler DEF DaemonInv, PlaceInv, Waiter
<1>3. ASSUME NEW m \in Mutex, WaitFor(peer[c], m, c)
      PROVE  /\ lock' \in Locks
             /\ \A d \in Client \ {c} : at[d] \in InSession => Holds(peer[d], "session", d)'
  <2>1. /\ lock' \in Locks
        /\ \A q \in Proc : \A y : Holds(q, "session", y) => Holds(q, "session", y)'
    BY <1>2, <1>3, WaitForEffect DEF DaemonInv
  <2>2. QED
    BY <1>1, <1>2, <2>1, InHandler DEF Holds
<1>4. CASE /\ idle[c] \/ late[c]
           /\ GoTo(c, "report") /\ WaitFor(peer[c], "store", c) /\ late' = late
  <2>1. /\ lock' \in Locks
        /\ \A d \in Client \ {c} : at[d] \in InSession => Holds(peer[d], "session", d)'
    BY <1>3, <1>4 DEF Mutex
  <2>2. "report" \in Handled /\ "report" \notin InSession \union Asking
    BY Places
  <2>3. QED
    BY <1>1, <1>2, <1>4, <2>1, <2>2, Waits
<1>5. CASE /\ late' \in {late, [late EXCEPT ![c] = TRUE]}
           /\ GoTo(c, "again") /\ WaitFor(peer[c], "session", c)
  <2>1. /\ lock' \in Locks
        /\ \A d \in Client \ {c} : at[d] \in InSession => Holds(peer[d], "session", d)'
    BY <1>3, <1>5 DEF Mutex
  <2>2. "again" \in Handled /\ "again" \notin InSession \union Asking
    BY Places
  <2>3. /\ late' \in [Client -> BOOLEAN] /\ (late[c] => late'[c])
        /\ \A t \in Client \ {c} : late'[t] = late[t]
    BY <1>2, <1>5
  <2>4. QED
    BY <1>1, <1>2, <1>5, <2>1, <2>2, <2>3, Waits
<1>6. QED
  BY <1>4, <1>5 DEF Wait

LEMMA ViewKeeps ==
  ASSUME DaemonInv, NEW c \in Client, View(c)
  PROVE  DaemonInv'
<1>1. /\ at[c] = "first" /\ GoTo(c, "write") /\ late' = late /\ lock' = lock
      /\ UNCHANGED <<idle, told, boardVars, default, kind, peer, procVars, timer>>
  BY DEF View, Handler, Quiet
<1>2. at[c] \in Handled /\ "write" \in Handled /\ "write" \notin InSession \union Asking
  BY <1>1, Places
<1>3. \A d \in Client \ {c} : at[d] \in InSession => Holds(peer[d], "session", d)'
  BY <1>1, <1>2, InHandler DEF Holds
<1>4. /\ peer[c] \in Proc /\ proc[peer[c]] = "up" /\ lock' \in Locks
      /\ late' \in [Client -> BOOLEAN] /\ told[c] = "nothing"
  BY <1>1, <1>2, InHandler
<1>5. QED
  BY <1>1, <1>2, <1>3, <1>4, Waits

LEMMA WriteKeeps ==
  ASSUME DaemonInv, NEW c \in Client, Write(c)
  PROVE  DaemonInv'
<1>1. /\ at[c] = "write" /\ GoTo(c, "answered") /\ late' = late /\ Release(peer[c], Both, c)
      /\ UNCHANGED <<idle, told, boardVars, default, kind, peer, procVars, timer>>
  BY DEF Write, Handler, Quiet
<1>2. at[c] \in Handled /\ "answered" \notin InSession \union Asking
  BY <1>1, Places
<1>3. /\ lock' \in Locks
      /\ \A q \in Proc : \A y : Holds(q, "session", y) /\ y # c => Holds(q, "session", y)'
  BY <1>1, <1>2, InHandler, ReleaseEffect DEF DaemonInv
<1>4. \A d \in Client \ {c} : at[d] \in InSession => Holds(peer[d], "session", d)'
  BY <1>1, <1>2, <1>3, InHandler DEF Holds
<1>5. /\ peer[c] \in Proc /\ proc[peer[c]] = "up" /\ late' \in [Client -> BOOLEAN]
  BY <1>1, <1>2, InHandler
<1>6. QED
  BY <1>1, <1>2, <1>3, <1>4, <1>5, Waits

\* Asked again, the turn waits for the scheduler behind the others.
LEMMA TurnRetriesKeeps ==
  ASSUME DaemonInv, NEW c \in Client, TurnRetries(c)
  PROVE  DaemonInv'
<1>1. /\ at[c] = "asking" /\ GoTo(c, "asking again") /\ late' = late
      /\ Holds(peer[c], "sched", c)
      /\ lock' = [lock EXCEPT ![peer[c]].sched = Append(Tail(@), c)]
      /\ UNCHANGED <<idle, told, boardVars, default, kind, peer, procVars, timer>>
  BY DEF TurnRetries, Handler, Quiet
<1>2. /\ at[c] \in Handled \intersect InSession /\ "asking again" \in Handled
      /\ peer[c] \in Proc /\ proc[peer[c]] = "up" /\ told[c] = "nothing"
      /\ run[c] = "none" /\ late \in [Client -> BOOLEAN] /\ lock \in Locks
  BY <1>1, Places, InHandler DEF InSession, Asking
<1>3. /\ default[peer[c]] = c /\ kind[c] # "view"
  BY <1>1 DEF DaemonInv, SessionInv, PlaceInv
<1> DEFINE s == Append(Tail(lock[peer[c]]["sched"]), c)
<1>4. s \in Seq(Waiter)
  <2>1. lock[peer[c]]["sched"] \in Seq(Waiter) /\ lock[peer[c]]["sched"] # <<>>
    BY <1>1, <1>2 DEF Locks, Mutex, Holds
  <2>2. Tail(lock[peer[c]]["sched"]) \in Seq(Waiter) /\ c \in Waiter
    BY <2>1, TailEffect DEF Waiter
  <2>3. QED
    BY <2>2, AppendProperties
<1>5. lock' = [lock EXCEPT ![peer[c]]["sched"] = s]
  BY <1>1, <1>2 DEF Locks
<1> HIDE DEF s
<1>6. lock' \in Locks /\ \A q \in Proc : lock'[q]["session"] = lock[q]["session"]
  BY <1>2, <1>4, <1>5 DEF Locks, Mutex
<1>7. \A d \in Client : at[d] \in InSession => Holds(peer[d], "session", d)'
  <2>1. peer' = peer
    BY <1>1
  <2>2. \A d \in Client : at[d] \in InSession => /\ Holds(peer[d], "session", d)
                                                  /\ peer[d] \in Proc
    BY <1>2, InHandler
  <2>3. QED
    BY <1>6, <2>1, <2>2 DEF Holds
<1>8. QED
  BY <1>1, <1>2, <1>3, <1>6, <1>7, Waits

\* What is read under the store mutex after an idle snapshot, or after the
\* deadline.
LEMMA ReportKeeps ==
  ASSUME DaemonInv, NEW c \in Client, Report(c)
  PROVE  DaemonInv'
<1> DEFINE p == peer[c]
           s == store[p][c]
<1>1. /\ at[c] = "report" /\ GoTo(c, "write") /\ Release(p, {"store"}, c)
      /\ told' = [told EXCEPT ![c] = s]
      /\ kind' = kind /\ peer' = peer /\ idle' = idle /\ late' = late /\ timer' = timer
      /\ default' = default /\ proc' = proc /\ path' = path /\ rivals' = rivals
      /\ file' = file /\ store' = store /\ queue' = queue /\ focus' = focus
      /\ run' = run /\ token' = token /\ root' = root
  BY DEF Report, Handler, Quiet, boardVars, procVars
<1>2. /\ at[c] \in Handled /\ "write" \notin InSession \union Asking
      /\ p \in Proc /\ proc[p] = "up" /\ TypeOK
  BY <1>1, Places, InHandler DEF DaemonInv
<1>3. /\ lock' \in Locks
      /\ \A q \in Proc : \A y : Holds(q, "session", y) => Holds(q, "session", y)'
  BY <1>1, <1>2, ReleaseEffect
<1>4. /\ at' \in [Client -> Place] /\ at'[c] = "write"
      /\ \A d \in Client \ {c} : at'[d] = at[d]
  BY <1>1, <1>2, Places DEF GoTo, TypeOK, Handled
<1>5. BoardOK(Board(p))
  BY <1>2 DEF DaemonInv, BoardsInv
<1>6. /\ s \in {"Completed", "Failed"} => run[c] \in {"none", "over"}
      /\ s = "Queued" => run[c] = "queued"
      /\ s = "Running" => run[c] \in Started
  BY <1>5 DEF BoardOK, Board
<1>7. s \in Status /\ told \in [Client -> Status \union {"nothing"}]
  BY <1>2 DEF TypeOK
<1>8. ~late[c] => run[c] \in {"none", "over"}
  BY <1>1 DEF DaemonInv, AnswerInv
<1> HIDE DEF s
<1>9. /\ told' \in [Client -> Status \union {"nothing"}] /\ told'[c] = s
      /\ \A d \in Client \ {c} : told'[d] = told[d]
  BY <1>1, <1>7
<1>10. TypeOK'
  BY <1>1, <1>2, <1>3, <1>4, <1>9 DEF TypeOK, Locks, Waiter
<1>11. PlaceInv'
  BY <1>1, <1>2, <1>4 DEF DaemonInv, PlaceInv, Unconnected
<1>12. SessionInv'
  <2>1. \A d \in Client : at'[d] \in InSession => d # c /\ at'[d] = at[d]
    BY <1>2, <1>4
  <2>2. \A d \in Client : at[d] \in InSession => Holds(peer[d], "session", d) /\ peer[d] \in Proc
    BY <1>2, InHandler
  <2>3. \A d \in Client : at'[d] \in InSession => Holds(peer[d], "session", d)'
    BY <1>1, <1>3, <2>1, <2>2 DEF Holds
  <2>4. QED
    BY <1>1, <1>4, <2>3 DEF DaemonInv, SessionInv
<1>13. RunInv'
  BY <1>1, <1>4 DEF DaemonInv, RunInv, Unconnected
<1>14. BoardsInv'
  BY <1>1 DEF DaemonInv, BoardsInv, Board
<1>15. "queued" \notin Started /\ "none" \notin Started /\ "over" \notin Started
  BY DEF Started, Final
<1>16. AnswerInv' /\ WaitedReplyIsSettled'
  BY <1>1, <1>4, <1>6, <1>8, <1>9, <1>15 DEF DaemonInv, AnswerInv, WaitedReplyIsSettled
<1>17. FileInv'
  <2>1. ~rivals => s = file[c]
    BY <1>2 DEF DaemonInv, FileInv, s
  <2>2. QED
    BY <1>1, <1>9, <2>1 DEF DaemonInv, FileInv, Alive
<1>18. QED
  BY <1>10, <1>11, <1>12, <1>13, <1>14, <1>16, <1>17 DEF DaemonInv

-----------------------------------------------------------------------------
(* The handlers that call the board.                                       *)

\* A handler that holds the session puts a board back.
LEMMA Puts ==
  ASSUME DaemonInv, NEW c \in Client, at[c] \in Handled \ {"write"}, kind[c] # "view",
         NEW new \in SUBSET {c}, Holds(peer[c], "session", c),
         NEW a, IsBoardOf(peer[c], a), NEW b, From(a, new, b), Put(peer[c], b),
         UNCHANGED <<kind, peer, late, told, procVars, timer>>,
         NEW place \in Handled \ {"first", "second", "report"}, GoTo(c, place),
         \A d \in Client \ {c} : idle'[d] = idle[d], idle' \in [Client -> BOOLEAN],
         idle'[c] => Idle(b) \/ (idle[c] /\ new = {}),
         run'[c] # "none" => place \notin Asking,
         default' \in [Proc -> Client \union {Nobody}],
         \A p \in Proc \ {peer[c]} : default'[p] = default[p],
         place \in Asking => default'[peer[c]] = c,
         lock' \in Locks,
         \A q \in Proc : \A y : Holds(q, "session", y) /\ (y # c \/ place \in InSession)
                              => Holds(q, "session", y)'
  PROVE  DaemonInv'
<1> DEFINE p == peer[c]
<1>1. /\ p \in Proc /\ proc[p] = "up" /\ told[c] = "nothing"
      /\ late \in [Client -> BOOLEAN] /\ TypeOK /\ BoardsInv /\ AnswerInv /\ FileInv
  BY InHandler DEF DaemonInv
<1>2. /\ kind' = kind /\ peer' = peer /\ late' = late /\ told' = told /\ timer' = timer
      /\ proc' = proc /\ path' = path /\ rivals' = rivals
  BY DEF procVars
<1>3. \A t \in new : peer[t] = p /\ told[t] = "nothing"
  BY <1>1
<1>4. new \in SUBSET Client
  OBVIOUS
<1>5. /\ file' \in [Client -> Status] /\ store' \in [Proc -> [Client -> Status]]
      /\ queue' \in [Proc -> Seq(Client)]
      /\ focus' \in [Proc -> Client \union {Nobody}]
      /\ run' \in [Client -> {"none", "queued", "over"} \union Started]
      /\ token' \in [Client -> BOOLEAN] /\ root' \in [Client -> Client \union {Nobody}]
      /\ BoardsInv' /\ FileInv'
      /\ \A t \in Client \ new : run[t] \in {"none", "over"} => run'[t] = run[t]
  BY <1>1, <1>3, <1>4, PutEffect
<1>6. at' \in [Client -> Place]
  BY <1>1 DEF TypeOK, GoTo, Handled
<1>7. TypeOK'
  BY <1>1, <1>2, <1>5, <1>6 DEF TypeOK, Locks, Waiter
<1>8. \A d \in Client \ {c} : at[d] \in InSession => /\ Holds(peer[d], "session", d)'
                                                     /\ peer[d] \in Proc \ {p}
  BY <1>1, <1>2, InHandler, OneInSession DEF DaemonInv, Holds
<1>9. \A d \in Client \ {c} : at[d] \in Asking => default'[peer[d]] = default[peer[d]]
  BY <1>8, Places
<1>10. place \in InSession => Holds(peer[c], "session", c)'
  BY <1>1, <1>2 DEF Holds
<1>11. idle'[c] => run'[c] \in {"none", "over"}
  <2>1. CASE Idle(b)
    <3>1. b \in BoardType /\ BoardOK(b) /\ c \in b.mine
      BY DEF From, IsBoardOf
    <3>2. run' = b.run
      BY DEF Put
    <3>3. QED
      BY <2>1, <3>1, <3>2, IdleBoard
  <2>2. CASE idle[c] /\ new = {}
    BY <1>1, <1>5, <2>2 DEF AnswerInv
  <2>3. QED
    BY <2>1, <2>2
<1>12. \A t \in Client \ {c} : run[t] \in {"none", "over"} => run'[t] = run[t]
  BY <1>5
<1>13. QED
  BY <1>1, <1>2, <1>5, <1>7, <1>8, <1>9, <1>10, <1>11, <1>12, Moves

\* The holder of the session, with or without the store.
LEMMA HoldsSession ==
  ASSUME DaemonInv, NEW c \in Client, at[c] \in InSession
  PROVE  /\ Holds(peer[c], "session", c) /\ at[c] \in Handled \ {"write"}
         /\ peer[c] \in Proc /\ proc[peer[c]] = "up" /\ TypeOK /\ BoardsInv /\ c \in Waiter
         /\ kind[c] # "view"
         /\ idle \in [Client -> BOOLEAN] /\ default \in [Proc -> Client \union {Nobody}]
<1>1. at[c] \in Handled \ {"write"}
  BY DEF InSession, Handled, Place, Unconnected
<1>2. QED
  BY <1>1 DEF DaemonInv, TypeOK, PlaceInv, SessionInv, InSession, Waiter

LEMMA SendKeeps ==
  ASSUME DaemonInv, NEW c \in Client, Send(c)
  PROVE  DaemonInv'
<1> DEFINE p == peer[c]
           a == [Board(p) EXCEPT !.default = c]
           b == Drained(Created(Drained(a), c))
<1>1. /\ at[c] = "second" /\ GoTo(c, "wait") /\ Put(p, b) /\ Release(p, Both, c)
      /\ default' = [default EXCEPT ![p] = c] /\ idle' = [idle EXCEPT ![c] = Idle(b)]
      /\ UNCHANGED <<kind, peer, late, told, procVars, timer>>
  <2>1. Drain(Create(Drain({a}), c)) = {b}
    <3>1. Drain({a}) = {Drained(a)}
      BY OneBoard
    <3>2. Create({Drained(a)}, c) = {Created(Drained(a), c)}
      BY OneBoard
    <3>3. Drain({Created(Drained(a), c)}) = {b}
      BY OneBoard
    <3>4. QED
      BY <3>1, <3>2, <3>3
  <2>2. \E x \in Drain(Create(Drain({a}), c)) :
          Put(p, x) /\ idle' = [idle EXCEPT ![c] = Idle(x)]
    BY DEF Send
  <2>3. Put(p, b) /\ idle' = [idle EXCEPT ![c] = Idle(b)]
    BY <2>1, <2>2
  <2>4. QED
    BY <2>3 DEF Send, Begin, Handler, Quiet
<1>2. at[c] \in InSession
  BY <1>1 DEF InSession
<1>3. /\ Holds(p, "session", c) /\ at[c] \in Handled \ {"write"}
      /\ p \in Proc /\ proc[p] = "up" /\ TypeOK /\ BoardsInv
      /\ kind[c] # "view" /\ idle \in [Client -> BOOLEAN]
      /\ default \in [Proc -> Client \union {Nobody}]
  BY <1>2, HoldsSession
<1>4. IsBoardOf(p, a) /\ From(a, {c}, a) /\ From(a, {}, a) /\ a.default = c
  BY <1>3, RootSet
<1>5. a.run[c] = "none" /\ c \in a.mine
  BY <1>1, <1>3, <1>4, InHandler DEF IsBoardOf
<1> HIDE DEF a
<1>6. From(a, {c}, Drained(a)) /\ Drained(a).run[c] = "none"
  <2>1. From(a, {c}, Drained(a)) /\ From(a, {}, Drained(a))
    BY <1>4, DrainFrom
  <2>2. QED
    BY <1>5, <2>1 DEF From
<1>7. From(a, {c}, Created(Drained(a), c))
  BY <1>4, <1>5, <1>6, CreateFrom DEF From
<1>8. From(a, {c}, b)
  BY <1>7, DrainFrom
<1> HIDE DEF b
<1>9. "wait" \in Handled \ {"first", "second", "report"} /\ "wait" \notin InSession \union Asking
  BY Places
<1>10. /\ idle' \in [Client -> BOOLEAN] /\ (idle'[c] => Idle(b))
       /\ \A d \in Client \ {c} : idle'[d] = idle[d]
       /\ default' \in [Proc -> Client \union {Nobody}]
       /\ \A q \in Proc \ {p} : default'[q] = default[q]
  <2>1. Idle(b) \in BOOLEAN
    BY DEF Idle
  <2>2. QED
    BY <1>1, <1>3, <2>1
<1>11. /\ lock' \in Locks
       /\ \A q \in Proc : \A y : Holds(q, "session", y) /\ y # c => Holds(q, "session", y)'
  BY <1>1, <1>3, ReleaseEffect
<1>12. QED
  BY <1>1, <1>3, <1>4, <1>8, <1>9, <1>10, <1>11, Puts

LEMMA TurnStartsKeeps ==
  ASSUME DaemonInv, NEW c \in Client, TurnStarts(c)
  PROVE  DaemonInv'
<1> DEFINE p == peer[c]
           a == Board(p)
           b == Drained(a)
<1>1. /\ at[c] = "second" /\ GoTo(c, "asking") /\ Put(p, b) /\ WaitFor(p, "sched", c)
      /\ default' = [default EXCEPT ![p] = c] /\ idle' = idle
      /\ UNCHANGED <<kind, peer, late, told, procVars, timer>>
  <2>1. Drain({a}) = {b}
    BY OneBoard
  <2>2. Put(p, b)
    BY <2>1 DEF TurnStarts
  <2>3. QED
    BY <2>2 DEF TurnStarts, Begin, Handler, Quiet
<1>2. at[c] \in InSession
  BY <1>1 DEF InSession
<1>3. /\ Holds(p, "session", c) /\ at[c] \in Handled \ {"write"}
      /\ p \in Proc /\ proc[p] = "up" /\ TypeOK /\ BoardsInv /\ c \in Waiter
      /\ kind[c] # "view" /\ idle \in [Client -> BOOLEAN]
      /\ default \in [Proc -> Client \union {Nobody}]
  BY <1>2, HoldsSession
<1>4. IsBoardOf(p, a) /\ From(a, {}, a)
  BY <1>3, OwnBoard
<1>5. a.run[c] = "none" /\ c \in Client
  BY <1>1, <1>3, <1>4, InHandler DEF IsBoardOf
<1> HIDE DEF a
<1>6. From(a, {}, b)
  BY <1>4, DrainFrom
<1>7. b.run[c] = "none"
  BY <1>5, <1>6 DEF From
<1> HIDE DEF b
<1>8. run'[c] = "none"
  BY <1>1, <1>7 DEF Put
<1>9. "asking" \in Handled \ {"first", "second", "report"}
  BY Places
<1>10. /\ default' \in [Proc -> Client \union {Nobody}] /\ default'[p] = c
       /\ \A q \in Proc \ {p} : default'[q] = default[q]
  BY <1>1, <1>3
<1>11. /\ lock' \in Locks
       /\ \A q \in Proc : \A y : Holds(q, "session", y) => Holds(q, "session", y)'
  BY <1>1, <1>3, WaitForEffect DEF Mutex
<1>12. idle' \in [Client -> BOOLEAN] /\ \A d \in Client : idle'[d] = idle[d]
  BY <1>1, <1>3
<1>13. {} \in SUBSET {c}
  OBVIOUS
<1>14. QED
  BY <1>1, <1>3, <1>4, <1>6, <1>8, <1>9, <1>10, <1>11, <1>12, <1>13, Puts

\* The turn still has the root it set: whoever sets another one needs the
\* session, which it holds.
LEMMA TurnEndsKeeps ==
  ASSUME DaemonInv, NEW c \in Client, TurnEnds(c)
  PROVE  DaemonInv'
<1> DEFINE p == peer[c]
           a == Board(p)
<1>1. PICK b \in Drain(Applied({a}, c)) :
        Put(p, b) /\ idle' = [idle EXCEPT ![c] = Idle(b)]
  BY DEF TurnEnds
<1>2. /\ at[c] \in Asking /\ GoTo(c, "wait") /\ Release(p, Both \union {"sched"}, c)
      /\ default' = default
      /\ UNCHANGED <<kind, peer, late, told, procVars, timer>>
  BY DEF TurnEnds, Quiet, Asking
<1>3. at[c] \in InSession
  BY <1>2, Places
<1>4. /\ Holds(p, "session", c) /\ at[c] \in Handled \ {"write"}
      /\ p \in Proc /\ proc[p] = "up" /\ TypeOK /\ BoardsInv
      /\ kind[c] # "view" /\ idle \in [Client -> BOOLEAN]
      /\ default \in [Proc -> Client \union {Nobody}]
  BY <1>3, HoldsSession
<1>5. /\ IsBoardOf(p, a) /\ From(a, {c}, a) /\ a.default = c
      /\ a.run[c] = "none" /\ c \in a.mine
  <2>1. default[p] = c
    BY <1>2 DEF DaemonInv, SessionInv, Asking
  <2>2. run[c] = "none"
    BY <1>2, <1>4, InHandler
  <2>3. IsBoardOf(p, a) /\ From(a, {c}, a) /\ a.default = default[p]
    BY <1>4, OwnBoard
  <2>4. QED
    BY <2>1, <2>2, <2>3 DEF IsBoardOf
<1> HIDE DEF a
<1>6. ASSUME NEW x \in Applied({a}, c)
      PROVE  From(a, {c}, x)
  <2>1. CASE x = a
    BY <1>5, <2>1
  <2>2. CASE x = Created(a, c)
    BY <1>5, <2>2, CreateFrom
  <2>3. CASE x \in CancelOne({a})
    BY <1>5, <2>3, CancelOneFrom
  <2>4. QED
    BY <1>6, <2>1, <2>2, <2>3, OneBoard DEF Applied
<1>7. From(a, {c}, b)
  <2>1. PICK x \in Applied({a}, c) : b = Drained(x)
    BY <1>1 DEF Drain, Drained
  <2>2. QED
    BY <1>6, <2>1, DrainFrom
<1>8. "wait" \in Handled \ {"first", "second", "report"} /\ "wait" \notin InSession \union Asking
  BY Places
<1>9. /\ idle' \in [Client -> BOOLEAN] /\ (idle'[c] => Idle(b))
      /\ \A d \in Client \ {c} : idle'[d] = idle[d]
  <2>1. Idle(b) \in BOOLEAN
    BY DEF Idle
  <2>2. QED
    BY <1>1, <1>4, <2>1
<1>10. /\ lock' \in Locks
       /\ \A q \in Proc : \A y : Holds(q, "session", y) /\ y # c => Holds(q, "session", y)'
  BY <1>2, <1>4, ReleaseEffect
<1>11. default' \in [Proc -> Client \union {Nobody}] /\ \A q \in Proc : default'[q] = default[q]
  BY <1>2, <1>4
<1>12. QED
  BY <1>1, <1>2, <1>4, <1>5, <1>7, <1>8, <1>9, <1>10, <1>11, Puts

LEMMA SnapshotKeeps ==
  ASSUME DaemonInv, NEW c \in Client, Snapshot(c)
  PROVE  DaemonInv'
<1> DEFINE p == peer[c]
           a == Board(p)
           b == Drained(a)
<1>1. /\ at[c] = "snapshot" /\ GoTo(c, "wait") /\ Put(p, b) /\ Release(p, Both, c)
      /\ idle' = [idle EXCEPT ![c] = Idle(b)] /\ default' = default
      /\ UNCHANGED <<kind, peer, late, told, procVars, timer>>
  <2>1. Drain({a}) = {b}
    BY OneBoard
  <2>2. \E x \in Drain({a}) : Put(p, x) /\ idle' = [idle EXCEPT ![c] = Idle(x)]
    BY DEF Snapshot
  <2>3. Put(p, b) /\ idle' = [idle EXCEPT ![c] = Idle(b)]
    BY <2>1, <2>2
  <2>4. QED
    BY <2>3 DEF Snapshot, Handler, Quiet
<1>2. at[c] \in InSession
  BY <1>1 DEF InSession
<1>3. /\ Holds(p, "session", c) /\ at[c] \in Handled \ {"write"}
      /\ p \in Proc /\ proc[p] = "up" /\ TypeOK /\ BoardsInv
      /\ kind[c] # "view" /\ idle \in [Client -> BOOLEAN]
      /\ default \in [Proc -> Client \union {Nobody}]
  BY <1>2, HoldsSession
<1>4. IsBoardOf(p, a) /\ From(a, {}, a)
  BY <1>3, OwnBoard
<1> HIDE DEF a
<1>5. From(a, {}, b)
  BY <1>4, DrainFrom
<1> HIDE DEF b
<1>6. "wait" \in Handled \ {"first", "second", "report"} /\ "wait" \notin InSession \union Asking
  BY Places
<1>7. /\ idle' \in [Client -> BOOLEAN] /\ (idle'[c] => Idle(b))
      /\ \A d \in Client \ {c} : idle'[d] = idle[d]
  <2>1. Idle(b) \in BOOLEAN
    BY DEF Idle
  <2>2. QED
    BY <1>1, <1>3, <2>1
<1>8. /\ lock' \in Locks
      /\ \A q \in Proc : \A y : Holds(q, "session", y) /\ y # c => Holds(q, "session", y)'
  BY <1>1, <1>3, ReleaseEffect
<1>9. default' \in [Proc -> Client \union {Nobody}] /\ \A q \in Proc : default'[q] = default[q]
  BY <1>1, <1>3
<1>10. {} \in SUBSET {c}
  OBVIOUS
<1>11. QED
  BY <1>1, <1>3, <1>4, <1>5, <1>6, <1>7, <1>8, <1>9, <1>10, Puts

LEMMA CancelKeeps ==
  ASSUME DaemonInv, NEW c \in Client, Cancel(c)
  PROVE  DaemonInv'
<1> DEFINE p == peer[c]
           a == Board(p)
<1>1. PICK b \in CancelOne({a}) : Put(p, b)
  BY DEF Cancel
<1>2. /\ at[c] = "second" /\ GoTo(c, "write") /\ default' = default /\ lock' = lock
      /\ idle' = idle /\ UNCHANGED <<kind, peer, late, told, procVars, timer>>
  BY DEF Cancel, Begin, Handler, Quiet
<1>3. at[c] \in InSession
  BY <1>2 DEF InSession
<1>4. /\ Holds(p, "session", c) /\ at[c] \in Handled \ {"write"}
      /\ p \in Proc /\ proc[p] = "up" /\ TypeOK /\ BoardsInv
      /\ kind[c] # "view" /\ idle \in [Client -> BOOLEAN]
      /\ default \in [Proc -> Client \union {Nobody}]
  BY <1>3, HoldsSession
<1>5. IsBoardOf(p, a) /\ From(a, {}, a)
  BY <1>4, OwnBoard
<1> HIDE DEF a
<1>6. From(a, {}, b)
  BY <1>1, <1>5, CancelOneFrom
<1>7. "write" \in Handled \ {"first", "second", "report"} /\ "write" \notin InSession \union Asking
  BY Places
<1>8. /\ idle' \in [Client -> BOOLEAN] /\ (idle'[c] => idle[c])
      /\ \A d \in Client \ {c} : idle'[d] = idle[d]
  BY <1>2, <1>4
<1>9. /\ lock' \in Locks
      /\ \A q \in Proc : \A y : Holds(q, "session", y) => Holds(q, "session", y)'
  BY <1>2, <1>4, InHandler DEF Holds
<1>10. default' \in [Proc -> Client \union {Nobody}] /\ \A q \in Proc : default'[q] = default[q]
  BY <1>2, <1>4
<1>11. {} \in SUBSET {c}
  OBVIOUS
<1>12. QED
  BY <1>1, <1>2, <1>4, <1>5, <1>6, <1>7, <1>8, <1>9, <1>10, <1>11, Puts

-----------------------------------------------------------------------------
(* The drain timer and the tasks.                                          *)

\* A step of no handler that keeps the session with its holder.
LEMMA BesideHandlers ==
  ASSUME DaemonInv, TypeOK', BoardsInv', FileInv',
         UNCHANGED <<clientVars, procVars, default>>,
         \A t \in Client : run[t] \in {"none", "over"} => run'[t] = run[t],
         \A q \in Proc, c \in Client : Holds(q, "session", c) => Holds(q, "session", c)'
  PROVE  DaemonInv'
<1>1. /\ kind' = kind /\ at' = at /\ peer' = peer /\ idle' = idle /\ late' = late
      /\ told' = told /\ proc' = proc /\ default' = default
  BY DEF clientVars, procVars
<1>2. PlaceInv'
  BY <1>1 DEF DaemonInv, PlaceInv
<1>3. SessionInv'
  <2>1. \A c \in Client : at[c] \in InSession => Holds(peer[c], "session", c) /\ peer[c] \in Proc
    BY HoldsSession
  <2>2. \A c \in Client : at[c] \in InSession => Holds(peer[c], "session", c)'
    BY <1>1, <2>1 DEF Holds
  <2>3. QED
    BY <1>1, <2>2 DEF DaemonInv, SessionInv
<1>4. RunInv'
  BY <1>1 DEF DaemonInv, RunInv
<1>5. AnswerInv' /\ WaitedReplyIsSettled'
  BY <1>1 DEF DaemonInv, AnswerInv, WaitedReplyIsSettled
<1>6. QED
  BY <1>2, <1>3, <1>4, <1>5 DEF DaemonInv

LEMMA TimerKeeps ==
  ASSUME DaemonInv, NEW p \in Proc, TimerStep(p)
  PROVE  DaemonInv'
<1>1. /\ proc[p] = "up" /\ UNCHANGED <<clientVars, procVars, default>> /\ TypeOK /\ BoardsInv
      /\ Timer \in Waiter
      /\ kind' = kind /\ at' = at /\ peer' = peer /\ idle' = idle /\ late' = late
      /\ told' = told /\ proc' = proc /\ path' = path /\ rivals' = rivals /\ default' = default
  BY DEF TimerStep, DaemonInv, clientVars, procVars, Waiter
<1>2. timer \in [Proc -> {"sleep", "session", "store"}]
  BY <1>1 DEF TypeOK
<1>3. ASSUME NEW m \in Mutex, WaitFor(p, m, Timer), UNCHANGED boardVars,
             timer' = [timer EXCEPT ![p] = m], m \in {"session", "store"}
      PROVE  DaemonInv'
  <2>1. /\ lock' \in Locks
        /\ \A q \in Proc : \A y : Holds(q, "session", y) => Holds(q, "session", y)'
    BY <1>1, <1>3, WaitForEffect
  <2>2. /\ run' = run /\ file' = file /\ store' = store /\ queue' = queue /\ focus' = focus
        /\ token' = token /\ root' = root
    BY <1>3 DEF boardVars
  <2>3. timer' \in [Proc -> {"sleep", "session", "store"}]
    BY <1>2, <1>3
  <2>4. TypeOK'
    BY <1>1, <2>1, <2>2, <2>3 DEF TypeOK, Locks, Waiter
  <2>5. BoardsInv' /\ FileInv'
    BY <1>1, <1>3, BoardsKept DEF DaemonInv
  <2>6. QED
    BY <1>1, <2>1, <2>2, <2>4, <2>5, BesideHandlers
<1>4. CASE /\ Put(p, Drained(Board(p))) /\ Release(p, Both, Timer)
           /\ timer' = [timer EXCEPT ![p] = "sleep"]
  <2> DEFINE a == Board(p)
  <2>1. IsBoardOf(p, a) /\ From(a, {}, a)
    BY <1>1, OwnBoard
  <2> HIDE DEF a
  <2>2. From(a, {}, Drained(a))
    BY <2>1, DrainFrom
  <2>3. Put(p, Drained(a))
    BY <1>4 DEF a
  <2>4. {} \in SUBSET Client /\ UNCHANGED <<peer, told, procVars>> /\ AnswerInv /\ FileInv
    BY <1>1 DEF DaemonInv
  <2> DEFINE b == Drained(a)
  <2> HIDE DEF b
  <2>5. /\ file' \in [Client -> Status] /\ store' \in [Proc -> [Client -> Status]]
        /\ queue' \in [Proc -> Seq(Client)]
        /\ focus' \in [Proc -> Client \union {Nobody}]
        /\ run' \in [Client -> {"none", "queued", "over"} \union Started]
        /\ token' \in [Client -> BOOLEAN] /\ root' \in [Client -> Client \union {Nobody}]
        /\ BoardsInv' /\ FileInv'
        /\ \A t \in Client \ {} : run[t] \in {"none", "over"} => run'[t] = run[t]
    BY <1>1, <2>1, <2>2, <2>3, <2>4, PutEffect
  <2>6. /\ lock' \in Locks
        /\ \A q \in Proc : \A y : Holds(q, "session", y) /\ y # Timer => Holds(q, "session", y)'
    BY <1>1, <1>4, ReleaseEffect
  <2>7. timer' \in [Proc -> {"sleep", "session", "store"}]
    BY <1>2, <1>4
  <2>8. TypeOK'
    BY <1>1, <2>5, <2>6, <2>7 DEF TypeOK, Locks, Waiter
  <2>9. Timer \notin Client
    BY DaemonAssumption
  <2>10. QED
    BY <1>1, <2>5, <2>6, <2>8, <2>9, BesideHandlers
<1>5. CASE \E b \in Drain({Board(p)}) :
             Put(p, b) /\ Release(p, Both, Timer) /\ timer' = [timer EXCEPT ![p] = "sleep"]
  <2>1. Drain({Board(p)}) = {Drained(Board(p))}
    BY OneBoard
  <2>2. QED
    BY <1>4, <1>5, <2>1
<1>6. QED
  BY <1>3, <1>5 DEF TimerStep, Mutex

\* A future of a task that was started goes on.
LEMMA TaskMoves ==
  ASSUME DaemonInv, NEW t \in Client, run[t] \in Started, NEW place \in Started,
         RunTo(t, place), TaskRest, lock' \in Locks,
         \A q \in Proc, c \in Client : Holds(q, "session", c) => Holds(q, "session", c)'
  PROVE  DaemonInv'
<1>1. /\ kind' = kind /\ at' = at /\ peer' = peer /\ idle' = idle /\ late' = late
      /\ told' = told /\ proc' = proc /\ path' = path /\ rivals' = rivals
      /\ file' = file /\ store' = store /\ queue' = queue /\ focus' = focus
      /\ token' = token /\ root' = root /\ default' = default /\ timer' = timer
  BY DEF TaskRest, clientVars, procVars
<1>2. /\ run' = [run EXCEPT ![t] = place]
      /\ run \in [Client -> {"none", "queued", "over"} \union Started] /\ TypeOK
  BY DEF RunTo, DaemonInv, TypeOK
<1>3. /\ run' \in [Client -> {"none", "queued", "over"} \union Started]
      /\ run'[t] = place /\ \A u \in Client \ {t} : run'[u] = run[u]
  BY <1>2
<1>4. TypeOK'
  BY <1>1, <1>2, <1>3 DEF TypeOK, Locks, Waiter
<1>5. BoardsInv'
  <2>1. ASSUME NEW q \in Proc, proc[q] = "up"
        PROVE  BoardOK(Board(q)')
    <3>1. \A u \in Client : peer[u] = q =>
            /\ peer'[u] = q /\ root'[u] = root[u]
            /\ run'[u] = run[u] \/ (run[u] \in Started /\ run'[u] \in Started)
      BY <1>1, <1>3
    <3>2. BoardOK(Board(q))
      BY <2>1 DEF DaemonInv, BoardsInv
    <3>3. QED
      BY <1>1, <1>2, <3>1, <3>2, BoardFrame
  <2>2. QED
    BY <1>1, <2>1 DEF DaemonInv, BoardsInv
<1>6. FileInv'
  BY <1>1 DEF DaemonInv, FileInv, Alive
<1>7. \A u \in Client : run[u] \in {"none", "over"} => run'[u] = run[u]
  BY <1>3 DEF Started, Final
<1>8. UNCHANGED <<clientVars, procVars, default>>
  BY DEF TaskRest
<1>9. QED
  BY <1>4, <1>5, <1>6, <1>7, <1>8, BesideHandlers

LEMMA TaskKeeps ==
  ASSUME DaemonInv, NEW t \in Client, Task(t)
  PROVE  DaemonInv'
<1>1. run[t] \in Started /\ TaskRest /\ TypeOK /\ lock \in Locks
  BY DEF Task, TaskAsks, TaskGetsHost, AgentAnswers, Started, DaemonInv, TypeOK, Locks, Waiter
<1>2. peer[t] \in Proc /\ <<t>> \in Waiter
  <2>1. run[t] # "none"
    BY <1>1 DEF Started, Final
  <2>2. QED
    BY <2>1 DEF DaemonInv, RunInv, Waiter
<1> DEFINE Kept == /\ lock' \in Locks
                   /\ \A q \in Proc, c \in Client :
                        Holds(q, "session", c) => Holds(q, "session", c)'
<1>3. UNCHANGED lock => Kept
  BY <1>1 DEF Holds
<1>4. WaitFor(peer[t], "sched", <<t>>) => Kept
  BY <1>1, <1>2, WaitForEffect DEF Mutex
<1>5. Release(peer[t], {"sched"}, <<t>>) => Kept
  BY <1>1, <1>2, ReleaseEffect
<1>6. ASSUME NEW place \in Started, RunTo(t, place), Kept
      PROVE  DaemonInv'
  BY <1>1, <1>6, TaskMoves
<1> HIDE DEF Kept
<1>7. {"spawned", "waiting", "working", "Completed", "Failed", "Cancelled"} = Started
  BY DEF Started, Final
<1>8. CASE TaskAsks(t)
  BY <1>3, <1>4, <1>6, <1>7, <1>8 DEF TaskAsks
<1>9. CASE TaskGetsHost(t)
  BY <1>3, <1>5, <1>6, <1>7, <1>9 DEF TaskGetsHost
<1>10. CASE AgentAnswers(t)
  BY <1>5, <1>6, <1>7, <1>10 DEF AgentAnswers
<1>11. QED
  BY <1>8, <1>9, <1>10 DEF Task

-----------------------------------------------------------------------------
(* The client side.                                                        *)

\* A new process makes a rival of every live one, and serves nobody yet.
LEMMA SpawnEffect ==
  ASSUME TypeOK, FileInv, Spawn \/ UNCHANGED <<proc, rivals>>
  PROVE  /\ proc' \in [Proc -> {"none", "spawned", "unlinked", "bound", "up", "gone"}]
         /\ rivals' \in BOOLEAN /\ (rivals => rivals')
         /\ \A p \in Proc : proc'[p] = proc[p] \/ (proc[p] = "none" /\ proc'[p] = "spawned")
         /\ ~rivals' => \A p, q \in Proc : Alive(p)' /\ Alive(q)' => p = q
<1>1. CASE UNCHANGED <<proc, rivals>>
  BY <1>1 DEF TypeOK, FileInv, Alive
<1>2. CASE /\ \E p \in Proc : proc[p] = "none" /\ proc' = [proc EXCEPT ![p] = "spawned"]
           /\ rivals' = (rivals \/ \E p \in Proc : Alive(p))
  <2>1. PICK p \in Proc : proc[p] = "none" /\ proc' = [proc EXCEPT ![p] = "spawned"]
    BY <1>2
  <2>2. /\ proc' \in [Proc -> {"none", "spawned", "unlinked", "bound", "up", "gone"}]
        /\ proc'[p] = "spawned" /\ \A q \in Proc \ {p} : proc'[q] = proc[q]
    BY <2>1 DEF TypeOK
  <2>3. /\ rivals' \in BOOLEAN /\ (rivals => rivals')
        /\ ~rivals' => \A q \in Proc : ~Alive(q)
    BY <1>2 DEF TypeOK
  <2>4. ~rivals' => \A q, r \in Proc : Alive(q)' /\ Alive(r)' => q = r
    BY <2>2, <2>3 DEF Alive
  <2>5. QED
    BY <2>1, <2>2, <2>3, <2>4
<1>3. QED
  BY <1>1, <1>2 DEF Spawn

\* Before it is connected a client has neither task nor answer.
LEMMA ClientMoves ==
  ASSUME DaemonInv, NEW c \in Client, at[c] \in Unconnected, NEW place, GoTo(c, place),
         ClientOnly(c), Spawn \/ UNCHANGED <<proc, rivals>>,
         \/ peer' = peer /\ place \in {"poll", "connect", "answered", "failed"}
         \/ /\ peer' = [peer EXCEPT ![c] = path] /\ place = "sent"
            /\ Listens(path) /\ proc' = proc
  PROVE  DaemonInv'
<1>1. /\ kind' = kind /\ idle' = idle /\ late' = late /\ told' = told /\ path' = path
      /\ file' = file /\ store' = store /\ queue' = queue /\ focus' = focus
      /\ run' = run /\ token' = token /\ root' = root
      /\ default' = default /\ lock' = lock /\ timer' = timer /\ TypeOK
  BY DEF ClientOnly, boardVars, DaemonInv
<1>2. /\ peer[c] = Nobody /\ run[c] = "none" /\ told[c] = "nothing"
  BY DEF DaemonInv, PlaceInv, RunInv, AnswerInv, Unconnected
<1>3. /\ proc' \in [Proc -> {"none", "spawned", "unlinked", "bound", "up", "gone"}]
      /\ rivals' \in BOOLEAN /\ (rivals => rivals')
      /\ \A p \in Proc : proc'[p] = proc[p] \/ (proc[p] = "none" /\ proc'[p] = "spawned")
      /\ ~rivals' => \A p, q \in Proc : Alive(p)' /\ Alive(q)' => p = q
  BY SpawnEffect DEF DaemonInv
<1>4. /\ at' \in [Client -> Place] /\ at'[c] = place
      /\ \A d \in Client \ {c} : at'[d] = at[d]
  BY <1>1 DEF GoTo, TypeOK, Place
<1>5. /\ peer' \in [Client -> Proc \union {Nobody}]
      /\ \A d \in Client \ {c} : peer'[d] = peer[d]
      /\ \/ peer'[c] = Nobody /\ place \in {"poll", "connect", "answered", "failed"}
         \/ peer'[c] \in Proc /\ proc'[peer'[c]] \in {"bound", "up"} /\ place = "sent"
  <2>1. peer \in [Client -> Proc \union {Nobody}] /\ path \in Proc \union {Nobody}
    BY <1>1 DEF TypeOK
  <2>2. QED
    BY <1>2, <2>1 DEF Listens
<1>6. \A p \in Proc : (proc'[p] = "up" <=> proc[p] = "up")
                      /\ (proc[p] = "bound" => proc'[p] = "bound")
  BY <1>3
<1>7. TypeOK'
  BY <1>1, <1>3, <1>4, <1>5 DEF TypeOK
<1>8. PlaceInv'
  <2> SUFFICES ASSUME NEW d \in Client
               PROVE  /\ at'[d] \in Unconnected => peer'[d] = Nobody
                      /\ at'[d] = "sent" => /\ peer'[d] \in Proc
                                            /\ proc'[peer'[d]] \in {"bound", "up"}
                      /\ at'[d] \in Handled => peer'[d] \in Proc /\ proc'[peer'[d]] = "up"
                      /\ at'[d] \in {"second", "again", "snapshot", "wait", "asking",
                                     "asking again", "report"} => kind[d] # "view"
    BY <1>1 DEF PlaceInv
  <2>1. CASE d = c
    <3>1. place \notin Handled /\ (place = "sent" => place \notin Unconnected)
      BY <1>5 DEF Handled, Unconnected
    <3>2. QED
      BY <1>4, <1>5, <2>1, <3>1
  <2>2. CASE d # c
    BY <1>4, <1>5, <1>6, <2>2 DEF DaemonInv, PlaceInv
  <2>3. QED
    BY <2>1, <2>2
<1>9. SessionInv'
  <2>1. place \notin InSession \union {"asking", "asking again"}
    BY <1>5 DEF InSession
  <2>2. QED
    BY <1>1, <1>4, <1>5, <2>1 DEF DaemonInv, SessionInv, Holds
<1>10. RunInv'
  BY <1>1, <1>2, <1>4, <1>5, <1>6 DEF DaemonInv, RunInv
<1>11. BoardsInv'
  <2>1. ASSUME NEW q \in Proc, proc[q] = "up"
        PROVE  BoardOK(Board(q)')
    <3>1. BoardOK(Board(q)) /\ Nobody # q
      BY <2>1, DaemonAssumption DEF DaemonInv, BoardsInv
    <3>2. /\ \A t \in Client : peer[t] = q => peer'[t] = q
          /\ \A t \in Client : peer'[t] = q /\ peer[t] # q => run'[t] = "none"
      BY <1>1, <1>2, <1>5, <3>1
    <3>3. QED
      BY <1>1, <3>1, <3>2, BoardFrame
  <2>2. QED
    BY <1>1, <1>6, <2>1 DEF DaemonInv, BoardsInv
<1>12. AnswerInv' /\ WaitedReplyIsSettled'
  BY <1>1, <1>2, <1>4, <1>5 DEF DaemonInv, AnswerInv, WaitedReplyIsSettled
<1>13. FileInv'
  BY <1>1, <1>3, <1>6 DEF DaemonInv, FileInv
<1>14. QED
  BY <1>7, <1>8, <1>9, <1>10, <1>11, <1>12, <1>13 DEF DaemonInv

LEMMA ClientKeeps ==
  ASSUME DaemonInv, NEW c \in Client,
         StartDaemon(c) \/ Check(c) \/ Poll(c) \/ Connect(c)
  PROVE  DaemonInv'
<1>1. CASE StartDaemon(c)
  BY <1>1, ClientMoves DEF StartDaemon, Unconnected
<1>2. CASE Check(c)
  <2>1. at[c] \in Unconnected /\ ClientOnly(c) /\ peer' = peer
    BY <1>2 DEF Check, Unconnected
  <2>2. CASE GoTo(c, "connect") /\ UNCHANGED <<proc, rivals>>
    BY <2>1, <2>2, ClientMoves
  <2>3. CASE GoTo(c, "poll") /\ Spawn
    BY <2>1, <2>3, ClientMoves
  <2>4. QED
    BY <1>2, <2>2, <2>3 DEF Check
<1>3. CASE Poll(c)
  <2>1. at[c] \in Unconnected /\ ClientOnly(c) /\ peer' = peer /\ UNCHANGED <<proc, rivals>>
    BY <1>3 DEF Poll, Unconnected
  <2>2. CASE GoTo(c, "connect")
    BY <2>1, <2>2, ClientMoves
  <2>3. CASE GoTo(c, "failed")
    BY <2>1, <2>3, ClientMoves
  <2>4. QED
    BY <1>3, <2>2, <2>3 DEF Poll
<1>4. CASE Connect(c)
  <2>1. at[c] \in Unconnected /\ ClientOnly(c) /\ UNCHANGED <<proc, rivals>>
    BY <1>4 DEF Connect, Unconnected
  <2>2. CASE peer' = [peer EXCEPT ![c] = path] /\ GoTo(c, "sent") /\ Listens(path)
    BY <2>1, <2>2, ClientMoves
  <2>3. CASE GoTo(c, "failed") /\ peer' = peer
    BY <2>1, <2>3, ClientMoves
  <2>4. QED
    BY <1>4, <2>2, <2>3 DEF Connect
<1>5. QED
  BY <1>1, <1>2, <1>3, <1>4

-----------------------------------------------------------------------------
(* A daemon starts and ends.                                               *)

\* Until it has read the file a starting daemon touches the socket only.
LEMMA ProcMoves ==
  ASSUME DaemonInv, NEW p \in Proc, proc[p] \in {"spawned", "unlinked"},
         NEW s \in {"unlinked", "bound", "gone"}, proc' = [proc EXCEPT ![p] = s],
         path' \in Proc \union {Nobody},
         UNCHANGED <<clientVars, boardVars, rivals, default, lock, timer>>
  PROVE  DaemonInv'
<1>1. /\ kind' = kind /\ at' = at /\ peer' = peer /\ idle' = idle /\ late' = late
      /\ told' = told /\ rivals' = rivals
      /\ file' = file /\ store' = store /\ queue' = queue /\ focus' = focus
      /\ run' = run /\ token' = token /\ root' = root
      /\ default' = default /\ lock' = lock /\ timer' = timer /\ TypeOK
  BY DEF clientVars, boardVars, DaemonInv
<1>2. /\ proc' \in [Proc -> {"none", "spawned", "unlinked", "bound", "up", "gone"}]
      /\ proc'[p] = s /\ \A q \in Proc \ {p} : proc'[q] = proc[q]
  BY <1>1 DEF TypeOK
<1>3. TypeOK'
  BY <1>1, <1>2 DEF TypeOK
<1>4. PlaceInv'
  BY <1>1, <1>2 DEF DaemonInv, PlaceInv
<1>5. SessionInv'
  BY <1>1 DEF DaemonInv, SessionInv, Holds
<1>6. RunInv'
  BY <1>1, <1>2 DEF DaemonInv, RunInv
<1>7. BoardsInv'
  BY <1>1, <1>2 DEF DaemonInv, BoardsInv, Board
<1>8. AnswerInv' /\ WaitedReplyIsSettled'
  BY <1>1 DEF DaemonInv, AnswerInv, WaitedReplyIsSettled
<1>9. FileInv'
  BY <1>1, <1>2 DEF DaemonInv, FileInv, Alive
<1>10. QED
  BY <1>3, <1>4, <1>5, <1>6, <1>7, <1>8, <1>9 DEF DaemonInv

\* What was active is failed in the file as in the store.
LEMMA OpenKeeps ==
  ASSUME DaemonInv, NEW p \in Proc, Open(p)
  PROVE  DaemonInv'
<1>1. /\ kind' = kind /\ at' = at /\ peer' = peer /\ idle' = idle /\ late' = late
      /\ told' = told /\ rivals' = rivals /\ path' = path
      /\ queue' = queue /\ focus' = focus /\ run' = run /\ token' = token /\ root' = root
      /\ default' = default /\ lock' = lock /\ timer' = timer /\ TypeOK
      /\ proc[p] = "bound" /\ proc' = [proc EXCEPT ![p] = "up"]
      /\ store' = [store EXCEPT ![p] = Recovered] /\ file' = Recovered
  BY DEF Open, clientVars, DaemonInv
<1>2. /\ proc' \in [Proc -> {"none", "spawned", "unlinked", "bound", "up", "gone"}]
      /\ proc'[p] = "up" /\ \A q \in Proc \ {p} : proc'[q] = proc[q]
  BY <1>1 DEF TypeOK
<1>3. /\ Recovered \in [Client -> Status]
      /\ \A c \in Client : /\ Recovered[c] \notin {"Queued", "Running"}
                           /\ file[c] \notin {"Queued", "Running"} => Recovered[c] = file[c]
  BY <1>1 DEF Recovered, TypeOK, Status, Final
<1>4. /\ store' \in [Proc -> [Client -> Status]] /\ store'[p] = Recovered
      /\ \A q \in Proc \ {p} : store'[q] = store[q]
  BY <1>1, <1>3 DEF TypeOK
<1>5. TypeOK'
  BY <1>1, <1>2, <1>3, <1>4 DEF TypeOK
<1>6. PlaceInv'
  BY <1>1, <1>2 DEF DaemonInv, PlaceInv
<1>7. SessionInv'
  BY <1>1 DEF DaemonInv, SessionInv, Holds
<1>8. RunInv'
  BY <1>1, <1>2 DEF DaemonInv, RunInv
<1>9. BoardsInv'
  <2>1. BoardOK(Board(p)')
    <3>1. queue[p] = <<>>
      BY <1>1 DEF DaemonInv, BoardsInv
    <3>2. \A t \in Client : peer[t] = p => run[t] = "none"
      BY <1>1 DEF DaemonInv, RunInv
    <3>3. /\ Board(p)'.queue = <<>> /\ Board(p)'.run = run /\ Board(p)'.store = Recovered
          /\ Board(p)'.mine = {c \in Client : peer[c] = p}
      BY <1>1, <1>4, <3>1 DEF Board
    <3>4. QED
      BY <1>3, <3>2, <3>3 DEF BoardOK
  <2>2. ASSUME NEW q \in Proc, q # p, proc[q] = "up"
        PROVE  BoardOK(Board(q)')
    <3>1. BoardOK(Board(q))
      BY <2>2 DEF DaemonInv, BoardsInv
    <3>2. QED
      BY <1>1, <1>4, <2>2, <3>1, BoardFrame
  <2>3. QED
    BY <1>1, <1>2, <2>1, <2>2 DEF DaemonInv, BoardsInv
<1>10. AnswerInv' /\ WaitedReplyIsSettled'
  BY <1>1 DEF DaemonInv, AnswerInv, WaitedReplyIsSettled
<1>11. FileInv'
  BY <1>1, <1>2, <1>3, <1>4 DEF DaemonInv, FileInv, Alive
<1>12. QED
  BY <1>5, <1>6, <1>7, <1>8, <1>9, <1>10, <1>11 DEF DaemonInv

LEMMA StartKeeps ==
  ASSUME DaemonInv, NEW p \in Proc, Start(p)
  PROVE  DaemonInv'
<1>1. CASE Unlink(p)
  BY <1>1, ProcMoves DEF Unlink
<1>2. CASE Bind(p)
  <2>1. /\ proc[p] = "unlinked"
        /\ UNCHANGED <<clientVars, boardVars, rivals, default, lock, timer>>
        /\ path \in Proc \union {Nobody}
    BY <1>2 DEF Bind, DaemonInv, TypeOK
  <2>2. CASE proc' = [proc EXCEPT ![p] = "bound"] /\ path' = p
    BY <2>1, <2>2, ProcMoves
  <2>3. CASE proc' = [proc EXCEPT ![p] = "gone"] /\ path' = path
    BY <2>1, <2>3, ProcMoves
  <2>4. QED
    BY <1>2, <2>2, <2>3 DEF Bind
<1>3. QED
  BY <1>1, <1>2, OpenKeeps DEF Start

\* Its handlers, its futures and its mutexes go with the process.
LEMMA ShutdownKeeps ==
  ASSUME DaemonInv, NEW c \in Client, Shutdown(c)
  PROVE  DaemonInv'
<1> DEFINE p == peer[c]
           place(d) == IF d = c THEN "answered"
                       ELSE IF peer[d] = p /\ at[d] # "answered" THEN "failed" ELSE at[d]
<1>1. /\ kind' = kind /\ peer' = peer /\ idle' = idle /\ late' = late /\ told' = told
      /\ file' = file /\ store' = store /\ focus' = focus /\ token' = token /\ root' = root
      /\ path' = path /\ rivals' = rivals /\ default' = default /\ TypeOK
      /\ at[c] = "exit" /\ proc' = [proc EXCEPT ![p] = "gone"]
      /\ at' = [d \in Client |-> place(d)]
      /\ run' = [t \in Client |-> IF peer[t] = p THEN "none" ELSE run[t]]
      /\ queue' = [queue EXCEPT ![p] = <<>>]
      /\ lock' = [lock EXCEPT ![p] = [m \in Mutex |-> <<>>]]
      /\ timer' = [timer EXCEPT ![p] = "sleep"]
  BY DEF Shutdown, Handler, DaemonInv
<1>2. at[c] \in Handled /\ p \in Proc
  BY <1>1, Places, InHandler
<1>3. /\ proc' \in [Proc -> {"none", "spawned", "unlinked", "bound", "up", "gone"}]
      /\ proc'[p] = "gone" /\ \A q \in Proc \ {p} : proc'[q] = proc[q]
  BY <1>1, <1>2 DEF TypeOK
<1>4. /\ at' \in [Client -> Place]
      /\ \A d \in Client : IF peer[d] = p THEN at'[d] \in {"answered", "failed"}
                                          ELSE at'[d] = at[d]
  BY <1>1 DEF TypeOK, Place
<1>5. /\ run' \in [Client -> {"none", "queued", "over"} \union Started]
      /\ \A t \in Client : run'[t] = IF peer[t] = p THEN "none" ELSE run[t]
  BY <1>1 DEF TypeOK
<1>6. /\ queue' \in [Proc -> Seq(Client)] /\ queue'[p] = <<>>
      /\ \A q \in Proc \ {p} : queue'[q] = queue[q]
  BY <1>1, <1>2 DEF TypeOK
<1>7. /\ lock' \in Locks /\ \A q \in Proc \ {p} : lock'[q] = lock[q]
  <2>1. lock \in Locks /\ [m \in Mutex |-> <<>>] \in [Mutex -> Seq(Waiter)]
    BY <1>1 DEF TypeOK, Locks, Waiter
  <2>2. QED
    BY <1>1, <1>2, <2>1 DEF Locks
<1>8. timer' \in [Proc -> {"sleep", "session", "store"}]
  BY <1>1 DEF TypeOK
<1>9. TypeOK'
  BY <1>1, <1>3, <1>4, <1>5, <1>6, <1>7, <1>8 DEF TypeOK, Locks, Waiter
<1>10. "answered" \notin Unconnected \union Handled /\ "failed" \notin Unconnected \union Handled
  BY DEF Unconnected, Handled
<1>11. PlaceInv'
  <2>1. ASSUME NEW d \in Client, peer[d] = p
        PROVE  at'[d] \notin Unconnected \union Handled \union {"sent"}
    BY <1>4, <1>10, <2>1 DEF Unconnected, Handled
  <2>2. ASSUME NEW d \in Client, peer[d] # p
        PROVE  at'[d] = at[d] /\ (peer[d] \in Proc => proc'[peer[d]] = proc[peer[d]])
    BY <1>3, <1>4, <2>2
  <2>3. {"second", "again", "snapshot", "wait", "asking", "asking again", "report"}
          \subseteq Handled
    BY Places
  <2>4. ASSUME NEW d \in Client, peer[d] = p
        PROVE  at'[d] \notin {"second", "again", "snapshot", "wait", "asking", "asking again",
                             "report"}
    BY <2>1, <2>3, <2>4
  <2>5. peer' = peer /\ kind' = kind
    BY <1>1
  <2>6. QED
    BY <2>1, <2>2, <2>4, <2>5 DEF DaemonInv, PlaceInv
<1>12. SessionInv'
  <2>1. ASSUME NEW d \in Client, at'[d] \in InSession
        PROVE  at'[d] = at[d] /\ peer[d] \in Proc \ {p} /\ Holds(peer[d], "session", d)
    BY <1>4, <2>1, HoldsSession DEF InSession
  <2>2. \A d \in Client : at'[d] \in InSession => Holds(peer[d], "session", d)'
    BY <1>1, <1>7, <2>1 DEF Holds
  <2>3. \A d \in Client : at'[d] \in {"asking", "asking again"} => default[peer[d]] = d
    BY <1>4 DEF DaemonInv, SessionInv
  <2>4. QED
    BY <1>1, <2>2, <2>3 DEF SessionInv
<1>13. RunInv'
  BY <1>1, <1>3, <1>4, <1>5 DEF DaemonInv, RunInv
<1>14. BoardsInv'
  <2>1. ASSUME NEW q \in Proc, q # p, proc[q] = "up"
        PROVE  BoardOK(Board(q)')
    <3>1. BoardOK(Board(q))
      BY <2>1 DEF DaemonInv, BoardsInv
    <3>2. \A t \in Client : peer[t] = q => run'[t] = run[t]
      BY <1>5, <2>1
    <3>3. QED
      BY <1>1, <1>6, <2>1, <3>1, <3>2, BoardFrame
  <2>2. QED
    BY <1>3, <1>6, <2>1 DEF DaemonInv, BoardsInv
<1>15. AnswerInv' /\ WaitedReplyIsSettled'
  BY <1>1, <1>4, <1>5 DEF DaemonInv, AnswerInv, WaitedReplyIsSettled
<1>16. FileInv'
  BY <1>1, <1>3 DEF DaemonInv, FileInv, Alive
<1>17. QED
  BY <1>9, <1>11, <1>12, <1>13, <1>14, <1>15, <1>16 DEF DaemonInv

-----------------------------------------------------------------------------
(* The theorems.                                                           *)

LEMMA Starts ==
  ASSUME Init
  PROVE  DaemonInv
<1>1. PICK s \in Scenarios :
        /\ kind = s.kind
        /\ late = [c \in Client |-> c \notin s.waits]
        /\ proc = [p \in Proc |-> IF p \in s.up THEN "up" ELSE "none"]
        /\ path = IF s.up = {} THEN Nobody ELSE CHOOSE p \in s.up : TRUE
  BY DEF Init
<1>2. s.kind \in [Client -> Kind] /\ (s.up = {} \/ \E p \in Proc : s.up = {p})
  BY DaemonAssumption
<1>3. path \in Proc \union {Nobody}
  BY <1>1, <1>2
<1>4. /\ at = [c \in Client |-> "new"] /\ peer = [c \in Client |-> Nobody]
      /\ idle = [c \in Client |-> FALSE] /\ told = [c \in Client |-> "nothing"]
      /\ file = [c \in Client |-> "Absent"] /\ store = [p \in Proc |-> file]
      /\ queue = [p \in Proc |-> <<>>] /\ focus = [p \in Proc |-> Nobody]
      /\ default = [p \in Proc |-> Nobody] /\ run = [c \in Client |-> "none"]
      /\ token = [c \in Client |-> FALSE] /\ root = [c \in Client |-> Nobody]
      /\ lock = [p \in Proc |-> [session |-> <<>>, store |-> <<>>, sched |-> <<>>]]
      /\ timer = [p \in Proc |-> "sleep"] /\ rivals = FALSE
  BY DEF Init
<1>5. lock \in Locks
  <2>1. [session |-> <<>>, store |-> <<>>, sched |-> <<>>] \in [Mutex -> Seq(Waiter)]
    <3>1. [session |-> <<>>, store |-> <<>>, sched |-> <<>>]
            \in [session : Seq(Waiter), store : Seq(Waiter), sched : Seq(Waiter)]
      OBVIOUS
    <3>2. [session : Seq(Waiter), store : Seq(Waiter), sched : Seq(Waiter)]
            \subseteq [Mutex -> Seq(Waiter)]
      BY DEF Mutex
    <3>3. QED
      BY <3>1, <3>2
  <2>2. QED
    BY <1>4, <2>1 DEF Locks
<1>6. file \in [Client -> Status] /\ store \in [Proc -> [Client -> Status]]
  BY <1>4 DEF Status
<1>7. at \in [Client -> Place] /\ timer \in [Proc -> {"sleep", "session", "store"}]
  BY <1>4 DEF Place
<1>8. proc \in [Proc -> {"none", "spawned", "unlinked", "bound", "up", "gone"}]
      /\ late \in [Client -> BOOLEAN] /\ kind \in [Client -> Kind]
  BY <1>1, <1>2
<1>9. /\ queue \in [Proc -> Seq(Client)] /\ focus \in [Proc -> Client \union {Nobody}]
      /\ default \in [Proc -> Client \union {Nobody}]
      /\ run \in [Client -> {"none", "queued", "over"} \union Started]
      /\ token \in [Client -> BOOLEAN] /\ root \in [Client -> Client \union {Nobody}]
      /\ peer \in [Client -> Proc \union {Nobody}] /\ idle \in [Client -> BOOLEAN]
      /\ told \in [Client -> Status \union {"nothing"}] /\ rivals \in BOOLEAN
  <2>1. queue \in [Proc -> Seq(Client)]
    BY <1>4
  <2>2. focus \in [Proc -> Client \union {Nobody}] /\ default \in [Proc -> Client \union {Nobody}]
    BY <1>4
  <2>3. run \in [Client -> {"none", "queued", "over"} \union Started]
    BY <1>4
  <2>4. root \in [Client -> Client \union {Nobody}] /\ peer \in [Client -> Proc \union {Nobody}]
    BY <1>4
  <2>5. /\ token \in [Client -> BOOLEAN] /\ idle \in [Client -> BOOLEAN] /\ rivals \in BOOLEAN
        /\ told \in [Client -> Status \union {"nothing"}]
    BY <1>4
  <2>6. QED
    BY <2>1, <2>2, <2>3, <2>4, <2>5
<1>10. TypeOK
  BY <1>3, <1>5, <1>6, <1>7, <1>8, <1>9 DEF TypeOK, Locks, Waiter
<1>11. PlaceInv /\ SessionInv
  <2>1. "new" \notin Handled \union InSession
    BY DEF Handled, Unconnected, InSession
  <2>2. QED
    BY <1>4, <2>1 DEF PlaceInv, SessionInv
<1>12. RunInv /\ AnswerInv /\ WaitedReplyIsSettled
  BY <1>4 DEF RunInv, AnswerInv, WaitedReplyIsSettled
<1>13. BoardsInv
  <2>1. ASSUME NEW p \in Proc
        PROVE  BoardOK(Board(p))
    <3>1. /\ Board(p).queue = <<>> /\ Board(p).run = [c \in Client |-> "none"]
          /\ Board(p).store = [c \in Client |-> "Absent"]
          /\ Board(p).mine \subseteq Client
      BY <1>4 DEF Board
    <3>2. QED
      BY <3>1 DEF BoardOK
  <2>2. QED
    BY <1>4, <2>1 DEF BoardsInv
<1>14. FileInv
  <2>1. \A p, q \in Proc : Alive(p) /\ Alive(q) => p = q
    BY <1>1, <1>2 DEF Alive
  <2>2. QED
    BY <1>4, <2>1 DEF FileInv
<1>15. QED
  BY <1>10, <1>11, <1>12, <1>13, <1>14 DEF DaemonInv

LEMMA Steps ==
  ASSUME DaemonInv, [Next]_vars
  PROVE  DaemonInv'
<1>1. CASE UNCHANGED vars
  <2>1. /\ UNCHANGED <<clientVars, boardVars, procVars, default, lock, timer>>
        /\ kind' = kind /\ at' = at /\ peer' = peer /\ idle' = idle /\ late' = late
        /\ told' = told /\ proc' = proc /\ path' = path /\ rivals' = rivals
        /\ file' = file /\ store' = store /\ queue' = queue /\ focus' = focus
        /\ run' = run /\ token' = token /\ root' = root
        /\ default' = default /\ lock' = lock /\ timer' = timer
    BY <1>1 DEF vars, clientVars, boardVars, procVars
  <2>2. TypeOK'
    BY <2>1 DEF DaemonInv, TypeOK
  <2>3. BoardsInv' /\ FileInv'
    BY <2>1, BoardsKept DEF DaemonInv
  <2>4. QED
    BY <2>1, <2>2, <2>3, BesideHandlers DEF Holds
<1>2. ASSUME NEW c \in Client, Local(c) \/ Answered(c) \/ Task(c)
      PROVE  DaemonInv'
  <2>1. CASE StartDaemon(c) \/ Check(c) \/ Poll(c) \/ Connect(c)
    BY <2>1, ClientKeeps
  <2>2. CASE Accept(c) \/ Second(c) \/ Send(c) \/ TurnStarts(c)
    BY <2>2, AcceptKeeps, SecondKeeps, SendKeeps, TurnStartsKeeps
  <2>3. CASE Wait(c) \/ Snapshot(c) \/ Report(c) \/ Cancel(c) \/ View(c)
    BY <2>3, WaitKeeps, SnapshotKeeps, ReportKeeps, CancelKeeps, ViewKeeps
  <2>4. CASE Write(c) \/ Shutdown(c) \/ Answered(c)
    BY <2>4, WriteKeeps, ShutdownKeeps, TurnRetriesKeeps, TurnEndsKeeps DEF Answered
  <2>5. CASE Task(c)
    BY <2>5, TaskKeeps
  <2>6. QED
    BY <1>2, <2>1, <2>2, <2>3, <2>4, <2>5 DEF Local
<1>3. ASSUME NEW p \in Proc, Start(p) \/ TimerStep(p)
      PROVE  DaemonInv'
  BY <1>3, StartKeeps, TimerKeeps
<1>4. QED
  BY <1>1, <1>2, <1>3 DEF Next, Done

\* The inductive invariant holds in every reachable state.
THEOREM Invariance == Spec => []DaemonInv
<1>1. Init => DaemonInv
  BY Starts
<1>2. DaemonInv /\ [Next]_vars => DaemonInv'
  BY Steps
<1>3. QED
  BY <1>1, <1>2, PTL DEF Spec

\* Every variable keeps its type, the boards and the mutexes of every daemon
\* process included.
THEOREM TypeCorrect == Spec => []TypeOK
<1>1. DaemonInv => TypeOK
  BY DEF DaemonInv
<1>2. QED
  BY <1>1, Invariance, PTL

\* A task waits and runs with the root its own request set (set_task_root,
\* enqueue), although every prompt sets the root of the shared session anew:
\* the session mutex is held from there to the entry in the queue.
THEOREM RootKept == Spec => []RootOfTheRequest
<1>1. DaemonInv => RootOfTheRequest
  <2> SUFFICES ASSUME DaemonInv, NEW t \in Client, run[t] \notin {"none", "over"}
               PROVE  root[t] = t
    BY DEF RootOfTheRequest
  <2>1. peer[t] \in Proc /\ proc[peer[t]] = "up"
    BY DEF DaemonInv, RunInv
  <2>2. BoardOK(Board(peer[t]))
    BY <2>1 DEF DaemonInv, BoardsInv
  <2>3. QED
    BY <2>2 DEF BoardOK, Board
<1>2. QED
  BY <1>1, Invariance, PTL

\* A client that waited without running into its deadline is told a final
\* status: the board it saw idle had no future of its task left, and none
\* comes back.
THEOREM WaitedSettled == Spec => []WaitedReplyIsSettled
<1>1. DaemonInv => WaitedReplyIsSettled
  BY DEF DaemonInv
<1>2. QED
  BY <1>1, Invariance, PTL

\* As long as one daemon lives at a time, the file keeps what a client was
\* told of an ended task, and no task of a daemon that is gone is active in it
\* once the next one serves (mark_interrupted_active_tasks).
THEOREM ToldStays == Spec => []ToldIsOnFile
<1>1. DaemonInv => ToldIsOnFile
  <2> SUFFICES ASSUME DaemonInv, ~rivals, NEW c \in Client
               PROVE  /\ told[c] \in {"Completed", "Failed"} => file[c] = told[c]
                      /\ \A p \in Proc : proc[p] = "up" /\ peer[c] # p
                                           => file[c] \notin {"Queued", "Running"}
    BY DEF ToldIsOnFile
  <2>1. told[c] \in {"Completed", "Failed"} => file[c] = told[c]
    BY DEF DaemonInv, FileInv
  <2>2. ASSUME NEW p \in Proc, proc[p] = "up", peer[c] # p
        PROVE  file[c] \notin {"Queued", "Running"}
    <3>1. BoardOK(Board(p)) /\ store[p] = file
      BY <2>2 DEF DaemonInv, BoardsInv, FileInv
    <3>2. QED
      BY <2>2, <3>1 DEF BoardOK, Board
  <2>3. QED
    BY <2>1, <2>2
<1>2. QED
  BY <1>1, Invariance, PTL
=============================================================================

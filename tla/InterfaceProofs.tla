--------------------------- MODULE InterfaceProofs ---------------------------
(***************************************************************************)
(* Proofs about Interface, for every set of tasks, every load and bound on *)
(* faults, and every trace of an agent run: a reader has a beginning of    *)
(* the log, hears of an end last, is answered in turn, and is shown a      *)
(* timeline that is true.                                                  *)
(***************************************************************************)
EXTENDS Interface, Integers, SequenceTheorems, FiniteSetTheorems,
        WellFoundedInduction, TLAPS

-----------------------------------------------------------------------------
(* Sequences.                                                              *)

\* RemoveAt leaves the others in their order.
LEMMA RemoveAtType ==
  ASSUME NEW S, NEW q \in Seq(S), NEW i \in DOMAIN q
  PROVE  /\ RemoveAt(q, i) \in Seq(S)
         /\ Len(RemoveAt(q, i)) = Len(q) - 1
         /\ \A j \in 1..(Len(q) - 1) :
              RemoveAt(q, i)[j] = IF j < i THEN q[j] ELSE q[j + 1]
<1> DEFINE left == SubSeq(q, 1, i - 1)
           right == SubSeq(q, i + 1, Len(q))
<1>1. Len(q) \in Nat /\ i \in 1..Len(q) /\ \A j \in 1..Len(q) : q[j] \in S
  OBVIOUS
<1>2. left \in Seq(S) /\ Len(left) = i - 1 /\ \A j \in 1..(i - 1) : left[j] = q[j]
  BY <1>1
<1>3. right \in Seq(S) /\ Len(right) = Len(q) - i /\ \A j \in 1..(Len(q) - i) : right[j] = q[i + j]
  BY <1>1
<1> HIDE DEF left, right
<1>4. RemoveAt(q, i) = left \o right
  BY DEF RemoveAt, left, right
<1>5. QED
  BY <1>1, <1>2, <1>3, <1>4, ConcatProperties

\* What taking the first element leaves.
LEMMA TailEffect ==
  ASSUME NEW S, NEW s \in Seq(S), s # <<>>
  PROVE  /\ Len(s) \in Nat \ {0} /\ DOMAIN s = 1..Len(s)
         /\ Head(s) = s[1] /\ s[1] \in S
         /\ Tail(s) \in Seq(S) /\ DOMAIN Tail(s) = 1..(Len(s) - 1)
         /\ \A i \in DOMAIN Tail(s) : Tail(s)[i] = s[i + 1]
BY HeadTailProperties

\* A prefix, position by position.
LEMMA PrefixByPosition ==
  ASSUME NEW S, NEW s \in Seq(S), NEW t \in Seq(S), Len(s) <= Len(t),
         \A i \in 1..Len(s) : s[i] = t[i]
  PROVE  IsPrefix(s, t)
<1>1. /\ SubSeq(s, 1, Len(s)) \in Seq(S) /\ SubSeq(t, 1, Len(s)) \in Seq(S)
      /\ Len(SubSeq(s, 1, Len(s))) = Len(s) /\ Len(SubSeq(t, 1, Len(s))) = Len(s)
      /\ \A i \in 1..Len(s) : SubSeq(s, 1, Len(s))[i] = SubSeq(t, 1, Len(s))[i]
  OBVIOUS
<1>2. QED
  BY <1>1, SeqEqual DEF IsPrefix

\* A set of natural numbers has a least element.
LEMMA LeastElement ==
  ASSUME NEW T \in SUBSET Nat, T # {}
  PROVE  \E x \in T : \A y \in T : x <= y
<1> DEFINE R == OpToRel(<, Nat)
<1>1. \A x, y \in Nat : y < x => <<y, x>> \in R
  BY DEF OpToRel
<1>2. IsWellFoundedOn(R, Nat)
  BY NatLessThanWellFounded
<1> HIDE DEF R
<1>3. PICK x \in T : \A y \in T : ~(<<y, x>> \in R)
  BY <1>2, WFMin
<1>4. \A y \in T : y \in Nat /\ x \in Nat /\ ~(y < x)
  BY <1>1, <1>3
<1>5. QED
  BY <1>3, <1>4

-----------------------------------------------------------------------------
(* The values of the variables.                                            *)

Words == Note \union STRING \union {"own", "branch", "-"}
Items == Words \X Words

OnceKinds == {"engine.operation", "agent.run"}

ProgressKinds ==
  {"engine.operation", "engine.branch.operation", "agent.run.started",
   "agent.branch.run.started", "agent.run.event", "agent.branch.run.event",
   "agent.run", "agent.branch.run"}

BoardKinds == TaskKinds \union {"engine.completed", "engine.failed"}

Entries == [kind : ProgressKinds \union BoardKinds \union {"task.recovered"}, item : Items]
OnceEntries == [kind : OnceKinds, item : Items]
PlainEntries == [kind : (ProgressKinds \ OnceKinds) \union BoardKinds, item : Items]
ProgressEntries == [kind : ProgressKinds, item : Items]

Runs == [item : Items, events : Seq(STRING)]
Reports == [ops : Seq(Items), runs : Seq(Runs), text : BOOLEAN]

Results == {"Completed", "WaitingForInput", "Failed"}
Statuses == {"Absent", "Created", "Queued", "Running", "Cancelled"} \union Results

Records == [status : Statuses, born : Nat, log : Seq(Entries), report : Reports]

Calls ==
  [call : {"create", "enqueue", "spawn"}, task : Task]
    \union [call : {"status"}, task : Task, status : {"Queued", "Running", "Failed", "Cancelled"}]
    \union [call : {"event"}, task : Task, entry : PlainEntries]
    \union [call : {"once"}, task : Task, entry : OnceEntries]
    \union [call : {"report"}, task : Task, status : Results, report : Reports]
    \union [call : {"drain", "start"}]

RunEvents ==
  [type : {"progress"}, task : Task, entry : ProgressEntries]
    \union [type : {"completed"}, task : Task, status : Results, report : Reports]
    \union [type : {"failed", "cancelled"}, task : Task]

Works == [state : {"none", "run", "ended"}, steps : Nat, ops : Seq(Items), runs : Seq(Runs)]

BoardTyped ==
  /\ mem \in [Task -> Records] /\ file \in [Task -> Records]
  /\ queue \in Seq(Task) /\ running \subseteq Task /\ token \subseteq Task
  /\ channel \in Seq(RunEvents) /\ work \in [Task -> Works] /\ todo \in Seq(Calls)
  /\ faults \in Nat /\ lost \in BOOLEAN /\ torn \in BOOLEAN

-----------------------------------------------------------------------------
(* What is left to do, task by task.                                       *)

Break(c) == c.call \in {"drain", "start"}
Stops(c) == c.call \in {"drain", "start", "enqueue"}
About(c, t) == ~Break(c) /\ c.task = t
Claims(c, t) == c.call \in {"enqueue", "spawn", "report"} /\ c.task = t
Sets(c, t) == c.call \in {"create", "status", "report"} /\ c.task = t
Tells(c, t) == c.call = "event" /\ c.task = t /\ c.entry.kind \in TaskKinds

HasClaim(q, t) == \E i \in DOMAIN q : Claims(q[i], t)
OneClaim(q, t) == \A i, j \in DOMAIN q : Claims(q[i], t) /\ Claims(q[j], t) => i = j

\* The run of a task is in one place: to be enqueued, queued, to be spawned,
\* run, ended with its report in the channel, to be reported, reported.
Waits(t) == \E i \in DOMAIN queue : queue[i] = t
IsRun(t) == work[t].state = "run"
Ends(e, t) == e.type = "completed" /\ e.task = t
Done(t) == \E i \in DOMAIN channel : Ends(channel[i], t)
Reported(t) == mem[t].report # NoReport

OneRun(t) ==
  /\ OneClaim(todo, t)
  /\ \A i, j \in DOMAIN queue : queue[i] = t /\ queue[j] = t => i = j
  /\ \A i, j \in DOMAIN channel : Ends(channel[i], t) /\ Ends(channel[j], t) => i = j
  /\ HasClaim(todo, t) => ~Waits(t) /\ ~IsRun(t) /\ ~Done(t) /\ ~Reported(t)
  /\ Waits(t) => ~IsRun(t) /\ ~Done(t) /\ ~Reported(t)
  /\ IsRun(t) => ~Done(t) /\ ~Reported(t)
  /\ Done(t) => ~Reported(t)

Creates(q, t) == \E i \in DOMAIN q : q[i] = Create(t)
CreatedOnce(q, t) == \A i, j \in DOMAIN q : q[i] = Create(t) /\ q[j] = Create(t) => i = j

\* Whatever is said of a task follows its creation.
Introduced(q, t) == \A i \in DOMAIN q : About(q[i], t) => \E j \in 1..i : q[j] = Create(t)

\* Nothing is known of a task before it is created, and it is created once.
Born(t) ==
  /\ mem[t] = Absent =>
       /\ file[t] = Absent
       /\ ~Waits(t) /\ ~IsRun(t) /\ t \notin running
       /\ \A i \in DOMAIN channel : channel[i].task # t
       /\ Introduced(todo, t)
  /\ Creates(todo, t) => mem[t] = Absent
  /\ CreatedOnce(todo, t)

-----------------------------------------------------------------------------
(* A record of a task, and an earlier one.                                 *)

Logs(log, e) == \E i \in DOMAIN log : log[i] = e

ReportEntries(r) ==
  {Entry("engine.operation", r.ops[i]) : i \in DOMAIN r.ops}
    \union {Entry("agent.run", r.runs[i].item) : i \in DOMAIN r.runs}

\* Operations and agent runs are logged once, those of the report are, and
\* what is completed has a result.
Sound(rec) ==
  /\ \A i, j \in DOMAIN rec.log :
       rec.log[i] = rec.log[j] /\ rec.log[i].kind \in OnceKinds => i = j
  /\ \A e \in ReportEntries(rec.report) : Logs(rec.log, e)
  /\ rec.status = "Completed" => rec.report.text

\* The log was a beginning of this one, and a report stays.
Before(old, rec) ==
  /\ Len(old.log) <= Len(rec.log)
  /\ \A i \in 1..Len(old.log) : old.log[i] = rec.log[i]
  /\ old.report = NoReport \/ old.report = rec.report

\* Before a report is written, what it names is logged.
ReportFollows(q, t, log) ==
  \A i \in DOMAIN q : q[i].call = "report" /\ q[i].task = t =>
    /\ q[i].status = "Completed" => q[i].report.text
    /\ \A e \in ReportEntries(q[i].report) :
         Logs(log, e) \/ \E j \in DOMAIN q : j < i /\ q[j] = Once(t, e)

Kept(t) ==
  /\ Sound(mem[t]) /\ Sound(file[t]) /\ Before(file[t], mem[t])
  /\ ReportFollows(todo, t, mem[t].log)

ResultsHaveText ==
  \A i \in DOMAIN channel : channel[i].type = "completed" =>
    (channel[i].status = "Completed" => channel[i].report.text)

-----------------------------------------------------------------------------
(* The status of a task and the last that is told of it.                   *)

StatusOf(c) == IF c.call = "create" THEN "Created" ELSE c.status

Tale(kind) == IF kind = "task.recovered" THEN "failed" ELSE ItemStatus(kind)

TellingKinds == TaskKinds \union {"task.recovered"}

ToldLast(log, s) ==
  \E i \in DOMAIN log :
    /\ log[i].kind \in TellingKinds /\ Tale(log[i].kind) = s
    /\ \A j \in DOMAIN log : j > i => log[j].kind \notin TellingKinds

NoSet(q, t) == \A i \in DOMAIN q : ~Sets(q[i], t)
NoTell(q, t) == \A i \in DOMAIN q : ~Tells(q[i], t)
LastSet(q, i, t) == Sets(q[i], t) /\ \A k \in DOMAIN q : k > i => ~Sets(q[k], t)
LastTell(q, i, t) == Tells(q[i], t) /\ \A k \in DOMAIN q : k > i => ~Tells(q[k], t)

\* A status that is to be written is told afterwards.
SetIsTold(q, t) ==
  \A i \in DOMAIN q : LastSet(q, i, t) =>
    \E j \in DOMAIN q :
      /\ j > i /\ LastTell(q, j, t)
      /\ Tale(q[j].entry.kind) = ShownAs(StatusOf(q[i]))

\* What comes after a drain or a queueing is told of a status that is written
\* after it.
ToldOfSet(q, t) ==
  \A b, j \in DOMAIN q : Stops(q[b]) /\ b < j /\ Tells(q[j], t) =>
    \E i \in DOMAIN q : b < i /\ i < j /\ Sets(q[i], t)

\* The status that is written has been told, or will be.
TellsStatus(q, t, log, status) ==
  \/ \E j \in DOMAIN q : LastTell(q, j, t) /\ Tale(q[j].entry.kind) = ShownAs(status)
  \/ NoTell(q, t) /\ ToldLast(log, ShownAs(status))

StatusTold(t) ==
  mem[t] # Absent /\ ~torn /\ ~lost /\ NoSet(todo, t) =>
    TellsStatus(todo, t, mem[t].log, mem[t].status)

Told(t) == SetIsTold(todo, t) /\ ToldOfSet(todo, t) /\ StatusTold(t)

BoardInv ==
  /\ BoardTyped /\ ResultsHaveText
  /\ \A t \in Task : OneRun(t) /\ Born(t) /\ Kept(t) /\ Told(t)

-----------------------------------------------------------------------------
(* The readers.                                                            *)

Rec == IF reader = "inspect" THEN file[got.task] ELSE mem[got.task]
Astray == reader = "acp" /\ lost

Numbers == [seq : Nat, entry : Entries]
Lines == [id : Nat, method : Methods \union {"none"},
          flaw : {"none", "session", "params", "workspace"}, task : Task \union {NoTask}]
Messages == [id : Nat, is : {"result", "error", "update"}, task : Task \union {NoTask}]

ReaderTyped ==
  /\ load \in Loads /\ ended \in BOOLEAN
  /\ reader = "tui" => got.task = NoTask
  /\ got.task \in Task \union {NoTask} /\ got.status \in Statuses
  /\ got.events \in Seq(Numbers) /\ got.results \in {0, 1}
  /\ got.cursor.task \in Nat /\ got.cursor.agent \in Nat
  /\ DOMAIN got = {"task", "status", "events", "agents", "results", "cursor"}
  /\ lines \in Nat /\ ids \subseteq 1..lines /\ asked \in Lines
  /\ conn \in {"none", "open", "drained", "served", "broken"}
  /\ prompted \in Task \union {NoTask} /\ out \in Seq(Messages)

\* What the reader has got is a beginning of what there is.
Read ==
  /\ got.task = NoTask => /\ got.events = <<>> /\ got.agents = <<>>
                          /\ got.results = 0 /\ got.cursor = Start
  /\ got.task # NoTask /\ ~Astray =>
       /\ Len(got.events) <= Len(Rec.log)
       /\ \A i \in 1..Len(got.events) : got.events[i] = [seq |-> i, entry |-> Rec.log[i]]
       /\ got.agents = <<>> \/ got.agents = AgentEvents(Rec)
       /\ Acp => got.cursor = [task |-> Len(got.events), agent |-> Len(got.agents)]

\* Who was told of an end was told everything.
Heard ==
  got.task # NoTask /\ ~Astray =>
    /\ got.status = "Completed" =>
         /\ Rec.report.text
         /\ \A e \in ReportEntries(Rec.report) :
              \E i \in DOMAIN got.events : got.events[i].entry = e
         /\ got.agents = AgentEvents(Rec)
         /\ reader = "inspect" => got.results = 1
    /\ Acp /\ ~torn =>
         /\ got.status = "Completed" => Has({"task.completed"})
         /\ got.status = "WaitingForInput" => Has({"task.waiting_for_input"})
         /\ got.status = "Failed" => Has({"task.failed", "task.recovered"})
         /\ got.status = "Cancelled" => Has({"task.cancelled", "task.cancel.requested"})

Answered ==
  /\ reader = "acp" =>
       /\ \A i, j \in DOMAIN out :
            out[i].is # "update" /\ out[j].is # "update" /\ i < j => out[i].id < out[j].id
       /\ {out[i].id : i \in {k \in DOMAIN out : out[k].is # "update"}} = ids \ {asked.id}
  /\ reader = "embedded" =>
       /\ Len(out) = IF asked = NoLine THEN lines ELSE lines - 1
       /\ \A i \in DOMAIN out : out[i].id = IF i \in ids THEN i ELSE 0
  /\ lost \/ \A i \in DOMAIN out : out[i].task # NoTask => mem[out[i].task] # Absent

\* A request at the daemon or at the session, and the calls it leads to.
Served ==
  /\ conn = "none" <=> asked = NoLine
  /\ asked # NoLine =>
       /\ Acp /\ lines > 0
       /\ asked.id = IF lines \in ids THEN lines ELSE 0
       /\ asked.method \in {"session/prompt", "session/cancel", "task/events"}
  /\ asked.method = "task/events" => asked.task \in Task /\ got.task \in {NoTask, asked.task}
  /\ conn = "broken" => reader = "acp"
  /\ conn \in {"none", "open", "drained"} => prompted = NoTask
  /\ conn = "served" /\ prompted # NoTask =>
       mem[prompted] # Absent \/ \E i \in DOMAIN todo : todo[i] = Create(prompted)
  /\ reader = "embedded" =>
       /\ ~lost /\ ~torn
       /\ ended => asked = NoLine
       /\ conn = "open" \/ (conn = "none" /\ ~ended) => todo = <<>>

InterfaceInv ==
  /\ BoardInv
  /\ ReaderTyped /\ Read /\ Heard /\ Answered /\ Served

-----------------------------------------------------------------------------
(* What is done from the front, and what is put before it.                 *)

\* The positions of one sequence after another.
LEMMA PushFacts ==
  ASSUME NEW S, NEW g \in Seq(S), NEW q \in Seq(S)
  PROVE  /\ g \o q \in Seq(S) /\ Len(g) \in Nat /\ Len(q) \in Nat
         /\ DOMAIN g = 1..Len(g) /\ DOMAIN q = 1..Len(q) /\ DOMAIN (g \o q) = 1..(Len(g) + Len(q))
         /\ \A i \in DOMAIN g : i \in DOMAIN (g \o q) /\ (g \o q)[i] = g[i]
         /\ \A i \in DOMAIN q : Len(g) + i \in DOMAIN (g \o q) /\ (g \o q)[Len(g) + i] = q[i]
         /\ \A i \in DOMAIN (g \o q) : i \in DOMAIN g \/ (i > Len(g) /\ i - Len(g) \in DOMAIN q)
         /\ \A i \in DOMAIN (g \o q) : i \in DOMAIN g \/ (g \o q)[i] = q[i - Len(g)]
<1>1. /\ g \o q \in Seq(S) /\ Len(g \o q) = Len(g) + Len(q)
      /\ \A i \in 1..(Len(g) + Len(q)) :
           (g \o q)[i] = IF i <= Len(g) THEN g[i] ELSE q[i - Len(g)]
  BY ConcatProperties
<1>2. Len(g) \in Nat /\ Len(q) \in Nat /\ DOMAIN g = 1..Len(g) /\ DOMAIN q = 1..Len(q)
      /\ DOMAIN (g \o q) = 1..Len(g \o q)
  BY <1>1, LenProperties
<1> QED BY <1>1, <1>2

LEMMA PopFacts ==
  ASSUME NEW S, NEW q \in Seq(S), q # <<>>
  PROVE  /\ Tail(q) \in Seq(S) /\ 1 \in DOMAIN q /\ Head(q) = q[1]
         /\ \A i \in DOMAIN Tail(q) : i \in Nat \ {0} /\ i + 1 \in DOMAIN q /\ Tail(q)[i] = q[i + 1]
         /\ \A i \in DOMAIN q : i = 1 \/ (i > 1 /\ i - 1 \in DOMAIN Tail(q) /\ q[i] = Tail(q)[i - 1])
<1>1. Len(q) \in Nat \ {0} /\ DOMAIN q = 1..Len(q) /\ Head(q) = q[1]
      /\ Tail(q) \in Seq(S) /\ DOMAIN Tail(q) = 1..(Len(q) - 1)
      /\ \A i \in DOMAIN Tail(q) : Tail(q)[i] = q[i + 1]
  BY TailEffect
<1>2. \A i \in 1..Len(q) : i = 1 \/ (i > 1 /\ i - 1 \in 1..(Len(q) - 1) /\ (i - 1) + 1 = i)
  BY <1>1
<1>3. \A i \in 1..(Len(q) - 1) : i \in Nat \ {0} /\ i + 1 \in 1..Len(q)
  BY <1>1
<1>4. 1 \in 1..Len(q)
  BY <1>1
<1>5. \A i \in DOMAIN Tail(q) : i \in Nat \ {0} /\ i + 1 \in DOMAIN q /\ Tail(q)[i] = q[i + 1]
  BY <1>1, <1>3
<1>6. \A i \in DOMAIN q : i = 1 \/ (i > 1 /\ i - 1 \in DOMAIN Tail(q) /\ q[i] = Tail(q)[i - 1])
  BY <1>1, <1>2
<1> QED BY <1>1, <1>4, <1>5, <1>6

LEMMA PopClaims ==
  ASSUME NEW S, NEW q \in Seq(S), q # <<>>, NEW t, OneClaim(q, t)
  PROVE  /\ OneClaim(Tail(q), t)
         /\ HasClaim(Tail(q), t) => HasClaim(q, t)
         /\ Claims(Head(q), t) => HasClaim(q, t) /\ ~HasClaim(Tail(q), t)
<1>1. OneClaim(Tail(q), t)
  BY PopFacts DEF OneClaim
<1>2. HasClaim(Tail(q), t) => HasClaim(q, t)
  BY PopFacts DEF HasClaim
<1>3. Claims(Head(q), t) => HasClaim(q, t) /\ ~HasClaim(Tail(q), t)
  BY PopFacts DEF HasClaim, OneClaim
<1> QED BY <1>1, <1>2, <1>3

LEMMA PushClaims ==
  ASSUME NEW S, NEW g \in Seq(S), NEW q \in Seq(S), NEW t, OneClaim(g, t), OneClaim(q, t),
         ~(HasClaim(g, t) /\ HasClaim(q, t))
  PROVE  /\ OneClaim(g \o q, t)
         /\ HasClaim(g \o q, t) => HasClaim(g, t) \/ HasClaim(q, t)
<1> DEFINE r == g \o q
<1>1. /\ \A i \in DOMAIN r : i \in DOMAIN g \/ (i > Len(g) /\ i - Len(g) \in DOMAIN q)
      /\ \A i \in DOMAIN r : i \in DOMAIN g \/ r[i] = q[i - Len(g)]
      /\ \A i \in DOMAIN g : r[i] = g[i]
      /\ Len(g) \in Nat /\ DOMAIN r \subseteq Int
  <2>1. DOMAIN r = 1..(Len(g) + Len(q)) /\ Len(g) \in Nat /\ Len(q) \in Nat
    BY PushFacts
  <2>2. DOMAIN r \subseteq Int
    BY <2>1
  <2> QED BY PushFacts, <2>2
<1> HIDE DEF r
<1>2. HasClaim(r, t) => HasClaim(g, t) \/ HasClaim(q, t)
  BY <1>1 DEF HasClaim
<1>3. ASSUME NEW i \in DOMAIN r, NEW j \in DOMAIN r, Claims(r[i], t), Claims(r[j], t)
      PROVE  i = j
  <2>1. CASE i \in DOMAIN g
    <3>1. HasClaim(g, t)
      BY <1>1, <1>3, <2>1 DEF HasClaim
    <3>2. j \in DOMAIN g
      BY <1>1, <1>3, <3>1 DEF HasClaim
    <3> QED BY <1>1, <1>3, <2>1, <3>2 DEF OneClaim
  <2>2. CASE i \notin DOMAIN g
    <3>1. i - Len(g) \in DOMAIN q /\ Claims(q[i - Len(g)], t)
      BY <1>1, <1>3, <2>2
    <3>2. j \notin DOMAIN g
      BY <1>1, <1>3, <3>1 DEF HasClaim
    <3>3. j - Len(g) \in DOMAIN q /\ Claims(q[j - Len(g)], t)
      BY <1>1, <1>3, <3>2
    <3>4. i - Len(g) = j - Len(g)
      BY <3>1, <3>3 DEF OneClaim
    <3> QED BY <1>1, <3>4
  <2> QED BY <2>1, <2>2
<1> QED BY <1>2, <1>3 DEF OneClaim, r

LEMMA PopBorn ==
  ASSUME NEW S, NEW q \in Seq(S), q # <<>>, NEW t, CreatedOnce(q, t)
  PROVE  /\ CreatedOnce(Tail(q), t)
         /\ Creates(Tail(q), t) => Creates(q, t)
         /\ Head(q) = Create(t) => Creates(q, t) /\ ~Creates(Tail(q), t)
         /\ Head(q) # Create(t) /\ Introduced(q, t) => Introduced(Tail(q), t)
<1>1. CreatedOnce(Tail(q), t)
  BY PopFacts DEF CreatedOnce
<1>2. Creates(Tail(q), t) => Creates(q, t)
  BY PopFacts DEF Creates
<1>3. Head(q) = Create(t) => Creates(q, t) /\ ~Creates(Tail(q), t)
  BY PopFacts DEF Creates, CreatedOnce
<1>4. ASSUME Head(q) # Create(t), Introduced(q, t), NEW i \in DOMAIN Tail(q), About(Tail(q)[i], t)
      PROVE  \E j \in 1..i : Tail(q)[j] = Create(t)
  <2>1. i \in Nat \ {0} /\ i + 1 \in DOMAIN q /\ About(q[i + 1], t)
    BY <1>4, PopFacts
  <2>2. PICK j \in 1..(i + 1) : q[j] = Create(t)
    BY <1>4, <2>1 DEF Introduced
  <2>3. j # 1
    BY <1>4, <2>2, PopFacts
  <2>4. j \in DOMAIN q
    <3>1. DOMAIN q = 1..Len(q) /\ Len(q) \in Nat
      BY LenProperties
    <3> QED BY <2>1, <2>2, <3>1
  <2>5. j - 1 \in 1..i /\ Tail(q)[j - 1] = q[j]
    BY <2>1, <2>2, <2>3, <2>4, PopFacts
  <2> QED BY <2>2, <2>5
<1>5. Head(q) # Create(t) /\ Introduced(q, t) => Introduced(Tail(q), t)
  BY <1>4 DEF Introduced
<1> QED BY <1>1, <1>2, <1>3, <1>5

\* Calls about other tasks put before.
LEMMA PushBorn ==
  ASSUME NEW S, NEW g \in Seq(S), NEW q \in Seq(S), NEW t, CreatedOnce(q, t),
         ~Creates(g, t)
  PROVE  /\ CreatedOnce(g \o q, t)
         /\ Creates(g \o q, t) => Creates(q, t)
         /\ (\A i \in DOMAIN g : ~About(g[i], t)) /\ Introduced(q, t) => Introduced(g \o q, t)
<1> DEFINE r == g \o q
<1>1. /\ \A i \in DOMAIN r : i \in DOMAIN g \/ (i > Len(g) /\ i - Len(g) \in DOMAIN q)
      /\ \A i \in DOMAIN r : i \in DOMAIN g \/ r[i] = q[i - Len(g)]
      /\ \A i \in DOMAIN g : r[i] = g[i]
      /\ \A i \in DOMAIN q : Len(g) + i \in DOMAIN r /\ r[Len(g) + i] = q[i]
      /\ Len(g) \in Nat /\ DOMAIN r \subseteq Nat /\ DOMAIN q = 1..Len(q) /\ Len(q) \in Nat
  <2>1. DOMAIN r = 1..(Len(g) + Len(q)) /\ Len(g) \in Nat /\ Len(q) \in Nat
    BY PushFacts
  <2>2. DOMAIN r \subseteq Nat
    BY <2>1
  <2> QED BY PushFacts, <2>2
<1> HIDE DEF r
<1>2. Creates(r, t) => Creates(q, t)
  BY <1>1 DEF Creates
<1>3. ASSUME NEW i \in DOMAIN r, NEW j \in DOMAIN r, r[i] = Create(t), r[j] = Create(t)
      PROVE  i = j
  <2>1. i \notin DOMAIN g /\ j \notin DOMAIN g
    BY <1>1, <1>3 DEF Creates
  <2>2. i - Len(g) \in DOMAIN q /\ q[i - Len(g)] = Create(t)
        /\ j - Len(g) \in DOMAIN q /\ q[j - Len(g)] = Create(t)
    BY <1>1, <1>3, <2>1
  <2>3. i - Len(g) = j - Len(g)
    BY <2>2 DEF CreatedOnce
  <2> QED BY <1>1, <2>3
<1>4. ASSUME \A i \in DOMAIN g : ~About(g[i], t), Introduced(q, t),
             NEW i \in DOMAIN r, About(r[i], t)
      PROVE  \E j \in 1..i : r[j] = Create(t)
  <2>1. i - Len(g) \in DOMAIN q /\ About(q[i - Len(g)], t)
    BY <1>1, <1>4
  <2>2. PICK j \in 1..(i - Len(g)) : q[j] = Create(t)
    BY <1>4, <2>1 DEF Introduced
  <2>3. j \in DOMAIN q /\ Len(g) + j \in 1..i
    BY <1>1, <2>1, <2>2
  <2> QED BY <1>1, <2>2, <2>3
<1> QED BY <1>2, <1>3, <1>4 DEF CreatedOnce, Introduced, r

LEMMA PopFollows ==
  ASSUME NEW S, NEW q \in Seq(S), q # <<>>, NEW t, NEW log, NEW new,
         ReportFollows(q, t, log), \A e : Logs(log, e) => Logs(new, e),
         \A e : Head(q) = Once(t, e) => Logs(new, e)
  PROVE  ReportFollows(Tail(q), t, new)
<1> DEFINE r == Tail(q)
<1> SUFFICES ASSUME NEW i \in DOMAIN r, r[i].call = "report", r[i].task = t
             PROVE  /\ r[i].status = "Completed" => r[i].report.text
                    /\ \A e \in ReportEntries(r[i].report) :
                         Logs(new, e) \/ \E j \in DOMAIN r : j < i /\ r[j] = Once(t, e)
  BY DEF ReportFollows
<1>1. /\ i \in Nat \ {0} /\ i + 1 \in DOMAIN q /\ r[i] = q[i + 1] /\ Head(q) = q[1]
      /\ \A j \in DOMAIN q : j = 1 \/ (j > 1 /\ j - 1 \in DOMAIN r /\ q[j] = r[j - 1])
  BY PopFacts
<1>2. DOMAIN q \subseteq Nat
  <2>1. DOMAIN q = 1..Len(q) /\ Len(q) \in Nat
    BY LenProperties
  <2> QED BY <2>1
<1> HIDE DEF r
<1>3. /\ q[i + 1].status = "Completed" => q[i + 1].report.text
      /\ \A e \in ReportEntries(q[i + 1].report) :
           Logs(log, e) \/ \E j \in DOMAIN q : j < i + 1 /\ q[j] = Once(t, e)
  BY <1>1 DEF ReportFollows
<1>4. ASSUME NEW e \in ReportEntries(r[i].report), ~Logs(new, e)
      PROVE  \E j \in DOMAIN r : j < i /\ r[j] = Once(t, e)
  <2>1. PICK j \in DOMAIN q : j < i + 1 /\ q[j] = Once(t, e)
    BY <1>1, <1>3, <1>4
  <2>2. j # 1
    BY <1>1, <1>4, <2>1
  <2>3. j - 1 \in DOMAIN r /\ r[j - 1] = q[j] /\ j - 1 < i
    BY <1>1, <1>2, <2>1, <2>2
  <2> QED BY <2>1, <2>3
<1> QED BY <1>1, <1>3, <1>4

LEMMA PushFollows ==
  ASSUME NEW S, NEW g \in Seq(S), NEW q \in Seq(S), NEW t, NEW log,
         ReportFollows(g, t, log), ReportFollows(q, t, log)
  PROVE  ReportFollows(g \o q, t, log)
<1> DEFINE r == g \o q
<1> SUFFICES ASSUME NEW i \in DOMAIN r, r[i].call = "report", r[i].task = t
             PROVE  /\ r[i].status = "Completed" => r[i].report.text
                    /\ \A e \in ReportEntries(r[i].report) :
                         Logs(log, e) \/ \E j \in DOMAIN r : j < i /\ r[j] = Once(t, e)
  BY DEF ReportFollows
<1>1. /\ i \in DOMAIN g \/ (i > Len(g) /\ i - Len(g) \in DOMAIN q)
      /\ i \in DOMAIN g \/ r[i] = q[i - Len(g)]
      /\ \A j \in DOMAIN g : j \in DOMAIN r /\ r[j] = g[j]
      /\ \A j \in DOMAIN q : Len(g) + j \in DOMAIN r /\ r[Len(g) + j] = q[j]
      /\ Len(g) \in Nat /\ Len(q) \in Nat /\ DOMAIN q = 1..Len(q)
      /\ DOMAIN r = 1..(Len(g) + Len(q))
  BY PushFacts
<1> HIDE DEF r
<1>2. CASE i \in DOMAIN g
  BY <1>1, <1>2 DEF ReportFollows
<1>3. CASE i \notin DOMAIN g
  <2> DEFINE k == i - Len(g)
  <2>1. k \in DOMAIN q /\ r[i] = q[k]
    BY <1>1, <1>3
  <2>2. \A j \in DOMAIN q : j < k => Len(g) + j < i
    BY <1>1
  <2> HIDE DEF k
  <2>3. /\ q[k].status = "Completed" => q[k].report.text
        /\ \A e \in ReportEntries(q[k].report) :
             Logs(log, e) \/ \E j \in DOMAIN q : j < k /\ q[j] = Once(t, e)
    BY <2>1 DEF ReportFollows
  <2>4. ASSUME NEW e \in ReportEntries(r[i].report), ~Logs(log, e)
        PROVE  \E j \in DOMAIN r : j < i /\ r[j] = Once(t, e)
    <3>1. PICK j \in DOMAIN q : j < k /\ q[j] = Once(t, e)
      BY <2>1, <2>3, <2>4
    <3> QED BY <1>1, <2>2, <3>1
  <2> QED BY <2>1, <2>3, <2>4
<1> QED BY <1>2, <1>3

LEMMA PopTold ==
  ASSUME NEW S, NEW q \in Seq(S), q # <<>>, NEW t, SetIsTold(q, t), ToldOfSet(q, t)
  PROVE  SetIsTold(Tail(q), t) /\ ToldOfSet(Tail(q), t)
<1> DEFINE r == Tail(q)
<1>1. /\ \A i \in DOMAIN r : i \in Nat \ {0} /\ i + 1 \in DOMAIN q /\ r[i] = q[i + 1]
      /\ \A i \in DOMAIN q : i = 1 \/ (i > 1 /\ i - 1 \in DOMAIN r /\ q[i] = r[i - 1])
  BY PopFacts
<1>2. DOMAIN q \subseteq Nat
  <2>1. DOMAIN q = 1..Len(q) /\ Len(q) \in Nat
    BY LenProperties
  <2> QED BY <2>1
<1> HIDE DEF r
<1>3. ASSUME NEW i \in DOMAIN r, LastSet(r, i, t)
      PROVE  \E j \in DOMAIN r : /\ j > i /\ LastTell(r, j, t)
                                 /\ Tale(r[j].entry.kind) = ShownAs(StatusOf(r[i]))
  <2>1. i \in Nat /\ i + 1 \in DOMAIN q /\ r[i] = q[i + 1]
    BY <1>1
  <2>2. LastSet(q, i + 1, t)
    <3>1. Sets(q[i + 1], t)
      BY <1>3, <2>1 DEF LastSet
    <3>2. ASSUME NEW k \in DOMAIN q, k > i + 1 PROVE ~Sets(q[k], t)
      <4>1. k - 1 \in DOMAIN r /\ q[k] = r[k - 1] /\ k - 1 > i
        BY <1>1, <1>2, <2>1, <3>2
      <4> QED BY <1>3, <4>1 DEF LastSet
    <3> QED BY <3>1, <3>2 DEF LastSet
  <2>3. PICK j \in DOMAIN q : /\ j > i + 1 /\ LastTell(q, j, t)
                              /\ Tale(q[j].entry.kind) = ShownAs(StatusOf(q[i + 1]))
    BY <2>1, <2>2 DEF SetIsTold
  <2>4. j - 1 \in DOMAIN r /\ q[j] = r[j - 1] /\ j - 1 > i
    BY <1>1, <1>2, <2>1, <2>3
  <2>5. LastTell(r, j - 1, t)
    <3>1. Tells(r[j - 1], t)
      BY <2>3, <2>4 DEF LastTell
    <3>2. ASSUME NEW k \in DOMAIN r, k > j - 1 PROVE ~Tells(r[k], t)
      <4>1. k + 1 \in DOMAIN q /\ q[k + 1] = r[k] /\ k + 1 > j
        BY <1>1, <1>2, <3>2
      <4> QED BY <2>3, <4>1 DEF LastTell
    <3> QED BY <3>1, <3>2 DEF LastTell
  <2> QED BY <2>1, <2>3, <2>4, <2>5
<1>4. ASSUME NEW b \in DOMAIN r, NEW j \in DOMAIN r, Stops(r[b]), b < j, Tells(r[j], t)
      PROVE  \E i \in DOMAIN r : b < i /\ i < j /\ Sets(r[i], t)
  <2>1. /\ b \in Nat \ {0} /\ b + 1 \in DOMAIN q /\ r[b] = q[b + 1]
        /\ j \in Nat /\ j + 1 \in DOMAIN q /\ r[j] = q[j + 1]
    BY <1>1
  <2>2. b + 1 < j + 1
    BY <1>4, <2>1
  <2>3. PICK i \in DOMAIN q : b + 1 < i /\ i < j + 1 /\ Sets(q[i], t)
    BY <1>4, <2>1, <2>2 DEF ToldOfSet
  <2>4. i - 1 \in DOMAIN r /\ q[i] = r[i - 1] /\ b < i - 1 /\ i - 1 < j
    BY <1>1, <1>2, <2>1, <2>3
  <2> QED BY <2>3, <2>4
<1>5. SetIsTold(r, t)
  BY <1>3 DEF SetIsTold
<1>6. ToldOfSet(r, t)
  BY <1>4 DEF ToldOfSet
<1> QED BY <1>5, <1>6 DEF r

\* Calls that write a status and tell of it put before a drain.
Group(g, t) ==
  /\ SetIsTold(g, t) /\ ToldOfSet(g, t)
  /\ NoSet(g, t) => NoTell(g, t)

LEMMA PushTold ==
  ASSUME NEW S, NEW g \in Seq(S), NEW q \in Seq(S), NEW t, Group(g, t),
         SetIsTold(q, t), ToldOfSet(q, t), q = <<>> \/ Stops(q[1])
  PROVE  SetIsTold(g \o q, t) /\ ToldOfSet(g \o q, t)
<1> DEFINE r == g \o q
           n == Len(g)
<1>1. /\ \A i \in DOMAIN r : i \in DOMAIN g \/ (i > n /\ i - n \in DOMAIN q /\ r[i] = q[i - n])
      /\ \A i \in DOMAIN g : i \in DOMAIN r /\ r[i] = g[i]
      /\ \A i \in DOMAIN q : n + i \in DOMAIN r /\ r[n + i] = q[i]
  BY PushFacts
<1>2. n \in Nat /\ DOMAIN g = 1..n /\ DOMAIN q \subseteq Nat \ {0} /\ DOMAIN r \subseteq Nat
      /\ \A i \in DOMAIN q : 1 \in DOMAIN q /\ q # <<>>
  <2>1. n \in Nat /\ Len(q) \in Nat /\ DOMAIN q = 1..Len(q) /\ DOMAIN r = 1..(n + Len(q))
        /\ DOMAIN g = 1..n
    BY PushFacts
  <2>2. q = <<>> => DOMAIN q = {}
    OBVIOUS
  <2> HIDE DEF n, r
  <2> QED BY <2>1, <2>2
<1> HIDE DEF r, n
<1>3. ASSUME NEW j \in DOMAIN q, Tells(q[j], t) PROVE \E i \in DOMAIN q : i < j /\ Sets(q[i], t)
  <2>1. 1 \in DOMAIN q /\ Stops(q[1])
    BY <1>2
  <2>2. j # 1
    BY <1>3, <2>1 DEF Stops, Tells
  <2>3. 1 < j
    BY <1>2, <2>2
  <2> QED BY <1>3, <2>1, <2>3 DEF ToldOfSet
<1>4. ASSUME NEW i \in DOMAIN r, LastSet(r, i, t)
      PROVE  \E j \in DOMAIN r : /\ j > i /\ LastTell(r, j, t)
                                 /\ Tale(r[j].entry.kind) = ShownAs(StatusOf(r[i]))
  <2>1. CASE i \in DOMAIN g
    <3>1. LastSet(g, i, t)
      BY <1>1, <1>4, <2>1 DEF LastSet
    <3>2. PICK j \in DOMAIN g : /\ j > i /\ LastTell(g, j, t)
                                /\ Tale(g[j].entry.kind) = ShownAs(StatusOf(g[i]))
      BY <2>1, <3>1 DEF SetIsTold, Group
    <3>3. NoTell(q, t)
      <4>1. ASSUME NEW k \in DOMAIN q PROVE ~Sets(q[k], t)
        <5>1. n + k \in DOMAIN r /\ r[n + k] = q[k] /\ n + k > i
          BY <1>1, <1>2, <2>1
        <5> QED BY <1>4, <5>1 DEF LastSet
      <4> QED BY <1>3, <4>1 DEF NoTell
    <3>4. LastTell(r, j, t)
      <4>1. Tells(r[j], t)
        BY <1>1, <3>2 DEF LastTell
      <4>2. ASSUME NEW k \in DOMAIN r, k > j PROVE ~Tells(r[k], t)
        <5>1. CASE k \in DOMAIN g
          BY <1>1, <3>2, <4>2, <5>1 DEF LastTell
        <5>2. CASE k \notin DOMAIN g
          BY <1>1, <3>3, <5>2 DEF NoTell
        <5> QED BY <5>1, <5>2
      <4> QED BY <4>1, <4>2 DEF LastTell
    <3> QED BY <1>1, <2>1, <3>2, <3>4
  <2>2. CASE i \notin DOMAIN g
    <3>1. i > n /\ i - n \in DOMAIN q /\ r[i] = q[i - n] /\ i \in Nat
      BY <1>1, <1>2, <2>2
    <3>2. LastSet(q, i - n, t)
      <4>1. Sets(q[i - n], t)
        BY <1>4, <3>1 DEF LastSet
      <4>2. ASSUME NEW k \in DOMAIN q, k > i - n PROVE ~Sets(q[k], t)
        <5>1. n + k \in DOMAIN r /\ r[n + k] = q[k] /\ n + k > i
          BY <1>1, <1>2, <3>1, <4>2
        <5> QED BY <1>4, <5>1 DEF LastSet
      <4> QED BY <4>1, <4>2 DEF LastSet
    <3>3. PICK j \in DOMAIN q : /\ j > i - n /\ LastTell(q, j, t)
                                /\ Tale(q[j].entry.kind) = ShownAs(StatusOf(q[i - n]))
      BY <3>1, <3>2 DEF SetIsTold
    <3>4. n + j \in DOMAIN r /\ r[n + j] = q[j] /\ n + j > i
      BY <1>1, <1>2, <3>1, <3>3
    <3>5. LastTell(r, n + j, t)
      <4>1. Tells(r[n + j], t)
        BY <3>3, <3>4 DEF LastTell
      <4>2. ASSUME NEW k \in DOMAIN r, k > n + j PROVE ~Tells(r[k], t)
        <5>1. k \notin DOMAIN g
          BY <1>2, <3>3, <4>2
        <5>2. k - n \in DOMAIN q /\ r[k] = q[k - n] /\ k - n > j
          BY <1>1, <1>2, <3>3, <4>2, <5>1
        <5> QED BY <3>3, <5>2 DEF LastTell
      <4> QED BY <4>1, <4>2 DEF LastTell
    <3> QED BY <3>1, <3>3, <3>4, <3>5
  <2> QED BY <2>1, <2>2
<1>5. ASSUME NEW b \in DOMAIN r, NEW j \in DOMAIN r, Stops(r[b]), b < j, Tells(r[j], t)
      PROVE  \E i \in DOMAIN r : b < i /\ i < j /\ Sets(r[i], t)
  <2>1. CASE j \in DOMAIN g
    <3>1. b \in DOMAIN g
      BY <1>1, <1>2, <1>5, <2>1
    <3>2. PICK i \in DOMAIN g : b < i /\ i < j /\ Sets(g[i], t)
      BY <1>1, <1>5, <2>1, <3>1 DEF ToldOfSet, Group
    <3> QED BY <1>1, <3>2
  <2>2. CASE j \notin DOMAIN g
    <3>1. j - n \in DOMAIN q /\ r[j] = q[j - n]
      BY <1>1, <2>2
    <3>2. CASE b \in DOMAIN g
      <4>1. PICK i \in DOMAIN q : i < j - n /\ Sets(q[i], t)
        BY <1>3, <1>5, <3>1
      <4>2. n + i \in DOMAIN r /\ r[n + i] = q[i] /\ b < n + i /\ n + i < j
        BY <1>1, <1>2, <3>1, <3>2, <4>1
      <4> QED BY <4>1, <4>2
    <3>3. CASE b \notin DOMAIN g
      <4>1. b - n \in DOMAIN q /\ r[b] = q[b - n]
        BY <1>1, <3>3
      <4>2. b - n < j - n
        BY <1>2, <1>5
      <4>3. PICK i \in DOMAIN q : b - n < i /\ i < j - n /\ Sets(q[i], t)
        BY <1>5, <3>1, <4>1, <4>2 DEF ToldOfSet
      <4>4. n \in Nat /\ b \in Nat /\ j \in Nat /\ i \in Nat
        BY <1>2
      <4>5. b < n + i /\ n + i < j
        BY <4>3, <4>4
      <4>6. n + i \in DOMAIN r /\ r[n + i] = q[i]
        BY <1>1
      <4> QED BY <4>3, <4>5, <4>6
    <3> QED BY <3>2, <3>3
  <2> QED BY <2>1, <2>2
<1>6. SetIsTold(r, t)
  BY <1>4 DEF SetIsTold
<1>7. ToldOfSet(r, t)
  BY <1>5 DEF ToldOfSet
<1> QED BY <1>6, <1>7 DEF r

LEMMA PopStatus ==
  ASSUME NEW S, NEW q \in Seq(S), q # <<>>, NEW t, SetIsTold(q, t),
         NEW log, NEW status, NEW newLog, NEW newStatus,
         NoSet(q, t) => TellsStatus(q, t, log, status),
         Sets(Head(q), t) => newStatus = StatusOf(Head(q)),
         ~Sets(Head(q), t) => newStatus = status,
         Tells(Head(q), t) => ToldLast(newLog, Tale(Head(q).entry.kind)),
         ~Tells(Head(q), t) /\ ToldLast(log, ShownAs(status)) => ToldLast(newLog, ShownAs(status)),
         NoSet(Tail(q), t)
  PROVE  TellsStatus(Tail(q), t, newLog, newStatus)
<1> DEFINE r == Tail(q)
<1>1. /\ 1 \in DOMAIN q /\ Head(q) = q[1]
      /\ \A i \in DOMAIN r : i \in Nat \ {0} /\ i + 1 \in DOMAIN q /\ r[i] = q[i + 1]
      /\ \A i \in DOMAIN q : i = 1 \/ (i > 1 /\ i - 1 \in DOMAIN r /\ q[i] = r[i - 1])
  BY PopFacts
<1>2. DOMAIN q \subseteq Nat \ {0}
  <2>1. DOMAIN q = 1..Len(q) /\ Len(q) \in Nat
    BY LenProperties
  <2> QED BY <2>1
<1> HIDE DEF r
<1>3. ASSUME NEW j \in DOMAIN q, j > 1, LastTell(q, j, t)
      PROVE  j - 1 \in DOMAIN r /\ r[j - 1] = q[j] /\ LastTell(r, j - 1, t)
  <2>1. j \in Nat /\ j - 1 \in DOMAIN r /\ r[j - 1] = q[j]
    BY <1>1, <1>2, <1>3
  <2>2. Tells(r[j - 1], t)
    BY <1>3, <2>1 DEF LastTell
  <2>3. ASSUME NEW k \in DOMAIN r, k > j - 1 PROVE ~Tells(r[k], t)
    <3>1. k + 1 \in DOMAIN q /\ q[k + 1] = r[k] /\ k + 1 > j
      BY <1>1, <2>1, <2>3
    <3> QED BY <1>3, <3>1 DEF LastTell
  <2> QED BY <2>1, <2>2, <2>3 DEF LastTell
<1>4. CASE Sets(q[1], t)
  <2>1. LastSet(q, 1, t)
    <3>1. ASSUME NEW k \in DOMAIN q, k > 1 PROVE ~Sets(q[k], t)
      BY <1>1, <1>2, <3>1 DEF NoSet, r
    <3> QED BY <1>4, <3>1 DEF LastSet
  <2>2. PICK j \in DOMAIN q : /\ j > 1 /\ LastTell(q, j, t)
                              /\ Tale(q[j].entry.kind) = ShownAs(StatusOf(q[1]))
    BY <1>1, <2>1 DEF SetIsTold
  <2>3. j - 1 \in DOMAIN r /\ r[j - 1] = q[j] /\ LastTell(r, j - 1, t)
    BY <1>3, <2>2
  <2>4. newStatus = StatusOf(q[1])
    BY <1>1, <1>4
  <2> QED BY <2>2, <2>3, <2>4 DEF TellsStatus, r
<1>5. CASE ~Sets(q[1], t)
  <2>1. NoSet(q, t)
    BY <1>1, <1>5 DEF NoSet, r
  <2>2. newStatus = status
    BY <1>1, <1>5
  <2>3. CASE \E j \in DOMAIN q : LastTell(q, j, t) /\ Tale(q[j].entry.kind) = ShownAs(status)
    <3>1. PICK j \in DOMAIN q : LastTell(q, j, t) /\ Tale(q[j].entry.kind) = ShownAs(status)
      BY <2>3
    <3>2. CASE j = 1
      <4>1. NoTell(r, t)
        <5>1. ASSUME NEW k \in DOMAIN r PROVE ~Tells(r[k], t)
          <6>1. k + 1 \in DOMAIN q /\ q[k + 1] = r[k] /\ k + 1 > j
            BY <1>1, <3>2
          <6> QED BY <3>1, <6>1 DEF LastTell
        <5> QED BY <5>1 DEF NoTell
      <4>2. ToldLast(newLog, ShownAs(status))
        BY <1>1, <3>1, <3>2 DEF LastTell
      <4> QED BY <2>2, <4>1, <4>2 DEF TellsStatus, r
    <3>3. CASE j # 1
      <4>1. j > 1
        BY <1>1, <3>3
      <4>2. j - 1 \in DOMAIN r /\ r[j - 1] = q[j] /\ LastTell(r, j - 1, t)
        BY <1>3, <3>1, <4>1
      <4> QED BY <2>2, <3>1, <4>2 DEF TellsStatus, r
    <3> QED BY <3>2, <3>3
  <2>4. CASE NoTell(q, t) /\ ToldLast(log, ShownAs(status))
    <3>1. NoTell(r, t) /\ ~Tells(Head(q), t)
      BY <1>1, <2>4 DEF NoTell
    <3> QED BY <2>2, <2>4, <3>1 DEF TellsStatus, r
  <2>5. TellsStatus(q, t, log, status)
    BY <2>1
  <2> QED BY <2>3, <2>4, <2>5 DEF TellsStatus
<1> QED BY <1>4, <1>5

LEMMA PushStatus ==
  ASSUME NEW S, NEW g \in Seq(S), NEW q \in Seq(S), NEW t, Group(g, t),
         NEW log, NEW status, NoSet(q, t) => TellsStatus(q, t, log, status), NoSet(g \o q, t)
  PROVE  TellsStatus(g \o q, t, log, status)
<1> DEFINE r == g \o q
           n == Len(g)
<1>1. /\ \A i \in DOMAIN r : i \in DOMAIN g \/ (i > n /\ i - n \in DOMAIN q /\ r[i] = q[i - n])
      /\ \A i \in DOMAIN g : i \in DOMAIN r /\ r[i] = g[i]
      /\ \A i \in DOMAIN q : n + i \in DOMAIN r /\ r[n + i] = q[i]
  BY PushFacts
<1>2. n \in Nat /\ DOMAIN g = 1..n /\ DOMAIN q \subseteq Nat \ {0} /\ DOMAIN r \subseteq Nat
  <2>1. n \in Nat /\ Len(q) \in Nat /\ DOMAIN q = 1..Len(q) /\ DOMAIN r = 1..(n + Len(q))
        /\ DOMAIN g = 1..n
    BY PushFacts
  <2> HIDE DEF n, r
  <2> QED BY <2>1
<1> HIDE DEF r, n
<1>3. NoSet(g, t) /\ NoSet(q, t)
  BY <1>1 DEF NoSet, r
<1>4. NoTell(g, t)
  BY <1>3 DEF Group
<1>5. TellsStatus(q, t, log, status)
  BY <1>3
<1>6. CASE \E j \in DOMAIN q : LastTell(q, j, t) /\ Tale(q[j].entry.kind) = ShownAs(status)
  <2>1. PICK j \in DOMAIN q : LastTell(q, j, t) /\ Tale(q[j].entry.kind) = ShownAs(status)
    BY <1>6
  <2>2. n + j \in DOMAIN r /\ r[n + j] = q[j]
    BY <1>1
  <2>3. LastTell(r, n + j, t)
    <3>1. Tells(r[n + j], t)
      BY <2>1, <2>2 DEF LastTell
    <3>2. ASSUME NEW k \in DOMAIN r, k > n + j PROVE ~Tells(r[k], t)
      <4>1. k \notin DOMAIN g
        BY <1>2, <3>2
      <4>2. k - n \in DOMAIN q /\ r[k] = q[k - n] /\ k - n > j
        BY <1>1, <1>2, <3>2, <4>1
      <4> QED BY <2>1, <4>2 DEF LastTell
    <3> QED BY <3>1, <3>2 DEF LastTell
  <2> QED BY <2>1, <2>2, <2>3 DEF TellsStatus, r
<1>7. CASE NoTell(q, t) /\ ToldLast(log, ShownAs(status))
  <2>1. NoTell(r, t)
    BY <1>1, <1>4, <1>7 DEF NoTell
  <2> QED BY <1>7, <2>1 DEF TellsStatus, r
<1> QED BY <1>5, <1>6, <1>7 DEF TellsStatus

-----------------------------------------------------------------------------
(* The log of a record.                                                    *)

LEMMA AppendLog ==
  ASSUME NEW log \in Seq(Entries), NEW e \in Entries
  PROVE  /\ Append(log, e) \in Seq(Entries) /\ Len(log) \in Nat
         /\ DOMAIN log = 1..Len(log) /\ DOMAIN Append(log, e) = 1..(Len(log) + 1)
         /\ Len(Append(log, e)) = Len(log) + 1
         /\ \A i \in 1..Len(log) : Append(log, e)[i] = log[i]
         /\ Append(log, e)[Len(log) + 1] = e
<1>1. Append(log, e) \in Seq(Entries) /\ Len(Append(log, e)) = Len(log) + 1
      /\ (\A i \in 1..Len(log) : Append(log, e)[i] = log[i])
      /\ Append(log, e)[Len(log) + 1] = e
  BY AppendProperties
<1>2. Len(log) \in Nat /\ DOMAIN log = 1..Len(log) /\ DOMAIN Append(log, e) = 1..Len(Append(log, e))
  BY <1>1, LenProperties
<1> QED BY <1>1, <1>2

\* What an entry adds to a log.
LEMMA LogGrows ==
  ASSUME NEW log \in Seq(Entries), NEW e \in Entries
  PROVE  /\ \A x : Logs(Append(log, e), x) <=> (Logs(log, x) \/ x = e)
         /\ e.kind \in TellingKinds => ToldLast(Append(log, e), Tale(e.kind))
         /\ \A s : e.kind \notin TellingKinds /\ ToldLast(log, s) => ToldLast(Append(log, e), s)
<1> DEFINE n == Len(log)
           new == Append(log, e)
<1>1. /\ n \in Nat /\ DOMAIN log = 1..n /\ DOMAIN new = 1..(n + 1)
      /\ \A i \in 1..n : new[i] = log[i]
      /\ new[n + 1] = e
  BY AppendLog
<1>2. n + 1 \in 1..(n + 1) /\ \A i \in 1..(n + 1) : i = n + 1 \/ i \in 1..n
  BY <1>1
<1>3. \A i \in 1..n : i \in 1..(n + 1) /\ i < n + 1
  BY <1>1
<1>4. \A j \in 1..(n + 1) : ~(j > n + 1)
  BY <1>1
<1> HIDE DEF n, new
<1>5. ASSUME NEW x PROVE Logs(new, x) <=> (Logs(log, x) \/ x = e)
  BY <1>1, <1>2, <1>3 DEF Logs
<1>6. e.kind \in TellingKinds => ToldLast(new, Tale(e.kind))
  BY <1>1, <1>2, <1>4 DEF ToldLast
<1>7. ASSUME NEW s, e.kind \notin TellingKinds, ToldLast(log, s) PROVE ToldLast(new, s)
  <2>1. PICK i \in 1..n :
          /\ log[i].kind \in TellingKinds /\ Tale(log[i].kind) = s
          /\ \A j \in 1..n : j > i => log[j].kind \notin TellingKinds
    BY <1>1, <1>7 DEF ToldLast
  <2>2. i \in DOMAIN new /\ new[i] = log[i]
    BY <1>1, <1>3
  <2>3. ASSUME NEW j \in DOMAIN new, j > i PROVE new[j].kind \notin TellingKinds
    BY <1>1, <1>2, <1>7, <2>1, <2>3
  <2> QED BY <2>1, <2>2, <2>3 DEF ToldLast
<1> QED BY <1>5, <1>6, <1>7 DEF new

LEMMA BeforeFacts ==
  ASSUME NEW a \in Records, NEW b \in Records, NEW c \in Records, Before(a, b), Before(b, c)
  PROVE  Before(a, a) /\ Before(a, c)
<1>1. Len(a.log) \in Nat /\ Len(b.log) \in Nat /\ Len(c.log) \in Nat
  BY LenProperties DEF Records
<1> QED BY <1>1 DEF Before

\* A record with another entry, status or report.
LEMMA RecordGrows ==
  ASSUME NEW rec \in Records, NEW e \in Entries
  PROVE  LET new == [rec EXCEPT !.log = Append(@, e)] IN
         /\ new \in Records /\ new.log = Append(rec.log, e) /\ new.status = rec.status
         /\ new.report = rec.report /\ Before(rec, new) /\ new # Absent
         /\ (e.kind \in OnceKinds => ~Logs(rec.log, e)) /\ Sound(rec) => Sound(new)
<1> DEFINE new == [rec EXCEPT !.log = Append(@, e)]
<1>1. rec.log \in Seq(Entries) /\ rec.status \in Statuses /\ rec.report \in Reports
  BY DEF Records
<1>2. Append(rec.log, e) \in Seq(Entries)
  BY <1>1, AppendLog
<1>3. /\ new \in Records /\ new.log = Append(rec.log, e) /\ new.status = rec.status
      /\ new.report = rec.report
  BY <1>2 DEF Records
<1> DEFINE n == Len(rec.log)
<1>4. /\ n \in Nat /\ DOMAIN rec.log = 1..n /\ DOMAIN new.log = 1..(n + 1)
      /\ Len(new.log) = n + 1
      /\ \A i \in 1..n : new.log[i] = rec.log[i]
      /\ new.log[n + 1] = e
  BY <1>1, <1>3, AppendLog
<1> HIDE DEF new
<1>5. Before(rec, new)
  BY <1>3, <1>4 DEF Before
<1>6. new # Absent
  <2>1. Len(Absent.log) = 0
    BY DEF Absent
  <2>2. n + 1 # 0
    BY <1>4
  <2> QED BY <1>4, <2>1, <2>2
<1>7. ASSUME e.kind \in OnceKinds => ~Logs(rec.log, e), Sound(rec) PROVE Sound(new)
  <2> HIDE DEF n
  <2>1. ASSUME NEW i \in DOMAIN new.log, NEW j \in DOMAIN new.log,
               new.log[i] = new.log[j], new.log[i].kind \in OnceKinds
        PROVE  i = j
    <3>1. (i = n + 1 \/ i \in 1..n) /\ (j = n + 1 \/ j \in 1..n)
      BY <1>4
    <3>2. CASE i \in 1..n /\ j \in 1..n
      BY <1>4, <1>7, <2>1, <3>2 DEF Sound
    <3>3. CASE i = n + 1 /\ j \in 1..n
      BY <1>4, <1>7, <2>1, <3>3 DEF Logs
    <3>4. CASE i \in 1..n /\ j = n + 1
      BY <1>4, <1>7, <2>1, <3>4 DEF Logs
    <3> QED BY <3>1, <3>2, <3>3, <3>4
  <2>2. \A x \in ReportEntries(new.report) : Logs(new.log, x)
    <3>1. \A x : Logs(rec.log, x) => Logs(new.log, x)
      BY <1>1, <1>3, LogGrows
    <3> QED BY <1>3, <1>7, <3>1 DEF Sound
  <2>3. new.status = "Completed" => new.report.text
    BY <1>3, <1>7 DEF Sound
  <2> QED BY <2>1, <2>2, <2>3 DEF Sound
<1> QED BY <1>3, <1>5, <1>6, <1>7 DEF new

LEMMA AbsentFacts == /\ Absent \in Records /\ Sound(Absent) /\ NoReport \in Reports
                     /\ Absent.log = <<>> /\ Absent.report = NoReport
<1>1. <<>> \in Seq(Items) /\ <<>> \in Seq(Runs) /\ <<>> \in Seq(Entries)
  OBVIOUS
<1>2. NoReport \in Reports /\ Absent \in Records
  BY <1>1 DEF NoReport, Reports, Absent, Records, Statuses
<1>3. Sound(Absent)
  <2>1. Absent.log = <<>> /\ Absent.status = "Absent" /\ Absent.report = NoReport
    BY DEF Absent
  <2>2. ReportEntries(NoReport) = {}
    BY DEF ReportEntries, NoReport
  <2> QED BY <2>1, <2>2 DEF Sound
<1> QED BY <1>2, <1>3 DEF Absent

LEMMA RecordCreated ==
  ASSUME NEW b \in Nat
  PROVE  LET new == [Absent EXCEPT !.status = "Created", !.born = b] IN
         /\ new \in Records /\ Sound(new) /\ Before(Absent, new) /\ new # Absent
         /\ new.status = "Created" /\ new.log = <<>> /\ new.report = NoReport
<1> DEFINE new == [Absent EXCEPT !.status = "Created", !.born = b]
<1>1. Absent \in Records /\ Absent.log = <<>> /\ Absent.report = NoReport
  BY AbsentFacts
<1>2. new.status = "Created" /\ new.log = <<>> /\ new.report = NoReport
  BY <1>1 DEF Records
<1>3. new \in Records
  BY <1>1 DEF Records, Statuses
<1> HIDE DEF new
<1>4. Absent.status = "Absent" /\ Absent.log = <<>> /\ Absent.report = NoReport
  BY AbsentFacts DEF Absent
<1>5. Before(Absent, new)
  BY <1>2, <1>4 DEF Before
<1>6. new # Absent
  BY <1>2, <1>4
<1>7. Sound(new)
  BY <1>2, <1>4, AbsentFacts DEF Sound
<1> QED BY <1>2, <1>3, <1>5, <1>6, <1>7 DEF new

LEMMA RecordStatus ==
  ASSUME NEW rec \in Records, NEW s \in Statuses \ {"Absent", "Completed"}
  PROVE  LET new == [rec EXCEPT !.status = s] IN
         /\ new \in Records /\ new.status = s /\ new.log = rec.log /\ new.report = rec.report
         /\ Before(rec, new) /\ new # Absent
         /\ Sound(rec) => Sound(new)
<1> DEFINE new == [rec EXCEPT !.status = s]
<1>1. new \in Records /\ new.status = s /\ new.log = rec.log /\ new.report = rec.report
  BY DEF Records
<1>2. Len(rec.log) \in Nat /\ Absent.status = "Absent"
  BY LenProperties DEF Records, Absent
<1> HIDE DEF new
<1>3. Before(rec, new)
  BY <1>1, <1>2 DEF Before
<1>4. new # Absent
  BY <1>1, <1>2
<1>5. Sound(rec) => Sound(new)
  BY <1>1 DEF Sound
<1> QED BY <1>1, <1>3, <1>4, <1>5 DEF new

HasText(s, r) == s = "Completed" => r.text

Covered(log, r) == \A e \in ReportEntries(r) : Logs(log, e)

LEMMA RecordReport ==
  ASSUME NEW rec \in Records, NEW new \in Records, NEW s \in Results, rec.report = NoReport,
         Sound(rec), HasText(s, new.report), Covered(rec.log, new.report),
         new.log = rec.log, new.status = s
  PROVE  Before(rec, new) /\ new # Absent /\ Sound(new)
<1>2. Len(rec.log) \in Nat /\ Absent.status = "Absent" /\ s # "Absent"
  BY LenProperties DEF Records, Absent, Results
<1>3. Before(rec, new)
  BY <1>2 DEF Before
<1>4. new # Absent
  BY <1>2
<1>5. Sound(new)
  BY DEF Sound, Covered, HasText
<1> QED BY <1>3, <1>4, <1>5

-----------------------------------------------------------------------------
(* The calls of a session operation.                                       *)

LEMMA CallFacts ==
  ASSUME NEW c \in Calls
  PROVE  /\ c.call \in {"create", "enqueue", "spawn", "status", "event", "once", "report",
                        "drain", "start"}
         /\ ~Break(c) => c.task \in Task
         /\ c.call = "create" => c = Create(c.task)
         /\ c.call = "status" => c.status \in {"Queued", "Running", "Failed", "Cancelled"}
         /\ c.call = "event" => c.entry \in PlainEntries
         /\ c.call = "once" => c.entry \in OnceEntries /\ c = Once(c.task, c.entry)
         /\ c.call = "report" => c.status \in Results /\ c.report \in Reports
         /\ c.call = "drain" => c = Drain
         /\ c.call = "start" => c = StartReady
BY DEF Calls, Break, Create, Once, Drain, StartReady

LEMMA CallTypes ==
  /\ Drain \in Calls /\ StartReady \in Calls
  /\ \A t \in Task : Create(t) \in Calls /\ Enqueue(t) \in Calls /\ Spawn(t) \in Calls
  /\ \A t \in Task : \A s \in {"Queued", "Running", "Failed", "Cancelled"} : Status(t, s) \in Calls
  /\ \A t \in Task : \A e \in PlainEntries : Event(t, e) \in Calls
  /\ \A t \in Task : \A e \in OnceEntries : Once(t, e) \in Calls
  /\ \A t \in Task : \A s \in Results : \A r \in Reports : Report(t, s, r) \in Calls
BY DEF Calls, Create, Enqueue, Spawn, Status, Event, Once, Report, Drain, StartReady

LEMMA MarkTypes == \A k \in BoardKinds : Mark(k) \in PlainEntries /\ Mark(k).kind = k
<1>1. <<"-", "-">> \in Items
  BY DEF Items, Words
<1> QED BY <1>1 DEF Mark, Entry, PlainEntries

LEMMA EntryTypes ==
  /\ PlainEntries \subseteq Entries /\ OnceEntries \subseteq Entries
  /\ \A e \in PlainEntries : e.kind \notin OnceKinds /\ (e.kind \in TellingKinds <=> e.kind \in TaskKinds)
  /\ \A e \in OnceEntries : e.kind \in OnceKinds /\ e.kind \notin TellingKinds
BY DEF PlainEntries, OnceEntries, Entries, OnceKinds, ProgressKinds, BoardKinds, TaskKinds, TellingKinds

\* The calls that end a task, or start it, in one group.
LEMMA PairGroup ==
  ASSUME NEW x \in Task, NEW s \in {"Queued", "Running", "Failed", "Cancelled"},
         NEW k \in TaskKinds, ItemStatus(k) = ShownAs(s), NEW t
  PROVE  LET g == <<Status(x, s), Event(x, Mark(k))>> IN
         /\ g \in Seq(Calls) /\ Group(g, t) /\ ~HasClaim(g, t) /\ OneClaim(g, t) /\ ~Creates(g, t)
         /\ t # x => \A i \in DOMAIN g : ~About(g[i], t)
         /\ \A log : ReportFollows(g, t, log)
<1> DEFINE g == <<Status(x, s), Event(x, Mark(k))>>
<1>1. k \in BoardKinds /\ k # "task.recovered"
  BY DEF BoardKinds, TaskKinds
<1>2. Mark(k) \in PlainEntries /\ Mark(k).kind = k
  BY <1>1, MarkTypes
<1>3. Status(x, s) \in Calls /\ Event(x, Mark(k)) \in Calls
  BY <1>2, CallTypes
<1>4. g \in Seq(Calls) /\ DOMAIN g = {1, 2} /\ g[1] = Status(x, s) /\ g[2] = Event(x, Mark(k))
  BY <1>3
<1>5. /\ g[1].call = "status" /\ g[1].task = x /\ g[1].status = s
      /\ g[2].call = "event" /\ g[2].task = x /\ g[2].entry.kind = k
      /\ Tale(k) = ShownAs(s)
  BY <1>1, <1>2, <1>4 DEF Status, Event, Tale
<1>6. g[1] # Create(t) /\ g[2] # Create(t)
  BY <1>5 DEF Create
<1> HIDE DEF g
<1>7. Group(g, t)
  <2>1. SetIsTold(g, t)
    BY <1>4, <1>5 DEF SetIsTold, LastSet, LastTell, Sets, Tells, StatusOf
  <2>2. ToldOfSet(g, t)
    BY <1>4, <1>5 DEF ToldOfSet, Stops
  <2>3. NoSet(g, t) => NoTell(g, t)
    BY <1>4, <1>5 DEF NoSet, NoTell, Sets, Tells
  <2> QED BY <2>1, <2>2, <2>3 DEF Group
<1>8. ~HasClaim(g, t) /\ OneClaim(g, t)
  BY <1>4, <1>5 DEF HasClaim, OneClaim, Claims
<1>9. ~Creates(g, t)
  BY <1>4, <1>6 DEF Creates
<1>10. t # x => \A i \in DOMAIN g : ~About(g[i], t)
  BY <1>4, <1>5 DEF About
<1>11. \A log : ReportFollows(g, t, log)
  BY <1>4, <1>5 DEF ReportFollows
<1> QED BY <1>4, <1>7, <1>8, <1>9, <1>10, <1>11 DEF g

LEMMA FailedGroup ==
  ASSUME NEW x \in Task, NEW t
  PROVE  LET g == <<Status(x, "Failed"), Event(x, Mark("engine.failed")),
                    Event(x, Mark("task.failed"))>> IN
         /\ g \in Seq(Calls) /\ Group(g, t) /\ ~HasClaim(g, t) /\ OneClaim(g, t) /\ ~Creates(g, t)
         /\ t # x => \A i \in DOMAIN g : ~About(g[i], t)
         /\ \A log : ReportFollows(g, t, log)
<1> DEFINE g == <<Status(x, "Failed"), Event(x, Mark("engine.failed")),
                  Event(x, Mark("task.failed"))>>
<1>1. /\ Mark("engine.failed") \in PlainEntries /\ Mark("engine.failed").kind = "engine.failed"
      /\ Mark("task.failed") \in PlainEntries /\ Mark("task.failed").kind = "task.failed"
  BY MarkTypes DEF BoardKinds, TaskKinds
<1>2. /\ Status(x, "Failed") \in Calls /\ Event(x, Mark("engine.failed")) \in Calls
      /\ Event(x, Mark("task.failed")) \in Calls
  BY <1>1, CallTypes
<1>3. /\ g \in Seq(Calls) /\ DOMAIN g = {1, 2, 3} /\ g[1] = Status(x, "Failed")
      /\ g[2] = Event(x, Mark("engine.failed")) /\ g[3] = Event(x, Mark("task.failed"))
  BY <1>2
<1>4. /\ g[1].call = "status" /\ g[1].task = x /\ g[1].status = "Failed"
      /\ g[2].call = "event" /\ g[2].task = x /\ g[2].entry.kind = "engine.failed"
      /\ g[3].call = "event" /\ g[3].task = x /\ g[3].entry.kind = "task.failed"
      /\ Tale("task.failed") = ShownAs("Failed")
      /\ "task.failed" \in TaskKinds /\ "engine.failed" \notin TaskKinds
  BY <1>1, <1>3 DEF Status, Event, Tale, ItemStatus, ShownAs, TaskKinds
<1>5. g[1] # Create(t) /\ g[2] # Create(t) /\ g[3] # Create(t)
  BY <1>4 DEF Create
<1> HIDE DEF g
<1>6. Group(g, t)
  <2>1. SetIsTold(g, t)
    BY <1>3, <1>4 DEF SetIsTold, LastSet, LastTell, Sets, Tells, StatusOf
  <2>2. ToldOfSet(g, t)
    BY <1>3, <1>4 DEF ToldOfSet, Stops
  <2>3. NoSet(g, t) => NoTell(g, t)
    BY <1>3, <1>4 DEF NoSet, NoTell, Sets, Tells
  <2> QED BY <2>1, <2>2, <2>3 DEF Group
<1>7. ~HasClaim(g, t) /\ OneClaim(g, t)
  BY <1>3, <1>4 DEF HasClaim, OneClaim, Claims
<1>8. ~Creates(g, t)
  BY <1>3, <1>5 DEF Creates
<1>9. t # x => \A i \in DOMAIN g : ~About(g[i], t)
  BY <1>3, <1>4 DEF About
<1>10. \A log : ReportFollows(g, t, log)
  BY <1>3, <1>4 DEF ReportFollows
<1> QED BY <1>3, <1>6, <1>7, <1>8, <1>9, <1>10 DEF g

LEMMA StartGroup ==
  ASSUME NEW x \in Task, NEW t
  PROVE  LET g == <<Status(x, "Running"), Event(x, Mark("task.started")), Spawn(x)>> IN
         /\ g \in Seq(Calls) /\ Group(g, t) /\ OneClaim(g, t) /\ ~Creates(g, t)
         /\ t # x => \A i \in DOMAIN g : ~About(g[i], t)
         /\ t # x => ~HasClaim(g, t)
         /\ \A log : ReportFollows(g, t, log)
<1> DEFINE g == <<Status(x, "Running"), Event(x, Mark("task.started")), Spawn(x)>>
<1>1. Mark("task.started") \in PlainEntries /\ Mark("task.started").kind = "task.started"
  BY MarkTypes DEF BoardKinds, TaskKinds
<1>2. Status(x, "Running") \in Calls /\ Event(x, Mark("task.started")) \in Calls
      /\ Spawn(x) \in Calls
  BY <1>1, CallTypes
<1>3. /\ g \in Seq(Calls) /\ DOMAIN g = {1, 2, 3} /\ g[1] = Status(x, "Running")
      /\ g[2] = Event(x, Mark("task.started")) /\ g[3] = Spawn(x)
  BY <1>2
<1>4. /\ g[1].call = "status" /\ g[1].task = x /\ g[1].status = "Running"
      /\ g[2].call = "event" /\ g[2].task = x /\ g[2].entry.kind = "task.started"
      /\ g[3].call = "spawn" /\ g[3].task = x
      /\ Tale("task.started") = ShownAs("Running") /\ "task.started" \in TaskKinds
  BY <1>1, <1>3 DEF Status, Event, Spawn, Tale, ItemStatus, ShownAs, TaskKinds
<1>5. g[1] # Create(t) /\ g[2] # Create(t) /\ g[3] # Create(t)
  BY <1>4 DEF Create
<1> HIDE DEF g
<1>6. Group(g, t)
  <2>1. SetIsTold(g, t)
    BY <1>3, <1>4 DEF SetIsTold, LastSet, LastTell, Sets, Tells, StatusOf
  <2>2. ToldOfSet(g, t)
    BY <1>3, <1>4 DEF ToldOfSet, Stops
  <2>3. NoSet(g, t) => NoTell(g, t)
    BY <1>3, <1>4 DEF NoSet, NoTell, Sets, Tells
  <2> QED BY <2>1, <2>2, <2>3 DEF Group
<1>7. OneClaim(g, t) /\ (t # x => ~HasClaim(g, t))
  BY <1>3, <1>4 DEF HasClaim, OneClaim, Claims
<1>8. ~Creates(g, t)
  BY <1>3, <1>5 DEF Creates
<1>9. t # x => \A i \in DOMAIN g : ~About(g[i], t)
  BY <1>3, <1>4 DEF About
<1>10. \A log : ReportFollows(g, t, log)
  BY <1>3, <1>4 DEF ReportFollows
<1> QED BY <1>3, <1>6, <1>7, <1>8, <1>9, <1>10 DEF g

\* A drain or a start, or an entry that tells nothing of the task.
LEMMA QuietGroup ==
  ASSUME NEW c \in Calls, c.call \in {"drain", "start", "event", "once"},
         c.call = "event" => c.entry.kind \notin TaskKinds, NEW t
  PROVE  LET g == <<c>> IN
         /\ g \in Seq(Calls) /\ Group(g, t) /\ ~HasClaim(g, t) /\ OneClaim(g, t) /\ ~Creates(g, t)
         /\ ~About(c, t) => \A i \in DOMAIN g : ~About(g[i], t)
         /\ \A log : ReportFollows(g, t, log)
<1> DEFINE g == <<c>>
<1>1. g \in Seq(Calls) /\ DOMAIN g = {1} /\ g[1] = c
  OBVIOUS
<1>2. c # Create(t)
  BY DEF Create
<1> HIDE DEF g
<1>3. Group(g, t)
  BY <1>1 DEF Group, SetIsTold, LastSet, ToldOfSet, NoTell, Sets, Tells
<1>4. ~HasClaim(g, t) /\ OneClaim(g, t) /\ ~Creates(g, t)
  BY <1>1, <1>2 DEF HasClaim, OneClaim, Claims, Creates
<1>5. \A log : ReportFollows(g, t, log)
  BY <1>1 DEF ReportFollows
<1> QED BY <1>1, <1>3, <1>4, <1>5 DEF g

\* The logs of a report, the report, and the entry that closes it.
LEMMA ReportLogsFacts ==
  ASSUME NEW x \in Task, NEW r \in Reports
  PROVE  /\ ReportLogs(x, r) \in Seq(Calls)
         /\ \A i \in DOMAIN ReportLogs(x, r) :
              LET c == ReportLogs(x, r)[i] IN
              /\ c.call \in {"event", "once"} /\ c.task = x
              /\ c.call = "event" => c.entry.kind \notin TaskKinds
         /\ \A e \in ReportEntries(r) : \E i \in DOMAIN ReportLogs(x, r) : ReportLogs(x, r)[i] = Once(x, e)
<1> DEFINE ops == [i \in DOMAIN r.ops |-> Once(x, Entry("engine.operation", r.ops[i]))]
           runs == [i \in DOMAIN r.runs |-> Once(x, Entry("agent.run", r.runs[i].item))]
           head == <<Event(x, Mark("engine.completed"))>>
           first == head \o ops
           Fine(c) == /\ c.call \in {"event", "once"} /\ c.task = x
                      /\ c.call = "event" => c.entry.kind \notin TaskKinds
<1>1. r.ops \in Seq(Items) /\ r.runs \in Seq(Runs)
  BY DEF Reports
<1>2. \A i \in DOMAIN r.ops : Once(x, Entry("engine.operation", r.ops[i])) \in Calls
  <2>1. \A i \in DOMAIN r.ops : r.ops[i] \in Items
    BY <1>1
  <2>2. \A i \in DOMAIN r.ops : Entry("engine.operation", r.ops[i]) \in OnceEntries
    BY <2>1 DEF Entry, OnceEntries, OnceKinds
  <2> QED BY <2>2, CallTypes
<1>3. \A i \in DOMAIN r.runs : Once(x, Entry("agent.run", r.runs[i].item)) \in Calls
  <2>0. \A i \in DOMAIN r.runs : r.runs[i] \in Runs
    BY <1>1
  <2>1. \A i \in DOMAIN r.runs : r.runs[i].item \in Items
    BY <2>0 DEF Runs
  <2>2. \A i \in DOMAIN r.runs : Entry("agent.run", r.runs[i].item) \in OnceEntries
    BY <2>1 DEF Entry, OnceEntries, OnceKinds
  <2> QED BY <2>2, CallTypes
<1>4. ops \in Seq(Calls) /\ DOMAIN ops = DOMAIN r.ops
      /\ \A i \in DOMAIN r.ops : ops[i] = Once(x, Entry("engine.operation", r.ops[i]))
  <2>1. DOMAIN r.ops = 1..Len(r.ops) /\ Len(r.ops) \in Nat
    BY <1>1, LenProperties
  <2> QED BY <1>2, <2>1
<1>5. runs \in Seq(Calls) /\ DOMAIN runs = DOMAIN r.runs
      /\ \A i \in DOMAIN r.runs : runs[i] = Once(x, Entry("agent.run", r.runs[i].item))
  <2>1. DOMAIN r.runs = 1..Len(r.runs) /\ Len(r.runs) \in Nat
    BY <1>1, LenProperties
  <2> QED BY <1>3, <2>1
<1>6. head \in Seq(Calls) /\ DOMAIN head = {1} /\ Fine(head[1])
  <2>1. Mark("engine.completed") \in PlainEntries
        /\ Mark("engine.completed").kind = "engine.completed" /\ "engine.completed" \notin TaskKinds
    BY MarkTypes DEF BoardKinds, TaskKinds
  <2>2. Event(x, Mark("engine.completed")) \in Calls
    BY <2>1, CallTypes
  <2> QED BY <2>1, <2>2 DEF Event
<1>7. (\A i \in DOMAIN ops : Fine(ops[i])) /\ (\A i \in DOMAIN runs : Fine(runs[i]))
  BY <1>4, <1>5 DEF Once
<1> HIDE DEF ops, runs, head
<1>8. /\ first \in Seq(Calls)
      /\ \A i \in DOMAIN head : i \in DOMAIN first /\ first[i] = head[i]
      /\ \A i \in DOMAIN ops : Len(head) + i \in DOMAIN first /\ first[Len(head) + i] = ops[i]
      /\ \A i \in DOMAIN first : i \in DOMAIN head
           \/ (i - Len(head) \in DOMAIN ops /\ first[i] = ops[i - Len(head)])
  BY <1>4, <1>6, PushFacts
<1> HIDE DEF first, Fine
<1>9. \A i \in DOMAIN first : Fine(first[i])
  BY <1>6, <1>7, <1>8
<1> DEFINE all == first \o runs
<1>10. /\ all \in Seq(Calls)
       /\ \A i \in DOMAIN first : i \in DOMAIN all /\ all[i] = first[i]
       /\ \A i \in DOMAIN runs : Len(first) + i \in DOMAIN all /\ all[Len(first) + i] = runs[i]
       /\ \A i \in DOMAIN all : i \in DOMAIN first
            \/ (i - Len(first) \in DOMAIN runs /\ all[i] = runs[i - Len(first)])
  BY <1>5, <1>8, PushFacts
<1>11. ReportLogs(x, r) = all
  BY DEF ReportLogs, all, first, head, ops, runs
<1> HIDE DEF all
<1>12. \A i \in DOMAIN all : Fine(all[i])
  BY <1>7, <1>9, <1>10
<1>13. ASSUME NEW e \in ReportEntries(r) PROVE \E i \in DOMAIN all : all[i] = Once(x, e)
  <2>1. CASE \E i \in DOMAIN r.ops : e = Entry("engine.operation", r.ops[i])
    <3>1. PICK i \in DOMAIN r.ops : e = Entry("engine.operation", r.ops[i])
      BY <2>1
    <3>2. i \in DOMAIN ops /\ ops[i] = Once(x, e)
      BY <1>4, <3>1
    <3>3. Len(head) + i \in DOMAIN first /\ first[Len(head) + i] = Once(x, e)
      BY <1>8, <3>2
    <3> QED BY <1>10, <3>3
  <2>2. CASE \E i \in DOMAIN r.runs : e = Entry("agent.run", r.runs[i].item)
    <3>1. PICK i \in DOMAIN r.runs : e = Entry("agent.run", r.runs[i].item)
      BY <2>2
    <3>2. i \in DOMAIN runs /\ runs[i] = Once(x, e)
      BY <1>5, <3>1
    <3> QED BY <1>10, <3>2
  <2> QED BY <2>1, <2>2 DEF ReportEntries
<1> QED BY <1>10, <1>11, <1>12, <1>13 DEF Fine

LEMMA ReportGroup ==
  ASSUME NEW x \in Task, NEW s \in Results, NEW r \in Reports, s = "Completed" => r.text, NEW t
  PROVE  LET g == ReportLogs(x, r) \o <<Report(x, s, r)>> \o <<Event(x, Mark(FinishedKind(s)))>> IN
         /\ g \in Seq(Calls) /\ Group(g, t) /\ OneClaim(g, t) /\ ~Creates(g, t)
         /\ t # x => \A i \in DOMAIN g : ~About(g[i], t)
         /\ t # x => ~HasClaim(g, t)
         /\ \A log : ReportFollows(g, t, log)
<1> DEFINE h == ReportLogs(x, r)
           n == Len(h)
           k == FinishedKind(s)
           first == h \o <<Report(x, s, r)>>
           g == first \o <<Event(x, Mark(k))>>
<1>1. /\ k \in TaskKinds /\ k \in BoardKinds /\ Tale(k) = ShownAs(s)
  BY DEF FinishedKind, TaskKinds, BoardKinds, Results, Tale, ItemStatus, ShownAs
<1> HIDE DEF k
<1>2. Mark(k) \in PlainEntries /\ Mark(k).kind = k
  BY <1>1, MarkTypes
<1>3. Report(x, s, r) \in Calls /\ Event(x, Mark(k)) \in Calls
  BY <1>2, CallTypes
<1> DEFINE Fine(c) == /\ c.call \in {"event", "once"} /\ c.task = x
                      /\ c.call = "event" => c.entry.kind \notin TaskKinds
<1>4. h \in Seq(Calls) /\ n \in Nat /\ DOMAIN h = 1..n /\ \A i \in 1..n : Fine(h[i])
  BY ReportLogsFacts, LenProperties
<1>5. \A e \in ReportEntries(r) : \E i \in 1..n : h[i] = Once(x, e)
  BY <1>4, ReportLogsFacts
<1> HIDE DEF h, n, Fine
<1>6. /\ first \in Seq(Calls) /\ Len(first) = n + 1 /\ DOMAIN first = 1..(n + 1)
      /\ (\A i \in 1..n : first[i] = h[i]) /\ first[n + 1] = Report(x, s, r)
  <2>1. <<Report(x, s, r)>> \in Seq(Calls) /\ Len(<<Report(x, s, r)>>) = 1
        /\ <<Report(x, s, r)>>[1] = Report(x, s, r)
    BY <1>3
  <2>2. /\ first \in Seq(Calls) /\ Len(first) = Len(h) + 1
        /\ \A i \in 1..(Len(h) + 1) :
             first[i] = IF i <= Len(h) THEN h[i] ELSE <<Report(x, s, r)>>[i - Len(h)]
    BY <1>4, <2>1, ConcatProperties
  <2>3. n + 1 \in 1..(n + 1) /\ ~(n + 1 <= n) /\ (n + 1) - n = 1
        /\ \A i \in 1..n : i \in 1..(n + 1) /\ i <= n
    BY <1>4
  <2>4. first[n + 1] = <<Report(x, s, r)>>[1]
    BY <2>2, <2>3 DEF n
  <2>5. \A i \in 1..n : first[i] = h[i]
    BY <2>2, <2>3 DEF n
  <2>6. DOMAIN first = 1..Len(first)
    BY <2>2, LenProperties
  <2> QED BY <2>1, <2>2, <2>4, <2>5, <2>6 DEF n
<1> HIDE DEF first
<1>7. /\ g \in Seq(Calls) /\ DOMAIN g = 1..(n + 2)
      /\ (\A i \in 1..(n + 1) : g[i] = first[i]) /\ g[n + 2] = Event(x, Mark(k))
  <2>1. <<Event(x, Mark(k))>> \in Seq(Calls) /\ Len(<<Event(x, Mark(k))>>) = 1
        /\ <<Event(x, Mark(k))>>[1] = Event(x, Mark(k))
    BY <1>3
  <2>2. /\ g \in Seq(Calls) /\ Len(g) = Len(first) + 1
        /\ \A i \in 1..(Len(first) + 1) :
             g[i] = IF i <= Len(first) THEN first[i] ELSE <<Event(x, Mark(k))>>[i - Len(first)]
    BY <1>6, <2>1, ConcatProperties
  <2>3. n + 2 \in 1..(n + 2) /\ ~(n + 2 <= n + 1) /\ (n + 2) - (n + 1) = 1 /\ (n + 1) + 1 = n + 2
        /\ \A i \in 1..(n + 1) : i \in 1..(n + 2) /\ i <= n + 1
    BY <1>4
  <2>4. g[n + 2] = <<Event(x, Mark(k))>>[1]
    BY <1>6, <2>2, <2>3
  <2>5. \A i \in 1..(n + 1) : g[i] = first[i]
    BY <1>6, <2>2, <2>3
  <2>6. DOMAIN g = 1..Len(g)
    BY <2>2, LenProperties
  <2> QED BY <1>6, <2>1, <2>2, <2>3, <2>4, <2>5, <2>6
<1>8. /\ n + 1 \in DOMAIN g /\ n + 2 \in DOMAIN g
      /\ \A i \in 1..n : i \in DOMAIN g /\ Fine(g[i]) /\ g[i] = h[i]
      /\ \A i \in DOMAIN g : i \in 1..n \/ i = n + 1 \/ i = n + 2
      /\ g[n + 1] = Report(x, s, r) /\ g[n + 2] = Event(x, Mark(k))
  <2>1. /\ n + 1 \in 1..(n + 2) /\ n + 2 \in 1..(n + 2) /\ n + 1 \in 1..(n + 1)
        /\ \A i \in 1..n : i \in 1..(n + 2) /\ i \in 1..(n + 1)
        /\ \A i \in 1..(n + 2) : i \in 1..n \/ i = n + 1 \/ i = n + 2
    BY <1>4
  <2> HIDE DEF g
  <2> QED BY <1>4, <1>6, <1>7, <2>1
<1>9. /\ g[n + 1].call = "report" /\ g[n + 1].task = x /\ g[n + 1].status = s
      /\ g[n + 1].report = r
      /\ g[n + 2].call = "event" /\ g[n + 2].task = x /\ g[n + 2].entry.kind = k
  BY <1>2, <1>8 DEF Report, Event
<1>10. n + 2 > n + 1 /\ n + 1 # n + 2 /\ \A i \in 1..n : i < n + 1 /\ i # n + 1 /\ i # n + 2
  BY <1>4
<1>11. DOMAIN g \subseteq Nat /\ \A i \in DOMAIN g : ~(i > n + 2) /\ (i > n + 1 => i = n + 2)
  BY <1>4, <1>7
<1> HIDE DEF g
<1>12. \A i \in 1..n : ~Sets(g[i], t) /\ ~Tells(g[i], t) /\ ~Claims(g[i], t) /\ g[i] # Create(t)
                       /\ ~Stops(g[i]) /\ g[i].call # "report" /\ g[i].task = x
  BY <1>8 DEF Fine, Sets, Tells, Claims, Create, Stops
<1>13. Group(g, t)
  <2>1. ASSUME NEW i \in DOMAIN g, LastSet(g, i, t)
        PROVE  \E j \in DOMAIN g : /\ j > i /\ LastTell(g, j, t)
                                   /\ Tale(g[j].entry.kind) = ShownAs(StatusOf(g[i]))
    <3>1. Sets(g[i], t)
      BY <2>1 DEF LastSet
    <3>2. i # n + 2
      BY <1>9, <3>1 DEF Sets
    <3>3. i = n + 1
      BY <1>8, <1>12, <3>1, <3>2
    <3>4. t = x
      BY <1>9, <3>1, <3>3 DEF Sets
    <3>5. Tells(g[n + 2], t)
      BY <1>1, <1>9, <3>4 DEF Tells
    <3>6. LastTell(g, n + 2, t)
      BY <1>11, <3>5 DEF LastTell
    <3>7. StatusOf(g[i]) = s
      BY <1>9, <3>3 DEF StatusOf
    <3> QED BY <1>1, <1>8, <1>9, <1>10, <3>3, <3>6, <3>7
  <2>2. ToldOfSet(g, t)
    <3>1. \A b \in DOMAIN g : ~Stops(g[b])
      BY <1>8, <1>9, <1>12 DEF Stops
    <3> QED BY <3>1 DEF ToldOfSet
  <2>3. NoSet(g, t) => NoTell(g, t)
    <3>1. ASSUME NoSet(g, t) PROVE t # x
      <4>1. ~Sets(g[n + 1], t)
        BY <1>8, <3>1 DEF NoSet
      <4> QED BY <1>9, <4>1 DEF Sets
    <3>2. ASSUME t # x, NEW i \in DOMAIN g PROVE ~Tells(g[i], t)
      BY <1>8, <1>9, <1>12, <3>2 DEF Tells
    <3> QED BY <3>1, <3>2 DEF NoTell
  <2> QED BY <2>1, <2>2, <2>3 DEF Group, SetIsTold
<1>14. \A i \in DOMAIN g : Claims(g[i], t) => i = n + 1 /\ t = x
  <2>1. ~Claims(g[n + 2], t) /\ (Claims(g[n + 1], t) => t = x)
    BY <1>9 DEF Claims
  <2> QED BY <1>8, <1>12, <2>1
<1>15. OneClaim(g, t) /\ (t # x => ~HasClaim(g, t))
  BY <1>14 DEF OneClaim, HasClaim
<1>16. ~Creates(g, t)
  <2>1. g[n + 1] # Create(t) /\ g[n + 2] # Create(t)
    BY <1>9 DEF Create
  <2> QED BY <1>8, <1>12, <2>1 DEF Creates
<1>17. t # x => \A i \in DOMAIN g : ~About(g[i], t)
  <2>1. \A i \in DOMAIN g : g[i].task = x
    BY <1>8, <1>9, <1>12
  <2> QED BY <2>1 DEF About
<1>18. ASSUME NEW log PROVE ReportFollows(g, t, log)
  <2> SUFFICES ASSUME NEW i \in DOMAIN g, g[i].call = "report", g[i].task = t
               PROVE  /\ g[i].status = "Completed" => g[i].report.text
                      /\ \A e \in ReportEntries(g[i].report) :
                           Logs(log, e) \/ \E j \in DOMAIN g : j < i /\ g[j] = Once(t, e)
    BY DEF ReportFollows
  <2>1. i # n + 2
    BY <1>9
  <2>2. i = n + 1
    BY <1>8, <1>12, <2>1
  <2>3. t = x
    BY <1>9, <2>2
  <2>4. ASSUME NEW e \in ReportEntries(r) PROVE \E j \in DOMAIN g : j < i /\ g[j] = Once(t, e)
    <3>1. PICK j \in 1..n : h[j] = Once(x, e)
      BY <1>5
    <3> QED BY <1>8, <1>10, <2>2, <2>3, <3>1
  <2> QED BY <1>9, <2>2, <2>4
<1> QED BY <1>7, <1>13, <1>15, <1>16, <1>17, <1>18 DEF g, first, h, k

\* The calls that submit a task, with or without a drain before.
Opening(g, x) == g = Submission(x) \/ g = <<Drain>> \o Submission(x)

LEMMA SubmissionFacts ==
  ASSUME NEW x \in Task, NEW t, NEW g, Opening(g, x)
  PROVE  /\ g \in Seq(Calls) /\ SetIsTold(g, t) /\ ToldOfSet(g, t)
         /\ OneClaim(g, t) /\ CreatedOnce(g, t) /\ Introduced(g, t)
         /\ Creates(g, x)
         /\ Creates(g, t) \/ HasClaim(g, t) \/ ~NoSet(g, t) \/ ~NoTell(g, t) => t = x
         /\ ~NoSet(g, x)
         /\ \A log : ReportFollows(g, t, log)
<1> DEFINE s == <<Create(x), Event(x, Mark("task.created")), Status(x, "Queued"),
                  Event(x, Mark("task.queued")), Enqueue(x), Drain>>
<1>1. /\ Mark("task.created") \in PlainEntries /\ Mark("task.created").kind = "task.created"
      /\ Mark("task.queued") \in PlainEntries /\ Mark("task.queued").kind = "task.queued"
  BY MarkTypes DEF BoardKinds, TaskKinds
<1>2. /\ Create(x) \in Calls /\ Event(x, Mark("task.created")) \in Calls
      /\ Status(x, "Queued") \in Calls /\ Event(x, Mark("task.queued")) \in Calls
      /\ Enqueue(x) \in Calls /\ Drain \in Calls
  BY <1>1, CallTypes
<1>3. PICK n \in {0, 1} :
        /\ g \in Seq(Calls) /\ DOMAIN g = 1..(6 + n) /\ (n = 1 => g[1] = Drain)
        /\ g[1 + n] = Create(x) /\ g[2 + n] = Event(x, Mark("task.created"))
        /\ g[3 + n] = Status(x, "Queued") /\ g[4 + n] = Event(x, Mark("task.queued"))
        /\ g[5 + n] = Enqueue(x) /\ g[6 + n] = Drain
  <2>1. s \in Seq(Calls) /\ Len(s) = 6 /\ DOMAIN s = 1..6
        /\ s[1] = Create(x) /\ s[2] = Event(x, Mark("task.created"))
        /\ s[3] = Status(x, "Queued") /\ s[4] = Event(x, Mark("task.queued"))
        /\ s[5] = Enqueue(x) /\ s[6] = Drain
    BY <1>2
  <2>2. Submission(x) = s
    BY DEF Submission
  <2> HIDE DEF s
  <2>3. CASE g = s
    BY <2>1, <2>3
  <2>4. CASE g = <<Drain>> \o s
    <3>1. <<Drain>> \in Seq(Calls) /\ Len(<<Drain>>) = 1 /\ <<Drain>>[1] = Drain
      BY <1>2
    <3>2. /\ g \in Seq(Calls) /\ Len(g) = 1 + 6
          /\ \A i \in 1..(1 + 6) : g[i] = IF i <= 1 THEN <<Drain>>[i] ELSE s[i - 1]
      <4> DEFINE d == <<Drain>>
      <4>1. d \in Seq(Calls) /\ Len(d) = 1 /\ g = d \o s
        BY <2>4, <3>1
      <4> HIDE DEF d
      <4>2. /\ g \in Seq(Calls) /\ Len(g) = Len(d) + Len(s)
            /\ \A i \in 1..(Len(d) + Len(s)) : g[i] = IF i <= Len(d) THEN d[i] ELSE s[i - Len(d)]
        BY <2>1, <4>1, ConcatProperties
      <4> QED BY <2>1, <4>1, <4>2 DEF d
    <3>3. DOMAIN g = 1..7
      BY <3>2, LenProperties
    <3>4. /\ g[1] = Drain /\ g[2] = s[1] /\ g[3] = s[2] /\ g[4] = s[3] /\ g[5] = s[4]
          /\ g[6] = s[5] /\ g[7] = s[6]
      BY <3>1, <3>2
    <3> HIDE <2>4
    <3> QED BY <2>1, <3>2, <3>3, <3>4
  <2> QED BY <2>2, <2>3, <2>4 DEF Opening
<1>4. \A i \in DOMAIN g : i \in Nat /\ (\/ (i = 1 /\ n = 1) \/ i = 1 + n \/ i = 2 + n \/ i = 3 + n \/ i = 4 + n
                                        \/ i = 5 + n \/ i = 6 + n)
  BY <1>3
<1>5. /\ 1 + n \in DOMAIN g /\ 2 + n \in DOMAIN g /\ 3 + n \in DOMAIN g /\ 4 + n \in DOMAIN g
      /\ 5 + n \in DOMAIN g /\ 6 + n \in DOMAIN g /\ n \in Nat
  BY <1>3
<1>6. /\ g[1 + n].call = "create" /\ g[1 + n].task = x
      /\ g[2 + n].call = "event" /\ g[2 + n].task = x /\ g[2 + n].entry.kind = "task.created"
      /\ g[3 + n].call = "status" /\ g[3 + n].task = x /\ g[3 + n].status = "Queued"
      /\ g[4 + n].call = "event" /\ g[4 + n].task = x /\ g[4 + n].entry.kind = "task.queued"
      /\ g[5 + n].call = "enqueue" /\ g[5 + n].task = x
      /\ g[6 + n].call = "drain" /\ (n = 1 => g[1].call = "drain")
      /\ Tale("task.queued") = ShownAs("Queued")
      /\ "task.queued" \in TaskKinds /\ "task.created" \in TaskKinds
  BY <1>1, <1>3 DEF Create, Event, Status, Enqueue, Drain, Tale, ItemStatus, ShownAs, TaskKinds
<1> HIDE DEF s
<1>7. /\ \A i \in DOMAIN g : Sets(g[i], t) => (i = 1 + n \/ i = 3 + n) /\ t = x
      /\ Sets(g[1 + n], x) /\ Sets(g[3 + n], x)
  BY <1>4, <1>6 DEF Sets
<1>8. /\ \A i \in DOMAIN g : Tells(g[i], t) => (i = 2 + n \/ i = 4 + n) /\ t = x
      /\ Tells(g[2 + n], x) /\ Tells(g[4 + n], x)
  BY <1>4, <1>6 DEF Tells
<1>9. \A i \in DOMAIN g : Claims(g[i], t) => i = 5 + n /\ t = x
  BY <1>4, <1>6 DEF Claims
<1>10. \A i \in DOMAIN g : g[i] = Create(t) => i = 1 + n /\ t = x
  <2>1. ASSUME NEW i \in DOMAIN g, g[i] = Create(t) PROVE i = 1 + n /\ t = x
    <3>1. g[i].call = "create" /\ g[i].task = t
      BY <2>1 DEF Create
    <3> QED BY <1>4, <1>6, <3>1
  <2> QED BY <2>1
<1>11. \A i \in DOMAIN g : Stops(g[i]) => (i = 1 /\ n = 1) \/ i = 5 + n \/ i = 6 + n
  BY <1>4, <1>6 DEF Stops
<1>12. SetIsTold(g, t)
  <2> SUFFICES ASSUME NEW i \in DOMAIN g, LastSet(g, i, t)
               PROVE  \E j \in DOMAIN g : /\ j > i /\ LastTell(g, j, t)
                                          /\ Tale(g[j].entry.kind) = ShownAs(StatusOf(g[i]))
    BY DEF SetIsTold
  <2>1. Sets(g[i], t) /\ t = x /\ (i = 1 + n \/ i = 3 + n)
    BY <1>7 DEF LastSet
  <2>2. i = 3 + n
    <3>1. 3 + n > 1 + n
      BY <1>5
    <3> QED BY <1>5, <1>7, <2>1, <3>1 DEF LastSet
  <2>3. LastTell(g, 4 + n, t)
    <3>1. ASSUME NEW k \in DOMAIN g, k > 4 + n PROVE ~Tells(g[k], t)
      <4>1. k # 2 + n /\ k # 4 + n
        BY <1>5, <3>1
      <4> QED BY <1>8, <4>1
    <3> QED BY <1>8, <2>1, <3>1 DEF LastTell
  <2>4. StatusOf(g[i]) = "Queued" /\ 4 + n > i
    BY <1>5, <1>6, <2>2 DEF StatusOf
  <2> QED BY <1>5, <1>6, <2>3, <2>4
<1>13. ToldOfSet(g, t)
  <2> SUFFICES ASSUME NEW b \in DOMAIN g, NEW j \in DOMAIN g, Stops(g[b]), b < j, Tells(g[j], t)
               PROVE  \E i \in DOMAIN g : b < i /\ i < j /\ Sets(g[i], t)
    BY DEF ToldOfSet
  <2>1. (j = 2 + n \/ j = 4 + n) /\ t = x
    BY <1>8
  <2>2. b # 6 + n /\ b # 5 + n
    BY <1>5, <2>1
  <2>3. b = 1 /\ n = 1
    BY <1>11, <2>2
  <2>4. b < 1 + n /\ 1 + n < j
    BY <2>1, <2>3
  <2> QED BY <1>5, <1>7, <2>1, <2>4
<1>14. OneClaim(g, t) /\ (HasClaim(g, t) => t = x)
  BY <1>9 DEF OneClaim, HasClaim
<1>15. CreatedOnce(g, t) /\ (Creates(g, t) => t = x) /\ Creates(g, x)
  BY <1>3, <1>5, <1>10 DEF CreatedOnce, Creates
<1>16. Introduced(g, t)
  <2> SUFFICES ASSUME NEW i \in DOMAIN g, About(g[i], t) PROVE \E j \in 1..i : g[j] = Create(t)
    BY DEF Introduced
  <2>1. t = x /\ i # 6 + n /\ ~(i = 1 /\ n = 1)
    BY <1>4, <1>6 DEF About, Break
  <2>2. 1 + n \in 1..i
    BY <1>4, <1>5, <2>1
  <2> QED BY <1>3, <2>1, <2>2
<1>17. ~NoSet(g, x) /\ (~NoSet(g, t) => t = x) /\ (~NoTell(g, t) => t = x)
  BY <1>5, <1>7, <1>8 DEF NoSet, NoTell
<1>18. \A log : ReportFollows(g, t, log)
  <2>1. \A i \in DOMAIN g : g[i].call # "report"
    BY <1>4, <1>6
  <2> QED BY <2>1 DEF ReportFollows
<1> QED BY <1>3, <1>12, <1>13, <1>14, <1>15, <1>16, <1>17, <1>18

-----------------------------------------------------------------------------
(* The writes of the store.                                                *)

\* Logs grow, reports stay, tasks too.
Steady ==
  \A t \in Task : /\ Before(mem[t], mem'[t]) /\ Before(file[t], file'[t])
                  /\ mem[t] # Absent => mem'[t] # Absent

RecordsKept ==
  \A t \in Task : Sound(mem[t]) /\ Sound(file[t]) /\ Before(file[t], mem[t])

LEMMA WriteKeeps ==
  ASSUME BoardTyped, RecordsKept, NEW x \in Task, NEW rec \in Records, Before(mem[x], rec),
         Sound(rec), rec # Absent, Write(x, rec)
  PROVE  /\ mem' \in [Task -> Records] /\ file' \in [Task -> Records] /\ faults' \in Nat
         /\ mem'[x] = rec /\ \A t \in Task \ {x} : mem'[t] = mem[t]
         /\ RecordsKept' /\ Steady
         /\ \A t \in Task : mem'[t] = Absent /\ file[t] = Absent => file'[t] = Absent
<1>1. /\ mem \in [Task -> Records] /\ file \in [Task -> Records] /\ faults \in Nat
      /\ mem' = [mem EXCEPT ![x] = rec]
      /\ file' = mem' \/ file' = file
  BY DEF BoardTyped, Write
<1>2. mem' \in [Task -> Records] /\ file' \in [Task -> Records]
      /\ mem'[x] = rec /\ \A t \in Task \ {x} : mem'[t] = mem[t]
  BY <1>1
<1>3. faults' \in Nat
  BY <1>1 DEF Write
<1>4. ASSUME NEW t \in Task
      PROVE  /\ Before(mem[t], mem'[t]) /\ Before(file[t], file'[t])
             /\ (mem[t] # Absent => mem'[t] # Absent)
             /\ Sound(mem'[t]) /\ Sound(file'[t]) /\ Before(file'[t], mem'[t])
  <2>1. mem[t] \in Records /\ file[t] \in Records /\ mem'[t] \in Records
    BY <1>1, <1>2
  <2>2. Sound(mem[t]) /\ Sound(file[t]) /\ Before(file[t], mem[t])
    BY DEF RecordsKept
  <2>3. Before(mem[t], mem[t]) /\ Before(file[t], file[t])
    <3>1. Len(mem[t].log) \in Nat /\ Len(file[t].log) \in Nat
      BY <2>1, LenProperties DEF Records
    <3> QED BY <3>1 DEF Before
  <2>4. Before(mem[t], mem'[t]) /\ (mem[t] # Absent => mem'[t] # Absent) /\ Sound(mem'[t])
    BY <1>2, <2>2, <2>3
  <2>5. Before(file[t], mem'[t]) /\ Before(mem'[t], mem'[t])
    <3>1. Before(file[t], mem'[t])
      BY <2>1, <2>2, <2>4, BeforeFacts
    <3>2. Len(mem'[t].log) \in Nat
      BY <2>1, LenProperties DEF Records
    <3> QED BY <3>1, <3>2 DEF Before
  <2>6. CASE file' = mem'
    BY <2>4, <2>5, <2>6
  <2>7. CASE file' = file
    BY <2>2, <2>3, <2>4, <2>5, <2>7
  <2> QED BY <1>1, <2>6, <2>7
<1>5. RecordsKept' /\ Steady
  BY <1>4 DEF RecordsKept, Steady
<1>6. \A t \in Task : mem'[t] = Absent /\ file[t] = Absent => file'[t] = Absent
  BY <1>1
<1> QED BY <1>2, <1>3, <1>5, <1>6

\* What one write did, the call that made it taken from the front.
Written(c) ==
  /\ mem' \in [Task -> Records] /\ file' \in [Task -> Records] /\ faults' \in Nat
  /\ RecordsKept' /\ Steady
  /\ \A t \in Task : mem'[t] = Absent /\ file[t] = Absent => file'[t] = Absent
  /\ \A t \in Task \ {c.task} : mem'[t] = mem[t]
  /\ mem'[c.task] # Absent
  /\ c.call # "report" => mem'[c.task].report = mem[c.task].report
  /\ c.call \in {"create", "status", "report"} =>
       mem'[c.task].status = StatusOf(c) /\ mem'[c.task].log = mem[c.task].log
  /\ c.call \in {"event", "once"} =>
       /\ mem'[c.task].status = mem[c.task].status
       /\ \/ mem'[c.task].log = Append(mem[c.task].log, c.entry)
          \/ c.call = "once" /\ mem'[c.task] = mem[c.task] /\ Logs(mem[c.task].log, c.entry)

LEMMA PopKeeps ==
  ASSUME BoardInv, todo # <<>>, todo' = Tail(todo),
         UNCHANGED <<queue, running, token, channel, work, lost, torn>>,
         Head(todo).call \in {"create", "status", "event", "once", "report"},
         Written(Head(todo))
  PROVE  BoardInv'
<1> DEFINE c == Head(todo)
           x == c.task
<1>1. todo \in Seq(Calls) /\ c = todo[1] /\ 1 \in DOMAIN todo /\ c \in Calls
      /\ todo' \in Seq(Calls)
  <2>1. todo \in Seq(Calls)
    BY DEF BoardInv, BoardTyped
  <2> QED BY <2>1, PopFacts
<1>2. x \in Task /\ ~Break(c) /\ (c.call = "create" => c = Create(x))
      /\ (c.call = "event" => c.entry \in PlainEntries)
      /\ (c.call = "once" => c.entry \in OnceEntries)
      /\ c.call \in {"create", "status", "event", "once", "report"}
  <2>1. ~Break(c)
    BY DEF Break
  <2> QED BY <1>1, <2>1, CallFacts
<1>3. About(c, x)
  BY <1>2 DEF About
<1>4. mem[x] = Absent => c = Create(x)
  <2> SUFFICES ASSUME mem[x] = Absent PROVE c = Create(x)
    OBVIOUS
  <2>1. Introduced(todo, x)
    BY <1>2 DEF BoardInv, Born
  <2>2. PICK j \in 1..1 : todo[j] = Create(x)
    BY <1>1, <1>3, <2>1 DEF Introduced
  <2>3. j = 1
    OBVIOUS
  <2> QED BY <1>1, <2>2, <2>3
<1>5. mem[x] \in Records /\ mem[x].log \in Seq(Entries)
  <2>1. mem[x] \in Records
    BY <1>2 DEF BoardInv, BoardTyped
  <2> QED BY <2>1 DEF Records
<1>w. Written(c)
  OBVIOUS
<1> HIDE DEF c
<1>6. BoardTyped' /\ ResultsHaveText'
  <2>1. BoardTyped'
    BY <1>1, <1>w DEF BoardInv, BoardTyped, Written
  <2> QED BY <2>1 DEF BoardInv, ResultsHaveText
<1>7. ASSUME NEW t \in Task PROVE OneRun(t)'
  <2>1. OneRun(t)
    BY DEF BoardInv
  <2>2. /\ OneClaim(todo', t) /\ (HasClaim(todo', t) => HasClaim(todo, t))
        /\ Claims(c, t) => HasClaim(todo, t) /\ ~HasClaim(todo', t)
    BY <1>1, <2>1, PopClaims DEF OneRun, c
  <2>3. (Waits(t)' <=> Waits(t)) /\ (IsRun(t)' <=> IsRun(t)) /\ (Done(t)' <=> Done(t))
    BY DEF Waits, IsRun, Done
  <2>4. /\ \A i, j \in DOMAIN queue' : queue'[i] = t /\ queue'[j] = t => i = j
        /\ \A i, j \in DOMAIN channel' : Ends(channel'[i], t) /\ Ends(channel'[j], t) => i = j
    BY <2>1 DEF OneRun
  <2>5. CASE c.call = "report" /\ t = x
    <3>1. Claims(c, t)
      BY <2>5 DEF Claims
    <3>2. ~HasClaim(todo', t) /\ ~Waits(t) /\ ~IsRun(t) /\ ~Done(t)
      BY <2>1, <2>2, <3>1 DEF OneRun
    <3> QED BY <2>2, <2>3, <2>4, <3>2 DEF OneRun
  <2>6. CASE ~(c.call = "report" /\ t = x)
    <3>1. mem'[t].report = mem[t].report
      BY <1>2, <1>w, <2>6 DEF Written
    <3>2. Reported(t)' <=> Reported(t)
      BY <3>1 DEF Reported
    <3> QED BY <2>1, <2>2, <2>3, <2>4, <3>2 DEF OneRun
  <2> QED BY <2>5, <2>6
<1>8. ASSUME NEW t \in Task PROVE Born(t)'
  <2>1. Born(t)
    BY DEF BoardInv
  <2>2. /\ CreatedOnce(todo', t) /\ (Creates(todo', t) => Creates(todo, t))
        /\ (c = Create(t) => ~Creates(todo', t))
        /\ (c # Create(t) /\ Introduced(todo, t) => Introduced(todo', t))
    BY <1>1, <2>1, PopBorn DEF Born, c
  <2>3. (Waits(t)' <=> Waits(t)) /\ (IsRun(t)' <=> IsRun(t))
    BY DEF Waits, IsRun
  <2>4. ASSUME mem'[t] = Absent
        PROVE  /\ file'[t] = Absent /\ ~Waits(t)' /\ ~IsRun(t)' /\ t \notin running'
               /\ (\A i \in DOMAIN channel' : channel'[i].task # t)
               /\ Introduced(todo', t)
    <3>1. t # x /\ mem[t] = Absent
      BY <1>w, <2>4 DEF Written
    <3>2. c # Create(t)
      BY <3>1 DEF Create
    <3>3. file'[t] = Absent
      BY <1>w, <2>1, <2>4, <3>1 DEF Written, Born
    <3> QED BY <2>1, <2>2, <2>3, <3>1, <3>2, <3>3 DEF Born
  <2>5. Creates(todo', t) => mem'[t] = Absent
    <3>1. ASSUME Creates(todo', t) PROVE mem'[t] = Absent
      <4>1. mem[t] = Absent /\ c # Create(t)
        BY <2>1, <2>2, <3>1 DEF Born
      <4>2. t # x
        BY <1>4, <4>1
      <4> QED BY <1>w, <4>1, <4>2 DEF Written
    <3> QED BY <3>1
  <2> QED BY <2>2, <2>4, <2>5 DEF Born
<1>9. ASSUME NEW t \in Task PROVE Kept(t)'
  <2>1. Kept(t)
    BY DEF BoardInv
  <2>2. \A e : Logs(mem[t].log, e) => Logs(mem'[t].log, e)
    <3>1. CASE t # x
      BY <1>w, <3>1 DEF Written
    <3>2. CASE t = x /\ c.call \in {"create", "status", "report"}
      BY <1>w, <3>2 DEF Written
    <3>3. CASE t = x /\ c.call \in {"event", "once"}
      <4>1. c.entry \in Entries
        BY <1>2, <3>3, EntryTypes
      <4>2. \A e : Logs(mem[x].log, e) => Logs(Append(mem[x].log, c.entry), e)
        BY <1>5, <4>1, LogGrows
      <4> QED BY <1>w, <3>3, <4>2 DEF Written
    <3> QED BY <1>2, <3>1, <3>2, <3>3
  <2>3. \A e : c = Once(t, e) => Logs(mem'[t].log, e)
    <3> SUFFICES ASSUME NEW e, c = Once(t, e) PROVE Logs(mem'[t].log, e)
      OBVIOUS
    <3>1. t = x /\ c.call = "once" /\ c.entry = e
      BY DEF Once
    <3>2. e \in Entries
      BY <1>2, <3>1, EntryTypes
    <3>3. Logs(Append(mem[x].log, e), e)
      BY <1>5, <3>2, LogGrows
    <3> QED BY <1>w, <3>1, <3>3 DEF Written
  <2>4. ReportFollows(todo', t, mem'[t].log)
    <3>1. ReportFollows(todo, t, mem[t].log)
      BY <2>1 DEF Kept
    <3> HIDE DEF x
    <3> QED BY <1>1, <2>2, <2>3, <3>1, PopFollows DEF c
  <2>5. Sound(mem'[t]) /\ Sound(file'[t]) /\ Before(file'[t], mem'[t])
    BY <1>w DEF Written, RecordsKept
  <2> QED BY <2>4, <2>5 DEF Kept
<1>10. ASSUME NEW t \in Task PROVE Told(t)'
  <2>1. Told(t)
    BY DEF BoardInv
  <2>2. SetIsTold(todo', t) /\ ToldOfSet(todo', t)
    BY <1>1, <2>1, PopTold DEF Told
  <2>3. ASSUME mem'[t] # Absent, ~torn, ~lost, NoSet(todo', t)
        PROVE  TellsStatus(todo', t, mem'[t].log, mem'[t].status)
    <3>1. NoSet(todo, t) => TellsStatus(todo, t, mem[t].log, mem[t].status)
      <4>1. ASSUME NoSet(todo, t) PROVE mem[t] # Absent
        <5>1. CASE t # x
          BY <1>w, <2>3, <5>1 DEF Written
        <5>2. CASE t = x
          <6>1. ~Sets(c, x)
            BY <1>1, <4>1, <5>2 DEF NoSet
          <6>2. c.call # "create"
            BY <6>1 DEF Sets
          <6>3. c # Create(x)
            BY <6>2 DEF Create
          <6> QED BY <1>4, <5>2, <6>3
        <5> QED BY <5>1, <5>2
      <4> QED BY <2>1, <2>3, <4>1 DEF Told, StatusTold
    <3>2. Sets(c, t) => mem'[t].status = StatusOf(c)
      BY <1>w DEF Sets, Written
    <3>3. ~Sets(c, t) => mem'[t].status = mem[t].status
      BY <1>2, <1>w DEF Sets, Written
    <3>4. Tells(c, t) => ToldLast(mem'[t].log, Tale(c.entry.kind))
      <4> SUFFICES ASSUME Tells(c, t) PROVE ToldLast(mem'[t].log, Tale(c.entry.kind))
        OBVIOUS
      <4>1. t = x /\ c.call = "event" /\ c.entry \in Entries /\ c.entry.kind \in TellingKinds
        BY <1>2, EntryTypes DEF Tells, TellingKinds
      <4>2. mem'[t].log = Append(mem[x].log, c.entry)
        BY <1>w, <4>1 DEF Written
      <4> QED BY <1>5, <4>1, <4>2, LogGrows
    <3>5. ~Tells(c, t) /\ ToldLast(mem[t].log, ShownAs(mem[t].status))
            => ToldLast(mem'[t].log, ShownAs(mem[t].status))
      <4> SUFFICES ASSUME ~Tells(c, t), ToldLast(mem[t].log, ShownAs(mem[t].status))
                   PROVE  ToldLast(mem'[t].log, ShownAs(mem[t].status))
        OBVIOUS
      <4>1. CASE mem'[t].log = mem[t].log
        BY <4>1
      <4>2. CASE mem'[t].log # mem[t].log
        <5>1. t = x /\ c.call \in {"event", "once"} /\ mem'[t].log = Append(mem[x].log, c.entry)
          BY <1>2, <1>w, <4>2 DEF Written
        <5>2. c.entry \in Entries /\ c.entry.kind \notin TellingKinds
          BY <1>2, <5>1, EntryTypes DEF Tells
        <5>3. ToldLast(Append(mem[x].log, c.entry), ShownAs(mem[t].status))
          BY <1>5, <5>1, <5>2, LogGrows
        <5> QED BY <5>1, <5>3
      <4> QED BY <4>1, <4>2
    <3>6. SetIsTold(todo, t)
      BY <2>1 DEF Told
    <3>7. NoSet(Tail(todo), t)
      BY <2>3
    <3> HIDE DEF x
    <3>8. TellsStatus(Tail(todo), t, mem'[t].log, mem'[t].status)
      BY <1>1, <3>1, <3>2, <3>3, <3>4, <3>5, <3>6, <3>7, PopStatus DEF c
    <3> QED BY <3>8
  <2>4. StatusTold(t)'
    BY <2>3 DEF StatusTold
  <2> QED BY <2>2, <2>4 DEF Told
<1> QED BY <1>6, <1>7, <1>8, <1>9, <1>10 DEF BoardInv

\* The creation times of a finite set of tasks have a latest.
LEMMA LatestType ==
  ASSUME Task # {}, \A t \in Task : mem[t].born \in Nat
  PROVE  Latest \in Nat
<1> DEFINE times == {mem[t].born : t \in Task}
<1>1. IsFiniteSet(Task)
  BY TaskLogAssumption
<1>2. PICK s \in Seq(Task) : \A t \in Task : \E n \in 1..Len(s) : s[n] = t
  BY <1>1 DEF IsFiniteSet
<1> DEFINE b == [i \in 1..Len(s) |-> mem[s[i]].born]
<1>3. Len(s) \in Nat /\ (\A i \in 1..Len(s) : s[i] \in Task /\ b[i] \in Nat)
  BY LenProperties
<1> HIDE DEF b
<1> DEFINE Top(n, m) == \A i \in 1..n : b[i] <= b[m]
           Bad == {n \in Nat : n \in 1..Len(s) /\ \A m \in 1..n : ~Top(n, m)}
<1>4. Bad = {}
  <2> SUFFICES ASSUME Bad # {} PROVE FALSE
    OBVIOUS
  <2>1. PICK n \in Bad : \A y \in Bad : n <= y
    BY LeastElement
  <2>2. n \in Nat /\ n \in 1..Len(s) /\ \A m \in 1..n : ~Top(n, m)
    OBVIOUS
  <2>3. n # 1
    <3>1. ASSUME n = 1 PROVE FALSE
      <4>1. \A i \in 1..1 : i = 1
        OBVIOUS
      <4>2. b[1] <= b[1]
        BY <1>3, <2>2, <3>1
      <4>3. Top(1, 1)
        BY <4>1, <4>2
      <4> QED BY <2>2, <3>1, <4>3
    <3> QED BY <3>1
  <2>4. n - 1 \in 1..Len(s) /\ n - 1 \in Nat /\ ~(n <= n - 1)
    BY <1>3, <2>2, <2>3
  <2>5. PICK m \in 1..(n - 1) : Top(n - 1, m)
    BY <2>1, <2>4
  <2> HIDE DEF Bad
  <2>6. m \in 1..Len(s) /\ m \in 1..n
    BY <1>3, <2>2, <2>4
  <2>7. \A i \in 1..n : i \in 1..(n - 1) \/ i = n
    BY <2>2
  <2>8. CASE b[n] <= b[m]
    <3>1. Top(n, m)
      BY <2>5, <2>7, <2>8
    <3> QED BY <2>2, <2>6, <3>1
  <2>9. CASE b[m] <= b[n]
    <3>1. ASSUME NEW i \in 1..n PROVE b[i] <= b[n]
      <4>1. CASE i = n
        BY <1>3, <2>2, <4>1
      <4>2. CASE i \in 1..(n - 1)
        <5>1. b[i] <= b[m]
          BY <2>5, <4>2
        <5>2. i \in 1..Len(s)
          BY <1>3, <2>2, <4>2
        <5>3. b[i] \in Nat /\ b[m] \in Nat /\ b[n] \in Nat
          BY <1>3, <2>2, <2>6, <5>2
        <5> QED BY <2>9, <5>1, <5>3
      <4> QED BY <2>7, <4>1, <4>2
    <3>2. n \in 1..n
      BY <2>2
    <3>3. Top(n, n)
      BY <3>1
    <3> QED BY <2>2, <3>2, <3>3
  <2>10. b[n] \in Nat /\ b[m] \in Nat
    BY <1>3, <2>2, <2>6
  <2> QED BY <2>8, <2>9, <2>10
<1>5. Len(s) \in 1..Len(s)
  <2>1. PICK t \in Task : TRUE
    OBVIOUS
  <2>2. PICK n \in 1..Len(s) : s[n] = t
    BY <1>2, <2>1
  <2> QED BY <1>3, <2>2
<1>6. PICK m \in 1..Len(s) : Top(Len(s), m)
  BY <1>3, <1>4, <1>5
<1>7. b[m] \in times /\ \A n \in times : n <= b[m]
  <2>1. ASSUME NEW t \in Task PROVE mem[t].born <= b[m]
    <3>1. PICK i \in 1..Len(s) : s[i] = t
      BY <1>2
    <3>2. b[i] = mem[t].born
      BY <3>1 DEF b
    <3> QED BY <1>6, <3>2
  <2>2. b[m] \in times
    BY <1>3 DEF b
  <2> QED BY <2>1, <2>2
<1>8. Latest \in times
  BY <1>7 DEF Latest
<1> QED BY <1>8

\* What each call that writes does.
LEMMA CreateWrites ==
  ASSUME BoardInv, NEW c \in Calls, c.call = "create", mem[c.task] = Absent, DoCreate(c, Tail(todo))
  PROVE  Written(c)
<1> DEFINE x == c.task
<1>1. x \in Task /\ BoardTyped /\ RecordsKept
  BY CallFacts DEF BoardInv, RecordsKept, Kept, Break
<1>2. Latest \in Nat
  <2>1. \A t \in Task : mem[t].born \in Nat
    BY <1>1 DEF BoardTyped, Records
  <2> QED BY <1>1, <2>1, LatestType
<1>3. PICK tick \in {0, 1} :
        Write(x, [Absent EXCEPT !.status = "Created",
                                !.born = IF Latest + tick = 0 THEN 1 ELSE Latest + tick])
  BY DEF DoCreate
<1> DEFINE b == IF Latest + tick = 0 THEN 1 ELSE Latest + tick
           rec == [Absent EXCEPT !.status = "Created", !.born = b]
<1>4. b \in Nat
  BY <1>2
<1> HIDE DEF b
<1>5. /\ rec \in Records /\ Sound(rec) /\ Before(Absent, rec) /\ rec # Absent
      /\ rec.status = "Created" /\ rec.log = <<>> /\ rec.report = NoReport
  BY <1>4, RecordCreated
<1>6. Write(x, rec)
  BY <1>3 DEF b
<1> HIDE DEF rec, x
<1>7. Before(mem[x], rec)
  BY <1>5 DEF x
<1>8. /\ mem' \in [Task -> Records] /\ file' \in [Task -> Records] /\ faults' \in Nat
      /\ mem'[x] = rec /\ \A t \in Task \ {x} : mem'[t] = mem[t]
      /\ RecordsKept' /\ Steady
      /\ \A t \in Task : mem'[t] = Absent /\ file[t] = Absent => file'[t] = Absent
  BY <1>1, <1>5, <1>6, <1>7, WriteKeeps
<1>9. mem[x].log = <<>> /\ mem[x].report = NoReport /\ StatusOf(c) = "Created"
  BY AbsentFacts DEF x, StatusOf
<1> QED BY <1>5, <1>8, <1>9 DEF Written, x

LEMMA StatusWrites ==
  ASSUME BoardInv, NEW c \in Calls, c.call = "status", DoStatus(c, Tail(todo))
  PROVE  Written(c)
<1> DEFINE x == c.task
           rec == [mem[x] EXCEPT !.status = c.status]
<1>1. x \in Task /\ BoardTyped /\ RecordsKept /\ c.status \in Statuses \ {"Absent", "Completed"}
  <2>1. x \in Task /\ c.status \in {"Queued", "Running", "Failed", "Cancelled"}
    BY CallFacts DEF Break
  <2> QED BY <2>1 DEF BoardInv, RecordsKept, Kept, Statuses, Results
<1>2. mem[x] \in Records /\ Sound(mem[x])
  BY <1>1 DEF BoardTyped, RecordsKept
<1>3. /\ rec \in Records /\ rec.status = c.status /\ rec.log = mem[x].log
      /\ rec.report = mem[x].report /\ Before(mem[x], rec) /\ rec # Absent /\ Sound(rec)
  BY <1>1, <1>2, RecordStatus
<1>4. Write(x, rec)
  BY DEF DoStatus
<1> HIDE DEF rec, x
<1>5. /\ mem' \in [Task -> Records] /\ file' \in [Task -> Records] /\ faults' \in Nat
      /\ mem'[x] = rec /\ \A t \in Task \ {x} : mem'[t] = mem[t]
      /\ RecordsKept' /\ Steady
      /\ \A t \in Task : mem'[t] = Absent /\ file[t] = Absent => file'[t] = Absent
  BY <1>1, <1>3, <1>4, WriteKeeps
<1> QED BY <1>3, <1>5 DEF Written, x, StatusOf

LEMMA ReportWrites ==
  ASSUME BoardInv, NEW c \in Calls, c.call = "report", mem[c.task].report = NoReport,
         HasText(c.status, c.report),
         Covered(mem[c.task].log, c.report), DoReport(c, Tail(todo))
  PROVE  Written(c)
<1> DEFINE x == c.task
           rec == [mem[x] EXCEPT !.status = c.status, !.report = c.report]
<1>1. x \in Task /\ BoardTyped /\ RecordsKept /\ c.status \in Results /\ c.report \in Reports
  BY CallFacts DEF BoardInv, RecordsKept, Kept, Break
<1>2. mem[x] \in Records /\ Sound(mem[x])
  BY <1>1 DEF BoardTyped, RecordsKept
<1>3. rec \in Records /\ rec.status = c.status /\ rec.log = mem[x].log /\ rec.report = c.report
  BY <1>1, <1>2 DEF Records, Statuses
<1>s. Before(mem[x], rec) /\ rec # Absent /\ Sound(rec)
  <2> HIDE DEF x, rec
  <2> QED BY <1>1, <1>2, <1>3, RecordReport DEF x
<1>4. Write(x, rec)
  BY DEF DoReport
<1> HIDE DEF rec, x
<1>5. /\ mem' \in [Task -> Records] /\ file' \in [Task -> Records] /\ faults' \in Nat
      /\ mem'[x] = rec /\ \A t \in Task \ {x} : mem'[t] = mem[t]
      /\ RecordsKept' /\ Steady
      /\ \A t \in Task : mem'[t] = Absent /\ file[t] = Absent => file'[t] = Absent
  BY <1>1, <1>3, <1>s, <1>4, WriteKeeps
<1> QED BY <1>3, <1>s, <1>5 DEF Written, x, StatusOf

LEMMA EventWrites ==
  ASSUME BoardInv, NEW c \in Calls, c.call \in {"event", "once"}, mem[c.task] # Absent,
         DoEvent(c, Tail(todo))
  PROVE  Written(c)
<1> DEFINE x == c.task
           rec == [mem[x] EXCEPT !.log = Append(@, c.entry)]
<1>1. x \in Task /\ BoardTyped /\ RecordsKept
  BY CallFacts DEF BoardInv, RecordsKept, Kept, Break
<1>2. c.entry \in Entries /\ (c.entry.kind \in OnceKinds => c.call = "once")
  BY CallFacts, EntryTypes
<1>3. /\ mem[x] \in Records /\ file[x] \in Records /\ Sound(mem[x])
      /\ mem \in [Task -> Records] /\ file \in [Task -> Records] /\ faults \in Nat
  BY <1>1 DEF BoardTyped, RecordsKept
<1>4. CASE c.call = "once" /\ Logged(x, c.entry)
  <2>1. mem' = mem /\ file' = file /\ faults' = faults
    BY <1>4 DEF DoEvent
  <2>2. RecordsKept'
    BY <1>1, <2>1 DEF RecordsKept
  <2>3. Steady
    <3> SUFFICES ASSUME NEW t \in Task
                 PROVE  Before(mem[t], mem[t]) /\ Before(file[t], file[t])
      BY <2>1 DEF Steady
    <3>1. mem[t] \in Records /\ file[t] \in Records
      BY <1>3
    <3>2. Len(mem[t].log) \in Nat /\ Len(file[t].log) \in Nat
      BY <3>1, LenProperties DEF Records
    <3> QED BY <3>2 DEF Before
  <2>4. Logs(mem[x].log, c.entry)
    BY <1>4 DEF Logged, Logs
  <2>5. /\ mem' \in [Task -> Records] /\ file' \in [Task -> Records] /\ faults' \in Nat
        /\ \A t \in Task : mem'[t] = mem[t] /\ file'[t] = file[t]
    BY <1>3, <2>1
  <2> QED BY <1>1, <1>4, <2>2, <2>3, <2>4, <2>5 DEF Written
<1>5. CASE ~(c.call = "once" /\ Logged(x, c.entry))
  <2>1. Write(x, rec)
    BY <1>5 DEF DoEvent
  <2>2. /\ rec \in Records /\ rec.log = Append(mem[x].log, c.entry) /\ rec.status = mem[x].status
        /\ rec.report = mem[x].report /\ Before(mem[x], rec) /\ rec # Absent /\ Sound(rec)
    BY <1>2, <1>3, <1>5, RecordGrows DEF Logged, Logs
  <2> HIDE DEF rec, x
  <2>3. /\ mem' \in [Task -> Records] /\ file' \in [Task -> Records] /\ faults' \in Nat
        /\ mem'[x] = rec /\ \A t \in Task \ {x} : mem'[t] = mem[t]
        /\ RecordsKept' /\ Steady
        /\ \A t \in Task : mem'[t] = Absent /\ file[t] = Absent => file'[t] = Absent
    BY <1>1, <2>1, <2>2, WriteKeeps
  <2> QED BY <2>2, <2>3 DEF Written, x
<1> QED BY <1>4, <1>5

-----------------------------------------------------------------------------
(* The steps of the board.  What of the calls that are left concerns a     *)
(* task, its claims aside:                                                 *)

Calm(q, t) ==
  /\ CreatedOnce(q, t) /\ (Creates(q, t) => mem[t] = Absent)
  /\ mem[t] = Absent => Introduced(q, t)
  /\ ReportFollows(q, t, mem[t].log)
  /\ SetIsTold(q, t) /\ ToldOfSet(q, t)
  /\ mem[t] # Absent /\ ~torn /\ ~lost /\ NoSet(q, t) =>
       TellsStatus(q, t, mem[t].log, mem[t].status)

LEMMA BoardIsCalm ==
  ASSUME BoardInv, NEW t \in Task
  PROVE  Calm(todo, t)
BY DEF BoardInv, Born, Kept, Told, StatusTold, Calm

\* A call that writes nothing, taken from the front.
LEMMA CalmPop ==
  ASSUME NEW q \in Seq(Calls), q # <<>>, NEW t, Calm(q, t),
         q[1].call \in {"drain", "start", "enqueue", "spawn"}
  PROVE  Calm(Tail(q), t)
<1> DEFINE c == Head(q)
<1>1. c = q[1]
  BY PopFacts
<1>2. ~Sets(c, t) /\ ~Tells(c, t) /\ c # Create(t) /\ \A e : c # Once(t, e)
  BY <1>1 DEF Sets, Tells, Create, Once
<1>3. CreatedOnce(q, t) /\ ReportFollows(q, t, mem[t].log) /\ SetIsTold(q, t) /\ ToldOfSet(q, t)
  BY DEF Calm
<1>4. /\ CreatedOnce(Tail(q), t) /\ (Creates(Tail(q), t) => Creates(q, t))
      /\ Introduced(q, t) => Introduced(Tail(q), t)
  BY <1>2, <1>3, PopBorn
<1>5. ReportFollows(Tail(q), t, mem[t].log)
  BY <1>2, <1>3, PopFollows
<1>6. SetIsTold(Tail(q), t) /\ ToldOfSet(Tail(q), t)
  BY <1>3, PopTold
<1>7. ASSUME mem[t] # Absent, ~torn, ~lost, NoSet(Tail(q), t)
      PROVE  TellsStatus(Tail(q), t, mem[t].log, mem[t].status)
  <2>1. NoSet(q, t) => TellsStatus(q, t, mem[t].log, mem[t].status)
    BY <1>7 DEF Calm
  <2> HIDE DEF c
  <2> QED BY <1>2, <1>3, <1>7, <2>1, PopStatus DEF c
<1> QED BY <1>4, <1>5, <1>6, <1>7 DEF Calm

\* Calls put before a drain.
LEMMA CalmPush ==
  ASSUME NEW q \in Seq(Calls), NEW g \in Seq(Calls), NEW t, Calm(q, t), q = <<>> \/ Break(q[1]),
         Group(g, t), ~Creates(g, t), ReportFollows(g, t, mem[t].log),
         mem[t] = Absent => \A i \in DOMAIN g : ~About(g[i], t)
  PROVE  Calm(g \o q, t)
<1>1. CreatedOnce(q, t) /\ ReportFollows(q, t, mem[t].log) /\ SetIsTold(q, t) /\ ToldOfSet(q, t)
  BY DEF Calm
<1>2. /\ CreatedOnce(g \o q, t) /\ (Creates(g \o q, t) => Creates(q, t))
      /\ (\A i \in DOMAIN g : ~About(g[i], t)) /\ Introduced(q, t) => Introduced(g \o q, t)
  BY <1>1, PushBorn
<1>3. ReportFollows(g \o q, t, mem[t].log)
  BY <1>1, PushFollows
<1>4. q = <<>> \/ Stops(q[1])
  BY DEF Break, Stops
<1>5. SetIsTold(g \o q, t) /\ ToldOfSet(g \o q, t)
  BY <1>1, <1>4, PushTold
<1>6. ASSUME mem[t] # Absent, ~torn, ~lost, NoSet(g \o q, t)
      PROVE  TellsStatus(g \o q, t, mem[t].log, mem[t].status)
  <2>1. NoSet(q, t) => TellsStatus(q, t, mem[t].log, mem[t].status)
    BY <1>6 DEF Calm
  <2> QED BY <1>6, <2>1, PushStatus
<1> QED BY <1>2, <1>3, <1>5, <1>6 DEF Calm

\* After a drain or a queueing what is ready is started.
LEMMA CalmStart ==
  ASSUME NEW q \in Seq(Calls), q # <<>>, NEW t, Calm(q, t), Stops(q[1])
  PROVE  LET r == <<StartReady>> \o Tail(q) IN
         /\ Calm(r, t) /\ r \in Seq(Calls) /\ r # <<>> /\ (OneClaim(q, t) => OneClaim(r, t))
         /\ HasClaim(r, t) => HasClaim(q, t)
         /\ Claims(q[1], t) /\ OneClaim(q, t) => ~HasClaim(r, t)
<1> DEFINE d == <<StartReady>>
           r == d \o Tail(q)
<1>1. StartReady \in Calls /\ Tail(q) \in Seq(Calls)
  BY CallTypes, PopFacts
<1>2. d \in Seq(Calls) /\ Len(d) = 1 /\ d[1] = StartReady
  BY <1>1
<1> HIDE DEF d
<1>3. Len(q) \in Nat \ {0} /\ DOMAIN q = 1..Len(q) /\ Len(Tail(q)) = Len(q) - 1
      /\ \A i \in 1..(Len(q) - 1) : Tail(q)[i] = q[i + 1]
  BY HeadTailProperties, LenProperties
<1>4. /\ r \in Seq(Calls) /\ Len(r) = Len(q)
      /\ \A i \in 1..Len(q) : r[i] = IF i <= 1 THEN d[i] ELSE Tail(q)[i - 1]
  <2>1. /\ r \in Seq(Calls) /\ Len(r) = Len(d) + Len(Tail(q))
        /\ \A i \in 1..(Len(d) + Len(Tail(q))) : r[i] = IF i <= Len(d) THEN d[i] ELSE Tail(q)[i - Len(d)]
    BY <1>1, <1>2, ConcatProperties
  <2> QED BY <1>2, <1>3, <2>1
<1> HIDE DEF r
<1>5. DOMAIN r = DOMAIN q /\ DOMAIN q \subseteq Nat \ {0} /\ 1 \in DOMAIN q
  BY <1>3, <1>4, LenProperties
<1>6. r[1] = StartReady /\ r # <<>>
  <2>1. r[1] = d[1]
    BY <1>3, <1>4
  <2>2. Len(r) # 0
    BY <1>3, <1>4
  <2> QED BY <1>2, <2>1, <2>2
<1>7. ASSUME NEW i \in DOMAIN q, i # 1 PROVE r[i] = q[i] /\ i > 1
  <2>1. i - 1 \in 1..(Len(q) - 1) /\ ~(i <= 1) /\ i \in 1..Len(q) /\ (i - 1) + 1 = i
    BY <1>3, <1>7
  <2>2. r[i] = Tail(q)[i - 1]
    BY <1>4, <2>1
  <2> QED BY <1>3, <2>1, <2>2
<1>8. /\ ~Sets(q[1], t) /\ ~Tells(q[1], t) /\ q[1] # Create(t) /\ q[1].call # "report"
      /\ \A e : q[1] # Once(t, e)
  BY DEF Stops, Sets, Tells, Create, Once
<1>9. /\ ~Sets(r[1], t) /\ ~Tells(r[1], t) /\ ~Claims(r[1], t) /\ r[1] # Create(t) /\ ~About(r[1], t)
      /\ r[1].call # "report" /\ (\A e : r[1] # Once(t, e)) /\ Stops(r[1])
  BY <1>6 DEF Stops, Sets, Tells, Claims, Create, Once, About, Break, StartReady
<1>10. CreatedOnce(r, t) /\ (Creates(r, t) => Creates(q, t))
  BY <1>5, <1>7, <1>9 DEF Calm, CreatedOnce, Creates
<1>11. Introduced(q, t) => Introduced(r, t)
  <2> SUFFICES ASSUME Introduced(q, t), NEW i \in DOMAIN r, About(r[i], t)
               PROVE  \E j \in 1..i : r[j] = Create(t)
    BY DEF Introduced
  <2>1. i # 1 /\ i \in DOMAIN q /\ r[i] = q[i]
    BY <1>5, <1>7, <1>9
  <2>2. PICK j \in 1..i : q[j] = Create(t)
    BY <2>1 DEF Introduced
  <2>3. j \in DOMAIN q /\ j # 1
    BY <1>3, <1>8, <2>1, <2>2
  <2> QED BY <1>7, <2>2, <2>3
<1>12. ReportFollows(r, t, mem[t].log)
  <2> SUFFICES ASSUME NEW i \in DOMAIN r, r[i].call = "report", r[i].task = t
               PROVE  /\ r[i].status = "Completed" => r[i].report.text
                      /\ \A e \in ReportEntries(r[i].report) :
                           Logs(mem[t].log, e) \/ \E j \in DOMAIN r : j < i /\ r[j] = Once(t, e)
    BY DEF ReportFollows
  <2>1. i # 1 /\ i \in DOMAIN q /\ r[i] = q[i]
    BY <1>5, <1>7, <1>9
  <2>2. /\ q[i].status = "Completed" => q[i].report.text
        /\ \A e \in ReportEntries(q[i].report) :
             Logs(mem[t].log, e) \/ \E j \in DOMAIN q : j < i /\ q[j] = Once(t, e)
    BY <2>1 DEF Calm, ReportFollows
  <2>3. \A e : \A j \in DOMAIN q : q[j] = Once(t, e) => r[j] = Once(t, e)
    BY <1>7, <1>8
  <2> QED BY <1>5, <2>1, <2>2, <2>3
<1>13. ASSUME NEW i \in DOMAIN q
       PROVE  /\ Sets(q[i], t) <=> Sets(r[i], t)
              /\ Tells(q[i], t) <=> Tells(r[i], t)
              /\ Sets(q[i], t) \/ Tells(q[i], t) => r[i] = q[i]
              /\ Stops(r[i]) => Stops(q[i])
  BY <1>7, <1>8, <1>9
<1>14. \A i \in DOMAIN q : /\ LastSet(q, i, t) <=> LastSet(r, i, t)
                           /\ LastTell(q, i, t) <=> LastTell(r, i, t)
  BY <1>5, <1>13 DEF LastSet, LastTell
<1>15. SetIsTold(r, t)
  <2> SUFFICES ASSUME NEW i \in DOMAIN r, LastSet(r, i, t)
               PROVE  \E j \in DOMAIN r : /\ j > i /\ LastTell(r, j, t)
                                          /\ Tale(r[j].entry.kind) = ShownAs(StatusOf(r[i]))
    BY DEF SetIsTold
  <2>1. i \in DOMAIN q /\ LastSet(q, i, t) /\ r[i] = q[i]
    BY <1>5, <1>13, <1>14 DEF LastSet
  <2>2. PICK j \in DOMAIN q : /\ j > i /\ LastTell(q, j, t)
                              /\ Tale(q[j].entry.kind) = ShownAs(StatusOf(q[i]))
    BY <2>1 DEF Calm, SetIsTold
  <2>3. r[j] = q[j] /\ LastTell(r, j, t) /\ j \in DOMAIN r
    BY <1>5, <1>13, <1>14, <2>2 DEF LastTell
  <2> QED BY <2>1, <2>2, <2>3
<1>16. ToldOfSet(r, t)
  <2> SUFFICES ASSUME NEW b \in DOMAIN r, NEW j \in DOMAIN r, Stops(r[b]), b < j, Tells(r[j], t)
               PROVE  \E i \in DOMAIN r : b < i /\ i < j /\ Sets(r[i], t)
    BY DEF ToldOfSet
  <2>1. Stops(q[b]) /\ Tells(q[j], t)
    BY <1>5, <1>13
  <2>2. PICK i \in DOMAIN q : b < i /\ i < j /\ Sets(q[i], t)
    BY <1>5, <2>1 DEF Calm, ToldOfSet
  <2> QED BY <1>5, <1>13, <2>2
<1>17. NoSet(r, t) => NoSet(q, t)
  BY <1>5, <1>13 DEF NoSet
<1>18. \A log, status : TellsStatus(q, t, log, status) => TellsStatus(r, t, log, status)
  <2> SUFFICES ASSUME NEW log, NEW status, TellsStatus(q, t, log, status)
               PROVE  TellsStatus(r, t, log, status)
    OBVIOUS
  <2>1. CASE \E j \in DOMAIN q : LastTell(q, j, t) /\ Tale(q[j].entry.kind) = ShownAs(status)
    <3>1. PICK j \in DOMAIN q : LastTell(q, j, t) /\ Tale(q[j].entry.kind) = ShownAs(status)
      BY <2>1
    <3>2. j \in DOMAIN r /\ r[j] = q[j] /\ LastTell(r, j, t)
      BY <1>5, <1>13, <1>14, <3>1 DEF LastTell
    <3> QED BY <3>1, <3>2 DEF TellsStatus
  <2>2. CASE NoTell(q, t) /\ ToldLast(log, ShownAs(status))
    <3>1. NoTell(r, t)
      BY <1>5, <1>13, <2>2 DEF NoTell
    <3> QED BY <2>2, <3>1 DEF TellsStatus
  <2> QED BY <2>1, <2>2 DEF TellsStatus
<1>19. Calm(r, t)
  BY <1>10, <1>11, <1>12, <1>15, <1>16, <1>17, <1>18 DEF Calm
<1>20. \A i \in DOMAIN r : Claims(r[i], t) => i # 1 /\ Claims(q[i], t)
  BY <1>5, <1>7, <1>9
<1>21. /\ OneClaim(q, t) => OneClaim(r, t)
       /\ HasClaim(r, t) => HasClaim(q, t)
       /\ Claims(q[1], t) /\ OneClaim(q, t) => ~HasClaim(r, t)
  BY <1>5, <1>20 DEF OneClaim, HasClaim
<1> QED BY <1>4, <1>6, <1>19, <1>21 DEF r, d

\* A queue of tasks: a task is in it once, and where it ends up.
Single(q, t) == \A i, j \in DOMAIN q : q[i] = t /\ q[j] = t => i = j
Within(q, t) == \E i \in DOMAIN q : q[i] = t

LEMMA QueuePop ==
  ASSUME NEW q \in Seq(Task), q # <<>>, NEW t, Single(q, t)
  PROVE  /\ Single(Tail(q), t) /\ (Within(Tail(q), t) => Within(q, t))
         /\ t = q[1] => Within(q, t) /\ ~Within(Tail(q), t)
<1>1. /\ 1 \in DOMAIN q
      /\ \A i \in DOMAIN Tail(q) : i \in Nat \ {0} /\ i + 1 \in DOMAIN q /\ Tail(q)[i] = q[i + 1]
  BY PopFacts
<1> DEFINE r == Tail(q)
<1> HIDE DEF r
<1>2. ASSUME NEW i \in DOMAIN r, NEW j \in DOMAIN r, r[i] = t, r[j] = t PROVE i = j
  <2>1. i + 1 = j + 1 /\ i \in Nat /\ j \in Nat
    BY <1>1, <1>2 DEF Single, r
  <2> QED BY <2>1
<1>3. Within(r, t) => Within(q, t)
  BY <1>1 DEF Within, r
<1>4. ASSUME t = q[1], NEW i \in DOMAIN r PROVE r[i] # t
  <2>1. i + 1 # 1 /\ i + 1 \in DOMAIN q /\ r[i] = q[i + 1]
    BY <1>1 DEF r
  <2> QED BY <1>1, <1>4, <2>1 DEF Single
<1> QED BY <1>1, <1>2, <1>3, <1>4 DEF Single, Within, r

LEMMA QueuePush ==
  ASSUME NEW q \in Seq(Task), NEW x \in Task, NEW t, Single(q, t), t = x => ~Within(q, t)
  PROVE  /\ Single(Append(q, x), t) /\ (Within(Append(q, x), t) => Within(q, t) \/ t = x)
         /\ Append(q, x) \in Seq(Task)
<1> DEFINE r == Append(q, x)
<1>1. /\ Len(q) \in Nat /\ DOMAIN q = 1..Len(q) /\ DOMAIN r = 1..(Len(q) + 1) /\ r \in Seq(Task)
      /\ \A i \in 1..Len(q) : r[i] = q[i]
      /\ r[Len(q) + 1] = x
  BY AppendProperties, LenProperties
<1> HIDE DEF r
<1>2. \A i \in DOMAIN r : i \in DOMAIN q \/ i = Len(q) + 1
  BY <1>1
<1>3. Single(r, t)
  BY <1>1, <1>2 DEF Single, Within
<1>4. Within(r, t) => Within(q, t) \/ t = x
  BY <1>1, <1>2 DEF Within
<1> QED BY <1>1, <1>3, <1>4 DEF r

LEMMA QueueCut ==
  ASSUME NEW q \in Seq(Task), NEW i \in DOMAIN q, NEW t, Single(q, t)
  PROVE  /\ Single(RemoveAt(q, i), t) /\ (Within(RemoveAt(q, i), t) => Within(q, t))
         /\ RemoveAt(q, i) \in Seq(Task)
<1> DEFINE r == RemoveAt(q, i)
<1>1. /\ r \in Seq(Task) /\ Len(r) = Len(q) - 1 /\ Len(q) \in Nat /\ i \in Nat
      /\ DOMAIN q = 1..Len(q) /\ DOMAIN r = 1..(Len(q) - 1)
      /\ \A j \in 1..(Len(q) - 1) : r[j] = IF j < i THEN q[j] ELSE q[j + 1]
  <2>1. /\ r \in Seq(Task) /\ Len(r) = Len(q) - 1
        /\ \A j \in 1..(Len(q) - 1) : r[j] = IF j < i THEN q[j] ELSE q[j + 1]
    BY RemoveAtType
  <2>2. Len(q) \in Nat /\ DOMAIN q = 1..Len(q)
    BY LenProperties
  <2> HIDE DEF r
  <2>3. DOMAIN r = 1..(Len(q) - 1)
    BY <2>1, LenProperties
  <2>4. i \in Nat
    BY <2>2
  <2> QED BY <2>1, <2>2, <2>3, <2>4
<1> HIDE DEF r
<1> DEFINE At1(j) == IF j < i THEN j ELSE j + 1
<1>2. \A j \in DOMAIN r : j \in Nat /\ At1(j) \in DOMAIN q /\ r[j] = q[At1(j)]
  BY <1>1
<1>3. ASSUME NEW j \in DOMAIN r, NEW k \in DOMAIN r, At1(j) = At1(k) PROVE j = k
  BY <1>1, <1>2, <1>3
<1> HIDE DEF At1
<1>4. Single(r, t)
  BY <1>2, <1>3 DEF Single
<1>5. Within(r, t) => Within(q, t)
  BY <1>2 DEF Within
<1> QED BY <1>1, <1>4, <1>5 DEF r

\* The channel: at most one end of a run of a task.
OneEnd(c, t) == \A i, j \in DOMAIN c : Ends(c[i], t) /\ Ends(c[j], t) => i = j
HasEnd(c, t) == \E i \in DOMAIN c : Ends(c[i], t)
Mentions(c, t) == \E i \in DOMAIN c : c[i].task = t
Texts(c) == \A i \in DOMAIN c : c[i].type = "completed" => (c[i].status = "Completed" => c[i].report.text)

LEMMA ChannelPop ==
  ASSUME NEW c \in Seq(RunEvents), c # <<>>, NEW t, OneEnd(c, t), Texts(c)
  PROVE  /\ OneEnd(Tail(c), t) /\ (HasEnd(Tail(c), t) => HasEnd(c, t))
         /\ Texts(Tail(c)) /\ (Mentions(Tail(c), t) => Mentions(c, t))
         /\ Ends(c[1], t) => HasEnd(c, t) /\ ~HasEnd(Tail(c), t)
         /\ c[1].task = t => Mentions(c, t)
<1>1. /\ 1 \in DOMAIN c
      /\ \A i \in DOMAIN Tail(c) : i \in Nat \ {0} /\ i + 1 \in DOMAIN c /\ Tail(c)[i] = c[i + 1]
  BY PopFacts
<1> DEFINE r == Tail(c)
<1> HIDE DEF r
<1>2. ASSUME NEW i \in DOMAIN r, NEW j \in DOMAIN r, Ends(r[i], t), Ends(r[j], t) PROVE i = j
  <2>1. i + 1 = j + 1 /\ i \in Nat /\ j \in Nat
    BY <1>1, <1>2 DEF OneEnd, r
  <2> QED BY <2>1
<1>3. /\ HasEnd(r, t) => HasEnd(c, t)
      /\ Mentions(r, t) => Mentions(c, t)
      /\ Texts(r)
  BY <1>1 DEF HasEnd, Mentions, Texts, r
<1>4. ASSUME Ends(c[1], t), NEW i \in DOMAIN r PROVE ~Ends(r[i], t)
  <2>1. i + 1 # 1 /\ i + 1 \in DOMAIN c /\ r[i] = c[i + 1]
    BY <1>1 DEF r
  <2> QED BY <1>1, <1>4, <2>1 DEF OneEnd
<1> QED BY <1>1, <1>2, <1>3, <1>4 DEF OneEnd, HasEnd, Mentions, r

\* Progress of a task, or the end of its run.
LEMMA ChannelPush ==
  ASSUME NEW c \in Seq(RunEvents), NEW p \in Seq(RunEvents), NEW t, OneEnd(c, t), Texts(c),
         OneEnd(p, t), Texts(p), ~(HasEnd(c, t) /\ HasEnd(p, t))
  PROVE  /\ c \o p \in Seq(RunEvents) /\ OneEnd(c \o p, t) /\ Texts(c \o p)
         /\ HasEnd(c \o p, t) => HasEnd(c, t) \/ HasEnd(p, t)
         /\ Mentions(c \o p, t) => Mentions(c, t) \/ Mentions(p, t)
<1> DEFINE r == c \o p
           n == Len(c)
<1>1. /\ r \in Seq(RunEvents) /\ n \in Nat /\ DOMAIN r \subseteq Nat
      /\ \A i \in DOMAIN c : r[i] = c[i]
      /\ \A i \in DOMAIN r : i \in DOMAIN c \/ (i > n /\ i - n \in DOMAIN p)
      /\ \A i \in DOMAIN r : i \in DOMAIN c \/ r[i] = p[i - n]
  <2>1. DOMAIN r = 1..(Len(c) + Len(p)) /\ Len(c) \in Nat /\ Len(p) \in Nat
    BY PushFacts
  <2>2. DOMAIN r \subseteq Nat
    BY <2>1
  <2> QED BY <2>2, PushFacts
<1> HIDE DEF r, n
<1>2. ASSUME NEW i \in DOMAIN r, NEW j \in DOMAIN r, Ends(r[i], t), Ends(r[j], t) PROVE i = j
  <2>1. CASE i \in DOMAIN c /\ j \in DOMAIN c
    BY <1>1, <1>2, <2>1 DEF OneEnd
  <2>2. CASE i \notin DOMAIN c /\ j \notin DOMAIN c
    <3>1. i - n = j - n /\ i \in Nat /\ j \in Nat
      BY <1>1, <1>2, <2>2 DEF OneEnd
    <3> QED BY <1>1, <3>1
  <2>3. CASE i \in DOMAIN c /\ j \notin DOMAIN c
    BY <1>1, <1>2, <2>3 DEF HasEnd
  <2>4. CASE i \notin DOMAIN c /\ j \in DOMAIN c
    BY <1>1, <1>2, <2>4 DEF HasEnd
  <2> QED BY <2>1, <2>2, <2>3, <2>4
<1>3. Texts(r)
  BY <1>1 DEF Texts
<1>4. /\ HasEnd(r, t) => HasEnd(c, t) \/ HasEnd(p, t)
      /\ Mentions(r, t) => Mentions(c, t) \/ Mentions(p, t)
  BY <1>1 DEF HasEnd, Mentions
<1> QED BY <1>1, <1>2, <1>3, <1>4 DEF OneEnd, r

\* A step that writes nothing.
NoWrite == mem' = mem /\ file' = file /\ lost' = lost /\ torn' = torn

Placed(t) ==
  /\ OneClaim(todo, t) /\ Single(queue, t) /\ OneEnd(channel, t)
  /\ HasClaim(todo, t) => ~Within(queue, t) /\ ~IsRun(t) /\ ~HasEnd(channel, t) /\ ~Reported(t)
  /\ Within(queue, t) => ~IsRun(t) /\ ~HasEnd(channel, t) /\ ~Reported(t)
  /\ IsRun(t) => ~HasEnd(channel, t) /\ ~Reported(t)
  /\ HasEnd(channel, t) => ~Reported(t)

Known(t) == Within(queue, t) \/ IsRun(t) \/ t \in running \/ Mentions(channel, t)

LEMMA PlacedIsOneRun == \A t : OneRun(t) <=> Placed(t)
BY DEF OneRun, Placed, Single, Within, OneEnd, HasEnd, Waits, Done

LEMMA BoardFacts ==
  ASSUME BoardInv
  PROVE  /\ BoardTyped /\ Texts(channel)
         /\ \A t \in Task : Placed(t) /\ Calm(todo, t) /\ (Known(t) => mem[t] # Absent)
<1>1. BoardTyped /\ Texts(channel)
  BY DEF BoardInv, ResultsHaveText, Texts
<1>2. ASSUME NEW t \in Task PROVE Placed(t) /\ Calm(todo, t) /\ (Known(t) => mem[t] # Absent)
  <2>1. OneRun(t) /\ Born(t)
    BY DEF BoardInv
  <2>2. Placed(t)
    BY <2>1, PlacedIsOneRun
  <2>3. Known(t) => mem[t] # Absent
    BY <2>1 DEF Born, Known, Waits, Within, Mentions
  <2> QED BY <2>2, <2>3, BoardIsCalm
<1> QED BY <1>1, <1>2

LEMMA NoWriteKeeps ==
  ASSUME BoardInv, NoWrite, BoardTyped', Texts(channel'),
         \A t \in Task : Placed(t)' /\ Calm(todo', t) /\ (Known(t)' => mem[t] # Absent)
  PROVE  BoardInv' /\ Steady
<1>1. mem' = mem /\ file' = file /\ lost' = lost /\ torn' = torn
  BY DEF NoWrite
<1>2. ResultsHaveText'
  BY DEF ResultsHaveText, Texts
<1>3. ASSUME NEW t \in Task PROVE OneRun(t)' /\ Born(t)' /\ Kept(t)' /\ Told(t)'
  <2>1. Placed(t)' /\ Calm(todo', t) /\ (Known(t)' => mem[t] # Absent)
    OBVIOUS
  <2>2. OneRun(t)'
    BY <2>1 DEF OneRun, Placed, Single, Within, OneEnd, HasEnd, Waits, Done
  <2>3. mem[t] = Absent => /\ ~Waits(t)' /\ ~IsRun(t)' /\ t \notin running'
                           /\ \A i \in DOMAIN channel' : channel'[i].task # t
    BY <2>1 DEF Known, Waits, Within, Mentions
  <2>4. mem[t] = Absent => file[t] = Absent
    BY DEF BoardInv, Born
  <2>5. Born(t)'
    BY <1>1, <2>1, <2>3, <2>4 DEF Calm, Born
  <2>6. Kept(t)'
    <3>1. Kept(t)
      BY DEF BoardInv
    <3> QED BY <1>1, <2>1, <3>1 DEF Calm, Kept
  <2>7. Told(t)'
    BY <1>1, <2>1 DEF Calm, Told, StatusTold
  <2> QED BY <2>2, <2>5, <2>6, <2>7
<1>4. Steady
  <2> SUFFICES ASSUME NEW t \in Task PROVE Before(mem[t], mem[t]) /\ Before(file[t], file[t])
    BY <1>1 DEF Steady
  <2>1. mem[t] \in Records /\ file[t] \in Records
    BY DEF BoardInv, BoardTyped
  <2>2. Len(mem[t].log) \in Nat /\ Len(file[t].log) \in Nat
    BY <2>1, LenProperties DEF Records
  <2> QED BY <2>2 DEF Before
<1> QED BY <1>2, <1>3, <1>4 DEF BoardInv

\* What an event of a run makes the board do.
LEMMA ApplyFacts ==
  ASSUME NEW ev \in RunEvents, NEW t,
         ev.type = "completed" => (ev.status = "Completed" => ev.report.text)
  PROVE  LET g == ApplyEvent(ev.task, ev) IN
         /\ g \in Seq(Calls) /\ Group(g, t) /\ OneClaim(g, t) /\ ~Creates(g, t)
         /\ t # ev.task => \A i \in DOMAIN g : ~About(g[i], t)
         /\ HasClaim(g, t) => Ends(ev, t)
         /\ \A log : ReportFollows(g, t, log)
<1> DEFINE x == ev.task
           g == ApplyEvent(x, ev)
<1>1. x \in Task /\ ev.type \in {"progress", "completed", "failed", "cancelled"}
  BY DEF RunEvents
<1>2. CASE ev.type = "progress"
  <2>1. ev.entry \in ProgressEntries /\ ev.entry \in Entries
    BY <1>2 DEF RunEvents, ProgressEntries, Entries
  <2>2. PICK c \in Calls : /\ g = <<c>> /\ c.call \in {"event", "once"} /\ c.task = x
                           /\ c.call = "event" => c.entry.kind \notin TaskKinds
    <3>1. g = Progress(x, ev.entry)
      BY <1>2 DEF ApplyEvent
    <3>2. CASE ev.entry.kind \in {"engine.operation", "agent.run"}
      <4>1. ev.entry \in OnceEntries
        BY <2>1, <3>2 DEF OnceEntries, OnceKinds, ProgressEntries
      <4>2. Once(x, ev.entry) \in Calls
        BY <1>1, <4>1, CallTypes
      <4> QED BY <3>1, <3>2, <4>2 DEF Progress, Once
    <3>3. CASE ev.entry.kind \notin {"engine.operation", "agent.run"}
      <4>1. ev.entry \in PlainEntries /\ ev.entry.kind \notin TaskKinds
        BY <2>1, <3>3 DEF PlainEntries, OnceKinds, ProgressEntries, ProgressKinds, TaskKinds
      <4>2. Event(x, ev.entry) \in Calls
        BY <1>1, <4>1, CallTypes
      <4> QED BY <3>1, <3>3, <4>1, <4>2 DEF Progress, Event
    <3> QED BY <3>2, <3>3
  <2> HIDE DEF g
  <2>3. LET h == <<c>> IN
         /\ h \in Seq(Calls) /\ Group(h, t) /\ ~HasClaim(h, t) /\ OneClaim(h, t) /\ ~Creates(h, t)
         /\ ~About(c, t) => \A i \in DOMAIN h : ~About(h[i], t)
         /\ \A log : ReportFollows(h, t, log)
    BY <2>2, QuietGroup
  <2>4. t # x => ~About(c, t)
    BY <2>2 DEF About
  <2> QED BY <2>2, <2>3, <2>4 DEF g
<1>3. CASE ev.type = "completed"
  <2> DEFINE s == ev.status
             r == ev.report
             h == ReportLogs(x, r) \o <<Report(x, s, r)>> \o <<Event(x, Mark(FinishedKind(s)))>>
  <2>1. s \in Results /\ r \in Reports /\ (s = "Completed" => r.text)
    BY <1>3 DEF RunEvents
  <2>2. g = h
    BY <1>3 DEF ApplyEvent
  <2> HIDE DEF g, s, r
  <2>3. /\ h \in Seq(Calls) /\ Group(h, t) /\ OneClaim(h, t) /\ ~Creates(h, t)
        /\ t # x => \A i \in DOMAIN h : ~About(h[i], t)
        /\ t # x => ~HasClaim(h, t)
        /\ \A log : ReportFollows(h, t, log)
    BY <1>1, <2>1, ReportGroup
  <2>4. t = x => Ends(ev, t)
    BY <1>3 DEF Ends
  <2> HIDE DEF h
  <2> QED BY <2>2, <2>3, <2>4 DEF g
<1>4. CASE ev.type = "failed"
  <2>1. g = <<Status(x, "Failed"), Event(x, Mark("engine.failed")), Event(x, Mark("task.failed"))>>
    BY <1>4 DEF ApplyEvent
  <2> HIDE DEF g
  <2> QED BY <1>1, <2>1, FailedGroup DEF g
<1>5. CASE ev.type = "cancelled"
  <2>1. g = <<Status(x, "Cancelled"), Event(x, Mark("task.cancelled"))>>
    BY <1>5 DEF ApplyEvent, MarkCancelled
  <2>2. "task.cancelled" \in TaskKinds /\ ItemStatus("task.cancelled") = ShownAs("Cancelled")
    BY DEF TaskKinds, ItemStatus, ShownAs
  <2> HIDE DEF g
  <2>3. /\ g \in Seq(Calls) /\ Group(g, t) /\ ~HasClaim(g, t) /\ OneClaim(g, t) /\ ~Creates(g, t)
        /\ t # x => \A i \in DOMAIN g : ~About(g[i], t)
        /\ \A log : ReportFollows(g, t, log)
    BY <1>1, <2>1, <2>2, PairGroup
  <2> QED BY <2>3 DEF g
<1> QED BY <1>1, <1>2, <1>3, <1>4, <1>5

\* A call put back in front of what it was taken from.
LEMMA HeadAndTail ==
  ASSUME NEW q \in Seq(Calls), q # <<>>, NEW g \in Seq(Calls), NEW c, q[1] = c
  PROVE  g \o <<c>> \o Tail(q) = g \o q /\ <<c>> \in Seq(Calls)
<1> DEFINE d == <<c>>
<1>1. c \in Calls /\ Tail(q) \in Seq(Calls)
  BY PopFacts, HeadTailProperties
<1>2. d \in Seq(Calls) /\ Len(d) = 1 /\ d[1] = q[1]
  BY <1>1
<1> HIDE DEF d
<1>3. Len(q) \in Nat \ {0} /\ Len(Tail(q)) = Len(q) - 1
      /\ \A i \in 1..(Len(q) - 1) : Tail(q)[i] = q[i + 1]
  BY HeadTailProperties
<1>4. d \o Tail(q) = q
  <2>1. /\ d \o Tail(q) \in Seq(Calls) /\ Len(d \o Tail(q)) = Len(d) + Len(Tail(q))
        /\ \A i \in 1..(Len(d) + Len(Tail(q))) :
             (d \o Tail(q))[i] = IF i <= Len(d) THEN d[i] ELSE Tail(q)[i - Len(d)]
    BY <1>1, <1>2, ConcatProperties
  <2>2. Len(d \o Tail(q)) = Len(q)
    BY <1>2, <1>3, <2>1
  <2>3. ASSUME NEW i \in 1..Len(q) PROVE (d \o Tail(q))[i] = q[i]
    <3>1. (d \o Tail(q))[i] = IF i <= 1 THEN d[i] ELSE Tail(q)[i - 1]
      BY <1>2, <1>3, <2>1
    <3>2. CASE i = 1
      BY <1>2, <3>1, <3>2
    <3>3. CASE i # 1
      <4>1. ~(i <= 1) /\ i - 1 \in 1..(Len(q) - 1) /\ (i - 1) + 1 = i
        BY <1>3, <3>3
      <4>2. Tail(q)[i - 1] = q[i]
        BY <1>3, <4>1
      <4> QED BY <3>1, <4>1, <4>2
    <3> QED BY <3>2, <3>3
  <2> QED BY <2>1, <2>2, <2>3, SeqEqual
<1>5. (g \o d) \o Tail(q) = g \o (d \o Tail(q))
  BY <1>1, <1>2, ConcatAssociative
<1> QED BY <1>2, <1>4, <1>5 DEF d

LEMMA DrainKeeps ==
  ASSUME BoardInv, todo # <<>>, Head(todo).call = "drain", DoDrain(Tail(todo)),
         UNCHANGED <<lost, torn>>
  PROVE  BoardInv' /\ Steady
<1>1. /\ BoardTyped /\ Texts(channel)
      /\ \A t \in Task : Placed(t) /\ Calm(todo, t) /\ (Known(t) => mem[t] # Absent)
  BY BoardFacts
<1>2. NoWrite /\ faults' = faults /\ queue' = queue /\ token' = token /\ work' = work
  BY DEF DoDrain, NoWrite
<1>3. todo \in Seq(Calls) /\ todo[1] = Head(todo) /\ 1 \in DOMAIN todo /\ todo[1] \in Calls
  <2>1. todo \in Seq(Calls)
    BY <1>1 DEF BoardTyped
  <2> QED BY <2>1, PopFacts
<1>4. todo[1] = Drain /\ Break(todo[1]) /\ Stops(todo[1])
  BY <1>3, CallFacts DEF Break, Stops
<1>5. CASE channel = <<>>
  <2>1. todo' = <<StartReady>> \o Tail(todo) /\ channel' = channel /\ running' = running
    BY <1>5 DEF DoDrain
  <2>2. ASSUME NEW t \in Task
        PROVE  /\ Calm(todo', t) /\ todo' \in Seq(Calls) /\ OneClaim(todo', t)
               /\ HasClaim(todo', t) => HasClaim(todo, t)
    <3>1. Calm(todo, t) /\ OneClaim(todo, t)
      BY <1>1 DEF Placed
    <3> QED BY <1>3, <1>4, <2>1, <3>1, CalmStart
  <2>3. BoardTyped'
    <3>1. todo' \in Seq(Calls)
      <4>1. StartReady \in Calls /\ Tail(todo) \in Seq(Calls)
        BY <1>3, CallTypes, PopFacts
      <4>2. <<StartReady>> \in Seq(Calls)
        BY <4>1
      <4> QED BY <2>1, <4>1, <4>2, ConcatProperties
    <3> QED BY <1>1, <1>2, <2>1, <3>1 DEF BoardTyped, NoWrite
  <2>4. \A t \in Task : Placed(t)' /\ (Known(t)' => mem[t] # Absent)
    <3>1. ASSUME NEW t \in Task PROVE Placed(t)' /\ (Known(t)' => mem[t] # Absent)
      <4>1. Placed(t) /\ (Known(t) => mem[t] # Absent)
        BY <1>1
      <4>2. Reported(t)' <=> Reported(t)
        BY <1>2 DEF Reported, NoWrite
      <4> QED BY <1>2, <2>1, <2>2, <4>1, <4>2 DEF Placed, Known, IsRun
    <3> QED BY <3>1
  <2>5. Texts(channel')
    BY <1>1, <2>1
  <2> QED BY <1>2, <2>2, <2>3, <2>4, <2>5, NoWriteKeeps
<1>6. CASE channel # <<>>
  <2> DEFINE ev == Head(channel)
             g == ApplyEvent(ev.task, ev)
  <2>1. channel \in Seq(RunEvents) /\ ev = channel[1] /\ 1 \in DOMAIN channel /\ ev \in RunEvents
        /\ Tail(channel) \in Seq(RunEvents)
    <3>1. channel \in Seq(RunEvents)
      BY <1>1 DEF BoardTyped
    <3> QED BY <1>6, <3>1, PopFacts, HeadTailProperties
  <2>2. ev.task \in Task /\ (ev.type = "completed" => (ev.status = "Completed" => ev.report.text))
    <3>1. ev.task \in Task
      BY <2>1 DEF RunEvents
    <3> QED BY <1>1, <2>1, <3>1 DEF Texts
  <2>3. /\ channel' = Tail(channel)
        /\ running' \subseteq running
        /\ todo' = g \o <<Drain>> \o Tail(todo)
    BY <1>6 DEF DoDrain
  <2> HIDE DEF ev
  <2>4. ASSUME NEW t
        PROVE  /\ g \in Seq(Calls) /\ Group(g, t) /\ OneClaim(g, t) /\ ~Creates(g, t)
               /\ t # ev.task => \A i \in DOMAIN g : ~About(g[i], t)
               /\ HasClaim(g, t) => Ends(ev, t)
               /\ \A log : ReportFollows(g, t, log)
    BY <2>1, <2>2, ApplyFacts
  <2> HIDE DEF g
  <2>5. g \in Seq(Calls)
    BY <2>4
  <2>6. todo' = g \o todo /\ todo' \in Seq(Calls)
    <3>1. todo' = g \o todo
      BY <1>3, <1>4, <2>3, <2>5, HeadAndTail
    <3> QED BY <1>3, <2>5, <3>1, ConcatProperties
  <2>7. ASSUME NEW t \in Task
        PROVE  Placed(t)' /\ Calm(todo', t) /\ (Known(t)' => mem[t] # Absent)
    <3>1. Placed(t) /\ Calm(todo, t) /\ (Known(t) => mem[t] # Absent)
      BY <1>1
    <3>2. /\ OneEnd(Tail(channel), t) /\ (HasEnd(Tail(channel), t) => HasEnd(channel, t))
          /\ (Mentions(Tail(channel), t) => Mentions(channel, t))
          /\ Ends(ev, t) => HasEnd(channel, t) /\ ~HasEnd(Tail(channel), t)
          /\ ev.task = t => Mentions(channel, t)
      <4>1. OneEnd(channel, t)
        BY <3>1 DEF Placed
      <4> QED BY <1>1, <1>6, <2>1, <4>1, ChannelPop
    <3>3. Calm(todo', t)
      <4>1. mem[t] = Absent => \A i \in DOMAIN g : ~About(g[i], t)
        BY <2>4, <3>1, <3>2 DEF Known
      <4> QED BY <1>3, <1>4, <2>4, <2>6, <3>1, <4>1, CalmPush
    <3>4. OneClaim(todo', t) /\ (HasClaim(todo', t) => HasClaim(g, t) \/ HasClaim(todo, t))
      <4>1. HasClaim(g, t) => HasEnd(channel, t)
        BY <2>4, <3>2
      <4>2. OneClaim(todo, t) /\ ~(HasClaim(g, t) /\ HasClaim(todo, t))
        BY <3>1, <4>1 DEF Placed
      <4> QED BY <1>3, <2>4, <2>6, <4>2, PushClaims
    <3>5. (Reported(t)' <=> Reported(t)) /\ (IsRun(t)' <=> IsRun(t))
      BY <1>2 DEF Reported, NoWrite, IsRun
    <3>6. Placed(t)'
      <4>1. HasClaim(todo', t) =>
              ~Within(queue, t) /\ ~IsRun(t) /\ ~HasEnd(Tail(channel), t) /\ ~Reported(t)
        BY <2>4, <3>1, <3>2, <3>4 DEF Placed
      <4> QED BY <1>2, <2>3, <3>1, <3>2, <3>4, <3>5, <4>1 DEF Placed
    <3>7. Known(t)' => Known(t)
      BY <1>2, <2>3, <3>2, <3>5 DEF Known
    <3> QED BY <3>1, <3>3, <3>6, <3>7
  <2>8. BoardTyped'
    <3>1. running' \subseteq Task
      BY <1>1, <2>3 DEF BoardTyped
    <3> QED BY <1>1, <1>2, <2>1, <2>3, <2>6, <3>1 DEF BoardTyped, NoWrite
  <2>9. Texts(channel')
    <3> DEFINE t == ev.task
    <3>1. OneEnd(channel, t)
      BY <1>1, <2>2 DEF Placed
    <3> HIDE DEF t
    <3> QED BY <1>1, <1>6, <2>1, <2>3, <3>1, ChannelPop
  <2> QED BY <1>2, <2>7, <2>8, <2>9, NoWriteKeeps
<1> QED BY <1>5, <1>6

LEMMA StartKeeps ==
  ASSUME BoardInv, todo # <<>>, Head(todo).call = "start", DoStart(Tail(todo)),
         UNCHANGED <<lost, torn>>
  PROVE  BoardInv' /\ Steady
<1>1. /\ BoardTyped /\ Texts(channel)
      /\ \A t \in Task : Placed(t) /\ Calm(todo, t) /\ (Known(t) => mem[t] # Absent)
  BY BoardFacts
<1>2. /\ NoWrite /\ faults' = faults /\ running' = running /\ token' = token /\ work' = work
      /\ channel' = channel
  BY DEF DoStart, NoWrite
<1>3. todo \in Seq(Calls) /\ todo[1] = Head(todo) /\ 1 \in DOMAIN todo /\ todo[1] \in Calls
      /\ Tail(todo) \in Seq(Calls)
  <2>1. todo \in Seq(Calls)
    BY <1>1 DEF BoardTyped
  <2> QED BY <2>1, PopFacts
<1>4. todo[1] = StartReady /\ Break(todo[1])
  BY <1>3, CallFacts DEF Break
<1>5. CASE queue # <<>> /\ Cardinality(running) < Slots
  <2> DEFINE x == Head(queue)
             g == <<Status(x, "Running"), Event(x, Mark("task.started")), Spawn(x)>>
  <2>1. queue \in Seq(Task) /\ x = queue[1] /\ x \in Task /\ Tail(queue) \in Seq(Task)
    <3>1. queue \in Seq(Task)
      BY <1>1 DEF BoardTyped
    <3> QED BY <1>5, <3>1, PopFacts, HeadTailProperties
  <2>2. /\ queue' = Tail(queue)
        /\ todo' = <<Status(x, "Running"), Event(x, Mark("task.started")), Spawn(x),
                     StartReady>> \o Tail(todo)
    BY <1>5 DEF DoStart
  <2> HIDE DEF x
  <2>3. ASSUME NEW t
        PROVE  /\ g \in Seq(Calls) /\ Group(g, t) /\ OneClaim(g, t) /\ ~Creates(g, t)
               /\ t # x => \A i \in DOMAIN g : ~About(g[i], t)
               /\ t # x => ~HasClaim(g, t)
               /\ \A log : ReportFollows(g, t, log)
    BY <2>1, StartGroup
  <2>4. <<Status(x, "Running"), Event(x, Mark("task.started")), Spawn(x), StartReady>>
          = g \o <<StartReady>>
    OBVIOUS
  <2>5. g \in Seq(Calls)
    BY <2>3
  <2> HIDE DEF g
  <2>6. todo' = g \o todo /\ todo' \in Seq(Calls)
    <3>1. g \o <<StartReady>> \o Tail(todo) = g \o todo
      BY <1>3, <1>4, <2>5, HeadAndTail
    <3>2. todo' = g \o todo
      BY <2>2, <2>4, <3>1
    <3> QED BY <1>3, <2>5, <3>2, ConcatProperties
  <2>7. ASSUME NEW t \in Task
        PROVE  Placed(t)' /\ Calm(todo', t) /\ (Known(t)' => mem[t] # Absent)
    <3>1. Placed(t) /\ Calm(todo, t) /\ (Known(t) => mem[t] # Absent)
      BY <1>1
    <3>2. /\ Single(Tail(queue), t) /\ (Within(Tail(queue), t) => Within(queue, t))
          /\ t = x => Within(queue, t) /\ ~Within(Tail(queue), t)
      BY <1>5, <2>1, <3>1, QueuePop DEF Placed
    <3>3. Calm(todo', t)
      <4>1. mem[t] = Absent => \A i \in DOMAIN g : ~About(g[i], t)
        BY <2>3, <3>1, <3>2 DEF Known
      <4> QED BY <1>3, <1>4, <2>3, <2>6, <3>1, <4>1, CalmPush
    <3>4. OneClaim(todo', t) /\ (HasClaim(todo', t) => HasClaim(g, t) \/ HasClaim(todo, t))
      <4>1. HasClaim(g, t) => Within(queue, t)
        BY <2>3, <3>2
      <4>2. OneClaim(todo, t) /\ ~(HasClaim(g, t) /\ HasClaim(todo, t))
        BY <3>1, <4>1 DEF Placed
      <4> QED BY <1>3, <2>3, <2>6, <4>2, PushClaims
    <3>5. (Reported(t)' <=> Reported(t)) /\ (IsRun(t)' <=> IsRun(t))
      BY <1>2 DEF Reported, NoWrite, IsRun
    <3>6. Placed(t)'
      <4>1. HasClaim(todo', t) =>
              ~Within(Tail(queue), t) /\ ~IsRun(t) /\ ~HasEnd(channel, t) /\ ~Reported(t)
        BY <2>3, <3>1, <3>2, <3>4 DEF Placed
      <4> QED BY <1>2, <2>2, <3>1, <3>2, <3>4, <3>5, <4>1 DEF Placed
    <3>7. Known(t)' => Known(t)
      BY <1>2, <2>2, <3>2, <3>5 DEF Known
    <3> QED BY <3>1, <3>3, <3>6, <3>7
  <2>8. BoardTyped'
    BY <1>1, <1>2, <2>1, <2>2, <2>6 DEF BoardTyped, NoWrite
  <2> QED BY <1>1, <1>2, <2>7, <2>8, NoWriteKeeps
<1>6. CASE ~(queue # <<>> /\ Cardinality(running) < Slots)
  <2>1. todo' = Tail(todo) /\ queue' = queue
    BY <1>6 DEF DoStart
  <2>2. ASSUME NEW t \in Task
        PROVE  Placed(t)' /\ Calm(todo', t) /\ (Known(t)' => mem[t] # Absent)
    <3>1. Placed(t) /\ Calm(todo, t) /\ (Known(t) => mem[t] # Absent)
      BY <1>1
    <3>2. Calm(todo', t)
      BY <1>3, <2>1, <3>1, CalmPop
    <3>3. OneClaim(todo', t) /\ (HasClaim(todo', t) => HasClaim(todo, t))
      BY <1>3, <2>1, <3>1, PopClaims DEF Placed
    <3>4. (Reported(t)' <=> Reported(t)) /\ (IsRun(t)' <=> IsRun(t))
      BY <1>2 DEF Reported, NoWrite, IsRun
    <3>5. Placed(t)' /\ (Known(t)' => Known(t))
      BY <1>2, <2>1, <3>1, <3>3, <3>4 DEF Placed, Known
    <3> QED BY <3>1, <3>2, <3>5
  <2>3. BoardTyped'
    BY <1>1, <1>2, <1>3, <2>1 DEF BoardTyped, NoWrite
  <2> QED BY <1>1, <1>2, <2>2, <2>3, NoWriteKeeps
<1> QED BY <1>5, <1>6

\* A call of a task is left only if the task is there.
LEMMA HeadIsKnown ==
  ASSUME BoardInv, todo # <<>>, ~Break(Head(todo)), Head(todo).call # "create"
  PROVE  Head(todo).task \in Task /\ mem[Head(todo).task] # Absent
<1> DEFINE c == Head(todo)
           x == c.task
<1>1. todo \in Seq(Calls) /\ c = todo[1] /\ 1 \in DOMAIN todo /\ c \in Calls
  <2>1. todo \in Seq(Calls)
    BY DEF BoardInv, BoardTyped
  <2> QED BY <2>1, PopFacts
<1>2. x \in Task
  BY <1>1, CallFacts
<1>3. ASSUME mem[x] = Absent PROVE FALSE
  <2>1. Introduced(todo, x)
    BY <1>2, <1>3 DEF BoardInv, Born
  <2>2. PICK j \in 1..1 : todo[j] = Create(x)
    BY <1>1, <2>1 DEF Introduced, About
  <2>3. j = 1
    OBVIOUS
  <2> QED BY <1>1, <2>2, <2>3 DEF Create
<1> QED BY <1>2, <1>3

LEMMA SpawnKeeps ==
  ASSUME BoardInv, todo # <<>>, Head(todo).call = "spawn",
         DoSpawn(Head(todo).task, Tail(todo)), UNCHANGED <<lost, torn>>
  PROVE  BoardInv' /\ Steady
<1> DEFINE x == Head(todo).task
<1>1. /\ BoardTyped /\ Texts(channel)
      /\ \A t \in Task : Placed(t) /\ Calm(todo, t) /\ (Known(t) => mem[t] # Absent)
  BY BoardFacts
<1>2. /\ NoWrite /\ faults' = faults /\ queue' = queue /\ token' = token /\ channel' = channel
      /\ running' = running \union {x} /\ todo' = Tail(todo)
      /\ work' = [work EXCEPT ![x].state = "run"]
  BY DEF DoSpawn, NoWrite
<1>3. todo \in Seq(Calls) /\ todo[1] = Head(todo) /\ 1 \in DOMAIN todo /\ todo[1] \in Calls
      /\ Tail(todo) \in Seq(Calls)
  <2>1. todo \in Seq(Calls)
    BY <1>1 DEF BoardTyped
  <2> QED BY <2>1, PopFacts
<1>4. x \in Task /\ mem[x] # Absent
  BY HeadIsKnown DEF Break
<1>5. /\ work' \in [Task -> Works] /\ work'[x].state = "run"
      /\ \A t \in Task \ {x} : work'[t] = work[t]
  <2>1. work \in [Task -> Works]
    BY <1>1 DEF BoardTyped
  <2>2. [work[x] EXCEPT !.state = "run"] \in Works
    BY <1>4, <2>1 DEF Works
  <2> QED BY <1>2, <1>4, <2>1, <2>2
<1>6. ASSUME NEW t \in Task
      PROVE  Placed(t)' /\ Calm(todo', t) /\ (Known(t)' => mem[t] # Absent)
  <2>1. Placed(t) /\ Calm(todo, t) /\ (Known(t) => mem[t] # Absent)
    BY <1>1
  <2>2. Calm(todo', t)
    BY <1>2, <1>3, <2>1, CalmPop
  <2>3. /\ OneClaim(todo', t) /\ (HasClaim(todo', t) => HasClaim(todo, t))
        /\ Claims(Head(todo), t) => HasClaim(todo, t) /\ ~HasClaim(todo', t)
    BY <1>2, <1>3, <2>1, PopClaims DEF Placed
  <2>4. Reported(t)' <=> Reported(t)
    BY <1>2 DEF Reported, NoWrite
  <2>5. CASE t # x
    <3>1. IsRun(t)' <=> IsRun(t)
      BY <1>5, <2>5 DEF IsRun
    <3>2. Placed(t)' /\ (Known(t)' => Known(t))
      BY <1>2, <2>1, <2>3, <2>4, <2>5, <3>1 DEF Placed, Known
    <3> QED BY <2>1, <2>2, <3>2
  <2>6. CASE t = x
    <3>1. HasClaim(todo, t) /\ ~HasClaim(todo', t)
      BY <2>3, <2>6 DEF Claims
    <3>2. ~Within(queue, t) /\ ~HasEnd(channel, t) /\ ~Reported(t)
      BY <2>1, <3>1 DEF Placed
    <3>3. Placed(t)'
      BY <1>2, <2>1, <2>3, <2>4, <3>1, <3>2 DEF Placed
    <3> QED BY <1>4, <2>2, <2>6, <3>3
  <2> QED BY <2>5, <2>6
<1>7. BoardTyped'
  BY <1>1, <1>2, <1>3, <1>4, <1>5 DEF BoardTyped, NoWrite
<1> QED BY <1>1, <1>2, <1>6, <1>7, NoWriteKeeps

LEMMA EnqueueKeeps ==
  ASSUME BoardInv, todo # <<>>, Head(todo).call = "enqueue",
         DoEnqueue(Head(todo).task, Tail(todo)), UNCHANGED <<lost, torn>>
  PROVE  BoardInv' /\ Steady
<1> DEFINE x == Head(todo).task
<1>1. /\ BoardTyped /\ Texts(channel)
      /\ \A t \in Task : Placed(t) /\ Calm(todo, t) /\ (Known(t) => mem[t] # Absent)
  BY BoardFacts
<1>2. /\ NoWrite /\ faults' = faults /\ running' = running /\ token' = token
      /\ channel' = channel /\ work' = work
      /\ queue' = Append(queue, x) /\ todo' = <<StartReady>> \o Tail(todo)
  BY DEF DoEnqueue, NoWrite
<1>3. todo \in Seq(Calls) /\ todo[1] = Head(todo) /\ 1 \in DOMAIN todo /\ Stops(todo[1])
      /\ todo' \in Seq(Calls) /\ queue \in Seq(Task)
  <2>1. todo \in Seq(Calls) /\ queue \in Seq(Task)
    BY <1>1 DEF BoardTyped
  <2>2. todo[1] = Head(todo) /\ 1 \in DOMAIN todo /\ Tail(todo) \in Seq(Calls)
    BY <2>1, PopFacts
  <2>3. StartReady \in Calls
    BY CallTypes
  <2>4. <<StartReady>> \in Seq(Calls)
    BY <2>3
  <2>5. todo' \in Seq(Calls)
    BY <1>2, <2>2, <2>4, ConcatProperties
  <2> QED BY <2>1, <2>2, <2>5 DEF Stops
<1>4. x \in Task /\ mem[x] # Absent
  BY HeadIsKnown DEF Break
<1>5. ASSUME NEW t \in Task
      PROVE  Placed(t)' /\ Calm(todo', t) /\ (Known(t)' => mem[t] # Absent)
             /\ queue' \in Seq(Task)
  <2>1. Placed(t) /\ Calm(todo, t) /\ (Known(t) => mem[t] # Absent)
    BY <1>1
  <2>2. /\ Calm(todo', t) /\ OneClaim(todo', t)
        /\ HasClaim(todo', t) => HasClaim(todo, t)
        /\ Claims(todo[1], t) => ~HasClaim(todo', t)
    <3>1. OneClaim(todo, t)
      BY <2>1 DEF Placed
    <3> QED BY <1>2, <1>3, <2>1, <3>1, CalmStart
  <2>3. t = x => HasClaim(todo, t) /\ ~HasClaim(todo', t)
    BY <1>3, <2>2 DEF Claims, HasClaim
  <2>4. /\ Single(queue', t) /\ (Within(queue', t) => Within(queue, t) \/ t = x)
        /\ queue' \in Seq(Task)
    <3>1. Single(queue, t) /\ (t = x => ~Within(queue, t))
      BY <2>1, <2>3 DEF Placed
    <3> HIDE DEF x
    <3> QED BY <1>2, <1>3, <1>4, <3>1, QueuePush
  <2>5. (Reported(t)' <=> Reported(t)) /\ (IsRun(t)' <=> IsRun(t))
    BY <1>2 DEF Reported, NoWrite, IsRun
  <2>6. Placed(t)' /\ (Known(t)' => Known(t) \/ t = x)
    BY <1>2, <2>1, <2>2, <2>3, <2>4, <2>5 DEF Placed, Known
  <2> QED BY <1>4, <2>1, <2>2, <2>4, <2>6
<1>6. BoardTyped'
  BY <1>1, <1>2, <1>3, <1>4, <1>5 DEF BoardTyped, NoWrite
<1> QED BY <1>1, <1>2, <1>5, <1>6, NoWriteKeeps

LEMMA PerformKeeps ==
  ASSUME BoardInv, Perform
  PROVE  BoardInv' /\ Steady
<1> DEFINE c == Head(todo)
           rest == Tail(todo)
<1>1. todo # <<>> /\ lost' = lost /\ torn' = torn
  BY DEF Perform
<1>2. todo \in Seq(Calls) /\ c = todo[1] /\ 1 \in DOMAIN todo /\ c \in Calls
  <2>1. todo \in Seq(Calls)
    BY DEF BoardInv, BoardTyped
  <2> QED BY <1>1, <2>1, PopFacts
<1>3. \/ c.call = "create" /\ DoCreate(c, rest)
      \/ c.call = "status" /\ DoStatus(c, rest)
      \/ c.call \in {"event", "once"} /\ DoEvent(c, rest)
      \/ c.call = "report" /\ DoReport(c, rest)
      \/ c.call = "drain" /\ DoDrain(rest)
      \/ c.call = "start" /\ DoStart(rest)
      \/ c.call = "spawn" /\ DoSpawn(c.task, rest)
      \/ c.call = "enqueue" /\ DoEnqueue(c.task, rest)
  BY DEF Perform
<1>4. CASE c.call \in {"create", "status", "event", "once", "report"}
  <2>1. todo' = rest /\ UNCHANGED <<queue, running, token, channel, work, lost, torn>>
    BY <1>1, <1>3, <1>4 DEF DoCreate, DoStatus, DoEvent, DoReport
  <2>2. c.task \in Task
    BY <1>2, <1>4, CallFacts DEF Break
  <2>3. Written(c)
    <3>1. CASE c.call = "create"
      <4>1. c = Create(c.task)
        BY <1>2, <3>1, CallFacts
      <4>2. Creates(todo, c.task)
        BY <1>2, <4>1 DEF Creates
      <4>3. mem[c.task] = Absent
        BY <2>2, <4>2 DEF BoardInv, Born
      <4>4. DoCreate(c, rest)
        BY <1>3, <3>1
      <4> QED BY <1>2, <3>1, <4>3, <4>4, CreateWrites
    <3>2. CASE c.call = "status"
      BY <1>2, <1>3, <3>2, StatusWrites
    <3>3. CASE c.call \in {"event", "once"}
      <4>1. mem[c.task] # Absent
        BY <1>1, <3>3, HeadIsKnown DEF Break
      <4>2. DoEvent(c, rest)
        BY <1>3, <3>3
      <4> HIDE DEF c, rest
      <4> QED BY <1>2, <3>3, <4>1, <4>2, EventWrites DEF rest
    <3>4. CASE c.call = "report"
      <4>1. Placed(c.task) /\ Kept(c.task)
        BY <2>2, BoardFacts DEF BoardInv
      <4>2. HasClaim(todo, c.task)
        BY <1>2, <3>4 DEF HasClaim, Claims
      <4>3. mem[c.task].report = NoReport
        BY <4>1, <4>2 DEF Placed, Reported
      <4>4. HasText(c.status, c.report) /\ Covered(mem[c.task].log, c.report)
        <5>1. /\ c.status = "Completed" => c.report.text
              /\ \A e \in ReportEntries(c.report) :
                   Logs(mem[c.task].log, e)
                     \/ \E j \in DOMAIN todo : j < 1 /\ todo[j] = Once(c.task, e)
          BY <1>2, <3>4, <4>1 DEF Kept, ReportFollows
        <5>2. \A j \in DOMAIN todo : ~(j < 1)
          <6>1. DOMAIN todo = 1..Len(todo) /\ Len(todo) \in Nat
            BY <1>2, LenProperties
          <6> QED BY <6>1
        <5> QED BY <5>1, <5>2 DEF HasText, Covered
      <4>5. DoReport(c, rest)
        BY <1>3, <3>4
      <4> HIDE DEF c, rest
      <4> QED BY <1>2, <3>4, <4>3, <4>4, <4>5, ReportWrites DEF rest
    <3> QED BY <1>4, <3>1, <3>2, <3>3, <3>4
  <2>4. BoardInv'
    BY <1>1, <1>4, <2>1, <2>3, PopKeeps
  <2> QED BY <2>3, <2>4 DEF Written
<1>5. CASE c.call = "drain"
  BY <1>1, <1>3, <1>5, DrainKeeps
<1>6. CASE c.call = "start"
  BY <1>1, <1>3, <1>6, StartKeeps
<1>7. CASE c.call = "spawn"
  BY <1>1, <1>3, <1>7, SpawnKeeps
<1>8. CASE c.call = "enqueue"
  BY <1>1, <1>3, <1>8, EnqueueKeeps
<1> QED BY <1>3, <1>4, <1>5, <1>6, <1>7, <1>8

\* A call of the session begins: the board has nothing left to do.
LEMMA CalmFirst ==
  ASSUME NEW g \in Seq(Calls), NEW t, Calm(<<>>, t),
         Group(g, t), ~Creates(g, t), ReportFollows(g, t, mem[t].log),
         mem[t] = Absent => \A i \in DOMAIN g : ~About(g[i], t)
  PROVE  Calm(g, t)
<1> DEFINE q == <<>>
<1>1. q \in Seq(Calls) /\ q = <<>> /\ Calm(q, t)
  OBVIOUS
<1> HIDE DEF q
<1>2. Calm(g \o q, t)
  BY <1>1, CalmPush
<1>3. g \o q = g
  BY <1>1, ConcatEmptySeq
<1> QED BY <1>2, <1>3

NothingElse == UNCHANGED <<mem, file, running, channel, work, faults, lost, torn>>

\* Calls that claim no run, with the queue as it was or with less in it.
LEMMA BeginKeeps ==
  ASSUME BoardInv, todo = <<>>, NothingElse, todo' \in Seq(Calls),
         queue' \in Seq(Task), token' \subseteq Task,
         \A t \in Task : /\ Calm(todo', t) /\ OneClaim(todo', t) /\ ~HasClaim(todo', t)
                         /\ Single(queue', t) /\ (Within(queue', t) => Within(queue, t))
  PROVE  BoardInv' /\ Steady
<1>1. /\ BoardTyped /\ Texts(channel)
      /\ \A t \in Task : Placed(t) /\ (Known(t) => mem[t] # Absent)
  BY BoardFacts
<1>2. /\ NoWrite /\ faults' = faults /\ running' = running /\ work' = work /\ channel' = channel
  BY DEF NothingElse, NoWrite
<1>3. ASSUME NEW t \in Task
      PROVE  Placed(t)' /\ Calm(todo', t) /\ (Known(t)' => mem[t] # Absent)
  <2>1. Placed(t) /\ (Known(t) => mem[t] # Absent)
    BY <1>1
  <2>2. /\ Calm(todo', t) /\ OneClaim(todo', t) /\ ~HasClaim(todo', t)
        /\ Single(queue', t) /\ (Within(queue', t) => Within(queue, t))
    OBVIOUS
  <2>3. (Reported(t)' <=> Reported(t)) /\ (IsRun(t)' <=> IsRun(t))
    BY <1>2 DEF Reported, NoWrite, IsRun
  <2>4. Placed(t)' /\ (Known(t)' => Known(t))
    BY <1>2, <2>1, <2>2, <2>3 DEF Placed, Known
  <2> QED BY <2>1, <2>2, <2>4
<1>4. BoardTyped'
  BY <1>1, <1>2 DEF BoardTyped, NoWrite
<1> QED BY <1>1, <1>2, <1>3, <1>4, NoWriteKeeps

LEMMA PutDrainKeeps ==
  ASSUME BoardInv, todo = <<>>, NothingElse, queue' = queue, token' = token, todo' = <<Drain>>
  PROVE  BoardInv' /\ Steady
<1>1. BoardTyped /\ \A t \in Task : Placed(t) /\ Calm(todo, t)
  BY BoardFacts
<1>2. Drain \in Calls /\ Drain.call = "drain"
  BY CallTypes DEF Drain
<1>3. ASSUME NEW t \in Task
      PROVE  /\ Calm(todo', t) /\ OneClaim(todo', t) /\ ~HasClaim(todo', t)
             /\ Single(queue', t) /\ (Within(queue', t) => Within(queue, t))
             /\ todo' \in Seq(Calls)
  <2>1. LET g == <<Drain>> IN
         /\ g \in Seq(Calls) /\ Group(g, t) /\ ~HasClaim(g, t) /\ OneClaim(g, t) /\ ~Creates(g, t)
         /\ ~About(Drain, t) => \A i \in DOMAIN g : ~About(g[i], t)
         /\ \A log : ReportFollows(g, t, log)
    BY <1>2, QuietGroup
  <2>2. ~About(Drain, t)
    BY <1>2 DEF About, Break
  <2>3. /\ todo' \in Seq(Calls) /\ Group(todo', t) /\ ~HasClaim(todo', t) /\ OneClaim(todo', t)
        /\ ~Creates(todo', t) /\ (\A i \in DOMAIN todo' : ~About(todo'[i], t))
        /\ ReportFollows(todo', t, mem[t].log)
    BY <2>1, <2>2
  <2>4. Calm(<<>>, t)
    BY <1>1
  <2> DEFINE h == todo'
  <2>5. h \in Seq(Calls) /\ Group(h, t) /\ ~Creates(h, t) /\ ReportFollows(h, t, mem[t].log)
        /\ (\A i \in DOMAIN h : ~About(h[i], t))
    BY <2>3
  <2> HIDE DEF h
  <2>6. Calm(h, t)
    BY <2>4, <2>5, CalmFirst
  <2> QED BY <1>1, <2>3, <2>6 DEF Placed, h
<1>4. todo' \in Seq(Calls)
  <2>1. <<Drain>> \in Seq(Calls)
    BY <1>2
  <2> QED BY <2>1
<1> QED BY <1>1, <1>3, <1>4, BeginKeeps DEF BoardTyped

LEMMA SubmissionKeeps ==
  ASSUME BoardInv, todo = <<>>, NothingElse, queue' = queue, token' = token,
         NEW x \in Task, mem[x] = Absent,
         todo' = Submission(x) \/ todo' = <<Drain>> \o Submission(x)
  PROVE  /\ BoardInv' /\ Steady
         /\ \E i \in DOMAIN todo' : todo'[i] = Create(x)
<1>1. /\ BoardTyped /\ Texts(channel)
      /\ \A t \in Task : Placed(t) /\ Calm(todo, t) /\ (Known(t) => mem[t] # Absent)
  BY BoardFacts
<1>2. /\ NoWrite /\ faults' = faults /\ running' = running /\ work' = work /\ channel' = channel
  BY DEF NothingElse, NoWrite
<1> DEFINE g == todo'
<1>3. g \in {Submission(x), <<Drain>> \o Submission(x)}
  OBVIOUS
<1> HIDE DEF g
<1>4. ASSUME NEW t
      PROVE  /\ g \in Seq(Calls) /\ SetIsTold(g, t) /\ ToldOfSet(g, t)
             /\ OneClaim(g, t) /\ CreatedOnce(g, t) /\ Introduced(g, t)
             /\ Creates(g, x)
             /\ Creates(g, t) \/ HasClaim(g, t) \/ ~NoSet(g, t) \/ ~NoTell(g, t) => t = x
             /\ \A log : ReportFollows(g, t, log)
  <2>1. Opening(g, x)
    BY <1>3 DEF Opening
  <2>2. /\ g \in Seq(Calls) /\ SetIsTold(g, t) /\ ToldOfSet(g, t)
        /\ OneClaim(g, t) /\ CreatedOnce(g, t) /\ Introduced(g, t)
        /\ Creates(g, x)
        /\ Creates(g, t) \/ HasClaim(g, t) \/ ~NoSet(g, t) \/ ~NoTell(g, t) => t = x
        /\ ~NoSet(g, x)
        /\ \A log : ReportFollows(g, t, log)
    BY <2>1, SubmissionFacts
  <2> QED BY <2>2
<1>5. ASSUME NEW t \in Task
      PROVE  Placed(t)' /\ Calm(g, t) /\ (Known(t)' => mem[t] # Absent)
  <2>1. Placed(t) /\ Calm(<<>>, t) /\ (Known(t) => mem[t] # Absent)
    BY <1>1
  <2>2. Calm(g, t)
    <3>1. ASSUME mem[t] # Absent, ~torn, ~lost, NoSet(g, t)
          PROVE  TellsStatus(g, t, mem[t].log, mem[t].status)
      <4>1. NoTell(g, t)
        BY <1>4, <3>1
      <4>2. NoSet(<<>>, t)
        BY DEF NoSet
      <4>3. TellsStatus(<<>>, t, mem[t].log, mem[t].status)
        BY <2>1, <3>1, <4>2 DEF Calm
      <4>4. ToldLast(mem[t].log, ShownAs(mem[t].status))
        BY <4>3 DEF TellsStatus
      <4> QED BY <4>1, <4>4 DEF TellsStatus
    <3> QED BY <1>4, <3>1 DEF Calm
  <2>3. HasClaim(g, t) => ~Within(queue, t) /\ ~IsRun(t) /\ ~HasEnd(channel, t) /\ ~Reported(t)
    <3>1. ASSUME HasClaim(g, t)
          PROVE  ~Within(queue, t) /\ ~IsRun(t) /\ ~HasEnd(channel, t) /\ ~Reported(t)
      <4>1. mem[t] = Absent
        BY <1>4, <3>1
      <4>2. ~Reported(t)
        BY <4>1, AbsentFacts DEF Reported
      <4>3. ~Known(t)
        BY <2>1, <4>1
      <4> QED BY <4>2, <4>3 DEF Known, HasEnd, Mentions, Ends
    <3> QED BY <3>1
  <2>4. (Reported(t)' <=> Reported(t)) /\ (IsRun(t)' <=> IsRun(t))
    BY <1>2 DEF Reported, NoWrite, IsRun
  <2>5. OneClaim(g, t)
    BY <1>4
  <2>6. Placed(t)' /\ (Known(t)' => Known(t))
    BY <1>2, <2>1, <2>3, <2>4, <2>5 DEF Placed, Known, g
  <2> QED BY <2>1, <2>2, <2>6
<1>6. BoardTyped'
  <2>1. g \in Seq(Calls)
    BY <1>4
  <2> QED BY <1>1, <1>2, <2>1 DEF BoardTyped, NoWrite, g
<1>7. BoardInv' /\ Steady
  BY <1>1, <1>2, <1>5, <1>6, NoWriteKeeps DEF g
<1> QED BY <1>4, <1>7 DEF Creates, g

LEMMA CancelKeeps ==
  ASSUME BoardInv, todo = <<>>, NEW x \in Task, Cancel(x)
  PROVE  BoardInv' /\ Steady
<1>1. /\ BoardTyped /\ \A t \in Task : Placed(t) /\ Calm(todo, t) /\ (Known(t) => mem[t] # Absent)
  BY BoardFacts
<1>2. queue \in Seq(Task) /\ token \subseteq Task
  BY <1>1 DEF BoardTyped
<1>3. NothingElse
  BY DEF Cancel, NothingElse
<1>4. PICK k \in {"task.cancelled", "task.cancel.requested"} :
        todo' = <<Status(x, "Cancelled"), Event(x, Mark(k))>>
  BY DEF Cancel, MarkCancelled
<1>5. mem[x] # Absent
  <2>1. Within(queue, x) \/ x \in running
    BY DEF Cancel, Within
  <2> QED BY <1>1, <2>1 DEF Known
<1>6. /\ queue' \in Seq(Task) /\ token' \subseteq Task
      /\ \A t \in Task : Single(queue', t) /\ (Within(queue', t) => Within(queue, t))
  <2>1. CASE queue' = queue
    <3>1. token' \subseteq Task
      BY <1>2 DEF Cancel
    <3> QED BY <1>1, <1>2, <2>1, <3>1 DEF Placed
  <2>2. CASE queue' # queue
    <3>1. PICK i \in DOMAIN queue : queue' = RemoveAt(queue, i)
      BY <2>2 DEF Cancel
    <3>2. token' = token
      BY <2>2 DEF Cancel
    <3>3. queue' \in Seq(Task)
      BY <1>2, <3>1, RemoveAtType
    <3>4. ASSUME NEW t \in Task PROVE Single(queue', t) /\ (Within(queue', t) => Within(queue, t))
      <4>1. Single(queue, t)
        BY <1>1 DEF Placed
      <4> QED BY <1>2, <3>1, <4>1, QueueCut
    <3> QED BY <1>2, <3>2, <3>3, <3>4
  <2> QED BY <2>1, <2>2
<1>7. "Cancelled" \in {"Queued", "Running", "Failed", "Cancelled"} /\ k \in TaskKinds
      /\ ItemStatus(k) = ShownAs("Cancelled")
  BY DEF TaskKinds, ItemStatus, ShownAs
<1> DEFINE g == todo'
<1>8. g = <<Status(x, "Cancelled"), Event(x, Mark(k))>>
  BY <1>4
<1> HIDE DEF g
<1>9. ASSUME NEW t \in Task
      PROVE  /\ g \in Seq(Calls) /\ Group(g, t) /\ ~HasClaim(g, t) /\ OneClaim(g, t)
             /\ ~Creates(g, t)
             /\ t # x => \A i \in DOMAIN g : ~About(g[i], t)
             /\ \A log : ReportFollows(g, t, log)
  BY <1>7, <1>8, PairGroup
<1>10. ASSUME NEW t \in Task PROVE Calm(g, t)
  <2>1. Calm(<<>>, t)
    BY <1>1
  <2>2. mem[t] = Absent => \A i \in DOMAIN g : ~About(g[i], t)
    BY <1>5, <1>9
  <2> QED BY <1>9, <2>1, <2>2, CalmFirst
<1>11. /\ \A t \in Task : /\ Calm(todo', t) /\ OneClaim(todo', t) /\ ~HasClaim(todo', t)
                          /\ Single(queue', t) /\ (Within(queue', t) => Within(queue, t))
       /\ todo' \in Seq(Calls)
  BY <1>6, <1>9, <1>10 DEF g
<1> QED BY <1>3, <1>6, <1>11, BeginKeeps

\* What an engine sends, and what it has done.
LEMMA ItemFacts ==
  /\ \A branch \in BOOLEAN : \A n \in Note : Item(branch, n) \in Items
  /\ \A n \in Note : \A name \in STRING : <<n, name>> \in Items
BY DEF Item, Items, Words

LEMMA ProgressFacts ==
  ASSUME NEW x \in Task, NEW entries \in Seq(ProgressEntries), NEW t
  PROVE  LET p == ProgressOf(x, entries) IN
         /\ p \in Seq(RunEvents) /\ OneEnd(p, t) /\ ~HasEnd(p, t) /\ Texts(p)
         /\ Mentions(p, t) => t = x
<1> DEFINE p == ProgressOf(x, entries)
<1>1. /\ Len(entries) \in Nat /\ DOMAIN entries = 1..Len(entries)
      /\ \A i \in DOMAIN entries : entries[i] \in ProgressEntries
  BY LenProperties
<1>2. /\ p = [i \in 1..Len(entries) |-> [type |-> "progress", task |-> x, entry |-> entries[i]]]
  BY <1>1 DEF ProgressOf
<1> HIDE DEF p
<1>3. DOMAIN p = 1..Len(entries)
      /\ \A i \in DOMAIN p : p[i] \in RunEvents /\ p[i].type = "progress" /\ p[i].task = x
  BY <1>1, <1>2 DEF RunEvents
<1>4. p \in Seq(RunEvents)
  <2>1. p \in [1..Len(entries) -> RunEvents]
    BY <1>2, <1>3
  <2> QED BY <1>1, <2>1, SeqDef
<1>5. OneEnd(p, t) /\ ~HasEnd(p, t) /\ Texts(p) /\ (Mentions(p, t) => t = x)
  BY <1>3 DEF OneEnd, HasEnd, Texts, Mentions, Ends
<1> QED BY <1>4, <1>5 DEF p

\* A step of an engine, or the end of its run: p is what it sends.
Sends(x, p) ==
  /\ work[x].state = "run" /\ channel' = channel \o p
  /\ work' \in [Task -> Works] /\ \A t \in Task \ {x} : work'[t] = work[t]
  /\ UNCHANGED <<mem, file, queue, running, token, todo, faults, lost, torn>>

LEMMA SendKeeps ==
  ASSUME BoardInv, NEW x \in Task, NEW p \in Seq(RunEvents), Sends(x, p), Texts(p),
         \A t : OneEnd(p, t) /\ (Mentions(p, t) => t = x),
         HasEnd(p, x) => work'[x].state = "ended"
  PROVE  BoardInv' /\ Steady
<1>1. /\ BoardTyped /\ Texts(channel)
      /\ \A t \in Task : Placed(t) /\ Calm(todo, t) /\ (Known(t) => mem[t] # Absent)
  BY BoardFacts
<1>2. /\ NoWrite /\ faults' = faults /\ queue' = queue /\ token' = token /\ running' = running
      /\ todo' = todo /\ channel' = channel \o p /\ IsRun(x)
      /\ work' \in [Task -> Works] /\ \A t \in Task \ {x} : work'[t] = work[t]
  BY DEF Sends, NoWrite, IsRun
<1>3. channel \in Seq(RunEvents)
  BY <1>1 DEF BoardTyped
<1>4. ASSUME NEW t \in Task
      PROVE  /\ Placed(t)' /\ Calm(todo', t) /\ (Known(t)' => mem[t] # Absent)
             /\ channel' \in Seq(RunEvents) /\ Texts(channel')
  <2>1. Placed(t) /\ Calm(todo, t) /\ (Known(t) => mem[t] # Absent)
    BY <1>1
  <2>2. OneEnd(p, t) /\ (Mentions(p, t) => t = x) /\ (HasEnd(p, t) => t = x)
    BY DEF HasEnd, Mentions, Ends
  <2>3. t = x => ~HasEnd(channel, t) /\ ~Reported(t) /\ ~HasClaim(todo, t) /\ ~Within(queue, t)
    BY <1>2, <2>1 DEF Placed
  <2>4. /\ channel' \in Seq(RunEvents) /\ OneEnd(channel', t) /\ Texts(channel')
        /\ HasEnd(channel', t) => HasEnd(channel, t) \/ HasEnd(p, t)
        /\ Mentions(channel', t) => Mentions(channel, t) \/ Mentions(p, t)
    <3>1. OneEnd(channel, t) /\ ~(HasEnd(channel, t) /\ HasEnd(p, t))
      BY <2>1, <2>2, <2>3 DEF Placed
    <3> QED BY <1>1, <1>2, <1>3, <2>2, <3>1, ChannelPush
  <2>5. Reported(t)' <=> Reported(t)
    BY <1>2 DEF Reported, NoWrite
  <2>6. IsRun(t)' => IsRun(t) /\ ~HasEnd(p, t)
    BY <1>2, <2>2 DEF IsRun
  <2>7. Placed(t)'
    BY <1>2, <2>1, <2>2, <2>3, <2>4, <2>5, <2>6 DEF Placed
  <2>8. Known(x) => mem[x] # Absent
    BY <1>1
  <2>9. Known(t)' => Known(t) \/ t = x
    BY <1>2, <2>2, <2>4, <2>6 DEF Known
  <2>10. Known(x)
    BY <1>2 DEF Known
  <2> QED BY <1>2, <2>1, <2>4, <2>7, <2>8, <2>9, <2>10
<1>5. BoardTyped' /\ Texts(channel')
  BY <1>1, <1>2, <1>4 DEF BoardTyped, NoWrite
<1> QED BY <1>2, <1>4, <1>5, NoWriteKeeps

LEMMA WorkFacts ==
  ASSUME BoardTyped, NEW x \in Task
  PROVE  /\ work \in [Task -> Works] /\ work[x] \in Works /\ work[x].steps \in Nat
         /\ work[x].ops \in Seq(Items) /\ work[x].runs \in Seq(Runs)
<1>1. work \in [Task -> Works]
  BY DEF BoardTyped
<1> QED BY <1>1 DEF Works

LEMMA OperateKeeps ==
  ASSUME BoardInv, NEW x \in Task, NEW branch \in BOOLEAN, NEW n \in Note, Operate(x, branch, n)
  PROVE  BoardInv' /\ Steady
<1> DEFINE e == Entry(KindIn(branch, "engine.operation"), Item(branch, n))
           entries == <<e>>
           p == ProgressOf(x, entries)
           w == [work[x] EXCEPT !.steps = @ + 1, !.ops = Append(@, Item(branch, n))]
<1>1. e \in ProgressEntries
  BY ItemFacts DEF Entry, KindIn, ProgressEntries, ProgressKinds
<1>2. entries \in Seq(ProgressEntries)
  BY <1>1
<1>3. channel' = channel \o p
  BY DEF Operate
<1>4. ASSUME NEW t
      PROVE  /\ p \in Seq(RunEvents) /\ OneEnd(p, t) /\ ~HasEnd(p, t) /\ Texts(p)
             /\ Mentions(p, t) => t = x
  <2> HIDE DEF entries
  <2> QED BY <1>2, ProgressFacts
<1>5. work' = [work EXCEPT ![x] = w]
  BY DEF Operate
<1>6. w \in Works
  <2>1. work[x] \in Works /\ work[x].steps \in Nat /\ work[x].ops \in Seq(Items)
    BY WorkFacts DEF BoardInv
  <2>2. Append(work[x].ops, Item(branch, n)) \in Seq(Items)
    BY <2>1, ItemFacts, AppendProperties
  <2>3. work[x].steps + 1 \in Nat
    BY <2>1
  <2> QED BY <2>1, <2>2, <2>3 DEF Works
<1> HIDE DEF p, w
<1>7. work' \in [Task -> Works] /\ \A t \in Task \ {x} : work'[t] = work[t]
  BY <1>5, <1>6, WorkFacts DEF BoardInv
<1>8. Sends(x, p)
  BY <1>3, <1>7 DEF Operate, Sends
<1> QED BY <1>4, <1>8, SendKeeps

LEMMA RunAgentKeeps ==
  ASSUME BoardInv, NEW x \in Task, NEW branch \in BOOLEAN, NEW n \in Note, NEW trace \in Traces,
         NEW emits \in BOOLEAN, RunAgent(x, branch, n, trace, emits)
  PROVE  BoardInv' /\ Steady
<1> DEFINE at(kind) == Entry(KindIn(branch, kind), Item(branch, n))
           events == [i \in DOMAIN trace |-> Entry(KindIn(branch, "agent.run.event"), <<n, trace[i]>>)]
           some == IF emits THEN events ELSE <<>>
           first == <<at("agent.run.started")>>
           last == <<at("agent.run"), at("engine.operation")>>
           entries == first \o some \o last
           p == ProgressOf(x, entries)
           run == [item |-> Item(branch, n), events |-> trace]
           w == [work[x] EXCEPT !.steps = @ + 1, !.ops = Append(@, Item(branch, n)),
                                !.runs = Append(@, run)]
<1>1. trace \in Seq(STRING) /\ Len(trace) \in Nat /\ DOMAIN trace = 1..Len(trace)
      /\ \A i \in DOMAIN trace : trace[i] \in STRING
  <2>1. trace \in Seq(STRING)
    BY TaskLogAssumption
  <2> QED BY <2>1, LenProperties
<1>2. entries \in Seq(ProgressEntries)
  <2>1. /\ at("agent.run.started") \in ProgressEntries /\ at("agent.run") \in ProgressEntries
        /\ at("engine.operation") \in ProgressEntries
    BY ItemFacts DEF Entry, KindIn, ProgressEntries, ProgressKinds
  <2>2. first \in Seq(ProgressEntries) /\ last \in Seq(ProgressEntries)
    <3> HIDE DEF at
    <3> QED BY <2>1
  <2>3. events \in Seq(ProgressEntries)
    <3>1. \A i \in DOMAIN trace :
            Entry(KindIn(branch, "agent.run.event"), <<n, trace[i]>>) \in ProgressEntries
      <4>1. KindIn(branch, "agent.run.event") \in ProgressKinds
        BY DEF KindIn, ProgressKinds
      <4> QED BY <1>1, <4>1, ItemFacts DEF Entry, ProgressEntries
    <3>2. events \in [1..Len(trace) -> ProgressEntries]
      BY <1>1, <3>1
    <3> HIDE DEF events
    <3> QED BY <1>1, <3>2, SeqDef
  <2>4. some \in Seq(ProgressEntries)
    <3>1. <<>> \in Seq(ProgressEntries)
      OBVIOUS
    <3> HIDE DEF events
    <3> QED BY <2>3, <3>1
  <2> HIDE DEF some, first, last
  <2>5. first \o some \in Seq(ProgressEntries)
    BY <2>2, <2>4, ConcatProperties
  <2> QED BY <2>2, <2>5, ConcatProperties
<1>3. channel' = channel \o p
  BY DEF RunAgent
<1>4. ASSUME NEW t
      PROVE  /\ p \in Seq(RunEvents) /\ OneEnd(p, t) /\ ~HasEnd(p, t) /\ Texts(p)
             /\ Mentions(p, t) => t = x
  <2> HIDE DEF entries
  <2> QED BY <1>2, ProgressFacts
<1>5. work' = [work EXCEPT ![x] = w]
  BY DEF RunAgent
<1>6. w \in Works
  <2>1. work[x] \in Works /\ work[x].steps \in Nat /\ work[x].ops \in Seq(Items)
        /\ work[x].runs \in Seq(Runs)
    BY WorkFacts DEF BoardInv
  <2>2. Append(work[x].ops, Item(branch, n)) \in Seq(Items)
    BY <2>1, ItemFacts, AppendProperties
  <2>3. run \in Runs
    BY <1>1, ItemFacts DEF Runs
  <2>4. Append(work[x].runs, run) \in Seq(Runs)
    BY <2>1, <2>3, AppendProperties
  <2>5. work[x].steps + 1 \in Nat
    BY <2>1
  <2> HIDE DEF run
  <2> QED BY <2>1, <2>2, <2>4, <2>5 DEF Works
<1> HIDE DEF p, w
<1>7. work' \in [Task -> Works] /\ \A t \in Task \ {x} : work'[t] = work[t]
  BY <1>5, <1>6, WorkFacts DEF BoardInv
<1>8. Sends(x, p)
  BY <1>3, <1>7 DEF RunAgent, Sends
<1> QED BY <1>4, <1>8, SendKeeps

LEMMA EndRunKeeps ==
  ASSUME BoardInv, NEW x \in Task, NEW end \in {"Completed", "WaitingForInput", "Failed", "error"},
         EndRun(x, end)
  PROVE  BoardInv' /\ Steady
<1> DEFINE report == [ops |-> work[x].ops, runs |-> work[x].runs, text |-> end = "Completed"]
           ev == CASE x \in token -> [type |-> "cancelled", task |-> x]
                   [] x \notin token /\ end = "error" -> [type |-> "failed", task |-> x]
                   [] OTHER -> [type |-> "completed", task |-> x, status |-> end, report |-> report]
           p == <<ev>>
           w == [work[x] EXCEPT !.state = "ended"]
<1>1. /\ work \in [Task -> Works] /\ work[x] \in Works
      /\ work[x].ops \in Seq(Items) /\ work[x].runs \in Seq(Runs) /\ channel \in Seq(RunEvents)
  BY WorkFacts DEF BoardInv, BoardTyped
<1>2. report \in Reports /\ report.text = (end = "Completed")
  BY <1>1 DEF Reports
<1>3. /\ ev \in RunEvents /\ ev.task = x
      /\ ev.type = "completed" => (ev.status = "Completed" => ev.report.text)
  <2> HIDE DEF report
  <2>1. CASE x \in token
    <3>1. ev = [type |-> "cancelled", task |-> x]
      BY <2>1
    <3> HIDE DEF ev
    <3> QED BY <3>1 DEF RunEvents
  <2>2. CASE x \notin token /\ end = "error"
    <3>1. ev = [type |-> "failed", task |-> x]
      BY <2>2
    <3> HIDE DEF ev
    <3> QED BY <3>1 DEF RunEvents
  <2>3. CASE x \notin token /\ end # "error"
    <3>1. ev = [type |-> "completed", task |-> x, status |-> end, report |-> report]
      BY <2>3
    <3>2. end \in Results
      BY <2>3 DEF Results
    <3> HIDE DEF ev
    <3> QED BY <1>2, <3>1, <3>2 DEF RunEvents
  <2> QED BY <2>1, <2>2, <2>3
<1>4. channel' = Append(channel, ev) /\ work' = [work EXCEPT ![x] = w]
  BY DEF EndRun
<1>5. w \in Works /\ w.state = "ended"
  BY <1>1 DEF Works
<1> HIDE DEF ev
<1>6. channel' = channel \o p
  BY <1>1, <1>3, <1>4, AppendIsConcat
<1>7. p \in Seq(RunEvents) /\ DOMAIN p = {1} /\ p[1] = ev
  BY <1>3
<1> HIDE DEF p, w
<1>8. Texts(p) /\ \A t : OneEnd(p, t) /\ (Mentions(p, t) => t = x)
  BY <1>3, <1>7 DEF Texts, OneEnd, Mentions
<1>9. work' \in [Task -> Works] /\ work'[x] = w /\ \A t \in Task \ {x} : work'[t] = work[t]
  BY <1>1, <1>4, <1>5
<1>10. Sends(x, p)
  BY <1>6, <1>9 DEF EndRun, Sends
<1> QED BY <1>5, <1>7, <1>8, <1>9, <1>10, SendKeeps

-----------------------------------------------------------------------------
(* A restart of the daemon.                                                *)

LEMMA RecoveredFacts ==
  ASSUME NEW rec \in Records, Sound(rec)
  PROVE  LET new == Recovered(rec) IN
         /\ new \in Records /\ Sound(new) /\ Before(rec, new) /\ Before(new, new)
         /\ new.report = rec.report
         /\ rec = Absent => new = Absent
         /\ rec # Absent => new # Absent
         /\ (~Active(rec.status) => new = rec)
         /\ Active(rec.status) => /\ new.status = "Failed"
                                  /\ new.log = Append(rec.log, Mark("task.recovered"))
<1> DEFINE new == Recovered(rec)
           e == Mark("task.recovered")
<1>1. rec.log \in Seq(Entries) /\ Len(rec.log) \in Nat
  BY LenProperties DEF Records
<1>2. rec = Absent => ~Active(rec.status)
  BY DEF Absent, Active
<1>3. CASE ~Active(rec.status)
  <2>1. new = rec
    BY <1>3 DEF Recovered
  <2>2. Before(rec, rec)
    BY <1>1 DEF Before
  <2> HIDE DEF new
  <2> QED BY <1>3, <2>1, <2>2 DEF new
<1>4. CASE Active(rec.status)
  <2>1. new = [rec EXCEPT !.status = "Failed", !.log = Append(@, e)]
    BY <1>4 DEF Recovered
  <2>2. e \in Entries /\ e.kind = "task.recovered" /\ e.kind \notin OnceKinds
    <3>1. <<"-", "-">> \in Items
      BY DEF Items, Words
    <3>2. "task.recovered" \notin OnceKinds
      BY DEF OnceKinds
    <3> QED BY <3>1, <3>2 DEF Mark, Entry, Entries
  <2>3. /\ Append(rec.log, e) \in Seq(Entries) /\ Len(rec.log) \in Nat
        /\ DOMAIN rec.log = 1..Len(rec.log) /\ DOMAIN Append(rec.log, e) = 1..(Len(rec.log) + 1)
        /\ Len(Append(rec.log, e)) = Len(rec.log) + 1
        /\ \A i \in 1..Len(rec.log) : Append(rec.log, e)[i] = rec.log[i]
        /\ Append(rec.log, e)[Len(rec.log) + 1] = e
    BY <1>1, <2>2, AppendLog
  <2> HIDE DEF e
  <2>4. /\ new \in Records /\ new.status = "Failed" /\ new.log = Append(rec.log, e)
        /\ new.report = rec.report
    BY <2>1, <2>3 DEF Records, Statuses, Results
  <2> HIDE DEF new
  <2>5. Before(rec, new) /\ Before(new, new)
    <3>1. Before(rec, new)
      BY <2>3, <2>4 DEF Before
    <3>2. Len(new.log) \in Nat
      BY <2>3, <2>4
    <3> QED BY <3>1, <3>2 DEF Before
  <2>6. Sound(new)
    <3>1. ASSUME NEW i \in DOMAIN new.log, NEW j \in DOMAIN new.log,
                 new.log[i] = new.log[j], new.log[i].kind \in OnceKinds
          PROVE  i = j
      <4>1. i \in DOMAIN rec.log /\ j \in DOMAIN rec.log
        BY <2>2, <2>3, <2>4, <3>1
      <4> QED BY <2>3, <2>4, <3>1, <4>1 DEF Sound
    <3>2. \A x : Logs(rec.log, x) => Logs(new.log, x)
      BY <2>3, <2>4 DEF Logs
    <3> QED BY <2>4, <3>1, <3>2 DEF Sound
  <2>7. new # Absent
    BY <2>4 DEF Absent
  <2> QED BY <1>2, <1>4, <2>4, <2>5, <2>6, <2>7 DEF new, e
<1> QED BY <1>3, <1>4 DEF new

\* What a restart leaves of the records.
Recovery ==
  \A t \in Task : /\ Before(file[t], file'[t]) /\ mem'[t] = file'[t]
                  /\ file[t] # Absent => file'[t] # Absent
                  /\ ~lost' => ~lost /\ file[t] = mem[t]

LEMMA RestartKeeps ==
  ASSUME BoardInv, Restart
  PROVE  BoardInv' /\ Recovery
<1>1. /\ mem' = [t \in Task |-> Recovered(file[t])] /\ file' = mem' /\ faults' \in Nat
      /\ lost' = (lost \/ file # mem) /\ torn' = (torn \/ todo # <<>>)
      /\ queue' = <<>> /\ running' = {} /\ token' = {} /\ channel' = <<>> /\ todo' = <<>>
      /\ work' = [t \in Task |-> NoWork]
  BY DEF Restart, BoardInv, BoardTyped
<1>2. ASSUME NEW t \in Task
      PROVE  /\ mem'[t] = Recovered(file[t]) /\ file'[t] = mem'[t]
             /\ file[t] \in Records
             /\ mem'[t] \in Records /\ Sound(mem'[t]) /\ Before(file[t], mem'[t])
             /\ Before(mem'[t], mem'[t]) /\ mem'[t].report = file[t].report
             /\ file[t] = Absent => mem'[t] = Absent
             /\ file[t] # Absent => mem'[t] # Absent
             /\ (~Active(file[t].status) => mem'[t] = file[t])
             /\ Active(file[t].status) =>
                  /\ mem'[t].status = "Failed"
                  /\ mem'[t].log = Append(file[t].log, Mark("task.recovered"))
  <2>1. file[t] \in Records /\ Sound(file[t])
    BY DEF BoardInv, BoardTyped, Kept
  <2>2. mem'[t] = Recovered(file[t]) /\ file'[t] = mem'[t]
    BY <1>1
  <2> QED BY <2>1, <2>2, RecoveredFacts
<1>3. BoardTyped' /\ ResultsHaveText'
  <2>1. mem' \in [Task -> Records]
    BY <1>1, <1>2
  <2>2. NoWork \in Works
    BY DEF NoWork, Works
  <2>3. work' \in [Task -> Works]
    BY <1>1, <2>2
  <2>4. lost \in BOOLEAN /\ torn \in BOOLEAN
    BY DEF BoardInv, BoardTyped
  <2> QED BY <1>1, <2>1, <2>3, <2>4 DEF BoardTyped, ResultsHaveText
<1>4. ASSUME NEW t \in Task PROVE OneRun(t)' /\ Born(t)' /\ Kept(t)'
  <2>1. work'[t].state = "none"
    BY <1>1 DEF NoWork
  <2>2. OneRun(t)'
    BY <1>1, <2>1 DEF OneRun, OneClaim, HasClaim, Waits, IsRun, Done
  <2>3. Born(t)'
    BY <1>1, <2>1 DEF Born, Creates, CreatedOnce, Waits, IsRun, Introduced
  <2>4. Kept(t)'
    BY <1>1, <1>2 DEF Kept, ReportFollows
  <2> QED BY <2>2, <2>3, <2>4
<1>5. ASSUME NEW t \in Task PROVE Told(t)'
  <2>1. SetIsTold(todo', t) /\ ToldOfSet(todo', t)
    BY <1>1 DEF SetIsTold, ToldOfSet
  <2>2. ASSUME mem'[t] # Absent, ~torn', ~lost'
        PROVE  TellsStatus(<<>>, t, mem'[t].log, mem'[t].status)
    <3>1. ~torn /\ ~lost /\ todo = <<>> /\ file = mem
      BY <1>1, <2>2
    <3>2. file[t] # Absent /\ mem[t] = file[t]
      BY <1>2, <2>2, <3>1
    <3>3. NoSet(<<>>, t) /\ NoTell(<<>>, t)
      BY DEF NoSet, NoTell
    <3>4. ToldLast(file[t].log, ShownAs(file[t].status))
      <4>1. TellsStatus(<<>>, t, file[t].log, file[t].status)
        BY <3>1, <3>2, <3>3 DEF BoardInv, Told, StatusTold
      <4> QED BY <4>1 DEF TellsStatus
    <3>5. ToldLast(mem'[t].log, ShownAs(mem'[t].status))
      <4>1. CASE ~Active(file[t].status)
        BY <1>2, <3>4, <4>1
      <4>2. CASE Active(file[t].status)
        <5> DEFINE e == Mark("task.recovered")
        <5>1. e \in Entries /\ e.kind = "task.recovered" /\ e.kind \in TellingKinds
          <6>1. <<"-", "-">> \in Items
            BY DEF Items, Words
          <6> QED BY <6>1 DEF Mark, Entry, Entries, TellingKinds
        <5>2. Tale("task.recovered") = "failed" /\ ShownAs("Failed") = "failed"
          BY DEF Tale, ShownAs
        <5>3. file[t].log \in Seq(Entries)
          BY <1>2 DEF Records
        <5> HIDE DEF e
        <5>4. ToldLast(Append(file[t].log, e), Tale(e.kind))
          BY <5>1, <5>3, LogGrows
        <5> QED BY <1>2, <4>2, <5>1, <5>2, <5>4 DEF e
      <4> QED BY <4>1, <4>2
    <3> QED BY <3>3, <3>5 DEF TellsStatus
  <2>3. StatusTold(t)'
    BY <1>1, <2>2 DEF StatusTold
  <2> QED BY <2>1, <2>3 DEF Told
<1>6. Recovery
  BY <1>1, <1>2 DEF Recovery
<1> QED BY <1>3, <1>4, <1>5, <1>6 DEF BoardInv

-----------------------------------------------------------------------------
(* Recursive functions.                                                    *)

LEMMA CountsUp ==
  ASSUME NEW T, NEW n \in Nat, 0 \in T, \A i \in 1..n : i - 1 \in T => i \in T
  PROVE  \A i \in 0..n : i \in T
<1> DEFINE Bad == {i \in 0..n : i \notin T}
<1>1. SUFFICES ASSUME Bad # {} PROVE FALSE
  OBVIOUS
<1>2. Bad \in SUBSET Nat
  OBVIOUS
<1> HIDE DEF Bad
<1>3. PICK k \in Bad : \A j \in Bad : k <= j
  BY <1>1, <1>2, LeastElement
<1>4. k \in 0..n /\ k \notin T /\ k # 0
  BY <1>3 DEF Bad
<1>5. k \in 1..n /\ k - 1 \in 0..n /\ ~(k <= k - 1)
  BY <1>4
<1>6. k - 1 \in T
  BY <1>3, <1>5 DEF Bad
<1> QED BY <1>4, <1>5, <1>6

Steps(S, n) == [1..n -> [S -> S]]

Reaches(S, n, a, step) ==
  \E f \in [0..n -> S] : f[0] = a /\ \A i \in 1..n : f[i] = step[i][f[i - 1]]

LEMMA RecursionExists ==
  ASSUME NEW S, NEW n \in Nat, NEW a \in S, NEW step \in Steps(S, n)
  PROVE  Reaches(S, n, a, step)
<1> DEFINE Good(k) == \E f \in [0..k -> S] : f[0] = a /\ \A i \in 1..k : f[i] = step[i][f[i - 1]]
           T == {k \in 0..n : Good(k)}
<1>1. 0 \in T
  <2> DEFINE f == [i \in 0..0 |-> a]
  <2>1. f \in [0..0 -> S] /\ f[0] = a /\ \A i \in 1..0 : f[i] = step[i][f[i - 1]]
    OBVIOUS
  <2> HIDE DEF f
  <2>2. Good(0) /\ 0 \in 0..n
    BY <2>1
  <2> QED BY <2>2
<1>2. ASSUME NEW k \in 1..n, k - 1 \in T PROVE k \in T
  <2>1. k - 1 \in 0..(k - 1) /\ 0 \in 0..(k - 1) /\ k \in 0..n /\ k # 0
    OBVIOUS
  <2>2. PICK f \in [0..(k - 1) -> S] :
          f[0] = a /\ \A i \in 1..(k - 1) : f[i] = step[i][f[i - 1]]
    BY <1>2
  <2> DEFINE h == [i \in 0..k |-> IF i = k THEN step[k][f[k - 1]] ELSE f[i]]
  <2>3. step[k][f[k - 1]] \in S
    BY <2>1, <2>2 DEF Steps
  <2>4. \A i \in 0..k : i # k => i \in 0..(k - 1)
    OBVIOUS
  <2>5. h \in [0..k -> S]
    BY <2>2, <2>3, <2>4
  <2>6. h[0] = a
    BY <2>1, <2>2
  <2>7. ASSUME NEW i \in 1..k PROVE h[i] = step[i][h[i - 1]]
    <3>1. i \in 0..k /\ i - 1 \in 0..k /\ i - 1 # k /\ (i # k => i \in 1..(k - 1))
      OBVIOUS
    <3>2. h[i - 1] = f[i - 1]
      BY <3>1
    <3> QED BY <2>2, <3>1, <3>2
  <2> QED BY <2>1, <2>5, <2>6, <2>7
<1> HIDE DEF T
<1>3. \A k \in 0..n : k \in T
  BY <1>1, <1>2, CountsUp
<1>4. n \in T
  BY <1>3
<1> QED BY <1>4 DEF T, Reaches

-----------------------------------------------------------------------------
(* What `siko task inspect` prints of a log.                               *)

LEMMA UnprintedSteps ==
  ASSUME NEW V, NEW records \in Seq(V), NEW printed
  PROVE  \E f \in [0..Len(records) -> Seq(V)] :
           /\ Unprinted(records, printed) = f[Len(records)]
           /\ f[0] = <<>>
           /\ \A i \in 1..Len(records) :
                f[i] = IF records[i] \in Range(printed) THEN f[i - 1]
                       ELSE Append(f[i - 1], records[i])
<1> DEFINE S == Seq(V)
           L == Len(records)
           new[n \in 0..Len(records)] ==
             IF n = 0 THEN <<>>
             ELSE IF records[n] \in Range(printed) THEN new[n - 1]
             ELSE Append(new[n - 1], records[n])
<1>1. L \in Nat /\ \A i \in 1..L : records[i] \in V
  BY LenProperties
<1>2. <<>> \in S /\ \A s \in S, a \in V : Append(s, a) \in S
  BY EmptySeq, AppendProperties
<1> HIDE DEF S, L
<1> DEFINE step == [i \in 1..L |-> [s \in S |-> IF records[i] \in Range(printed) THEN s
                                                ELSE Append(s, records[i])]]
<1>3. step \in Steps(S, L)
  BY <1>1, <1>2 DEF Steps
<1> HIDE DEF step
<1>4. PICK f \in [0..L -> S] : f[0] = <<>> /\ \A i \in 1..L : f[i] = step[i][f[i - 1]]
  <2>1. Reaches(S, L, <<>>, step)
    BY <1>1, <1>2, <1>3, RecursionExists
  <2> QED BY <2>1 DEF Reaches
<1>5. \A i \in 1..L : i - 1 \in 0..L
  BY <1>1
<1>6. \A i \in 1..L : f[i] = IF records[i] \in Range(printed) THEN f[i - 1]
                             ELSE Append(f[i - 1], records[i])
  BY <1>4, <1>5 DEF step
<1>7. f = [n \in 0..L |->
             IF n = 0 THEN <<>>
             ELSE IF records[n] \in Range(printed) THEN f[n - 1]
             ELSE Append(f[n - 1], records[n])]
  <2>1. \A i \in 0..L : i # 0 => i \in 1..L
    BY <1>1
  <2>2. f = [n \in 0..L |-> f[n]]
    BY <1>4
  <2>3. \A n \in 0..L :
          f[n] = IF n = 0 THEN <<>>
                 ELSE IF records[n] \in Range(printed) THEN f[n - 1]
                 ELSE Append(f[n - 1], records[n])
    BY <1>4, <1>6, <2>1, Zenon
  <2> QED BY <2>2, <2>3
<1>8. new = [n \in 0..Len(records) |->
             IF n = 0 THEN <<>>
             ELSE IF records[n] \in Range(printed) THEN new[n - 1]
             ELSE Append(new[n - 1], records[n])]
  BY <1>7, Zenon DEF new, L
<1>9. new[L] = Unprinted(records, printed)
  BY DEF Unprinted, L
<1> HIDE DEF new
<1>10. new[0] = <<>> /\ \A i \in 1..L :
         new[i] = IF records[i] \in Range(printed) THEN new[i - 1]
                  ELSE Append(new[i - 1], records[i])
  <2>1. L = Len(records) /\ \A i \in 1..L : i \in 0..L /\ i # 0
    BY <1>1 DEF L
  <2>2. 0 \in 0..L
    BY <1>1
  <2> QED BY <1>8, <2>1, <2>2
<1> DEFINE T == {i \in 0..L : new[i] \in S}
<1>11. 0 \in T
  BY <1>1, <1>2, <1>10
<1>12. ASSUME NEW i \in 1..L, i - 1 \in T PROVE i \in T
  <2>1. new[i - 1] \in S
    BY <1>12
  <2>2. i \in 0..L
    BY <1>1
  <2>3. records[i] \in V
    BY <1>1
  <2>4. new[i] = IF records[i] \in Range(printed) THEN new[i - 1]
                 ELSE Append(new[i - 1], records[i])
    BY <1>10
  <2>5. Append(new[i - 1], records[i]) \in S
    BY <1>2, <2>1, <2>3
  <2>6. new[i] \in S
    BY <2>1, <2>4, <2>5
  <2> QED BY <2>2, <2>6
<1>13. \A i \in 0..L : i \in T
  <2> HIDE DEF T
  <2> QED BY <1>1, <1>11, <1>12, CountsUp
<1>14. new \in [0..L -> S]
  <2>1. new = [n \in 0..L |-> new[n]]
    BY <1>8 DEF L
  <2> QED BY <1>13, <2>1
<1> QED BY <1>9, <1>10, <1>14 DEF L, S

Begins(s, t) == Len(s) <= Len(t) /\ \A i \in 1..Len(s) : s[i] = t[i]

\* What was printed of the records are the first of them.
Shows(records, printed) ==
  /\ Begins(printed, records)
  /\ \A i \in DOMAIN records : records[i] \in Range(printed) => i <= Len(printed)

LEMMA PrintedAndNew ==
  ASSUME NEW V, NEW records \in Seq(V), NEW printed \in Seq(V), Shows(records, printed)
  PROVE  printed \o Unprinted(records, printed) = records
<1> DEFINE L == Len(records)
           K == Len(printed)
<1>1. /\ L \in Nat /\ K \in Nat /\ K <= L /\ DOMAIN records = 1..L /\ DOMAIN printed = 1..K
      /\ (\A i \in 1..K : printed[i] = records[i]) /\ (\A i \in 1..L : records[i] \in V)
  BY LenProperties DEF Shows, Begins
<1>2. \A i \in 1..L : records[i] \in Range(printed) <=> i <= K
  <2>1. \A i \in 1..L : records[i] \in Range(printed) => i <= K
    BY <1>1 DEF Shows
  <2>2. \A i \in 1..L : i <= K => records[i] \in Range(printed)
    BY <1>1 DEF Range
  <2> QED BY <2>1, <2>2
<1>3. PICK f \in [0..L -> Seq(V)] :
        /\ Unprinted(records, printed) = f[L]
        /\ f[0] = <<>>
        /\ \A i \in 1..L : f[i] = IF records[i] \in Range(printed) THEN f[i - 1]
                                  ELSE Append(f[i - 1], records[i])
  BY UnprintedSteps
<1> HIDE DEF L, K
<1> DEFINE ok(i) == /\ Len(f[i]) = IF i <= K THEN 0 ELSE i - K
                    /\ \A j \in 1..Len(f[i]) : f[i][j] = records[K + j]
           U == {i \in 0..L : ok(i)}
<1>4. 0 \in U
  BY <1>1, <1>3
<1>5. ASSUME NEW i \in 1..L, i - 1 \in U PROVE i \in U
  <2>1. ok(i - 1) /\ i \in 0..L /\ i - 1 \in 0..L /\ i \in Int
    BY <1>5
  <2>2. f[i - 1] \in Seq(V)
    BY <2>1
  <2>3. CASE i <= K
    <3>1. f[i] = f[i - 1] /\ i - 1 <= K
      BY <1>1, <1>2, <1>3, <2>3
    <3> QED BY <2>1, <2>3, <3>1
  <2>4. CASE ~(i <= K)
    <3>1. f[i] = Append(f[i - 1], records[i])
      BY <1>2, <1>3, <2>4
    <3>2. Len(f[i - 1]) = i - 1 - K
      <4>1. CASE i - 1 <= K
        <5>1. i - 1 = K
          BY <1>1, <2>4, <4>1
        <5>2. Len(f[i - 1]) = 0
          BY <2>1, <4>1
        <5> QED BY <1>1, <5>1, <5>2
      <4>2. CASE ~(i - 1 <= K)
        BY <2>1, <4>2
      <4> QED BY <4>1, <4>2
    <3>3. records[i] \in V
      BY <1>1
    <3>4. /\ Len(f[i]) = Len(f[i - 1]) + 1 /\ (\A j \in 1..Len(f[i - 1]) : f[i][j] = f[i - 1][j])
          /\ f[i][Len(f[i - 1]) + 1] = records[i]
      BY <2>2, <3>1, <3>3, AppendProperties
    <3>5. Len(f[i]) = i - K /\ i - K \in Nat
      BY <1>1, <2>4, <3>2, <3>4
    <3>6. ASSUME NEW j \in 1..Len(f[i]) PROVE f[i][j] = records[K + j]
      <4>1. CASE j = i - K
        <5>1. j = Len(f[i - 1]) + 1 /\ K + j = i
          BY <1>1, <3>2, <4>1
        <5> QED BY <3>4, <5>1
      <4>2. CASE j # i - K
        <5>1. j \in 1..Len(f[i - 1])
          BY <1>1, <3>2, <3>5, <4>2
        <5> QED BY <2>1, <3>4, <5>1
      <4> QED BY <4>1, <4>2
    <3> QED BY <2>1, <2>4, <3>5, <3>6
  <2> QED BY <2>3, <2>4
<1>6. L \in U
  <2> HIDE DEF U
  <2>1. \A i \in 0..L : i \in U
    BY <1>1, <1>4, <1>5, CountsUp
  <2> QED BY <1>1, <2>1
<1> DEFINE new == Unprinted(records, printed)
<1>7. new \in Seq(V) /\ Len(new) = L - K /\ \A j \in 1..(L - K) : new[j] = records[K + j]
  BY <1>1, <1>3, <1>6
<1> HIDE DEF new
<1>8. /\ printed \o new \in Seq(V) /\ Len(printed \o new) = L
      /\ \A i \in 1..L : (printed \o new)[i] = IF i <= K THEN printed[i] ELSE new[i - K]
  <2>1. /\ printed \o new \in Seq(V) /\ Len(printed \o new) = K + Len(new)
        /\ \A i \in 1..(K + Len(new)) :
             (printed \o new)[i] = IF i <= K THEN printed[i] ELSE new[i - K]
    BY <1>7, ConcatProperties DEF K
  <2>2. K + Len(new) = L
    BY <1>1, <1>7
  <2> QED BY <2>1, <2>2
<1>9. ASSUME NEW i \in 1..L PROVE (printed \o new)[i] = records[i]
  <2>1. CASE i <= K
    BY <1>1, <1>8, <2>1
  <2>2. CASE ~(i <= K)
    <3>1. i - K \in 1..(L - K) /\ K + (i - K) = i
      BY <1>1, <2>2
    <3>2. new[i - K] = records[i]
      BY <1>7, <3>1
    <3> QED BY <1>8, <2>2, <3>2
  <2> QED BY <2>1, <2>2
<1>10. Len(printed \o new) = Len(records)
  BY <1>8 DEF L
<1> QED BY <1>8, <1>9, <1>10, SeqEqual DEF new, L

-----------------------------------------------------------------------------
(* Sequences of sequences.                                                 *)

LEMMA FlattenSteps ==
  ASSUME NEW V, NEW ss \in Seq(Seq(V))
  PROVE  \E f \in [0..Len(ss) -> Seq(V)] :
           /\ FlattenSeq(ss) = f[Len(ss)]
           /\ f[0] = <<>>
           /\ \A i \in 1..Len(ss) : f[i] = f[i - 1] \o ss[i]
<1> DEFINE S == Seq(V)
           L == Len(ss)
           flatten[i \in 1..Len(ss)] == IF i = 1 THEN ss[i] ELSE flatten[i-1] \o ss[i]
<1>1. L \in Nat /\ \A i \in 1..L : ss[i] \in S
  BY LenProperties
<1>2. <<>> \in S /\ (\A s, r \in S : s \o r \in S) /\ \A s \in S : <<>> \o s = s
  BY EmptySeq, ConcatProperties, ConcatEmptySeq
<1>3. CASE L = 0
  <2>1. FlattenSeq(ss) = <<>>
    <3>1. ss = <<>>
      BY <1>1, <1>3, EmptySeq
    <3> QED BY <1>3, <3>1 DEF FlattenSeq
  <2> DEFINE f == [i \in 0..0 |-> <<>>]
  <2>2. f \in [0..0 -> S] /\ f[0] = <<>> /\ \A i \in 1..0 : f[i] = f[i - 1] \o ss[i]
    BY <1>2
  <2> HIDE DEF f
  <2> QED BY <1>3, <2>1, <2>2
<1>4. CASE L # 0
  <2> HIDE DEF S, L
  <2> DEFINE step == [i \in 1..L |-> [s \in S |-> s \o ss[i]]]
  <2>1. step \in Steps(S, L)
    BY <1>1, <1>2 DEF Steps
  <2> HIDE DEF step
  <2>2. PICK f \in [0..L -> S] : f[0] = <<>> /\ \A i \in 1..L : f[i] = step[i][f[i - 1]]
    <3>1. Reaches(S, L, <<>>, step)
      BY <1>1, <1>2, <2>1, RecursionExists
    <3> QED BY <3>1 DEF Reaches
  <2>3. \A i \in 1..L : i - 1 \in 0..L /\ i \in 0..L
    BY <1>1
  <2>4. \A i \in 1..L : f[i] = f[i - 1] \o ss[i]
    BY <2>2, <2>3 DEF step
  <2> DEFINE g == [i \in 1..L |-> f[i]]
  <2>5. g = [i \in 1..L |-> IF i = 1 THEN ss[i] ELSE g[i-1] \o ss[i]]
    <3>1. ASSUME NEW i \in 1..L PROVE f[i] = IF i = 1 THEN ss[i] ELSE g[i-1] \o ss[i]
      <4>1. CASE i = 1
        <5>1. f[i] = f[i - 1] \o ss[i] /\ ss[i] \in S
          BY <1>1, <2>4
        <5>2. i - 1 = 0
          BY <4>1
        <5>3. f[i] = <<>> \o ss[i]
          BY <2>2, <5>1, <5>2
        <5>4. f[i] = ss[i]
          BY <1>2, <5>1, <5>3
        <5> QED BY <4>1, <5>4
      <4>2. CASE i # 1
        <5>1. i - 1 \in 1..L
          BY <1>1, <4>2
        <5> QED BY <2>4, <4>2, <5>1
      <4> QED BY <4>1, <4>2
    <3> QED BY <3>1
  <2> HIDE DEF g
  <2>6. flatten = [i \in 1..Len(ss) |-> IF i = 1 THEN ss[i] ELSE flatten[i-1] \o ss[i]]
    BY <2>5, Zenon DEF flatten, L
  <2>7. FlattenSeq(ss) = flatten[L]
    BY <1>4 DEF FlattenSeq, L
  <2> HIDE DEF flatten
  <2>8. \A i \in 1..L : flatten[i] = IF i = 1 THEN ss[i] ELSE flatten[i-1] \o ss[i]
    BY <2>6 DEF L
  <2> DEFINE h == [i \in 0..L |-> IF i = 0 THEN <<>> ELSE flatten[i]]
  <2>9. ASSUME NEW i \in 1..L PROVE h[i] = h[i - 1] \o ss[i]
    <3>1. i \in 0..L /\ i # 0 /\ i - 1 \in 0..L
      BY <1>1
    <3>2. CASE i = 1
      <4>1. h[i - 1] = <<>>
        BY <3>1, <3>2
      <4> QED BY <1>1, <1>2, <2>8, <3>1, <3>2, <4>1
    <3>3. CASE i # 1
      <4>1. i - 1 # 0
        BY <1>1, <3>3
      <4> QED BY <2>8, <3>1, <3>3, <4>1
    <3> QED BY <3>2, <3>3
  <2>10. h[0] = <<>> /\ h[L] = FlattenSeq(ss) /\ h = [i \in 0..L |-> h[i]]
    BY <1>1, <1>4, <2>7
  <2> HIDE DEF h
  <2> DEFINE T == {i \in 0..L : h[i] \in S}
  <2>11. \A i \in 0..L : i \in T
    <3>1. 0 \in T
      BY <1>1, <1>2, <2>10
    <3>2. ASSUME NEW i \in 1..L, i - 1 \in T PROVE i \in T
      BY <1>1, <1>2, <2>3, <2>9, <3>2
    <3> HIDE DEF T
    <3> QED BY <1>1, <3>1, <3>2, CountsUp
  <2>12. h \in [0..L -> S]
    BY <2>10, <2>11
  <2> QED BY <2>9, <2>10, <2>12 DEF L, S
<1> QED BY <1>3, <1>4

LEMMA FrontFacts ==
  ASSUME NEW S, NEW s \in Seq(S), s # <<>>
  PROVE  /\ Len(s) \in Nat \ {0} /\ DOMAIN s = 1..Len(s)
         /\ Front(s) \in Seq(S) /\ Len(Front(s)) = Len(s) - 1
         /\ \A i \in 1..(Len(s) - 1) : Front(s)[i] = s[i]
         /\ Last(s) = s[Len(s)] /\ Last(s) \in S
<1>1. Len(s) \in Nat \ {0} /\ DOMAIN s = 1..Len(s) /\ \A i \in 1..Len(s) : s[i] \in S
  BY EmptySeq, LenProperties
<1>2. Len(s) - 1 \in Nat /\ 1 \in Int /\ Len(s) - 1 \in Int /\ \A i \in 1..(Len(s) - 1) : s[i] \in S
  BY <1>1
<1> DEFINE n == Len(s) - 1
<1>3. /\ SubSeq(s, 1, n) \in Seq(S)
      /\ Len(SubSeq(s, 1, n)) = IF 1 <= n THEN n - 1 + 1 ELSE 0
      /\ \A i \in 1..(n - 1 + 1) : SubSeq(s, 1, n)[i] = s[1 + i - 1]
  <2> HIDE DEF n
  <2> QED BY <1>2, SubSeqProperties DEF n
<1>4. n - 1 + 1 = n /\ n \in Nat
  BY <1>2
<1>5. /\ SubSeq(s, 1, n) \in Seq(S) /\ Len(SubSeq(s, 1, n)) = n
      /\ \A i \in 1..n : SubSeq(s, 1, n)[i] = s[i]
  <2> HIDE DEF n
  <2>1. \A i \in 1..n : 1 + i - 1 = i
    BY <1>4
  <2>2. ~(1 <= n) => n = 0
    BY <1>4
  <2> QED BY <1>3, <1>4, <2>1, <2>2
<1> QED BY <1>1, <1>5 DEF Front, Last

LEMMA FrontOfAppend ==
  ASSUME NEW S, NEW s \in Seq(S), NEW x \in S
  PROVE  /\ Append(s, x) \in Seq(S) /\ Append(s, x) # <<>>
         /\ Front(Append(s, x)) = s /\ Last(Append(s, x)) = x
<1> DEFINE r == Append(s, x)
<1>1. /\ r \in Seq(S) /\ r # <<>> /\ Len(r) = Len(s) + 1 /\ r[Len(s) + 1] = x
      /\ (\A i \in 1..Len(s) : r[i] = s[i]) /\ Len(s) \in Nat
  BY AppendProperties, LenProperties
<1> HIDE DEF r
<1>2. /\ Front(r) \in Seq(S) /\ Len(Front(r)) = Len(r) - 1
      /\ \A i \in 1..(Len(r) - 1) : Front(r)[i] = r[i]
      /\ Last(r) = r[Len(r)]
  BY <1>1, FrontFacts
<1>3. Len(Front(r)) = Len(s) /\ \A i \in 1..Len(s) : Front(r)[i] = s[i]
  BY <1>1, <1>2
<1>4. Front(r) = s
  BY <1>2, <1>3, SeqEqual
<1> QED BY <1>1, <1>2, <1>4 DEF r

LEMMA FlattenLast ==
  ASSUME NEW V, NEW ss \in Seq(Seq(V)), ss # <<>>
  PROVE  /\ FlattenSeq(ss) = FlattenSeq(Front(ss)) \o Last(ss)
         /\ FlattenSeq(ss) \in Seq(V) /\ FlattenSeq(Front(ss)) \in Seq(V)
<1> DEFINE L == Len(ss)
           pp == Front(ss)
<1>1. /\ L \in Nat \ {0} /\ pp \in Seq(Seq(V)) /\ Len(pp) = L - 1
      /\ (\A i \in 1..(L - 1) : pp[i] = ss[i]) /\ Last(ss) = ss[L]
  BY FrontFacts
<1>2. PICK f \in [0..L -> Seq(V)] :
        FlattenSeq(ss) = f[L] /\ f[0] = <<>> /\ \A i \in 1..L : f[i] = f[i - 1] \o ss[i]
  BY FlattenSteps
<1> HIDE DEF L, pp
<1>3. PICK g \in [0..Len(pp) -> Seq(V)] :
        /\ FlattenSeq(pp) = g[Len(pp)] /\ g[0] = <<>>
        /\ \A i \in 1..Len(pp) : g[i] = g[i - 1] \o pp[i]
  <2>1. pp \in Seq(Seq(V))
    BY <1>1
  <2> QED BY <2>1, FlattenSteps, Zenon
<1> DEFINE n == L - 1
           T == {i \in 0..n : f[i] = g[i]}
<1>4. n \in Nat /\ Len(pp) = n /\ n \in 0..n /\ n \in 0..L /\ L \in 1..L /\ L \in 0..L /\ 0 \in 0..n
      /\ \A i \in 1..n : i \in 1..L /\ i \in 0..n
  BY <1>1
<1>5. \A i \in 0..n : i \in T
  <2>1. 0 \in T
    BY <1>2, <1>3, <1>4
  <2>2. ASSUME NEW i \in 1..n, i - 1 \in T PROVE i \in T
    <3>1. f[i] = f[i - 1] \o ss[i] /\ f[i - 1] = g[i - 1] /\ i \in 0..n
      BY <1>2, <1>4, <2>2
    <3>2. g[i] = g[i - 1] \o pp[i] /\ pp[i] = ss[i]
      BY <1>1, <1>3, <1>4
    <3> QED BY <3>1, <3>2
  <2> HIDE DEF T, n
  <2> QED BY <1>4, <2>1, <2>2, CountsUp
<1>6. f[n] = g[n]
  BY <1>4, <1>5
<1>7. f[L] = f[n] \o ss[L]
  BY <1>2, <1>4
<1> HIDE DEF n
<1>8. FlattenSeq(ss) = FlattenSeq(pp) \o Last(ss)
  BY <1>1, <1>2, <1>3, <1>4, <1>6, <1>7
<1>9. f[L] \in Seq(V) /\ g[n] \in Seq(V)
  BY <1>2, <1>3, <1>4
<1> QED BY <1>2, <1>3, <1>4, <1>8, <1>9 DEF pp

-----------------------------------------------------------------------------
(* The agent events of a report, and the lines of the timeline.            *)

AgentEvent == Nat \X Nat \X STRING

LEMMA AgentEventsType ==
  ASSUME NEW rec \in Records
  PROVE  /\ AgentEvents(rec) \in Seq(AgentEvent)
         /\ rec.report = NoReport => AgentEvents(rec) = <<>>
<1> DEFINE runs == rec.report.runs
           of(r) == [e \in DOMAIN runs[r].events |-> <<r, e, runs[r].events[e]>>]
           ss == [r \in DOMAIN runs |-> of(r)]
<1>1. runs \in Seq(Runs) /\ Len(runs) \in Nat /\ DOMAIN runs = 1..Len(runs)
      /\ \A r \in 1..Len(runs) : runs[r] \in Runs
  <2>1. runs \in Seq(Runs)
    BY DEF Records, Reports
  <2> QED BY <2>1, LenProperties
<1>2. AgentEvents(rec) = FlattenSeq(ss)
  BY DEF AgentEvents
<1> HIDE DEF runs
<1>3. ASSUME NEW r \in 1..Len(runs) PROVE of(r) \in Seq(AgentEvent)
  <2>1. runs[r].events \in Seq(STRING) /\ r \in Nat
    BY <1>1 DEF Runs
  <2> DEFINE es == runs[r].events
             n == Len(es)
  <2>2. n \in Nat /\ DOMAIN es = 1..n /\ \A e \in 1..n : es[e] \in STRING
    BY <2>1, LenProperties
  <2> HIDE DEF es, n
  <2>3. \A e \in 1..n : <<r, e, es[e]>> \in AgentEvent
    BY <2>1, <2>2 DEF AgentEvent
  <2>4. [e \in 1..n |-> <<r, e, es[e]>>] \in [1..n -> AgentEvent]
    BY <2>3
  <2>5. [e \in 1..n |-> <<r, e, es[e]>>] \in Seq(AgentEvent)
    BY <2>2, <2>4, SeqDef
  <2> QED BY <2>2, <2>5 DEF es
<1> HIDE DEF of
<1>4. ss \in [1..Len(runs) -> Seq(AgentEvent)]
  BY <1>1, <1>3
<1>5. ss \in Seq(Seq(AgentEvent))
  BY <1>1, <1>4, SeqDef
<1>6. rec.report = NoReport => Len(ss) = 0
  <2>1. ASSUME rec.report = NoReport PROVE Len(ss) = 0
    <3>1. runs = <<>>
      BY <2>1 DEF NoReport, runs
    <3>2. DOMAIN ss = 1..0
      BY <1>1, <3>1
    <3> HIDE DEF ss
    <3> QED BY <1>5, <3>2, LenProperties
  <2> QED BY <2>1
<1> HIDE DEF ss
<1>7. PICK f \in [0..Len(ss) -> Seq(AgentEvent)] : FlattenSeq(ss) = f[Len(ss)] /\ f[0] = <<>>
  BY <1>5, FlattenSteps
<1>8. Len(ss) \in 0..Len(ss)
  <2>1. Len(ss) \in Nat
    BY <1>5, LenProperties
  <2> QED BY <2>1
<1> QED BY <1>2, <1>6, <1>7, <1>8

Upto(n) == [i \in 1..n |-> i]

LineSet == Seq(Nat) \ {<<>>}

\* The lines hold the first n entries in order, and share no error.
LinesFit(shown, n, log) ==
  /\ shown \in Seq(LineSet)
  /\ FlattenSeq(shown) = Upto(n)
  /\ \A l \in DOMAIN shown : Len(shown[l]) > 1 =>
       \A i \in DOMAIN shown[l] : Groupable(log[shown[l][i]])

LEMMA UptoFacts ==
  ASSUME NEW n \in Nat \ {0}
  PROVE  Upto(n - 1) \in Seq(Nat) /\ Upto(n - 1) \o <<n>> = Upto(n)
<1> DEFINE d == <<n>>
           a == Upto(n - 1)
           b == Upto(n)
<1>1. d \in Seq(Nat) /\ Len(d) = 1 /\ d[1] = n
  OBVIOUS
<1>2. \A m \in Nat : Upto(m) \in Seq(Nat) /\ Len(Upto(m)) = m /\ \A i \in 1..m : Upto(m)[i] = i
  <2> SUFFICES ASSUME NEW m \in Nat
               PROVE  Upto(m) \in Seq(Nat) /\ Len(Upto(m)) = m /\ \A i \in 1..m : Upto(m)[i] = i
    OBVIOUS
  <2>1. Upto(m) \in [1..m -> Nat]
    BY DEF Upto
  <2>2. Upto(m) \in Seq(Nat)
    BY <2>1, SeqDef
  <2>3. Len(Upto(m)) = m
    BY <2>1, <2>2, LenProperties
  <2> QED BY <2>2, <2>3 DEF Upto
<1>3. a \in Seq(Nat) /\ Len(a) = n - 1 /\ \A i \in 1..(n - 1) : a[i] = i
  <2>1. n - 1 \in Nat
    OBVIOUS
  <2> QED BY <1>2, <2>1
<1>4. b \in Seq(Nat) /\ Len(b) = n /\ \A i \in 1..n : b[i] = i
  BY <1>2
<1> HIDE DEF a, b, d
<1>5. /\ a \o d \in Seq(Nat) /\ Len(a \o d) = Len(a) + Len(d)
      /\ \A i \in 1..(Len(a) + Len(d)) : (a \o d)[i] = IF i <= Len(a) THEN a[i] ELSE d[i - Len(a)]
  BY <1>1, <1>3, ConcatProperties
<1>6. Len(a) + Len(d) = n /\ n \in Nat
  BY <1>1, <1>3
<1>7. ASSUME NEW i \in 1..n PROVE (a \o d)[i] = i
  <2>1. CASE i = n
    <3>1. ~(i <= Len(a)) /\ i - Len(a) = 1
      BY <1>3, <2>1
    <3> QED BY <1>1, <1>5, <1>6, <2>1, <3>1
  <2>2. CASE i # n
    <3>1. i <= Len(a) /\ i \in 1..(n - 1)
      BY <1>3, <2>2
    <3> QED BY <1>3, <1>5, <1>6, <3>1
  <2> QED BY <2>1, <2>2
<1>8. a \o d = b
  BY <1>4, <1>5, <1>6, <1>7, SeqEqual
<1> QED BY <1>3, <1>8 DEF a, b, d

LEMMA NumbersConcat ==
  ASSUME NEW x \in Seq(Nat), NEW y \in Seq(Nat), NEW z \in Seq(Nat)
  PROVE  (x \o y) \o z = x \o (y \o z)
  BY ConcatAssociative

LEMMA AddLine ==
  ASSUME NEW log, NEW n \in Nat \ {0}, NEW shown, LinesFit(shown, n - 1, log)
  PROVE  LinesFit(AddToLines(shown, n, log), n, log)
<1> DEFINE new == AddToLines(shown, n, log)
           d == <<n>>
<1>1. /\ shown \in Seq(LineSet) /\ shown \in Seq(Seq(Nat)) /\ FlattenSeq(shown) = Upto(n - 1)
      /\ Upto(n - 1) \in Seq(Nat) /\ Upto(n - 1) \o d = Upto(n)
      /\ \A l \in DOMAIN shown : Len(shown[l]) > 1 =>
           \A i \in DOMAIN shown[l] : Groupable(log[shown[l][i]])
  <2>1. shown \in Seq(LineSet) /\ LineSet \subseteq Seq(Nat)
    BY DEF LinesFit, LineSet
  <2>2. shown \in Seq(Seq(Nat))
    BY <2>1, SeqMonotonic
  <2>3. Upto(n - 1) \in Seq(Nat) /\ Upto(n - 1) \o d = Upto(n)
    BY UptoFacts
  <2> QED BY <2>1, <2>2, <2>3 DEF LinesFit
<1>2. d \in Seq(Nat) /\ Len(d) = 1 /\ d # <<>> /\ d \in LineSet
  BY DEF LineSet
<1> DEFINE joins == /\ shown # <<>> /\ Groupable(log[n])
                    /\ LET before == log[Last(Last(shown))] IN
                         /\ Groupable(before) /\ before.kind = log[n].kind
                         /\ before.item[1] = log[n].item[1]
<1>3. CASE ~joins
  <2>1. new = Append(shown, d)
    BY <1>3 DEF AddToLines
  <2> HIDE DEF new, joins, d
  <2>2. /\ new \in Seq(LineSet) /\ new \in Seq(Seq(Nat)) /\ new # <<>>
        /\ Front(new) = shown /\ Last(new) = d
    BY <1>1, <1>2, <2>1, FrontOfAppend
  <2>3. FlattenSeq(new) = Upto(n)
    BY <1>1, <2>2, FlattenLast
  <2>4. ASSUME NEW l \in DOMAIN new, Len(new[l]) > 1
        PROVE  \A i \in DOMAIN new[l] : Groupable(log[new[l][i]])
    <3>1. /\ Len(shown) \in Nat /\ DOMAIN shown = 1..Len(shown)
          /\ DOMAIN new = 1..(Len(shown) + 1)
          /\ (\A j \in 1..Len(shown) : new[j] = shown[j]) /\ new[Len(shown) + 1] = d
      <4>1. /\ Len(new) = Len(shown) + 1 /\ Len(shown) \in Nat /\ DOMAIN new = 1..Len(new)
            /\ DOMAIN shown = 1..Len(shown)
        BY <1>1, <1>2, <2>1, <2>2, AppendProperties, LenProperties
      <4>2. (\A j \in 1..Len(shown) : new[j] = shown[j]) /\ new[Len(shown) + 1] = d
        BY <1>1, <1>2, <2>1, AppendProperties
      <4> QED BY <4>1, <4>2
    <3>2. l \in 1..Len(shown)
      <4>1. ASSUME l = Len(shown) + 1 PROVE FALSE
        <5>1. new[l] = d
          BY <3>1, <4>1
        <5>2. Len(d) > 1
          BY <2>4, <5>1
        <5> QED BY <1>2, <5>2
      <4> QED BY <3>1, <4>1
    <3> QED BY <1>1, <2>4, <3>1, <3>2
  <2> QED BY <2>2, <2>3, <2>4 DEF LinesFit, new
<1>4. CASE joins
  <2> DEFINE f == Front(shown)
             b == Last(shown)
             c == Append(b, n)
             e == <<c>>
  <2>1. new = f \o e
    BY <1>4 DEF AddToLines
  <2>2. shown # <<>> /\ Groupable(log[n]) /\ Groupable(log[Last(b)])
    BY <1>4
  <2> HIDE DEF new, joins, d
  <2>3. /\ f \in Seq(LineSet) /\ b \in LineSet /\ Len(shown) \in Nat \ {0}
        /\ Len(f) = Len(shown) - 1 /\ b = shown[Len(shown)] /\ DOMAIN shown = 1..Len(shown)
        /\ \A j \in 1..(Len(shown) - 1) : f[j] = shown[j]
    BY <1>1, <2>2, FrontFacts
  <2>4. b \in Seq(Nat) /\ b # <<>> /\ Len(b) \in Nat \ {0} /\ DOMAIN b = 1..Len(b)
        /\ Last(b) = b[Len(b)]
    <3>1. b \in Seq(Nat) /\ b # <<>>
      BY <2>3 DEF LineSet
    <3> HIDE DEF b
    <3> QED BY <3>1, FrontFacts
  <2> HIDE DEF f, b
  <2>5. /\ c \in Seq(Nat) /\ c # <<>> /\ c = b \o d /\ Len(c) = Len(b) + 1
        /\ DOMAIN c = 1..(Len(b) + 1)
        /\ (\A j \in 1..Len(b) : c[j] = b[j]) /\ c[Len(b) + 1] = n
    <3>1. /\ c \in Seq(Nat) /\ c # <<>> /\ Len(c) = Len(b) + 1
          /\ (\A j \in 1..Len(b) : c[j] = b[j]) /\ c[Len(b) + 1] = n
      BY <2>4, AppendProperties
    <3>2. c = b \o d
      BY <2>4, AppendIsConcat DEF d
    <3>3. DOMAIN c = 1..Len(c)
      BY <3>1, LenProperties
    <3> QED BY <3>1, <3>2, <3>3
  <2>6. c \in LineSet
    BY <2>5 DEF LineSet
  <2> HIDE DEF c
  <2>7. new = Append(f, c)
    <3>1. Append(f, c) = f \o e
      BY <2>3, <2>6, AppendIsConcat
    <3> QED BY <2>1, <3>1
  <2>8. LineSet \subseteq Seq(Nat) /\ f \in Seq(Seq(Nat))
    <3>1. LineSet \subseteq Seq(Nat)
      BY DEF LineSet
    <3> QED BY <2>3, <3>1, SeqMonotonic
  <2>9. /\ new \in Seq(LineSet) /\ new \in Seq(Seq(Nat)) /\ new # <<>>
        /\ Front(new) = f /\ Last(new) = c
    <3>1. /\ new \in Seq(LineSet) /\ new # <<>> /\ Front(new) = f /\ Last(new) = c
      BY <2>3, <2>6, <2>7, FrontOfAppend
    <3>2. new \in Seq(Seq(Nat))
      BY <2>8, <3>1, SeqMonotonic
    <3> QED BY <3>1, <3>2
  <2>10. FlattenSeq(new) = Upto(n)
    <3>1. FlattenSeq(shown) = FlattenSeq(f) \o b /\ FlattenSeq(f) \in Seq(Nat)
      BY <1>1, <2>2, FlattenLast DEF f, b
    <3>2. FlattenSeq(new) = FlattenSeq(f) \o c
      BY <2>9, FlattenLast
    <3>3. (FlattenSeq(f) \o b) \o d = FlattenSeq(f) \o (b \o d)
      <4> DEFINE h == FlattenSeq(f)
      <4>1. h \in Seq(Nat)
        BY <3>1
      <4>2. b \in Seq(Nat)
        BY <2>4
      <4>3. d \in Seq(Nat)
        BY <1>2
      <4> HIDE DEF h
      <4>4. (h \o b) \o d = h \o (b \o d)
        BY <4>1, <4>2, <4>3, NumbersConcat
      <4> QED BY <4>4 DEF h
    <3>4. FlattenSeq(f) \o c = Upto(n - 1) \o d
      BY <1>1, <2>5, <3>1, <3>3
    <3> QED BY <1>1, <3>2, <3>4
  <2>11. ASSUME NEW l \in DOMAIN new, Len(new[l]) > 1
         PROVE  \A i \in DOMAIN new[l] : Groupable(log[new[l][i]])
    <3>1. /\ DOMAIN new = 1..Len(shown) /\ new[Len(shown)] = c
          /\ \A j \in 1..(Len(shown) - 1) : new[j] = shown[j]
      <4>1. /\ Len(new) = Len(f) + 1 /\ DOMAIN new = 1..Len(new)
            /\ (\A j \in 1..Len(f) : new[j] = f[j]) /\ new[Len(f) + 1] = c
        BY <2>3, <2>6, <2>7, <2>9, AppendProperties, LenProperties
      <4>2. Len(f) + 1 = Len(shown) /\ Len(f) = Len(shown) - 1
        BY <2>3
      <4> QED BY <2>3, <4>1, <4>2
    <3>2. CASE l = Len(shown)
      <4>1. new[l] = c
        BY <3>1, <3>2
      <4>2. ASSUME NEW i \in 1..Len(b) PROVE Groupable(log[b[i]])
        <5>1. CASE Len(b) > 1
          <6>1. Len(shown) \in DOMAIN shown
            BY <2>3
          <6> QED BY <1>1, <2>3, <2>4, <5>1, <6>1
        <5>2. CASE ~(Len(b) > 1)
          <6>1. Len(b) \in Nat \ {0}
            BY <2>4
          <6>2. Len(b) = 1
            BY <5>2, <6>1
          <6>3. i = Len(b)
            BY <6>2
          <6> QED BY <2>2, <2>4, <6>3
        <5> QED BY <5>1, <5>2
      <4>3. ASSUME NEW i \in DOMAIN c PROVE Groupable(log[c[i]])
        <5>1. i \in 1..Len(b) \/ i = Len(b) + 1
          BY <2>4, <2>5
        <5> QED BY <2>2, <2>5, <4>2, <5>1
      <4> QED BY <4>1, <4>3
    <3>3. CASE l # Len(shown)
      <4>1. l \in 1..(Len(shown) - 1) /\ l \in DOMAIN shown
        BY <2>3, <3>1, <3>3
      <4>2. new[l] = shown[l]
        BY <3>1, <4>1
      <4> QED BY <1>1, <2>11, <4>1, <4>2
    <3> QED BY <3>2, <3>3
  <2> QED BY <2>9, <2>10, <2>11 DEF LinesFit, new
<1> QED BY <1>3, <1>4

LEMMA TimelineFits ==
  ASSUME NEW log \in Seq(Entries)
  PROVE  LinesFit(TimelineLines(log), Len(log), log)
<1> DEFINE L == Len(log)
           S(n) == {s \in Seq(LineSet) : LinesFit(s, n, log)}
           tl[n \in 0..Len(log)] == IF n = 0 THEN <<>> ELSE AddToLines(tl[n - 1], n, log)
<1>1. L \in Nat /\ \A i \in 0..L : i # 0 => i \in 1..L /\ i \in Nat \ {0}
  BY LenProperties
<1>2. <<>> \in S(0)
  <2> DEFINE e == <<>>
  <2>1. e \in Seq(LineSet) /\ e \in Seq(Seq(Nat)) /\ Len(e) = 0 /\ DOMAIN e = {}
    BY EmptySeq
  <2>2. FlattenSeq(e) = <<>>
    BY <2>1 DEF FlattenSeq
  <2>3. Upto(0) = <<>>
    BY DEF Upto
  <2> QED BY <2>1, <2>2, <2>3 DEF LinesFit
<1>3. \A n \in 1..L : \A s \in S(n - 1) : AddToLines(s, n, log) \in S(n)
  <2> SUFFICES ASSUME NEW n \in 1..L, NEW s \in S(n - 1)
               PROVE  AddToLines(s, n, log) \in S(n)
    OBVIOUS
  <2>1. LinesFit(s, n - 1, log) /\ n \in Nat \ {0}
    BY <1>1
  <2>2. LinesFit(AddToLines(s, n, log), n, log)
    BY <2>1, AddLine
  <2> QED BY <2>2 DEF LinesFit
<1> HIDE DEF S, L
\* The steps on sequences that fit no log are of no matter.
<1> DEFINE All == (UNION {S(n) : n \in 0..L}) \union {"none"}
           step == [n \in 1..L |-> [s \in All |-> IF s \in S(n - 1) THEN AddToLines(s, n, log)
                                                  ELSE "none"]]
<1>4. step \in Steps(All, L) /\ <<>> \in All
  <2>1. \A n \in 1..L : n \in 0..L /\ n - 1 \in 0..L
    BY <1>1
  <2>2. 0 \in 0..L
    BY <1>1
  <2>3. ASSUME NEW n \in 1..L, NEW s \in All PROVE step[n][s] \in All
    <3>1. step[n][s] = IF s \in S(n - 1) THEN AddToLines(s, n, log) ELSE "none"
      OBVIOUS
    <3>2. "none" \in All
      OBVIOUS
    <3>3. \A r \in S(n) : r \in All
      BY <2>1, Zenon
    <3> QED BY <1>3, <3>1, <3>2, <3>3
  <2>4. \A n \in 1..L : step[n] \in [All -> All]
    <3> SUFFICES ASSUME NEW n \in 1..L PROVE step[n] \in [All -> All]
      OBVIOUS
    <3>1. step[n] = [s \in All |-> IF s \in S(n - 1) THEN AddToLines(s, n, log) ELSE "none"]
      OBVIOUS
    <3>2. step[n] = [s \in All |-> step[n][s]]
      <4> HIDE DEF All
      <4> QED BY <3>1, Zenon
    <3> HIDE DEF All, step
    <3> QED BY <2>3, <3>2
  <2>5. step \in Steps(All, L)
    <3> HIDE DEF All
    <3> QED BY <2>4 DEF Steps
  <2> QED BY <1>2, <2>2, <2>5
<1> HIDE DEF step
<1>5. PICK f \in [0..L -> All] : f[0] = <<>> /\ \A i \in 1..L : f[i] = step[i][f[i - 1]]
  <2>1. Reaches(All, L, <<>>, step)
    BY <1>1, <1>4, RecursionExists
  <2> QED BY <2>1 DEF Reaches
<1>6. \A i \in 1..L : i - 1 \in 0..L /\ i \in 0..L /\ i # 0
  BY <1>1
<1>7. \A i \in 1..L : f[i - 1] \in S(i - 1) => f[i] = AddToLines(f[i - 1], i, log)
  BY <1>5, <1>6 DEF step
<1> HIDE DEF All
<1>8. \A i \in 0..L : f[i] \in S(i)
  <2> DEFINE T == {i \in 0..L : f[i] \in S(i)}
  <2>1. 0 \in T
    BY <1>1, <1>2, <1>5
  <2>2. ASSUME NEW i \in 1..L, i - 1 \in T PROVE i \in T
    BY <1>3, <1>6, <1>7, <2>2
  <2>3. \A i \in 0..L : i \in T
    <3> HIDE DEF T
    <3> QED BY <1>1, <2>1, <2>2, CountsUp
  <2> QED BY <2>3
<1>9. \A i \in 1..L : f[i] = AddToLines(f[i - 1], i, log)
  BY <1>6, <1>7, <1>8
<1>10. f = [n \in 0..L |-> IF n = 0 THEN <<>> ELSE AddToLines(f[n - 1], n, log)]
  <2>1. f = [n \in 0..L |-> f[n]]
    BY <1>5
  <2>2. \A n \in 0..L : f[n] = IF n = 0 THEN <<>> ELSE AddToLines(f[n - 1], n, log)
    BY <1>1, <1>5, <1>9, Zenon
  <2> QED BY <2>1, <2>2
<1>11. tl = [n \in 0..Len(log) |-> IF n = 0 THEN <<>> ELSE AddToLines(tl[n - 1], n, log)]
  BY <1>10, Zenon DEF tl, L
<1>12. TimelineLines(log) = tl[L]
  BY DEF TimelineLines, L
<1> HIDE DEF tl
<1> DEFINE T == {i \in 0..L : tl[i] \in S(i)}
<1>13. 0 \in T
  <2>1. 0 \in 0..L
    BY <1>1
  <2>2. tl[0] = <<>>
    BY <1>11, <2>1 DEF L
  <2> QED BY <1>2, <2>1, <2>2
<1>14. ASSUME NEW i \in 1..L, i - 1 \in T PROVE i \in T
  <2>1. tl[i] = AddToLines(tl[i - 1], i, log)
    BY <1>6, <1>11 DEF L
  <2> QED BY <1>3, <1>6, <1>14, <2>1
<1>15. L \in T
  <2> HIDE DEF T
  <2>1. \A i \in 0..L : i \in T
    BY <1>1, <1>13, <1>14, CountsUp
  <2> QED BY <1>1, <2>1
<1> QED BY <1>12, <1>15 DEF L, S

-----------------------------------------------------------------------------
(* What a reader has stays true of what there is.                          *)

\* The record a reader reads has only grown.
RecFollows ==
  got.task # NoTask /\ ~Astray' => ~Astray /\ Before(Rec, Rec') /\ Rec \in Records

ReadersSame == UNCHANGED <<load, got, ended, acpVars>>

LEMMA SteadyReads ==
  ASSUME BoardInv, ReaderTyped, Steady, lost' = lost, got' = got, load' = load
  PROVE  RecFollows
<1>1. SUFFICES ASSUME got.task # NoTask, ~Astray'
               PROVE  ~Astray /\ Before(Rec, Rec') /\ Rec \in Records
  BY DEF RecFollows
<1>2. got.task \in Task /\ ~Astray
  BY <1>1 DEF ReaderTyped, Astray, reader
<1>3. mem[got.task] \in Records /\ file[got.task] \in Records
  BY <1>2 DEF BoardInv, BoardTyped
<1> QED BY <1>2, <1>3 DEF Steady, Rec, reader

LEMMA RecoveryReads ==
  ASSUME BoardInv, ReaderTyped, Recovery, reader # "embedded", got' = got, load' = load
  PROVE  RecFollows
<1>1. SUFFICES ASSUME got.task # NoTask, ~Astray'
               PROVE  ~Astray /\ Before(Rec, Rec') /\ Rec \in Records
  BY DEF RecFollows
<1>2. got.task \in Task
  BY <1>1 DEF ReaderTyped
<1>3. mem[got.task] \in Records /\ file[got.task] \in Records
  BY <1>2 DEF BoardInv, BoardTyped
<1>4. /\ Before(file[got.task], file'[got.task]) /\ mem'[got.task] = file'[got.task]
      /\ ~lost' => ~lost /\ file[got.task] = mem[got.task]
  BY <1>2 DEF Recovery
<1>5. CASE reader = "inspect"
  BY <1>3, <1>4, <1>5 DEF Astray, Rec, reader
<1>6. CASE reader = "acp"
  <2>1. ~lost'
    BY <1>1, <1>6 DEF Astray, reader
  <2> QED BY <1>3, <1>4, <1>6, <2>1 DEF Astray, Rec, reader
<1>7. reader \in {"inspect", "tui", "acp", "embedded"}
  BY InterfaceAssumption DEF ReaderTyped, reader
<1>8. reader # "tui"
  BY <1>1 DEF ReaderTyped
<1> QED BY <1>5, <1>6, <1>7, <1>8

LEMMA ReadKeeps ==
  ASSUME ReaderTyped, Read, Heard, RecFollows, got' = got, load' = load, torn' \/ ~torn
  PROVE  Read' /\ Heard'
<1>1. Read'
  <2>1. CASE got.task = NoTask
    BY <2>1 DEF Read
  <2>2. CASE Astray'
    BY <2>2 DEF Read
  <2>3. CASE got.task # NoTask /\ ~Astray'
    <3>1. /\ ~Astray /\ Before(Rec, Rec') /\ Rec \in Records
      BY <2>3 DEF RecFollows
    <3>2. /\ Len(got.events) <= Len(Rec.log)
          /\ \A i \in 1..Len(got.events) : got.events[i] = [seq |-> i, entry |-> Rec.log[i]]
          /\ got.agents = <<>> \/ got.agents = AgentEvents(Rec)
          /\ Acp => got.cursor = [task |-> Len(got.events), agent |-> Len(got.agents)]
      BY <2>3, <3>1 DEF Read
    <3>3. Len(got.events) \in Nat /\ Len(Rec.log) \in Nat
      BY <3>1, LenProperties DEF ReaderTyped, Records
    <3>4. /\ Len(got.events) <= Len(Rec'.log)
          /\ \A i \in 1..Len(got.events) : got.events[i] = [seq |-> i, entry |-> Rec'.log[i]]
      BY <3>1, <3>2, <3>3 DEF Before
    <3>5. got.agents = <<>> \/ got.agents = AgentEvents(Rec')
      <4>1. CASE Rec.report = NoReport
        BY <3>1, <3>2, <4>1, AgentEventsType
      <4>2. CASE Rec.report = Rec'.report
        <5>1. AgentEvents(Rec) = AgentEvents(Rec')
          BY <4>2 DEF AgentEvents
        <5> QED BY <3>2, <5>1
      <4> QED BY <3>1, <4>1, <4>2 DEF Before
    <3>6. Acp' => got'.cursor = [task |-> Len(got'.events), agent |-> Len(got'.agents)]
      BY <3>2 DEF Acp, reader
    <3> QED BY <2>3, <3>4, <3>5, <3>6 DEF Read
  <2> QED BY <2>1, <2>2, <2>3
<1>2. Heard'
  <2>1. SUFFICES ASSUME got.task # NoTask, ~Astray' PROVE Heard'
    BY DEF Heard
  <2>2. ~Astray /\ Before(Rec, Rec')
    BY <2>1 DEF RecFollows
  <2>3. \A kinds : Has(kinds)' <=> Has(kinds)
    BY DEF Has
  <2>4. ASSUME got.status = "Completed"
        PROVE  /\ Rec'.report.text
               /\ \A e \in ReportEntries(Rec'.report) :
                    \E i \in DOMAIN got.events : got.events[i].entry = e
               /\ got.agents = AgentEvents(Rec')
               /\ reader = "inspect" => got.results = 1
    <3>1. /\ Rec.report.text
          /\ \A e \in ReportEntries(Rec.report) :
               \E i \in DOMAIN got.events : got.events[i].entry = e
          /\ got.agents = AgentEvents(Rec)
          /\ reader = "inspect" => got.results = 1
      BY <2>1, <2>2, <2>4 DEF Heard
    <3>2. Rec.report # NoReport
      BY <3>1 DEF NoReport
    <3>3. Rec'.report = Rec.report
      BY <2>2, <3>2 DEF Before
    <3>4. AgentEvents(Rec) = AgentEvents(Rec')
      BY <3>3 DEF AgentEvents
    <3> QED BY <3>1, <3>3, <3>4
  <2>5. ASSUME Acp', ~torn'
        PROVE  /\ got.status = "Completed" => Has({"task.completed"})
               /\ got.status = "WaitingForInput" => Has({"task.waiting_for_input"})
               /\ got.status = "Failed" => Has({"task.failed", "task.recovered"})
               /\ got.status = "Cancelled" => Has({"task.cancelled", "task.cancel.requested"})
    <3>1. Acp /\ ~torn
      BY <2>5 DEF Acp, reader
    <3> QED BY <2>1, <2>2, <3>1 DEF Heard
  <2>6. /\ Acp' /\ ~torn' =>
             /\ got'.status = "Completed" => Has({"task.completed"})'
             /\ got'.status = "WaitingForInput" => Has({"task.waiting_for_input"})'
             /\ got'.status = "Failed" => Has({"task.failed", "task.recovered"})'
             /\ got'.status = "Cancelled" => Has({"task.cancelled", "task.cancel.requested"})'
    BY <2>3, <2>5
  <2>7. got'.status = "Completed" =>
          /\ Rec'.report.text
          /\ \A e \in ReportEntries(Rec'.report) :
               \E i \in DOMAIN got'.events : got'.events[i].entry = e
          /\ got'.agents = AgentEvents(Rec')
          /\ reader' = "inspect" => got'.results = 1
    BY <2>4 DEF reader
  <2> QED BY <2>6, <2>7 DEF Heard
<1> QED BY <1>1, <1>2

-----------------------------------------------------------------------------
(* The steps of the board.                                                 *)

\* The task is in the store, or about to be created.
Owed(x) == mem[x] # Absent \/ \E i \in DOMAIN todo : todo[i] = Create(x)

Rests == conn = "open" \/ (conn = "none" /\ ~ended)

LEMMA BoardStepKeeps ==
  ASSUME InterfaceInv, BoardInv', Steady, lost' = lost, torn' = torn, ReadersSame,
         \A x \in Task : Owed(x) => Owed(x)',
         reader = "embedded" /\ Rests /\ todo = <<>> => todo' = <<>>
  PROVE  InterfaceInv'
<1>1. /\ load' = load /\ got' = got /\ ended' = ended /\ lines' = lines /\ ids' = ids
      /\ asked' = asked /\ conn' = conn /\ prompted' = prompted /\ out' = out
      /\ reader' = reader /\ Acp' = Acp
  BY DEF ReadersSame, acpVars, reader, Acp
<1>2. ReaderTyped'
  BY <1>1 DEF InterfaceInv, ReaderTyped
<1>3. Read' /\ Heard'
  BY <1>1, SteadyReads, ReadKeeps DEF InterfaceInv
<1>4. Answered'
  <2>1. ASSUME ~lost', NEW i \in DOMAIN out, out[i].task # NoTask PROVE mem'[out[i].task] # Absent
    <3>1. mem[out[i].task] # Absent
      BY <2>1 DEF InterfaceInv, Answered
    <3>2. out[i].task \in Task
      <4>1. out[i] \in Messages
        BY DEF InterfaceInv, ReaderTyped
      <4> QED BY <2>1, <4>1 DEF Messages
    <3> QED BY <3>1, <3>2 DEF Steady
  <2> QED BY <1>1, <2>1 DEF InterfaceInv, Answered
<1>5. Served'
  <2>1. conn = "served" /\ prompted # NoTask => Owed(prompted)
    BY DEF InterfaceInv, Served, Owed
  <2>2. prompted \in Task \union {NoTask}
    BY DEF InterfaceInv, ReaderTyped
  <2>3. conn = "served" /\ prompted # NoTask => Owed(prompted)'
    BY <1>1, <2>1, <2>2
  <2>4. conn' = "served" /\ prompted' # NoTask =>
          mem'[prompted'] # Absent \/ \E i \in DOMAIN todo' : todo'[i] = Create(prompted')
    BY <1>1, <2>3 DEF Owed
  <2>5. reader' = "embedded" => /\ ~lost' /\ ~torn'
                                /\ ended' => asked' = NoLine
                                /\ conn' = "open" \/ (conn' = "none" /\ ~ended') => todo' = <<>>
    BY <1>1 DEF InterfaceInv, Served, Rests
  <2> QED BY <1>1, <2>4, <2>5 DEF InterfaceInv, Served
<1> QED BY <1>2, <1>3, <1>4, <1>5 DEF InterfaceInv

\* What is left to do is still left, after what the call may put before it.
LEMMA PerformLeaves ==
  ASSUME BoardInv, Perform
  PROVE  todo' = Tail(todo) \/ \E g \in Seq(Calls) : todo' = g \o Tail(todo)
<1> DEFINE c == Head(todo)
           rest == Tail(todo)
<1>1. CASE c.call \in {"create", "status", "event", "once", "report", "spawn"}
  BY <1>1 DEF Perform, DoCreate, DoStatus, DoEvent, DoReport, DoSpawn
<1>2. StartReady \in Calls /\ Drain \in Calls
  BY CallTypes
<1>3. <<StartReady>> \in Seq(Calls) /\ <<Drain>> \in Seq(Calls)
  BY <1>2
<1>4. CASE c.call = "enqueue"
  <2>1. todo' = <<StartReady>> \o rest
    BY <1>4 DEF Perform, DoEnqueue
  <2> QED BY <1>3, <2>1
<1>5. CASE c.call = "start"
  <2>1. DoStart(rest)
    BY <1>5 DEF Perform
  <2>2. CASE queue # <<>> /\ Cardinality(running) < Slots
    <3> DEFINE x == Head(queue)
               d == Status(x, "Running")
               e == Event(x, Mark("task.started"))
               s == Spawn(x)
               g == <<d, e, s, StartReady>>
    <3>1. todo' = g \o rest
      BY <2>1, <2>2 DEF DoStart
    <3>2. x \in Task
      <4>1. queue \in Seq(Task)
        BY DEF BoardInv, BoardTyped
      <4> QED BY <2>2, <4>1, HeadTailProperties
    <3> HIDE DEF x
    <3>3. d \in Calls /\ e \in Calls /\ s \in Calls
      <4>1. d \in Calls
        BY <3>2 DEF Status, Calls
      <4>2. Mark("task.started") \in PlainEntries
        BY MarkTypes DEF BoardKinds, TaskKinds
      <4>3. e \in Calls
        BY <3>2, <4>2 DEF Event, Calls
      <4>4. s \in Calls
        BY <3>2 DEF Spawn, Calls
      <4> QED BY <4>1, <4>3, <4>4
    <3> HIDE DEF d, e, s
    <3>4. g \in Seq(Calls)
      BY <1>2, <3>3
    <3> QED BY <3>1, <3>4
  <2>3. CASE ~(queue # <<>> /\ Cardinality(running) < Slots)
    BY <2>1, <2>3 DEF DoStart
  <2> QED BY <2>2, <2>3
<1>6. CASE c.call = "drain"
  <2>1. DoDrain(rest)
    BY <1>6 DEF Perform
  <2>2. CASE channel = <<>>
    <3>1. todo' = <<StartReady>> \o rest
      BY <2>1, <2>2 DEF DoDrain
    <3> QED BY <1>3, <3>1
  <2>3. CASE channel # <<>>
    <3> DEFINE ev == Head(channel)
               g == ApplyEvent(ev.task, ev)
    <3>1. todo' = g \o <<Drain>> \o rest
      BY <2>1, <2>3 DEF DoDrain
    <3>2. ev \in RunEvents /\ (ev.type = "completed" => (ev.status = "Completed" => ev.report.text))
      <4>1. channel \in Seq(RunEvents) /\ Texts(channel)
        BY BoardFacts DEF BoardTyped
      <4>2. ev = channel[1] /\ 1 \in DOMAIN channel /\ ev \in RunEvents
        BY <2>3, <4>1, PopFacts
      <4> QED BY <4>1, <4>2 DEF Texts
    <3> HIDE DEF ev
    <3>3. g \in Seq(Calls)
      <4>1. ev.task \in Task
        BY <3>2 DEF RunEvents
      <4> QED BY <3>2, <4>1, ApplyFacts
    <3> HIDE DEF g
    <3>4. g \o <<Drain>> \in Seq(Calls)
      BY <1>3, <3>3, ConcatProperties
    <3> QED BY <3>1, <3>4
  <2> QED BY <2>2, <2>3
<1> QED BY <1>1, <1>4, <1>5, <1>6 DEF Perform

LEMMA OwedByPerform ==
  ASSUME BoardInv, Perform, Steady, NEW x \in Task, Owed(x)
  PROVE  Owed(x)'
<1> DEFINE c == Head(todo)
           rest == Tail(todo)
<1>1. todo # <<>> /\ todo \in Seq(Calls)
  BY DEF Perform, BoardInv, BoardTyped
<1>2. /\ c = todo[1] /\ rest \in Seq(Calls)
      /\ \A i \in DOMAIN todo : i = 1 \/ (i - 1 \in DOMAIN rest /\ rest[i - 1] = todo[i])
  <2>1. /\ Len(todo) \in Nat \ {0} /\ DOMAIN todo = 1..Len(todo) /\ c = todo[1]
        /\ rest \in Seq(Calls) /\ DOMAIN rest = 1..(Len(todo) - 1)
        /\ \A i \in DOMAIN rest : rest[i] = todo[i + 1]
    BY <1>1, TailEffect
  <2> HIDE DEF rest, c
  <2>2. ASSUME NEW i \in DOMAIN todo, i # 1 PROVE i - 1 \in DOMAIN rest /\ rest[i - 1] = todo[i]
    <3>1. i - 1 \in 1..(Len(todo) - 1) /\ (i - 1) + 1 = i
      BY <2>1, <2>2
    <3> QED BY <2>1, <3>1
  <2> QED BY <2>1, <2>2
<1>3. CASE mem[x] # Absent
  BY <1>3 DEF Steady, Owed
<1>4. CASE mem[x] = Absent
  <2>1. PICK i \in DOMAIN todo : todo[i] = Create(x)
    BY <1>4 DEF Owed
  <2>2. CASE i = 1
    <3>1. c.call = "create" /\ c.task = x
      BY <1>2, <2>1, <2>2 DEF Create
    <3>2. DoCreate(c, rest)
      BY <3>1 DEF Perform
    <3>3. Written(c)
      BY <1>1, <1>2, <1>4, <2>1, <2>2, <3>1, <3>2, CreateWrites
    <3> QED BY <3>1, <3>3 DEF Written, Owed
  <2>3. CASE i # 1
    <3>1. i - 1 \in DOMAIN rest /\ rest[i - 1] = Create(x)
      BY <1>2, <2>1, <2>3
    <3>2. \/ todo' = rest
          \/ \E g \in Seq(Calls) : todo' = g \o rest
      BY PerformLeaves
    <3> HIDE DEF rest
    <3>3. CASE todo' = rest
      BY <3>1, <3>3 DEF Owed
    <3>4. ASSUME NEW g \in Seq(Calls), todo' = g \o rest PROVE Owed(x)'
      <4>1. /\ Len(g) \in Nat /\ Len(rest) \in Nat /\ DOMAIN rest = 1..Len(rest)
            /\ g \o rest \in Seq(Calls) /\ Len(g \o rest) = Len(g) + Len(rest)
            /\ \A k \in 1..(Len(g) + Len(rest)) :
                 (g \o rest)[k] = IF k <= Len(g) THEN g[k] ELSE rest[k - Len(g)]
        BY <1>2, LenProperties, ConcatProperties
      <4> DEFINE k == Len(g) + (i - 1)
      <4>2. k \in 1..(Len(g) + Len(rest)) /\ ~(k <= Len(g)) /\ k - Len(g) = i - 1
        BY <3>1, <4>1
      <4>3. todo'[k] = Create(x)
        BY <3>1, <3>4, <4>1, <4>2
      <4>4. k \in DOMAIN todo'
        <5>1. DOMAIN todo' = 1..(Len(g) + Len(rest))
          BY <3>4, <4>1, LenProperties
        <5> QED BY <4>2, <5>1
      <4> QED BY <4>3, <4>4 DEF Owed
    <3> QED BY <3>2, <3>3, <3>4
  <2> QED BY <2>2, <2>3
<1> QED BY <1>3, <1>4

LEMMA OwedAtRest ==
  ASSUME todo = <<>>, Steady, NEW x \in Task, Owed(x)
  PROVE  Owed(x)'
<1>1. mem[x] # Absent
  BY DEF Owed
<1> QED BY <1>1 DEF Steady, Owed

LEMMA EngineKeeps ==
  ASSUME BoardInv, NEW t \in Task, load \in Loads, Engine(t)
  PROVE  BoardInv' /\ Steady /\ lost' = lost /\ torn' = torn /\ todo = <<>> /\ todo' = todo
<1>1. todo = <<>>
  BY DEF Engine
<1>2. ASSUME NEW k \in load.kinds, NEW n \in Note, NEW trace \in Traces,
             RunAgent(t, k.branch, n, trace, k.emits)
      PROVE  BoardInv' /\ Steady /\ UNCHANGED <<lost, torn, todo>>
  <2>1. k.branch \in BOOLEAN /\ k.emits \in BOOLEAN
    BY InterfaceAssumption
  <2>2. UNCHANGED <<lost, torn, todo>>
    BY <1>2 DEF RunAgent
  <2> QED BY <1>2, <2>1, <2>2, RunAgentKeeps
<1>3. ASSUME NEW k \in load.kinds, NEW n \in Note, Operate(t, k.branch, n)
      PROVE  BoardInv' /\ Steady /\ UNCHANGED <<lost, torn, todo>>
  <2>1. k.branch \in BOOLEAN
    BY InterfaceAssumption
  <2>2. UNCHANGED <<lost, torn, todo>>
    BY <1>3 DEF Operate
  <2> QED BY <1>3, <2>1, <2>2, OperateKeeps
<1>4. ASSUME NEW end \in load.ends, EndRun(t, end)
      PROVE  BoardInv' /\ Steady /\ UNCHANGED <<lost, torn, todo>>
  <2>1. end \in {"Completed", "WaitingForInput", "Failed", "error"}
    BY InterfaceAssumption
  <2>2. UNCHANGED <<lost, torn, todo>>
    BY <1>4 DEF EndRun
  <2> QED BY <1>4, <2>1, <2>2, EndRunKeeps
<1> QED BY <1>1, <1>2, <1>3, <1>4 DEF Engine

\* The steps of the board, with the readers as they were.
LEMMA BoardKeeps ==
  ASSUME InterfaceInv, ReadersSame, Board
  PROVE  InterfaceInv'
<1>1. BoardInv /\ load \in Loads
  BY DEF InterfaceInv, ReaderTyped
<1>2. CASE Perform
  <2>1. BoardInv' /\ Steady /\ lost' = lost /\ torn' = torn /\ todo # <<>>
    BY <1>1, <1>2, PerformKeeps DEF Perform
  <2>2. \A x \in Task : Owed(x) => Owed(x)'
    BY <1>1, <1>2, <2>1, OwedByPerform
  <2> QED BY <2>1, <2>2, BoardStepKeeps
<1>3. CASE \E t \in Task : Engine(t)
  <2>1. BoardInv' /\ Steady /\ lost' = lost /\ torn' = torn /\ todo = <<>> /\ todo' = todo
    BY <1>1, <1>3, EngineKeeps
  <2>2. \A x \in Task : Owed(x) => Owed(x)'
    BY <2>1, OwedAtRest
  <2> QED BY <2>1, <2>2, BoardStepKeeps
<1>4. CASE IF reader = "embedded" THEN WaitForAll ELSE Timer
  <2>1. Timer /\ (reader = "embedded" => ended)
    BY <1>4 DEF WaitForAll
  <2>2. /\ todo = <<>> /\ todo' = <<Drain>> /\ NothingElse /\ queue' = queue /\ token' = token
        /\ lost' = lost /\ torn' = torn
    BY <2>1 DEF Timer, NothingElse
  <2>3. BoardInv' /\ Steady
    BY <1>1, <2>2, PutDrainKeeps
  <2>4. \A x \in Task : Owed(x) => Owed(x)'
    BY <2>2, <2>3, OwedAtRest
  <2>5. reader = "embedded" => ~Rests
    BY <2>1 DEF InterfaceInv, Served, Rests
  <2> QED BY <2>2, <2>3, <2>4, <2>5, BoardStepKeeps
<1> QED BY <1>2, <1>3, <1>4 DEF Board

LEMMA SubmitKeeps ==
  ASSUME InterfaceInv, ReadersSame, NEW t \in Task, Submit(t)
  PROVE  InterfaceInv'
<1>1. /\ BoardInv /\ reader # "embedded" /\ todo = <<>> /\ NothingElse /\ queue' = queue
      /\ token' = token /\ mem[t] = Absent /\ todo' = Submission(t)
      /\ lost' = lost /\ torn' = torn
  BY DEF InterfaceInv, Submit, Missing, NothingElse
<1>2. BoardInv' /\ Steady
  BY <1>1, SubmissionKeeps
<1>3. \A x \in Task : Owed(x) => Owed(x)'
  BY <1>1, <1>2, OwedAtRest
<1> QED BY <1>1, <1>2, <1>3, BoardStepKeeps

LEMMA AskCancelKeeps ==
  ASSUME InterfaceInv, ReadersSame, NEW t \in Task, AskCancel(t)
  PROVE  InterfaceInv'
<1>1. /\ BoardInv /\ reader # "embedded" /\ todo = <<>> /\ Cancel(t)
      /\ lost' = lost /\ torn' = torn
  BY DEF InterfaceInv, AskCancel, Acp, Cancel
<1>2. BoardInv' /\ Steady
  BY <1>1, CancelKeeps
<1>3. \A x \in Task : Owed(x) => Owed(x)'
  BY <1>1, <1>2, OwedAtRest
<1> QED BY <1>1, <1>2, <1>3, BoardStepKeeps

LEMMA RestartedKeeps ==
  ASSUME InterfaceInv, Restarted
  PROVE  InterfaceInv'
<1>1. /\ BoardInv /\ ReaderTyped /\ reader # "embedded" /\ Restart
      /\ conn' = IF conn = "none" THEN "none" ELSE "broken"
      /\ load' = load /\ got' = got /\ ended' = ended /\ lines' = lines /\ ids' = ids
      /\ asked' = asked /\ prompted' = prompted /\ out' = out /\ reader' = reader /\ Acp' = Acp
  BY DEF InterfaceInv, Restarted, reader, Acp
<1>2. BoardInv' /\ Recovery
  BY <1>1, RestartKeeps
<1>3. ReaderTyped'
  BY <1>1 DEF ReaderTyped
<1>4. Read' /\ Heard'
  <2>1. torn' \/ ~torn
    BY <1>1 DEF Restart, BoardInv, BoardTyped
  <2>2. RecFollows
    BY <1>1, <1>2, RecoveryReads
  <2> QED BY <1>1, <2>1, <2>2, ReadKeeps DEF InterfaceInv
<1>5. Answered'
  <2>1. ASSUME ~lost', NEW i \in DOMAIN out, out[i].task # NoTask PROVE mem'[out[i].task] # Absent
    <3>1. out[i].task \in Task
      <4>1. out[i] \in Messages
        BY <1>1 DEF ReaderTyped
      <4> QED BY <2>1, <4>1 DEF Messages
    <3>2. ~lost /\ file[out[i].task] = mem[out[i].task]
      BY <1>2, <2>1, <3>1 DEF Recovery
    <3>3. mem[out[i].task] # Absent
      BY <2>1, <3>2 DEF InterfaceInv, Answered
    <3> QED BY <1>2, <3>1, <3>2, <3>3 DEF Recovery
  <2> QED BY <1>1, <2>1 DEF InterfaceInv, Answered
<1>6. Served'
  <2>1. conn = "none" <=> asked = NoLine
    BY DEF InterfaceInv, Served
  <2>2. asked # NoLine => Acp
    BY DEF InterfaceInv, Served
  <2>3. conn' = "broken" => reader' = "acp"
    BY <1>1, <2>1, <2>2 DEF Acp
  <2> QED BY <1>1, <2>1, <2>3 DEF InterfaceInv, Served
<1> QED BY <1>2, <1>3, <1>4, <1>5, <1>6 DEF InterfaceInv

-----------------------------------------------------------------------------
(* Steps that leave the board, and `siko task inspect`.                    *)

LEMMA BoardSame ==
  ASSUME BoardInv, UNCHANGED boardVars
  PROVE  BoardInv' /\ Steady /\ \A x \in Task : Owed(x) => Owed(x)'
<1>1. /\ BoardTyped /\ Texts(channel)
      /\ \A t \in Task : Placed(t) /\ Calm(todo, t) /\ (Known(t) => mem[t] # Absent)
  BY BoardFacts
<1>2. /\ mem' = mem /\ file' = file /\ queue' = queue /\ running' = running /\ token' = token
      /\ channel' = channel /\ work' = work /\ todo' = todo /\ faults' = faults
      /\ lost' = lost /\ torn' = torn
  BY DEF boardVars
<1>3. BoardTyped' /\ NoWrite
  BY <1>1, <1>2 DEF BoardTyped, NoWrite
<1>4. ASSUME NEW t \in Task
      PROVE  Placed(t)' /\ Calm(todo', t) /\ (Known(t)' => mem[t] # Absent)
  <2>1. Placed(t)' /\ (Known(t)' => Known(t))
    BY <1>1, <1>2 DEF Placed, Known, Reported, IsRun
  <2> QED BY <1>1, <1>2, <2>1
<1>5. BoardInv' /\ Steady
  BY <1>1, <1>2, <1>3, <1>4, NoWriteKeeps
<1>6. \A x \in Task : Owed(x) => Owed(x)'
  BY <1>2 DEF Owed
<1> QED BY <1>5, <1>6

LEMMA NothingKeeps ==
  ASSUME InterfaceInv, UNCHANGED boardVars, ReadersSame
  PROVE  InterfaceInv'
<1>1. /\ BoardInv' /\ Steady /\ (\A x \in Task : Owed(x) => Owed(x)')
      /\ lost' = lost /\ torn' = torn /\ todo' = todo
  <2>1. BoardInv
    BY DEF InterfaceInv
  <2>2. lost' = lost /\ torn' = torn /\ todo' = todo
    BY DEF boardVars
  <2> QED BY <2>1, <2>2, BoardSame
<1> QED BY <1>1, BoardStepKeeps

LEMMA NumberedFacts ==
  ASSUME NEW log \in Seq(Entries)
  PROVE  /\ Numbered(log) \in Seq(Numbers) /\ Len(Numbered(log)) = Len(log)
         /\ Len(log) \in Nat /\ DOMAIN log = 1..Len(log) /\ DOMAIN Numbered(log) = 1..Len(log)
         /\ \A i \in 1..Len(log) : /\ Numbered(log)[i] = [seq |-> i, entry |-> log[i]]
                                   /\ Numbered(log)[i].seq = i
                                   /\ Numbered(log)[i].entry = log[i]
<1> DEFINE n == Len(log)
<1>1. n \in Nat /\ DOMAIN log = 1..n /\ \A i \in 1..n : i \in Nat /\ log[i] \in Entries
  BY LenProperties
<1> HIDE DEF n
<1>2. Numbered(log) = [i \in 1..n |-> [seq |-> i, entry |-> log[i]]]
  BY <1>1 DEF Numbered
<1>3. Numbered(log) \in [1..n -> Numbers]
  BY <1>1, <1>2 DEF Numbers
<1>4. Numbered(log) \in Seq(Numbers)
  BY <1>1, <1>3, SeqDef
<1>5. Len(Numbered(log)) = n
  BY <1>1, <1>3, <1>4, LenProperties
<1> QED BY <1>1, <1>2, <1>4, <1>5 DEF n

\* A reader who reads all there is of a record.
FullRead(rec) ==
  /\ Rec' = rec /\ got'.task # NoTask /\ got'.status = rec.status
  /\ got'.events = Numbered(rec.log) /\ got'.agents = AgentEvents(rec)
  /\ reader' = "inspect" => (rec.report.text => got'.results = 1)
  /\ Acp' => got'.cursor = [task |-> Len(rec.log), agent |-> Len(AgentEvents(rec))]

LEMMA ToldIsTold ==
  ASSUME NEW rec \in Records, ToldLast(rec.log, ShownAs(rec.status)),
         got'.events = Numbered(rec.log), got'.status = rec.status
  PROVE  /\ got'.status = "Completed" => Has({"task.completed"})'
         /\ got'.status = "WaitingForInput" => Has({"task.waiting_for_input"})'
         /\ got'.status = "Failed" => Has({"task.failed", "task.recovered"})'
         /\ got'.status = "Cancelled" => Has({"task.cancelled", "task.cancel.requested"})'
<1>1. PICK i \in DOMAIN rec.log : /\ rec.log[i].kind \in TellingKinds
                                  /\ Tale(rec.log[i].kind) = ShownAs(rec.status)
  BY DEF ToldLast
<1>2. i \in DOMAIN got'.events /\ got'.events[i].entry = rec.log[i]
  <2>1. rec.log \in Seq(Entries)
    BY DEF Records
  <2>2. i \in DOMAIN Numbered(rec.log) /\ Numbered(rec.log)[i].entry = rec.log[i]
    BY <2>1, NumberedFacts
  <2> QED BY <2>2
<1>3. \A kinds : rec.log[i].kind \in kinds => Has(kinds)'
  BY <1>2 DEF Has
<1> DEFINE k == rec.log[i].kind
           s == rec.status
<1>4. k \in TellingKinds /\ Tale(k) = ShownAs(s)
  BY <1>1
<1> HIDE DEF k, s
<1>5. /\ s = "Completed" => ShownAs(s) = "completed"
      /\ s = "WaitingForInput" => ShownAs(s) = "waiting"
      /\ s = "Failed" => ShownAs(s) = "failed"
      /\ s = "Cancelled" => ShownAs(s) = "cancelled"
  BY DEF ShownAs
<1>6. /\ Tale("task.created") = "pending" /\ Tale("task.queued") = "pending"
      /\ Tale("task.started") = "running" /\ Tale("task.completed") = "completed"
      /\ Tale("task.failed") = "failed" /\ Tale("task.waiting_for_input") = "waiting"
      /\ Tale("task.cancelled") = "cancelled" /\ Tale("task.cancel.requested") = "cancelled"
      /\ Tale("task.recovered") = "failed"
  BY DEF Tale, ItemStatus
<1>7. k \in {"task.created", "task.queued", "task.started", "task.completed", "task.failed",
             "task.waiting_for_input", "task.cancelled", "task.cancel.requested", "task.recovered"}
  BY <1>4 DEF TellingKinds, TaskKinds
<1>8. /\ s = "Completed" => k \in {"task.completed"}
      /\ s = "WaitingForInput" => k \in {"task.waiting_for_input"}
      /\ s = "Failed" => k \in {"task.failed", "task.recovered"}
      /\ s = "Cancelled" => k \in {"task.cancelled", "task.cancel.requested"}
  BY <1>4, <1>5, <1>6, <1>7
<1> QED BY <1>3, <1>8 DEF k, s

LEMMA FullReadHolds ==
  ASSUME NEW rec \in Records, Sound(rec), FullRead(rec),
         Acp' /\ ~torn' /\ ~Astray' => ToldLast(rec.log, ShownAs(rec.status))
  PROVE  Read' /\ Heard'
<1>1. /\ Rec' = rec /\ got'.task # NoTask /\ got'.status = rec.status
      /\ got'.events = Numbered(rec.log) /\ got'.agents = AgentEvents(rec)
      /\ reader' = "inspect" => (rec.report.text => got'.results = 1)
      /\ Acp' => got'.cursor = [task |-> Len(rec.log), agent |-> Len(AgentEvents(rec))]
  BY DEF FullRead
<1>2. /\ Len(got'.events) = Len(rec.log) /\ Len(rec.log) \in Nat /\ DOMAIN rec.log = 1..Len(rec.log)
      /\ DOMAIN got'.events = 1..Len(rec.log)
      /\ \A i \in 1..Len(rec.log) : /\ got'.events[i] = [seq |-> i, entry |-> rec.log[i]]
                                    /\ got'.events[i].entry = rec.log[i]
  <2>1. rec.log \in Seq(Entries)
    BY DEF Records
  <2> QED BY <1>1, <2>1, NumberedFacts
<1>3. Read'
  BY <1>1, <1>2 DEF Read
<1>4. got'.status = "Completed" =>
        /\ rec.report.text
        /\ \A e \in ReportEntries(rec.report) : \E i \in DOMAIN got'.events : got'.events[i].entry = e
        /\ reader' = "inspect" => got'.results = 1
  <2>1. ASSUME NEW e \in ReportEntries(rec.report)
        PROVE  \E i \in DOMAIN got'.events : got'.events[i].entry = e
    <3>1. PICK i \in DOMAIN rec.log : rec.log[i] = e
      BY DEF Sound, Logs
    <3> QED BY <1>2, <3>1
  <2>2. got'.status = "Completed" => rec.report.text
    BY <1>1 DEF Sound
  <2> QED BY <1>1, <2>1, <2>2
<1>5. Acp' /\ ~torn' /\ ~Astray' =>
        /\ got'.status = "Completed" => Has({"task.completed"})'
        /\ got'.status = "WaitingForInput" => Has({"task.waiting_for_input"})'
        /\ got'.status = "Failed" => Has({"task.failed", "task.recovered"})'
        /\ got'.status = "Cancelled" => Has({"task.cancelled", "task.cancel.requested"})'
  BY <1>1, ToldIsTold
<1>6. Heard'
  BY <1>1, <1>4, <1>5 DEF Heard
<1> QED BY <1>3, <1>6

LEMMA PollKeeps ==
  ASSUME InterfaceInv, NEW t \in Task, load' = load, Poll(t)
  PROVE  InterfaceInv'
<1> DEFINE rec == file[t]
<1>1. /\ reader = "inspect" /\ reader' = reader /\ got.task \in {NoTask, t} /\ UNCHANGED boardVars
      /\ lines' = lines /\ ids' = ids /\ asked' = asked /\ conn' = conn
      /\ prompted' = prompted /\ out' = out /\ ended' \in BOOLEAN
      /\ file' = file /\ mem' = mem /\ lost' = lost /\ torn' = torn /\ todo' = todo
  BY DEF Poll, acpVars, boardVars, reader
<1>2. got' = [got EXCEPT
       !.task = t,
       !.status = rec.status,
       !.events = @ \o Unprinted(Numbered(rec.log), @),
       !.agents = @ \o Unprinted(AgentEvents(rec), @),
       !.results = IF rec.report.text /\ @ = 0 THEN 1 ELSE @]
  BY DEF Poll
<1>3. rec \in Records /\ Sound(rec) /\ rec.log \in Seq(Entries)
  BY DEF InterfaceInv, BoardInv, BoardTyped, Kept, Records
<1>4. BoardInv'
  BY <1>1, BoardSame DEF InterfaceInv
<1>5. /\ DOMAIN got = {"task", "status", "events", "agents", "results", "cursor"}
      /\ got.events \in Seq(Numbers) /\ got.results \in {0, 1}
      /\ got.cursor.task \in Nat /\ got.cursor.agent \in Nat
  BY DEF InterfaceInv, ReaderTyped
<1>6. /\ DOMAIN got' = DOMAIN got /\ got'.task = t /\ got'.status = rec.status
      /\ got'.events = got.events \o Unprinted(Numbered(rec.log), got.events)
      /\ got'.agents = got.agents \o Unprinted(AgentEvents(rec), got.agents)
      /\ got'.results = IF rec.report.text /\ got.results = 0 THEN 1 ELSE got.results
      /\ got'.cursor = got.cursor
  BY <1>2, <1>5
<1>7. ~Astray /\ ~Acp
  BY <1>1 DEF Astray, Acp
<1>8. /\ Len(got.events) <= Len(rec.log)
      /\ \A i \in 1..Len(got.events) : got.events[i] = [seq |-> i, entry |-> rec.log[i]]
      /\ got.agents = <<>> \/ got.agents = AgentEvents(rec)
  <2>1. CASE got.task = NoTask
    <3>1. got.events = <<>> /\ got.agents = <<>>
      BY <2>1 DEF InterfaceInv, Read
    <3>2. Len(got.events) = 0 /\ Len(rec.log) \in Nat
      BY <1>3, <3>1, LenProperties
    <3> QED BY <3>1, <3>2
  <2>2. CASE got.task # NoTask
    <3>1. Rec = rec
      BY <1>1, <2>2 DEF Rec
    <3> QED BY <1>7, <2>2, <3>1 DEF InterfaceInv, Read
  <2> QED BY <2>1, <2>2
<1> HIDE DEF rec
<1>9. /\ Numbered(rec.log) \in Seq(Numbers) /\ Len(Numbered(rec.log)) = Len(rec.log)
      /\ Len(rec.log) \in Nat /\ DOMAIN rec.log = 1..Len(rec.log)
      /\ DOMAIN Numbered(rec.log) = 1..Len(rec.log)
      /\ \A i \in 1..Len(rec.log) : /\ Numbered(rec.log)[i] = [seq |-> i, entry |-> rec.log[i]]
                                    /\ Numbered(rec.log)[i].seq = i
  BY <1>3, NumberedFacts
<1>10. got'.events = Numbered(rec.log)
  <2>1. Len(got.events) \in Nat /\ DOMAIN got.events = 1..Len(got.events)
    BY <1>5, LenProperties
  <2>2. \A i \in 1..Len(got.events) : i \in 1..Len(rec.log)
    BY <1>8, <1>9, <2>1
  <2>3. Begins(got.events, Numbered(rec.log))
    BY <1>8, <1>9, <2>2 DEF Begins
  <2>4. ASSUME NEW i \in DOMAIN Numbered(rec.log), Numbered(rec.log)[i] \in Range(got.events)
        PROVE  i <= Len(got.events)
    <3>1. PICK j \in 1..Len(got.events) : got.events[j] = Numbered(rec.log)[i]
      BY <2>1, <2>4 DEF Range
    <3>2. Numbered(rec.log)[j].seq = j /\ got.events[j] = Numbered(rec.log)[j]
      BY <1>8, <1>9, <2>2
    <3>3. i = j
      BY <1>9, <3>1, <3>2
    <3> QED BY <2>1, <3>3
  <2>5. Shows(Numbered(rec.log), got.events)
    BY <2>3, <2>4 DEF Shows
  <2> QED BY <1>5, <1>6, <1>9, <2>5, PrintedAndNew
<1>11. got'.agents = AgentEvents(rec)
  <2> DEFINE a == AgentEvents(rec)
  <2>1. a \in Seq(AgentEvent)
    BY <1>3, AgentEventsType
  <2>2. got.agents = <<>> \/ got.agents = a
    BY <1>8
  <2>3. got'.agents = got.agents \o Unprinted(a, got.agents)
    BY <1>6
  <2> HIDE DEF a
  <2>4. Len(a) \in Nat /\ DOMAIN a = 1..Len(a)
    BY <2>1, LenProperties
  <2>5. got.agents \in Seq(AgentEvent)
    BY <2>1, <2>2, EmptySeq
  <2>6. Shows(a, got.agents)
    <3>1. CASE got.agents = a
      BY <2>4, <3>1 DEF Shows, Begins
    <3>2. CASE got.agents = <<>>
      <4>1. Range(got.agents) = {} /\ Len(got.agents) = 0
        BY <3>2 DEF Range
      <4> QED BY <2>4, <4>1 DEF Shows, Begins
    <3> QED BY <2>2, <3>1, <3>2
  <2> QED BY <2>1, <2>3, <2>5, <2>6, PrintedAndNew DEF a
<1>12. ReaderTyped'
  <2>1. got'.events \in Seq(Numbers) /\ got'.status \in Statuses
    BY <1>3, <1>6, <1>9, <1>10 DEF Records
  <2>2. got'.results \in {0, 1}
    BY <1>5, <1>6
  <2>3. reader' # "tui"
    BY <1>1
  <2> QED BY <1>1, <1>5, <1>6, <2>1, <2>2, <2>3 DEF InterfaceInv, ReaderTyped
<1>13. FullRead(rec)
  <2>1. got'.task # NoTask
    BY <1>6, InterfaceAssumption
  <2>2. Rec' = rec
    BY <1>1, <1>6 DEF Rec, rec
  <2>3. rec.report.text => got'.results = 1
    BY <1>5, <1>6
  <2>4. ~Acp'
    BY <1>1 DEF Acp
  <2> QED BY <1>6, <1>10, <1>11, <2>1, <2>2, <2>3, <2>4 DEF FullRead
<1>14. Read' /\ Heard'
  <2>1. ~Acp'
    BY <1>1 DEF Acp
  <2> QED BY <1>3, <1>13, <2>1, FullReadHolds
<1>15. Answered'
  BY <1>1 DEF InterfaceInv, Answered
<1>16. Served'
  <2>1. ~Acp
    BY <1>7
  <2>2. asked = NoLine
    BY <2>1 DEF InterfaceInv, Served
  <2>3. asked.method # "task/events"
    BY <2>2 DEF NoLine
  <2> QED BY <1>1, <2>2, <2>3 DEF InterfaceInv, Served
<1> QED BY <1>4, <1>12, <1>14, <1>15, <1>16 DEF InterfaceInv

-----------------------------------------------------------------------------
(* What the ACP servers have written.                                      *)

\* The ids of the answers, in order, and all of them.
AnswersAre(o, A) ==
  /\ \A i, j \in DOMAIN o : o[i].is # "update" /\ o[j].is # "update" /\ i < j => o[i].id < o[j].id
  /\ {o[i].id : i \in {k \in DOMAIN o : o[k].is # "update"}} = A

InTurn(o, I) == \A i \in DOMAIN o : o[i].id = IF i \in I THEN i ELSE 0

Stored(x) == lost \/ x = NoTask \/ mem[x] # Absent

AllStored(o) == \A i \in DOMAIN o : Stored(o[i].task)

LEMMA AddMessage ==
  ASSUME NEW o \in Seq(Messages), NEW m \in Messages
  PROVE  /\ Append(o, m) \in Seq(Messages)
         /\ AllStored(o) /\ Stored(m.task) => AllStored(Append(o, m))
         /\ \A A : AnswersAre(o, A) /\ m.is = "update" => AnswersAre(Append(o, m), A)
         /\ \A A \in SUBSET Nat : AnswersAre(o, A) /\ m.is # "update" /\ (\A x \in A : x < m.id) =>
              AnswersAre(Append(o, m), A \union {m.id})
         /\ \A I : InTurn(o, I) /\ m.id = (IF Len(o) + 1 \in I THEN Len(o) + 1 ELSE 0) =>
              InTurn(Append(o, m), I)
         /\ Len(Append(o, m)) = Len(o) + 1
<1> DEFINE n == Len(o)
           r == Append(o, m)
<1>1. /\ n \in Nat /\ DOMAIN o = 1..n /\ r \in Seq(Messages) /\ Len(r) = n + 1 /\ DOMAIN r = 1..(n + 1)
      /\ \A i \in 1..n : r[i] = o[i] /\ i \in 1..(n + 1) /\ i < n + 1
      /\ r[n + 1] = m /\ n + 1 \in 1..(n + 1)
      /\ \A i \in 1..(n + 1) : i \in 1..n \/ i = n + 1
      /\ ~(n + 1 < n + 1) /\ \A i \in 1..n : ~(n + 1 < i)
  <2>1. n \in Nat /\ DOMAIN o = 1..n
    BY LenProperties
  <2>2. r \in Seq(Messages) /\ Len(r) = n + 1 /\ (\A i \in 1..n : r[i] = o[i]) /\ r[n + 1] = m
    BY AppendProperties
  <2>3. DOMAIN r = 1..(n + 1)
    BY <2>2, LenProperties
  <2> HIDE DEF n, r
  <2> QED BY <2>1, <2>2, <2>3
<1> HIDE DEF n, r
<1>2. AllStored(o) /\ Stored(m.task) => AllStored(r)
  BY <1>1 DEF AllStored
<1>3. ASSUME NEW A, AnswersAre(o, A), m.is = "update" PROVE AnswersAre(r, A)
  <2>1. \A i, j \in DOMAIN r : r[i].is # "update" /\ r[j].is # "update" /\ i < j => r[i].id < r[j].id
    BY <1>1, <1>3 DEF AnswersAre
  <2>2. {r[i].id : i \in {k \in DOMAIN r : r[k].is # "update"}}
          = {o[i].id : i \in {k \in DOMAIN o : o[k].is # "update"}}
    BY <1>1, <1>3
  <2> QED BY <1>3, <2>1, <2>2 DEF AnswersAre
<1>4. ASSUME NEW A \in SUBSET Nat, AnswersAre(o, A), m.is # "update", \A x \in A : x < m.id
      PROVE  AnswersAre(r, A \union {m.id})
  <2>1. ASSUME NEW i \in DOMAIN r, NEW j \in DOMAIN r,
               r[i].is # "update", r[j].is # "update", i < j
        PROVE  r[i].id < r[j].id
    <3>1. CASE i \in 1..n /\ j \in 1..n
      BY <1>1, <1>4, <2>1, <3>1 DEF AnswersAre
    <3>2. CASE i \in 1..n /\ j = n + 1
      <4>1. r[i] = o[i] /\ i \in DOMAIN o
        BY <1>1, <3>2
      <4>2. r[i].id \in A
        BY <1>4, <2>1, <4>1 DEF AnswersAre
      <4> QED BY <1>1, <1>4, <3>2, <4>2
    <3>3. j # i /\ i \in 1..n
      BY <1>1, <2>1
    <3> QED BY <1>1, <2>1, <3>1, <3>2, <3>3
  <2>2. {r[i].id : i \in {k \in DOMAIN r : r[k].is # "update"}}
          = {o[i].id : i \in {k \in DOMAIN o : o[k].is # "update"}} \union {m.id}
    BY <1>1, <1>4
  <2> QED BY <1>4, <2>1, <2>2 DEF AnswersAre
<1>5. ASSUME NEW I, InTurn(o, I), m.id = (IF n + 1 \in I THEN n + 1 ELSE 0) PROVE InTurn(r, I)
  BY <1>1, <1>5 DEF InTurn
<1> QED BY <1>1, <1>2, <1>3, <1>4, <1>5 DEF n, r

LEMMA AnsweredIs ==
  ASSUME InterfaceInv
  PROVE  /\ AllStored(out)
         /\ reader = "acp" => AnswersAre(out, ids \ {asked.id})
         /\ reader = "embedded" => /\ Len(out) = IF asked = NoLine THEN lines ELSE lines - 1
                                   /\ InTurn(out, ids)
         /\ out \in Seq(Messages) /\ lines \in Nat /\ ids \subseteq 1..lines /\ ids \in SUBSET Nat
<1>1. AllStored(out)
  BY DEF InterfaceInv, Answered, AllStored, Stored
<1>2. reader = "acp" => AnswersAre(out, ids \ {asked.id})
  BY DEF InterfaceInv, Answered, AnswersAre
<1>3. reader = "embedded" => /\ Len(out) = IF asked = NoLine THEN lines ELSE lines - 1
                             /\ InTurn(out, ids)
  BY DEF InterfaceInv, Answered, InTurn
<1>4. out \in Seq(Messages) /\ lines \in Nat /\ ids \subseteq 1..lines
  BY DEF InterfaceInv, ReaderTyped
<1>5. ids \in SUBSET Nat
  BY <1>4
<1> QED BY <1>1, <1>2, <1>3, <1>4, <1>5

LEMMA AnsweredThen ==
  ASSUME /\ \A i \in DOMAIN out' : lost' \/ out'[i].task = NoTask \/ mem'[out'[i].task] # Absent
         /\ reader' = "acp" => AnswersAre(out', ids' \ {asked'.id})
         /\ reader' = "embedded" => /\ Len(out') = IF asked' = NoLine THEN lines' ELSE lines' - 1
                                    /\ InTurn(out', ids')
  PROVE  Answered'
BY DEF Answered, AnswersAre, InTurn

\* A step of a server.
AcpStep ==
  /\ BoardInv' /\ Steady /\ lost' = lost /\ torn' = torn /\ load' = load /\ got' = got
  /\ ReaderTyped' /\ Answered' /\ Served'

LEMMA AcpStepKeeps ==
  ASSUME InterfaceInv, AcpStep
  PROVE  InterfaceInv'
<1>1. Read' /\ Heard'
  BY SteadyReads, ReadKeeps DEF InterfaceInv, AcpStep
<1> QED BY <1>1 DEF InterfaceInv, AcpStep

LEMMA NoLineFacts == NoLine.id = 0 /\ NoLine.method = "none" /\ NoLine \in Lines
BY DEF NoLine, Lines

LEMMA AnswerIs ==
  ASSUME NEW o \in Seq(Messages), NEW l \in Lines, NEW is \in {"result", "error"}
  PROVE  /\ Message(l, is) \in Messages /\ Message(l, is).id = l.id /\ Message(l, is).is # "update"
         /\ Message(l, is).task = NoTask
         /\ o \o Answer(l, is) = IF l.id = 0 /\ reader = "acp" THEN o ELSE Append(o, Message(l, is))
<1> DEFINE m == Message(l, is)
<1>1. m \in Messages /\ m.id = l.id /\ m.is = is /\ m.task = NoTask
  BY DEF Message, Messages, Lines
<1>2. m.is # "update"
  BY <1>1
<1>3. CASE l.id = 0 /\ reader = "acp"
  <2>1. Answer(l, is) = <<>>
    BY <1>3 DEF Answer
  <2> HIDE DEF m
  <2> QED BY <1>1, <1>2, <1>3, <2>1, ConcatEmptySeq DEF m
<1>4. CASE ~(l.id = 0 /\ reader = "acp")
  <2>1. Answer(l, is) = <<m>>
    BY <1>4 DEF Answer
  <2> HIDE DEF m
  <2>2. o \o <<m>> = Append(o, m)
    BY <1>1, AppendIsConcat
  <2> QED BY <1>1, <1>2, <1>4, <2>1, <2>2 DEF m
<1> QED BY <1>3, <1>4

-----------------------------------------------------------------------------
(* A line comes.                                                           *)

LEMMA Kinds ==
  ASSUME InterfaceInv
  PROVE  reader \in {"inspect", "tui", "acp", "embedded"}
BY InterfaceAssumption DEF InterfaceInv, ReaderTyped, reader

LEMMA TakeLineKeeps ==
  ASSUME InterfaceInv, load' = load, NEW l \in Lines, l.id \in {0, lines + 1}, l.method \in Methods,
         l.method = "task/events" => l.task \in Task /\ got.task \in {NoTask, l.task},
         TakeLine(l)
  PROVE  InterfaceInv'
<1>1. /\ Acp /\ asked = NoLine /\ ~ended /\ lines' = lines + 1
      /\ ids' = (IF l.id = 0 THEN ids ELSE ids \union {l.id})
      /\ UNCHANGED boardVars /\ got' = got /\ ended' = ended /\ prompted' = prompted
      /\ lost' = lost /\ torn' = torn /\ todo' = todo /\ mem' = mem
      /\ reader' = reader /\ Acp' = Acp
  BY DEF TakeLine, boardVars, reader, Acp
<1>2. BoardInv' /\ Steady
  BY <1>1, BoardSame DEF InterfaceInv
<1>3. /\ AllStored(out)
      /\ reader = "acp" => AnswersAre(out, ids)
      /\ reader = "embedded" => Len(out) = lines /\ InTurn(out, ids)
      /\ out \in Seq(Messages) /\ lines \in Nat /\ ids \subseteq 1..lines /\ ids \in SUBSET Nat
  <2>1. 0 \notin ids /\ ids \ {asked.id} = ids
    <3>1. ids \subseteq 1..lines /\ lines \in Nat
      BY AnsweredIs
    <3>2. 0 \notin ids
      BY <3>1
    <3> QED BY <1>1, <3>2, NoLineFacts
  <2> QED BY <1>1, <2>1, AnsweredIs
<1>4. /\ ids' \subseteq 1..lines' /\ lines' \in Nat
      /\ l.id = (IF lines + 1 \in ids' THEN lines + 1 ELSE 0)
      /\ \A x \in ids : x < lines + 1
      /\ ids' \ {l.id} = ids
      /\ \A i \in 1..lines : i \in ids' <=> i \in ids
  <2>1. lines \in Nat /\ \A x \in ids : x \in 1..lines
    BY <1>3
  <2>2. \A x \in ids : x < lines + 1 /\ x # lines + 1 /\ x # 0 /\ x \in 1..(lines + 1)
    BY <2>1
  <2>3. lines + 1 # 0 /\ lines + 1 \in 1..(lines + 1) /\ (\A i \in 1..lines : i # lines + 1)
    BY <2>1
  <2>4. CASE l.id = 0
    <3>1. ids' = ids
      BY <1>1, <2>4
    <3> QED BY <1>1, <2>1, <2>2, <2>3, <2>4, <3>1
  <2>5. CASE l.id # 0
    <3>1. l.id = lines + 1 /\ ids' = ids \union {lines + 1}
      BY <1>1, <2>5
    <3> QED BY <1>1, <2>1, <2>2, <2>3, <3>1
  <2> QED BY <2>4, <2>5
<1>5. conn = "none" /\ prompted = NoTask
  BY <1>1 DEF InterfaceInv, Served
<1>6. reader = "embedded" => todo = <<>> /\ ~lost /\ ~torn
  BY <1>1, <1>5 DEF InterfaceInv, Served
<1>7. \/ (\E is \in {"result", "error"} : out' = out \o Answer(l, is)) /\ asked' = asked /\ conn' = conn
      \/ /\ out' = out /\ asked' = l /\ conn' = "open"
         /\ l.method \in {"session/prompt", "session/cancel", "task/events"}
  <2>1. CASE Refused(l)
    BY <2>1 DEF TakeLine
  <2>2. CASE ~Refused(l) /\ l.method \in {"initialize", "session/new"}
    BY <2>2 DEF TakeLine
  <2>3. CASE ~Refused(l) /\ l.method \notin {"initialize", "session/new"}
    <3>1. l.method \in {"session/prompt", "session/cancel", "task/events"}
      BY <2>3 DEF Refused, Methods
    <3>2. Serve(l)
      BY <2>3 DEF TakeLine
    <3> QED BY <3>1, <3>2 DEF Serve
  <2> QED BY <2>1, <2>2, <2>3
<1>8. ReaderTyped' \/ out' \notin Seq(Messages)
  <2>1. asked' \in Lines /\ conn' \in {"none", "open", "drained", "served", "broken"}
    BY <1>1, <1>5, <1>7, NoLineFacts
  <2> QED BY <1>1, <1>4, <2>1 DEF InterfaceInv, ReaderTyped
<1>9. CASE (\E is \in {"result", "error"} : out' = out \o Answer(l, is)) /\ asked' = asked /\ conn' = conn
  <2>1. PICK is \in {"result", "error"} : out' = out \o Answer(l, is)
    BY <1>9
  <2> DEFINE m == Message(l, is)
  <2>2. /\ m \in Messages /\ m.id = l.id /\ m.is # "update" /\ m.task = NoTask
        /\ out' = IF l.id = 0 /\ reader = "acp" THEN out ELSE Append(out, m)
    BY <1>3, <2>1, AnswerIs
  <2> HIDE DEF m
  <2>3. /\ Append(out, m) \in Seq(Messages)
        /\ AllStored(out) /\ Stored(m.task) => AllStored(Append(out, m))
        /\ AnswersAre(out, ids) /\ m.is # "update" /\ (\A x \in ids : x < m.id) =>
             AnswersAre(Append(out, m), ids \union {m.id})
        /\ InTurn(out, ids') /\ m.id = (IF Len(out) + 1 \in ids' THEN Len(out) + 1 ELSE 0) =>
             InTurn(Append(out, m), ids')
        /\ Len(Append(out, m)) = Len(out) + 1
    BY <1>3, <2>2, AddMessage
  <2>4. out' \in Seq(Messages)
    BY <1>3, <2>2, <2>3
  <2>5. AllStored(out')
    BY <1>3, <2>2, <2>3 DEF Stored
  <2>6. asked' = NoLine /\ conn' = "none"
    BY <1>1, <1>5, <1>9
  <2>7. reader = "acp" => AnswersAre(out', ids' \ {asked'.id})
    <3>1. ids' \ {asked'.id} = ids'
      <4>1. 0 \notin ids'
        BY <1>4
      <4> QED BY <2>6, <4>1, NoLineFacts
    <3>2. CASE l.id = 0
      BY <1>1, <1>3, <2>2, <3>1, <3>2
    <3>3. CASE l.id # 0
      <4>1. l.id = lines + 1 /\ ids' = ids \union {l.id}
        BY <1>1, <3>3
      <4> QED BY <1>3, <1>4, <2>2, <2>3, <3>1, <3>3, <4>1
    <3> QED BY <3>2, <3>3
  <2>8. reader = "embedded" => Len(out') = lines' /\ InTurn(out', ids')
    <3> SUFFICES ASSUME reader = "embedded" PROVE Len(out') = lines' /\ InTurn(out', ids')
      OBVIOUS
    <3>1. Len(out) = lines /\ DOMAIN out = 1..lines
      BY <1>3, LenProperties
    <3>2. InTurn(out, ids')
      BY <1>3, <1>4, <3>1 DEF InTurn
    <3>3. m.id = (IF Len(out) + 1 \in ids' THEN Len(out) + 1 ELSE 0)
      BY <1>4, <2>2, <3>1
    <3> QED BY <1>1, <2>2, <2>3, <3>1, <3>2, <3>3
  <2>9. Answered'
    <3>1. \A i \in DOMAIN out' : lost' \/ out'[i].task = NoTask \/ mem'[out'[i].task] # Absent
      BY <1>1, <2>5 DEF AllStored, Stored
    <3> QED BY <1>1, <2>6, <2>7, <2>8, <3>1, AnsweredThen
  <2>10. Served'
    <3>1. asked'.method # "task/events"
      BY <2>6, NoLineFacts
    <3> QED BY <1>1, <1>5, <1>6, <2>6, <3>1 DEF Served
  <2> QED BY <1>1, <1>2, <1>8, <2>4, <2>9, <2>10, AcpStepKeeps DEF AcpStep
<1>10. CASE /\ out' = out /\ asked' = l /\ conn' = "open"
            /\ l.method \in {"session/prompt", "session/cancel", "task/events"}
  <2>1. l # NoLine
    BY <1>10, NoLineFacts
  <2>2. Answered'
    <3>1. \A i \in DOMAIN out' : lost' \/ out'[i].task = NoTask \/ mem'[out'[i].task] # Absent
      BY <1>1, <1>3, <1>10 DEF AllStored, Stored
    <3>2. reader = "acp" => AnswersAre(out', ids' \ {asked'.id})
      BY <1>3, <1>4, <1>10
    <3>3. reader = "embedded" => Len(out') = lines' - 1 /\ InTurn(out', ids')
      <4> SUFFICES ASSUME reader = "embedded" PROVE Len(out') = lines' - 1 /\ InTurn(out', ids')
        OBVIOUS
      <4>1. Len(out) = lines /\ DOMAIN out = 1..lines /\ lines + 1 - 1 = lines
        BY <1>3, LenProperties
      <4>2. InTurn(out, ids')
        BY <1>3, <1>4, <4>1 DEF InTurn
      <4> QED BY <1>1, <1>10, <4>1, <4>2
    <3> QED BY <1>1, <1>10, <2>1, <3>1, <3>2, <3>3, AnsweredThen
  <2>3. Served'
    <3>1. lines' > 0
      BY <1>1, <1>3
    <3>2. asked'.id = IF lines' \in ids' THEN lines' ELSE 0
      BY <1>1, <1>4, <1>10
    <3> QED BY <1>1, <1>5, <1>6, <1>10, <2>1, <3>1, <3>2 DEF Served
  <2> QED BY <1>1, <1>2, <1>3, <1>8, <1>10, <2>2, <2>3, AcpStepKeeps DEF AcpStep
<1> QED BY <1>7, <1>9, <1>10

LEMMA LineKeeps ==
  ASSUME InterfaceInv, load' = load, Line
  PROVE  InterfaceInv'
<1>1. PICK m \in Methods, withId \in BOOLEAN, t \in load.tasks : \E f \in Flaws(m) :
        /\ t = IF got.task = NoTask THEN t ELSE got.task
        /\ TakeLine([id |-> IF withId THEN lines + 1 ELSE 0, method |-> m, flaw |-> f,
                     task |-> IF m = "task/events" THEN t ELSE NoTask])
  BY DEF Line
<1>2. PICK f \in Flaws(m) :
        /\ t = IF got.task = NoTask THEN t ELSE got.task
        /\ TakeLine([id |-> IF withId THEN lines + 1 ELSE 0, method |-> m, flaw |-> f,
                     task |-> IF m = "task/events" THEN t ELSE NoTask])
  BY <1>1
<1> DEFINE l == [id |-> IF withId THEN lines + 1 ELSE 0, method |-> m, flaw |-> f,
                 task |-> IF m = "task/events" THEN t ELSE NoTask]
<1>3. t \in Task /\ lines \in Nat
  BY InterfaceAssumption DEF InterfaceInv, ReaderTyped
<1>4. f \in {"none", "session", "params", "workspace"}
  BY DEF Flaws
<1>5. l \in Lines
  BY <1>3, <1>4 DEF Lines
<1>6. /\ l.id \in {0, lines + 1} /\ l.method \in Methods
      /\ l.method = "task/events" => l.task \in Task /\ got.task \in {NoTask, l.task}
  BY <1>2, <1>3
<1>7. TakeLine(l)
  BY <1>2
<1> HIDE DEF l
<1> QED BY <1>5, <1>6, <1>7, TakeLineKeeps

-----------------------------------------------------------------------------
(* A request is answered.                                                  *)

\* An update of the proxy may come before the answer.
Updated(o) ==
  \/ o = out
  \/ reader = "acp" /\ \E u \in Messages : u.is = "update" /\ Stored(u.task) /\ o = Append(out, u)

\* What all replies do.
Replied ==
  /\ asked # NoLine /\ asked' = NoLine /\ conn' = "none" /\ prompted' = NoTask
  /\ UNCHANGED boardVars /\ load' = load /\ ended' = ended /\ lines' = lines /\ ids' = ids
  /\ reader = "embedded" => todo = <<>>

LEMMA ReplyKeeps ==
  ASSUME InterfaceInv, Replied, NEW o \in Seq(Messages), Updated(o), NEW m \in Messages,
         m.id = asked.id, m.is # "update", Stored(m.task),
         out' = IF asked.id = 0 /\ reader = "acp" THEN o ELSE Append(o, m)
  PROVE  /\ BoardInv' /\ Steady /\ lost' = lost /\ torn' = torn
         /\ out' \in Seq(Messages) /\ Answered' /\ Served'
<1>1. /\ asked # NoLine /\ asked' = NoLine /\ conn' = "none" /\ prompted' = NoTask
      /\ load' = load /\ ended' = ended /\ lines' = lines /\ ids' = ids
      /\ lost' = lost /\ torn' = torn /\ todo' = todo /\ mem' = mem
      /\ reader' = reader /\ Acp' = Acp
      /\ reader = "embedded" => todo = <<>>
  BY DEF Replied, boardVars, reader, Acp
<1>2. BoardInv' /\ Steady
  BY BoardSame DEF InterfaceInv, Replied
<1>3. /\ lines \in Nat \ {0} /\ asked.id = (IF lines \in ids THEN lines ELSE 0)
      /\ reader = "embedded" => ~lost /\ ~torn
  BY <1>1, AnsweredIs DEF InterfaceInv, Served
<1> DEFINE A == ids \ {asked.id}
<1>4. /\ 0 \notin ids /\ A \in SUBSET Nat
      /\ asked.id # 0 => asked.id = lines /\ ids = A \union {asked.id} /\ \A x \in A : x < asked.id
      /\ asked.id = 0 => ids = A
  <2>1. ids \subseteq 1..lines /\ ids \in SUBSET Nat
    BY AnsweredIs
  <2>2. 0 \notin ids
    BY <1>3, <2>1
  <2>3. \A x \in ids : x # lines => x < lines
    BY <1>3, <2>1
  <2> QED BY <1>3, <2>1, <2>2, <2>3
<1> HIDE DEF A
<1>5. AllStored(o) /\ (reader = "acp" => AnswersAre(o, A)) /\ (reader = "embedded" => o = out)
  <2>1. CASE o = out
    BY <2>1, AnsweredIs DEF A
  <2>2. ASSUME reader = "acp", NEW u \in Messages, u.is = "update", Stored(u.task), o = Append(out, u)
        PROVE  AllStored(o) /\ (reader = "acp" => AnswersAre(o, A)) /\ reader # "embedded"
    <3>1. AllStored(out) /\ AnswersAre(out, A) /\ out \in Seq(Messages)
      BY <2>2, AnsweredIs DEF A
    <3> QED BY <2>2, <3>1, AddMessage
  <2> QED BY <2>1, <2>2 DEF Updated
<1>6. /\ Append(o, m) \in Seq(Messages)
      /\ AllStored(Append(o, m))
      /\ AnswersAre(o, A) /\ m.is # "update" /\ (\A x \in A : x < m.id) =>
           AnswersAre(Append(o, m), A \union {m.id})
      /\ InTurn(o, ids) /\ m.id = (IF Len(o) + 1 \in ids THEN Len(o) + 1 ELSE 0) =>
           InTurn(Append(o, m), ids)
      /\ Len(Append(o, m)) = Len(o) + 1
  BY <1>4, <1>5, AddMessage
<1>7. out' \in Seq(Messages) /\ AllStored(out')
  BY <1>5, <1>6
<1>8. reader = "acp" => AnswersAre(out', ids' \ {asked'.id})
  <2>1. ids' \ {asked'.id} = ids
    BY <1>1, <1>4, NoLineFacts
  <2>2. CASE asked.id = 0
    BY <1>4, <1>5, <2>1, <2>2
  <2>3. CASE asked.id # 0
    BY <1>4, <1>5, <1>6, <2>1, <2>3
  <2> QED BY <2>2, <2>3
<1>9. reader = "embedded" => Len(out') = lines' /\ InTurn(out', ids')
  <2> SUFFICES ASSUME reader = "embedded" PROVE Len(out') = lines' /\ InTurn(out', ids')
    OBVIOUS
  <2>1. Len(out) = lines - 1 /\ InTurn(out, ids) /\ o = out
    BY <1>1, <1>5, AnsweredIs
  <2>2. Len(o) + 1 = lines
    BY <1>3, <2>1
  <2> QED BY <1>1, <1>3, <1>6, <2>1, <2>2
<1>10. Answered'
  <2>1. \A i \in DOMAIN out' : lost' \/ out'[i].task = NoTask \/ mem'[out'[i].task] # Absent
    BY <1>1, <1>7 DEF AllStored, Stored
  <2> QED BY <1>1, <1>8, <1>9, <2>1, AnsweredThen
<1>11. Served'
  <2>1. asked'.method # "task/events"
    BY <1>1, NoLineFacts
  <2> QED BY <1>1, <1>3, <2>1 DEF Served
<1> QED BY <1>1, <1>2, <1>7, <1>10, <1>11

LEMMA ReplySame ==
  ASSUME InterfaceInv, Replied, got' = got, NEW o \in Seq(Messages), Updated(o), NEW m \in Messages,
         m.id = asked.id, m.is # "update", Stored(m.task),
         out' = IF asked.id = 0 /\ reader = "acp" THEN o ELSE Append(o, m)
  PROVE  InterfaceInv'
<1>1. /\ BoardInv' /\ Steady /\ lost' = lost /\ torn' = torn
      /\ out' \in Seq(Messages) /\ Answered' /\ Served'
  BY ReplyKeeps
<1>2. load' = load /\ ReaderTyped'
  <2>1. asked' \in Lines /\ conn' = "none" /\ prompted' = NoTask
    BY NoLineFacts DEF Replied
  <2>2. load' = load /\ ended' = ended /\ lines' = lines /\ ids' = ids /\ reader' = reader
    BY DEF Replied, reader
  <2> QED BY <1>1, <2>1, <2>2 DEF InterfaceInv, ReaderTyped
<1> QED BY <1>1, <1>2, AcpStepKeeps DEF AcpStep

\* The update of a prompt and its answer.
LEMMA UpdateAndAnswer ==
  ASSUME InterfaceInv, Replied, got' = got, reader = "acp", NEW is \in {"result", "error"},
         NEW x \in Task \union {NoTask}, Stored(x),
         \/ out' = out \o (<<Update(x)>> \o Answer(asked, is))
         \/ out' = out \o Answer(asked, is)
         \/ out' = out \o (<<>> \o Answer(asked, is))
  PROVE  InterfaceInv'
<1> DEFINE m == Message(asked, is)
           u == Update(x)
           a == Answer(asked, is)
           d == <<u>>
<1>1. asked \in Lines /\ out \in Seq(Messages)
  BY DEF InterfaceInv, ReaderTyped
<1>2. /\ m \in Messages /\ m.id = asked.id /\ m.is # "update" /\ m.task = NoTask
      /\ \A o \in Seq(Messages) :
           o \o a = IF asked.id = 0 /\ reader = "acp" THEN o ELSE Append(o, m)
  BY <1>1, AnswerIs
<1>3. u \in Messages /\ u.is = "update" /\ u.task = x
  BY DEF Update, Messages
<1>4. a \in Seq(Messages) /\ <<>> \o a = a
  <2>1. a = <<>> \/ a = <<m>>
    BY DEF Answer
  <2>2. <<m>> \in Seq(Messages) /\ <<>> \in Seq(Messages)
    BY <1>2
  <2>3. a \in Seq(Messages)
    BY <2>1, <2>2
  <2> HIDE DEF a
  <2> QED BY <2>3, ConcatEmptySeq
<1>5. d \in Seq(Messages)
  BY <1>3
<1>6. out' = out \o (d \o a) \/ out' = out \o a \/ out' = out \o (<<>> \o a)
  OBVIOUS
<1> HIDE DEF m, u, a, d
<1>7. Stored(m.task)
  BY <1>2 DEF Stored
<1>8. CASE out' = out \o a
  <2>1. Updated(out)
    BY DEF Updated
  <2> QED BY <1>1, <1>2, <1>7, <1>8, <2>1, ReplySame
<1>9. CASE out' = out \o (d \o a)
  <2> DEFINE o == Append(out, u)
  <2>1. o \in Seq(Messages) /\ o = out \o d
    <3>1. o \in Seq(Messages)
      BY <1>1, <1>3, AppendProperties
    <3>2. o = out \o d
      BY <1>1, <1>3, AppendIsConcat DEF d
    <3> QED BY <3>1, <3>2
  <2>2. Updated(o)
    BY <1>3 DEF Updated
  <2>3. out \o (d \o a) = (out \o d) \o a
    BY <1>1, <1>4, <1>5, ConcatAssociative
  <2> HIDE DEF o
  <2>4. out' = IF asked.id = 0 /\ reader = "acp" THEN o ELSE Append(o, m)
    BY <1>2, <1>9, <2>1, <2>3
  <2> QED BY <1>2, <1>7, <2>1, <2>2, <2>4, ReplySame
<1> QED BY <1>4, <1>6, <1>8, <1>9

LEMMA RepliedFacts ==
  ASSUME InterfaceInv, load' = load, NEW messages, Reply(messages), conn # "none",
         reader = "embedded" => todo = <<>>
  PROVE  Replied /\ out' = out \o messages
BY DEF InterfaceInv, Served, Reply, Replied

LEMMA ReplyTurnKeeps ==
  ASSUME InterfaceInv, load' = load, ReplyTurn
  PROVE  InterfaceInv'
<1> DEFINE answers == IF asked.method = "session/prompt"
                      THEN <<Update(prompted)>> \o Answer(asked, "result")
                      ELSE Answer(asked, "result")
<1>1. /\ reader = "acp" /\ conn = "served" /\ todo = <<>> /\ got' = got
      /\ Reply(answers)
  BY DEF ReplyTurn
<1>2. Replied /\ out' = out \o answers
  <2> HIDE DEF answers
  <2>1. conn # "none" /\ (reader = "embedded" => todo = <<>>)
    BY <1>1
  <2> QED BY <1>1, <2>1, RepliedFacts
<1>3. Stored(prompted) /\ prompted \in Task \union {NoTask}
  <2>1. prompted \in Task \union {NoTask}
    BY DEF InterfaceInv, ReaderTyped
  <2>2. Stored(prompted)
    BY <1>1 DEF InterfaceInv, Served, Stored
  <2> QED BY <2>1, <2>2
<1>4. \/ out' = out \o (<<Update(prompted)>> \o Answer(asked, "result"))
      \/ out' = out \o Answer(asked, "result")
  BY <1>2
<1> QED BY <1>1, <1>2, <1>3, <1>4, UpdateAndAnswer

LEMMA ReplyFailedKeeps ==
  ASSUME InterfaceInv, load' = load, ReplyFailed
  PROVE  InterfaceInv'
<1>1. /\ conn = "broken" /\ got' = got
      /\ Reply((IF asked.method = "session/prompt" THEN <<Update(NoTask)>> ELSE <<>>)
                 \o Answer(asked, "error"))
  BY DEF ReplyFailed
<1>2. reader = "acp"
  BY <1>1 DEF InterfaceInv, Served
<1>3. /\ Replied
      /\ out' = out \o ((IF asked.method = "session/prompt" THEN <<Update(NoTask)>> ELSE <<>>)
                          \o Answer(asked, "error"))
  BY <1>1, <1>2, RepliedFacts
<1>4. Stored(NoTask)
  BY DEF Stored
<1>5. \/ out' = out \o (<<Update(NoTask)>> \o Answer(asked, "error"))
      \/ out' = out \o (<<>> \o Answer(asked, "error"))
  BY <1>3
<1> QED BY <1>1, <1>2, <1>3, <1>4, <1>5, UpdateAndAnswer

LEMMA ReplyInSessionKeeps ==
  ASSUME InterfaceInv, load' = load, ReplyInSession
  PROVE  InterfaceInv'
<1> DEFINE m == [Message(asked, "result") EXCEPT !.task = prompted]
<1>1. reader = "embedded" /\ conn = "served" /\ todo = <<>> /\ got' = got /\ Reply(<<m>>)
  BY DEF ReplyInSession
<1>2. Replied /\ out' = out \o <<m>>
  <2> HIDE DEF m
  <2> QED BY <1>1, RepliedFacts
<1>3. asked \in Lines /\ out \in Seq(Messages) /\ prompted \in Task \union {NoTask}
  BY DEF InterfaceInv, ReaderTyped
<1>4. m \in Messages /\ m.id = asked.id /\ m.is = "result" /\ m.task = prompted
  BY <1>3 DEF Message, Messages, Lines
<1>5. Stored(m.task)
  BY <1>1, <1>4 DEF InterfaceInv, Served, Stored
<1> HIDE DEF m
<1>6. out' = Append(out, m) /\ Updated(out) /\ reader # "acp"
  <2>1. Append(out, m) = out \o <<m>>
    BY <1>3, <1>4, AppendIsConcat
  <2> QED BY <1>1, <1>2, <2>1 DEF Updated
<1> QED BY <1>1, <1>2, <1>3, <1>4, <1>5, <1>6, ReplySame

-----------------------------------------------------------------------------
(* What is new to a reader who comes with a cursor.                        *)

LEMMA Continued ==
  ASSUME NEW S, NEW s \in Seq(S), NEW n \in Nat, n <= Len(s)
  PROVE  /\ SubSeq(s, n + 1, Len(s)) \in Seq(S) /\ Len(SubSeq(s, n + 1, Len(s))) = Len(s) - n
         /\ \A i \in 1..(Len(s) - n) : SubSeq(s, n + 1, Len(s))[i] = s[n + i]
<1> DEFINE L == Len(s)
<1>1. L \in Nat /\ \A i \in 1..L : s[i] \in S
  BY LenProperties
<1> HIDE DEF L
<1>2. n + 1 \in Int /\ L \in Int /\ \A i \in (n + 1)..L : s[i] \in S
  BY <1>1
<1> DEFINE r == SubSeq(s, n + 1, L)
<1>3. /\ r \in Seq(S) /\ Len(r) = IF n + 1 <= L THEN L - (n + 1) + 1 ELSE 0
      /\ \A i \in 1..(L - (n + 1) + 1) : r[i] = s[n + 1 + i - 1]
  BY <1>2, SubSeqProperties
<1> HIDE DEF r
<1>4. n <= L
  BY DEF L
<1>5. Len(r) = L - n
  BY <1>1, <1>3, <1>4
<1>6. ASSUME NEW i \in 1..(L - n) PROVE r[i] = s[n + i]
  <2>1. i \in 1..(L - (n + 1) + 1) /\ n + 1 + i - 1 = n + i
    BY <1>1
  <2> QED BY <1>3, <2>1
<1> QED BY <1>3, <1>5, <1>6 DEF r, L

\* What was there, and the rest.
LEMMA RestOf ==
  ASSUME NEW S, NEW s \in Seq(S), NEW p \in Seq(S), p = <<>> \/ p = s
  PROVE  p \o SubSeq(s, Len(p) + 1, Len(s)) = s
<1> DEFINE n == Len(p)
           r == SubSeq(s, n + 1, Len(s))
<1>1. n \in Nat /\ Len(s) \in Nat
  BY LenProperties
<1>2. p = <<>> => n = 0
  OBVIOUS
<1>3. n <= Len(s)
  BY <1>1, <1>2
<1> HIDE DEF n
<1>4. r \in Seq(S) /\ Len(r) = Len(s) - n /\ \A i \in 1..(Len(s) - n) : r[i] = s[n + i]
  BY <1>1, <1>3, Continued
<1> HIDE DEF r
<1>5. CASE p = <<>>
  <2>1. \A i \in 1..Len(s) : r[i] = s[i]
    BY <1>1, <1>2, <1>4, <1>5
  <2>2. Len(r) = Len(s)
    BY <1>1, <1>2, <1>4, <1>5
  <2>3. r = s
    BY <1>4, <2>1, <2>2, SeqEqual
  <2> QED BY <1>4, <1>5, <2>3, ConcatEmptySeq DEF r, n
<1>6. CASE p = s
  <2>1. Len(r) = 0
    BY <1>1, <1>4, <1>6 DEF n
  <2>2. r = <<>>
    BY <1>4, <2>1, EmptySeq
  <2> QED BY <1>6, <2>2, ConcatEmptySeq DEF r, n
<1> QED BY <1>5, <1>6

\* The entries the client appends to what it has.
NewNumbers(log, from) ==
  LET new == SubSeq(log, from + 1, Len(log)) IN
  [i \in DOMAIN new |-> [seq |-> from + i, entry |-> new[i]]]

LEMMA NewNumbersFacts ==
  ASSUME NEW log \in Seq(Entries), NEW from \in Nat
  PROVE  /\ NewNumbers(log, from) \in Seq(Numbers)
         /\ \A e \in Seq(Numbers) :
              /\ Len(e) = from /\ from <= Len(log)
              /\ \A i \in 1..from : e[i] = [seq |-> i, entry |-> log[i]]
              => e \o NewNumbers(log, from) = Numbered(log)
<1> DEFINE L == Len(log)
           new == SubSeq(log, from + 1, L)
           s == NewNumbers(log, from)
<1>1. L \in Nat /\ \A i \in 1..L : log[i] \in Entries
  BY LenProperties
<1>2. new \in Seq(Entries)
  <2>1. from + 1 \in Int /\ L \in Int /\ \A i \in (from + 1)..L : log[i] \in Entries
    BY <1>1
  <2> HIDE DEF L
  <2> QED BY <2>1, SubSeqProperties
<1>3. s = [i \in DOMAIN new |-> [seq |-> from + i, entry |-> new[i]]]
  BY DEF NewNumbers
<1> HIDE DEF L, new, s
<1>4. Len(new) \in Nat /\ DOMAIN new = 1..Len(new) /\ \A i \in 1..Len(new) : new[i] \in Entries
  BY <1>2, LenProperties
<1>5. s \in [1..Len(new) -> Numbers]
  BY <1>3, <1>4 DEF Numbers
<1>6. s \in Seq(Numbers)
  BY <1>4, <1>5, SeqDef
<1>7. Len(s) = Len(new)
  BY <1>4, <1>5, <1>6, LenProperties
<1>8. ASSUME NEW e \in Seq(Numbers), Len(e) = from, from <= L,
             \A i \in 1..from : e[i] = [seq |-> i, entry |-> log[i]]
      PROVE  e \o s = Numbered(log)
  <2>1. Len(new) = L - from /\ \A i \in 1..(L - from) : new[i] = log[from + i]
    BY <1>8, Continued DEF L, new
  <2>2. e \o s \in Seq(Numbers) /\ Len(e \o s) = from + Len(s)
        /\ \A i \in 1..(from + Len(s)) : (e \o s)[i] = IF i <= from THEN e[i] ELSE s[i - from]
    BY <1>6, <1>8, ConcatProperties
  <2>3. /\ Numbered(log) \in Seq(Numbers) /\ Len(Numbered(log)) = L
        /\ \A i \in 1..L : Numbered(log)[i] = [seq |-> i, entry |-> log[i]]
    BY NumberedFacts DEF L
  <2> DEFINE r == e \o s
             t == Numbered(log)
  <2> HIDE DEF r, t
  <2>4. Len(r) = L
    BY <1>1, <1>7, <2>1, <2>2 DEF r
  <2>5. ASSUME NEW i \in 1..L PROVE r[i] = t[i]
    <3>1. CASE i <= from
      <4>1. i \in 1..from /\ i \in 1..(from + Len(s))
        BY <1>1, <1>7, <2>1, <3>1
      <4> QED BY <1>8, <2>2, <2>3, <3>1, <4>1 DEF r, t
    <3>2. CASE ~(i <= from)
      <4>1. /\ i - from \in 1..(L - from) /\ i \in 1..(from + Len(s))
            /\ from + (i - from) = i /\ i - from \in DOMAIN new
        BY <1>1, <1>4, <1>7, <2>1, <3>2
      <4>2. s[i - from] = [seq |-> i, entry |-> log[i]]
        BY <1>3, <2>1, <4>1
      <4> QED BY <2>2, <2>3, <3>2, <4>1, <4>2 DEF r, t
    <3> QED BY <3>1, <3>2
  <2> QED BY <2>2, <2>3, <2>4, <2>5, SeqEqual DEF r, t
<1> QED BY <1>6, <1>8 DEF s, L

\* A client that is given what is new.
Caught(t) ==
  LET rec == mem[t] IN
  /\ DOMAIN got' = DOMAIN got /\ got'.task = t /\ got'.status = rec.status
  /\ got'.events = got.events \o NewNumbers(rec.log, got.cursor.task)
  /\ got'.agents = got.agents \o
       SubSeq(AgentEvents(rec), got.cursor.agent + 1, Len(AgentEvents(rec)))
  /\ got'.results = got.results
  /\ got'.cursor = [task |-> Len(rec.log), agent |-> Len(AgentEvents(rec))]

LEMMA CaughtAll ==
  ASSUME InterfaceInv, NEW t \in Task, got.task \in {NoTask, t}, Acp, ~Astray, Caught(t)
  PROVE  got'.events = Numbered(mem[t].log) /\ got'.agents = AgentEvents(mem[t])
<1> DEFINE rec == mem[t]
           a == AgentEvents(rec)
<1>1. rec \in Records
  BY DEF InterfaceInv, BoardInv, BoardTyped
<1>2. rec.log \in Seq(Entries) /\ a \in Seq(AgentEvent) /\ Len(rec.log) \in Nat
  <2>1. rec.log \in Seq(Entries)
    BY <1>1 DEF Records
  <2>2. a \in Seq(AgentEvent)
    <3> HIDE DEF rec
    <3> QED BY <1>1, AgentEventsType
  <2> HIDE DEF rec
  <2> QED BY <2>1, <2>2, LenProperties
<1>3. got.events \in Seq(Numbers)
  BY DEF InterfaceInv, ReaderTyped
<1>4. /\ Len(got.events) <= Len(rec.log)
      /\ \A i \in 1..Len(got.events) : got.events[i] = [seq |-> i, entry |-> rec.log[i]]
      /\ got.agents = <<>> \/ got.agents = a
      /\ got.cursor.task = Len(got.events) /\ got.cursor.agent = Len(got.agents)
  <2>1. CASE got.task = NoTask
    <3>1. got.events = <<>> /\ got.agents = <<>> /\ got.cursor = Start
      BY <2>1 DEF InterfaceInv, Read
    <3>2. Len(got.events) = 0 /\ Len(got.agents) = 0 /\ got.cursor.task = 0 /\ got.cursor.agent = 0
      BY <3>1 DEF Start
    <3> HIDE DEF rec, a
    <3> QED BY <1>2, <3>1, <3>2
  <2>2. CASE got.task # NoTask
    <3>1. Rec = rec
      <4>1. got.task = t /\ reader # "inspect"
        BY <2>2 DEF Acp
      <4> QED BY <4>1 DEF Rec
    <3>2. got.cursor = [task |-> Len(got.events), agent |-> Len(got.agents)]
      BY <2>2 DEF InterfaceInv, Read
    <3>3. got.cursor.task = Len(got.events) /\ got.cursor.agent = Len(got.agents)
      BY <3>2
    <3> QED BY <2>2, <3>1, <3>3 DEF InterfaceInv, Read
  <2> QED BY <2>1, <2>2
<1>5. /\ got'.events = got.events \o NewNumbers(rec.log, Len(got.events))
      /\ got'.agents = got.agents \o SubSeq(a, Len(got.agents) + 1, Len(a))
  BY <1>4 DEF Caught
<1> HIDE DEF rec, a
<1>6. got'.events = Numbered(rec.log)
  <2>1. Len(got.events) \in Nat
    BY <1>3, LenProperties
  <2> QED BY <1>2, <1>3, <1>4, <1>5, <2>1, NewNumbersFacts
<1>7. got'.agents = a
  <2>1. got.agents \in Seq(AgentEvent)
    BY <1>2, <1>4, EmptySeq
  <2> QED BY <1>2, <1>4, <1>5, <2>1, RestOf
<1> QED BY <1>6, <1>7 DEF rec, a

-----------------------------------------------------------------------------
(* task/events.                                                            *)

LEMMA CaughtKeeps ==
  ASSUME InterfaceInv, NEW t \in Task, got.task \in {NoTask, t}, Acp, todo = <<>>, mem[t] # Absent,
         Caught(t), BoardInv', UNCHANGED boardVars, load' = load
  PROVE  /\ Read' /\ Heard'
         /\ got'.events \in Seq(Numbers) /\ got'.status \in Statuses
         /\ got'.cursor.task \in Nat /\ got'.cursor.agent \in Nat
<1> DEFINE rec == mem[t]
           a == AgentEvents(rec)
<1>1. /\ mem' = mem /\ torn' = torn /\ lost' = lost /\ reader' = reader /\ Acp' = Acp
      /\ (Astray' <=> Astray)
  BY DEF boardVars, reader, Acp, Astray
<1>2. rec \in Records /\ Sound(rec)
  BY DEF InterfaceInv, BoardInv, BoardTyped, Kept
<1>3. rec.log \in Seq(Entries) /\ rec.status \in Statuses
  BY <1>2 DEF Records
<1>4. /\ DOMAIN got' = DOMAIN got /\ got'.task = t /\ got'.status = rec.status
      /\ got'.events = got.events \o NewNumbers(rec.log, got.cursor.task)
      /\ got'.cursor = [task |-> Len(rec.log), agent |-> Len(a)]
  BY DEF Caught
<1>5. a \in Seq(AgentEvent)
  <2> HIDE DEF rec
  <2> QED BY <1>2, AgentEventsType
<1>6. ~Astray => got'.events = Numbered(rec.log) /\ got'.agents = a
  BY CaughtAll
<1>7. Acp /\ ~torn /\ ~Astray => ToldLast(rec.log, ShownAs(rec.status))
  <2>1. SUFFICES ASSUME Acp, ~torn, ~Astray PROVE ToldLast(rec.log, ShownAs(rec.status))
    OBVIOUS
  <2>2. ~lost
    BY <2>1 DEF Acp, Astray, InterfaceInv, Served
  <2>3. StatusTold(t)
    BY DEF InterfaceInv, BoardInv, Told
  <2>4. NoSet(todo, t)
    BY DEF NoSet
  <2>5. TellsStatus(todo, t, rec.log, rec.status)
    BY <2>1, <2>2, <2>3, <2>4 DEF StatusTold
  <2> QED BY <2>5 DEF TellsStatus, LastTell
<1>8. reader' # "inspect"
  BY <1>1 DEF Acp
<1> HIDE DEF rec, a
<1>9. got'.cursor.task \in Nat /\ got'.cursor.agent \in Nat
  <2>1. Len(rec.log) \in Nat /\ Len(a) \in Nat
    BY <1>3, <1>5, LenProperties
  <2> QED BY <1>4, <2>1
<1>10. got'.events \in Seq(Numbers)
  <2>1. got.events \in Seq(Numbers) /\ got.cursor.task \in Nat
    BY DEF InterfaceInv, ReaderTyped
  <2>2. NewNumbers(rec.log, got.cursor.task) \in Seq(Numbers)
    BY <1>3, <2>1, NewNumbersFacts
  <2> QED BY <1>4, <2>1, <2>2, ConcatProperties
<1>11. Read' /\ Heard'
  <2>1. CASE Astray
    BY <1>1, <1>4, <2>1, InterfaceAssumption DEF Read, Heard
  <2>2. CASE ~Astray
    <3>1. got'.task # NoTask
      BY <1>4, InterfaceAssumption
    <3>2. Rec' = rec
      BY <1>1, <1>4, <1>8 DEF Rec, rec
    <3>3. FullRead(rec)
      BY <1>4, <1>6, <1>8, <2>2, <3>1, <3>2 DEF FullRead, a
    <3>4. Acp' /\ ~torn' /\ ~Astray' => ToldLast(rec.log, ShownAs(rec.status))
      BY <1>1, <1>7
    <3> QED BY <1>2, <3>3, <3>4, FullReadHolds
  <2> QED BY <2>1, <2>2
<1>12. got'.status \in Statuses
  BY <1>3, <1>4
<1> QED BY <1>9, <1>10, <1>11, <1>12

LEMMA ReplyEventsKeeps ==
  ASSUME InterfaceInv, load' = load, ReplyEvents
  PROVE  InterfaceInv'
<1> DEFINE t == asked.task
           rec == mem[t]
           a == AgentEvents(rec)
           error == Answer(asked, "error")
           result == Answer(asked, "result")
<1>1. /\ asked.method = "task/events" /\ conn = "open" /\ todo = <<>>
      /\ asked # NoLine /\ Acp /\ t \in Task /\ got.task \in {NoTask, t}
  <2>1. asked.method = "task/events" /\ conn = "open" /\ todo = <<>>
    BY DEF ReplyEvents
  <2>2. asked # NoLine /\ Acp
    BY <2>1 DEF InterfaceInv, Served
  <2> QED BY <2>1, <2>2 DEF InterfaceInv, Served
<1>2. asked \in Lines /\ out \in Seq(Messages)
  BY DEF InterfaceInv, ReaderTyped
<1>3. conn # "none" /\ (reader = "embedded" => todo = <<>>) /\ Updated(out)
  BY <1>1 DEF Updated
<1>4. ASSUME NEW is \in {"result", "error"}, Reply(Answer(asked, is)), got' = got
      PROVE  InterfaceInv'
  <2> DEFINE m == Message(asked, is)
             messages == Answer(asked, is)
  <2>1. m \in Messages /\ m.id = asked.id /\ m.is # "update" /\ m.task = NoTask
        /\ out \o messages = IF asked.id = 0 /\ reader = "acp" THEN out ELSE Append(out, m)
    BY <1>2, AnswerIs
  <2> HIDE DEF m, messages
  <2>2. Replied /\ out' = out \o messages
    BY <1>3, <1>4, RepliedFacts DEF messages
  <2>3. Stored(m.task)
    BY <2>1 DEF Stored
  <2> QED BY <1>2, <1>3, <1>4, <2>1, <2>2, <2>3, ReplySame
<1>5. ASSUME mem[t] # Absent, Reply(Answer(asked, "result")), Caught(t)
      PROVE  InterfaceInv'
  <2> DEFINE m == Message(asked, "result")
             messages == Answer(asked, "result")
  <2>1. m \in Messages /\ m.id = asked.id /\ m.is # "update" /\ m.task = NoTask
        /\ out \o messages = IF asked.id = 0 /\ reader = "acp" THEN out ELSE Append(out, m)
    BY <1>2, AnswerIs
  <2> HIDE DEF m, messages
  <2>2. Replied /\ out' = out \o messages
    BY <1>3, <1>5, RepliedFacts DEF messages
  <2>3. Stored(m.task)
    BY <2>1 DEF Stored
  <2>4. /\ BoardInv' /\ Steady /\ lost' = lost /\ torn' = torn
        /\ out' \in Seq(Messages) /\ Answered' /\ Served'
    BY <1>2, <1>3, <2>1, <2>2, <2>3, ReplyKeeps
  <2>5. UNCHANGED boardVars
    BY <2>2 DEF Replied
  <2>6. /\ Read' /\ Heard'
        /\ got'.events \in Seq(Numbers) /\ got'.status \in Statuses
        /\ got'.cursor.task \in Nat /\ got'.cursor.agent \in Nat
    BY <1>1, <1>5, <2>4, <2>5, CaughtKeeps
  <2>7. ReaderTyped'
    <3>1. asked' \in Lines /\ conn' = "none" /\ prompted' = NoTask
      BY <2>2, NoLineFacts DEF Replied
    <3>2. ended' = ended /\ lines' = lines /\ ids' = ids /\ reader' = reader
      BY <2>2 DEF Replied, reader
    <3>3. /\ DOMAIN got' = DOMAIN got /\ got'.task = t /\ got'.results = got.results
      BY <1>5 DEF Caught
    <3>4. reader # "tui"
      BY <1>1 DEF Acp
    <3> QED BY <1>1, <2>4, <2>6, <3>1, <3>2, <3>3, <3>4 DEF InterfaceInv, ReaderTyped
  <2> QED BY <2>4, <2>6, <2>7 DEF InterfaceInv
<1>6. \/ Reply(Answer(asked, "error")) /\ got' = got
      \/ Reply(Answer(asked, "result")) /\ got' = got
      \/ Reply(Answer(asked, "result")) /\ mem[t] # Absent /\ Caught(t)
  <2>1. CASE ~Resolved(mem, t)
    BY <2>1 DEF ReplyEvents
  <2>2. CASE Resolved(mem, t) /\ asked.id = 0
    BY <2>2 DEF ReplyEvents
  <2>3. CASE Resolved(mem, t) /\ asked.id # 0
    <3> DEFINE view == InspectView(rec, got.cursor)
               from == got.cursor.task
    <3>1. /\ Reply(Answer(asked, "result"))
          /\ got' = [got EXCEPT
                      !.task = t, !.status = rec.status,
                      !.events = @ \o [i \in DOMAIN view.events |->
                                         [seq |-> from + i, entry |-> view.events[i]]],
                      !.agents = @ \o view.agents,
                      !.cursor = view.cursor]
      BY <2>3 DEF ReplyEvents
    <3>2. /\ view.events = SubSeq(rec.log, got.cursor.task + 1, Len(rec.log))
          /\ view.agents = SubSeq(a, got.cursor.agent + 1, Len(a))
          /\ view.cursor = [task |-> Len(rec.log), agent |-> Len(a)]
      BY DEF InspectView
    <3>3. NewNumbers(rec.log, from)
            = [i \in DOMAIN view.events |-> [seq |-> from + i, entry |-> view.events[i]]]
      BY <3>2 DEF NewNumbers
    <3>4. DOMAIN got = {"task", "status", "events", "agents", "results", "cursor"}
      BY DEF InterfaceInv, ReaderTyped
    <3> HIDE DEF view, a
    <3>5. /\ DOMAIN got' = DOMAIN got /\ got'.task = t /\ got'.status = rec.status
          /\ got'.events = got.events \o NewNumbers(rec.log, from)
          /\ got'.agents = got.agents \o view.agents
          /\ got'.results = got.results
          /\ got'.cursor = view.cursor
      BY <3>1, <3>3, <3>4
    <3>6. Caught(t)
      BY <3>2, <3>5 DEF Caught, a
    <3> QED BY <2>3, <3>1, <3>6 DEF Resolved
  <2> QED BY <2>1, <2>2, <2>3
<1> QED BY <1>4, <1>5, <1>6

-----------------------------------------------------------------------------
(* A request at the daemon or at the session.                              *)

LEMMA ServeKeeps ==
  ASSUME InterfaceInv, BoardInv', Steady, lost' = lost, torn' = torn, load' = load, got' = got,
         ended' = ended, lines' = lines, ids' = ids, asked' = asked, out' = out,
         asked # NoLine, conn' \in {"drained", "served"},
         prompted' \in Task \union {NoTask}, conn' = "drained" => prompted' = NoTask,
         prompted' # NoTask => mem'[prompted'] # Absent
                               \/ \E i \in DOMAIN todo' : todo'[i] = Create(prompted')
  PROVE  InterfaceInv'
<1>1. reader' = reader /\ Acp' = Acp
  BY DEF reader, Acp
<1>2. ReaderTyped'
  BY <1>1 DEF InterfaceInv, ReaderTyped
<1>3. Answered'
  <2>1. AllStored(out) /\ out \in Seq(Messages)
    BY AnsweredIs
  <2>2. ASSUME NEW i \in DOMAIN out' PROVE lost' \/ out'[i].task = NoTask \/ mem'[out'[i].task] # Absent
    <3>1. out[i] \in Messages /\ Stored(out[i].task)
      BY <2>1 DEF AllStored
    <3>2. out[i].task \in Task \union {NoTask}
      BY <3>1 DEF Messages
    <3> QED BY <3>1, <3>2 DEF Stored, Steady
  <2>3. /\ reader' = "acp" => AnswersAre(out', ids' \ {asked'.id})
        /\ reader' = "embedded" => /\ Len(out') = IF asked' = NoLine THEN lines' ELSE lines' - 1
                                   /\ InTurn(out', ids')
    BY <1>1, AnsweredIs
  <2> QED BY <2>2, <2>3, AnsweredThen
<1>4. Served'
  <2>1. /\ conn' # "none" /\ conn' # "broken" /\ conn' # "open"
        /\ (conn' \in {"none", "open", "drained"} => prompted' = NoTask)
    OBVIOUS
  <2>2. /\ reader' = "embedded" => ~lost' /\ ~torn' /\ (ended' => asked' = NoLine)
        /\ Acp' /\ lines' > 0 /\ asked'.id = (IF lines' \in ids' THEN lines' ELSE 0)
        /\ asked'.method \in {"session/prompt", "session/cancel", "task/events"}
        /\ asked'.method = "task/events" => asked'.task \in Task /\ got'.task \in {NoTask, asked'.task}
    BY <1>1 DEF InterfaceInv, Served
  <2> QED BY <2>1, <2>2 DEF Served
<1> QED BY <1>2, <1>3, <1>4, AcpStepKeeps DEF AcpStep

LEMMA AtTheDaemon ==
  ASSUME InterfaceInv, conn \in {"open", "drained"}
  PROVE  asked # NoLine /\ prompted = NoTask
BY DEF InterfaceInv, Served

LEMMA ServePromptKeeps ==
  ASSUME InterfaceInv, load' = load, ServePrompt
  PROVE  InterfaceInv'
<1>1. /\ BoardInv /\ conn = "open" /\ todo = <<>> /\ conn' = "served"
      /\ NothingElse /\ queue' = queue /\ token' = token /\ lost' = lost /\ torn' = torn
      /\ got' = got /\ ended' = ended /\ lines' = lines /\ ids' = ids /\ asked' = asked
      /\ out' = out
  BY DEF InterfaceInv, ServePrompt, NothingElse
<1>2. asked # NoLine /\ prompted = NoTask
  BY <1>1, AtTheDaemon
<1>3. CASE \E t \in Missing : prompted' = t /\ todo' = Submission(t)
  <2>1. PICK t \in Missing : prompted' = t /\ todo' = Submission(t)
    BY <1>3
  <2>2. t \in Task /\ mem[t] = Absent
    BY InterfaceAssumption DEF Missing, InterfaceInv, ReaderTyped
  <2>3. BoardInv' /\ Steady /\ \E i \in DOMAIN todo' : todo'[i] = Create(t)
    BY <1>1, <2>1, <2>2, SubmissionKeeps
  <2> QED BY <1>1, <1>2, <2>1, <2>2, <2>3, ServeKeeps
<1>4. CASE UNCHANGED <<prompted, todo>>
  <2>1. UNCHANGED boardVars
    BY <1>1, <1>4 DEF NothingElse, boardVars
  <2>2. BoardInv' /\ Steady
    BY <1>1, <2>1, BoardSame
  <2>3. prompted' = NoTask
    BY <1>2, <1>4
  <2> QED BY <1>1, <1>2, <2>2, <2>3, ServeKeeps
<1> QED BY <1>3, <1>4 DEF ServePrompt

\* The two ways to cancel a task for the ACP client.
LEMMA CancelledKeeps ==
  ASSUME InterfaceInv, load' = load, conn \in {"open", "drained"}, todo = <<>>, conn' = "served",
         (\E t \in Task : Cancel(t)) \/ UNCHANGED boardVars,
         UNCHANGED <<got, ended, lines, ids, asked, prompted, out>>
  PROVE  InterfaceInv'
<1>1. BoardInv /\ asked # NoLine /\ prompted' = NoTask
  BY AtTheDaemon DEF InterfaceInv
<1>2. BoardInv' /\ Steady /\ lost' = lost /\ torn' = torn
  <2>1. CASE \E t \in Task : Cancel(t)
    <3>1. lost' = lost /\ torn' = torn
      BY <2>1 DEF Cancel
    <3> QED BY <1>1, <2>1, <3>1, CancelKeeps
  <2>2. CASE UNCHANGED boardVars
    <3>1. lost' = lost /\ torn' = torn
      BY <2>2 DEF boardVars
    <3> QED BY <1>1, <2>2, <3>1, BoardSame
  <2> QED BY <2>1, <2>2
<1> QED BY <1>1, <1>2, ServeKeeps

LEMMA ServeCancelKeeps ==
  ASSUME InterfaceInv, load' = load, ServeCancel
  PROVE  InterfaceInv'
<1>1. /\ conn = "open" /\ todo = <<>> /\ conn' = "served"
      /\ (\E t \in Task : Cancel(t)) \/ UNCHANGED boardVars
      /\ UNCHANGED <<got, ended, lines, ids, asked, prompted, out>>
  BY DEF ServeCancel
<1> QED BY <1>1, CancelledKeeps

LEMMA CancelInSessionKeeps ==
  ASSUME InterfaceInv, load' = load, CancelInSession
  PROVE  InterfaceInv'
<1>1. /\ conn = "drained" /\ todo = <<>> /\ conn' = "served"
      /\ (\E t \in Task : Cancel(t)) \/ UNCHANGED boardVars
      /\ UNCHANGED <<got, ended, lines, ids, asked, prompted, out>>
  BY DEF CancelInSession
<1> QED BY <1>1, CancelledKeeps

LEMMA TurnInSessionKeeps ==
  ASSUME InterfaceInv, load' = load, TurnInSession
  PROVE  InterfaceInv'
<1>1. /\ BoardInv /\ reader = "embedded" /\ conn = "open" /\ conn' = "served"
      /\ NothingElse /\ queue' = queue /\ token' = token /\ lost' = lost /\ torn' = torn
      /\ got' = got /\ ended' = ended /\ lines' = lines /\ ids' = ids /\ asked' = asked
      /\ out' = out
  BY DEF InterfaceInv, TurnInSession, NothingElse
<1>2. asked # NoLine /\ prompted = NoTask /\ todo = <<>>
  BY <1>1, AtTheDaemon DEF InterfaceInv, Served
<1>3. CASE \E t \in Missing : prompted' = t /\ todo' = <<Drain>> \o Submission(t)
  <2>1. PICK t \in Missing : prompted' = t /\ todo' = <<Drain>> \o Submission(t)
    BY <1>3
  <2>2. t \in Task /\ mem[t] = Absent
    BY InterfaceAssumption DEF Missing, InterfaceInv, ReaderTyped
  <2>3. BoardInv' /\ Steady /\ \E i \in DOMAIN todo' : todo'[i] = Create(t)
    BY <1>1, <1>2, <2>1, <2>2, SubmissionKeeps
  <2> QED BY <1>1, <1>2, <2>1, <2>2, <2>3, ServeKeeps
<1>4. CASE todo' = <<Drain>> /\ UNCHANGED prompted
  <2>1. BoardInv' /\ Steady
    BY <1>1, <1>2, <1>4, PutDrainKeeps
  <2>2. prompted' = NoTask
    BY <1>2, <1>4
  <2> QED BY <1>1, <1>2, <2>1, <2>2, ServeKeeps
<1> QED BY <1>3, <1>4 DEF TurnInSession

LEMMA CancelDrainsKeeps ==
  ASSUME InterfaceInv, load' = load, CancelDrains
  PROVE  InterfaceInv'
<1>1. /\ BoardInv /\ reader = "embedded" /\ conn = "open" /\ conn' = "drained"
      /\ todo' = <<Drain>>
      /\ NothingElse /\ queue' = queue /\ token' = token /\ lost' = lost /\ torn' = torn
      /\ got' = got /\ ended' = ended /\ lines' = lines /\ ids' = ids /\ asked' = asked
      /\ out' = out /\ prompted' = prompted
  BY DEF InterfaceInv, CancelDrains, NothingElse
<1>2. asked # NoLine /\ prompted = NoTask /\ todo = <<>>
  BY <1>1, AtTheDaemon DEF InterfaceInv, Served
<1>3. BoardInv' /\ Steady
  BY <1>1, <1>2, PutDrainKeeps
<1>4. prompted' = NoTask
  BY <1>1, <1>2
<1> QED BY <1>1, <1>2, <1>3, <1>4, ServeKeeps

LEMMA EndOfInputKeeps ==
  ASSUME InterfaceInv, load' = load, EndOfInput
  PROVE  InterfaceInv'
<1>1. /\ BoardInv /\ reader = "embedded" /\ asked = NoLine /\ ~ended /\ ended' = TRUE
      /\ todo' = <<Drain>> /\ NothingElse /\ queue' = queue /\ token' = token
      /\ lost' = lost /\ torn' = torn /\ mem' = mem
      /\ got' = got /\ lines' = lines /\ ids' = ids /\ asked' = asked /\ conn' = conn
      /\ prompted' = prompted /\ out' = out /\ reader' = reader /\ Acp' = Acp
  BY DEF InterfaceInv, EndOfInput, NothingElse, acpVars, reader, Acp
<1>2. conn = "none" /\ todo = <<>>
  BY <1>1 DEF InterfaceInv, Served
<1>3. BoardInv' /\ Steady
  BY <1>1, <1>2, PutDrainKeeps
<1>4. ReaderTyped'
  BY <1>1 DEF InterfaceInv, ReaderTyped
<1>5. Answered'
  BY <1>1 DEF InterfaceInv, Answered
<1>6. Served'
  <2>1. conn' = "none" /\ ended' /\ asked' = NoLine /\ asked'.method # "task/events"
    BY <1>1, <1>2, NoLineFacts
  <2>2. reader' = "embedded" => ~lost' /\ ~torn'
    BY <1>1 DEF InterfaceInv, Served
  <2>3. prompted' = NoTask
    BY <1>1, <1>2 DEF InterfaceInv, Served
  <2> QED BY <2>1, <2>2, <2>3 DEF Served
<1> QED BY <1>1, <1>3, <1>4, <1>5, <1>6, AcpStepKeeps DEF AcpStep

-----------------------------------------------------------------------------
(* The invariant.                                                          *)

LEMMA ClientKeeps ==
  ASSUME InterfaceInv, load' = load, Client
  PROVE  InterfaceInv'
<1>1. CASE Refresh \/ Select \/ TuiSent
  <2>1. UNCHANGED boardVars /\ ReadersSame
    BY <1>1 DEF Refresh, Select, TuiSent, ReadersSame
  <2> QED BY <2>1, NothingKeeps
<1>2. CASE Line
  BY <1>2, LineKeeps
<1>3. CASE ServePrompt
  BY <1>3, ServePromptKeeps
<1>4. CASE ServeCancel
  BY <1>4, ServeCancelKeeps
<1>5. CASE ReplyTurn
  BY <1>5, ReplyTurnKeeps
<1>6. CASE ReplyEvents
  BY <1>6, ReplyEventsKeeps
<1>7. CASE ReplyFailed
  BY <1>7, ReplyFailedKeeps
<1>8. CASE TurnInSession
  BY <1>8, TurnInSessionKeeps
<1>9. CASE CancelDrains
  BY <1>9, CancelDrainsKeeps
<1>10. CASE CancelInSession
  BY <1>10, CancelInSessionKeeps
<1>11. CASE ReplyInSession
  BY <1>11, ReplyInSessionKeeps
<1>12. CASE EndOfInput
  BY <1>12, EndOfInputKeeps
<1>13. ASSUME NEW t \in Task, Poll(t) PROVE InterfaceInv'
  BY <1>13, PollKeeps
<1>14. ASSUME NEW t \in Task, TuiSend(t) PROVE InterfaceInv'
  <2>1. Submit(t) /\ ReadersSame
    BY <1>14 DEF TuiSend, ReadersSame
  <2> QED BY <2>1, SubmitKeeps
<1> QED
  BY <1>1, <1>2, <1>3, <1>4, <1>5, <1>6, <1>7, <1>8, <1>9, <1>10, <1>11, <1>12, <1>13, <1>14
  DEF Client

LEMMA NextKeeps ==
  ASSUME InterfaceInv, [Next]_vars
  PROVE  InterfaceInv'
<1>1. CASE UNCHANGED vars
  <2>1. UNCHANGED boardVars /\ ReadersSame
    BY <1>1 DEF vars, ReadersSame
  <2> QED BY <2>1, NothingKeeps
<1>2. CASE Board /\ UNCHANGED <<load, got, ended, tuiVars, acpVars>>
  BY <1>2, BoardKeeps DEF ReadersSame
<1>3. ASSUME NEW t \in Task, Submit(t), UNCHANGED <<load, got, ended, tuiVars, acpVars>>
      PROVE  InterfaceInv'
  BY <1>3, SubmitKeeps DEF ReadersSame
<1>4. ASSUME NEW t \in Task, AskCancel(t), UNCHANGED <<load, got, ended, tuiVars, acpVars>>
      PROVE  InterfaceInv'
  BY <1>4, AskCancelKeeps DEF ReadersSame
<1>5. CASE Client /\ UNCHANGED load
  BY <1>5, ClientKeeps
<1>6. CASE Restarted
  BY <1>6, RestartedKeeps
<1> QED BY <1>1, <1>2, <1>3, <1>4, <1>5, <1>6 DEF Next

LEMMA InitBoard ==
  ASSUME Init
  PROVE  BoardInv
<1>1. /\ load \in Loads /\ mem = [t \in Task |-> Absent] /\ file = [t \in Task |-> Absent]
      /\ queue = <<>> /\ running = {} /\ token = {} /\ channel = <<>> /\ todo = <<>>
      /\ work = [t \in Task |-> NoWork] /\ faults = load.faults /\ ~lost /\ ~torn
      /\ lost \in BOOLEAN /\ torn \in BOOLEAN
  BY DEF Init, LogInit
<1>2. Absent \in Records /\ NoWork \in Works /\ Absent.log = <<>> /\ Absent.report = NoReport
      /\ Absent.status = "Absent" /\ NoReport.ops = <<>> /\ NoReport.runs = <<>>
      /\ NoWork.state = "none"
  <2>1. /\ <<>> \in Seq(Items) /\ <<>> \in Seq(Runs) /\ <<>> \in Seq(Entries)
    BY EmptySeq
  <2>2. NoReport \in Reports /\ NoReport.ops = <<>> /\ NoReport.runs = <<>>
    BY <2>1 DEF NoReport, Reports
  <2>3. Absent \in Records
    BY <2>1, <2>2 DEF Absent, Records, Statuses
  <2>4. NoWork \in Works
    BY <2>1 DEF NoWork, Works
  <2> QED BY <2>2, <2>3, <2>4 DEF Absent, NoWork
<1>3. BoardTyped
  <2>1. <<>> \in Seq(Task) /\ <<>> \in Seq(RunEvents) /\ <<>> \in Seq(Calls)
    BY EmptySeq
  <2>2. faults \in Nat
    BY <1>1, InterfaceAssumption
  <2> QED BY <1>1, <1>2, <2>1, <2>2 DEF BoardTyped
<1>4. ASSUME NEW t \in Task PROVE OneRun(t) /\ Born(t) /\ Kept(t) /\ Told(t)
  <2>1. mem[t] = Absent /\ file[t] = Absent /\ work[t] = NoWork
    BY <1>1
  <2>2. OneRun(t)
    BY <1>1, <1>2, <2>1 DEF OneRun, OneClaim, HasClaim, Waits, Done, IsRun, Reported
  <2>3. Born(t)
    BY <1>1, <1>2, <2>1 DEF Born, Waits, IsRun, Introduced, Creates, CreatedOnce
  <2>4. Kept(t)
    <3>1. Sound(Absent)
      BY <1>2 DEF Sound, ReportEntries, Logs
    <3>2. Before(Absent, Absent)
      BY <1>2 DEF Before
    <3>3. ReportFollows(todo, t, mem[t].log)
      BY <1>1 DEF ReportFollows
    <3> QED BY <2>1, <3>1, <3>2, <3>3 DEF Kept
  <2>5. Told(t)
    BY <1>1, <2>1 DEF Told, SetIsTold, ToldOfSet, StatusTold
  <2> QED BY <2>2, <2>3, <2>4, <2>5
<1> QED BY <1>1, <1>3, <1>4 DEF BoardInv, ResultsHaveText

LEMMA InitInv == Init => InterfaceInv
<1> SUFFICES ASSUME Init PROVE InterfaceInv
  OBVIOUS
<1>1. /\ load \in Loads /\ ended = FALSE /\ lines = 0 /\ ids = {} /\ asked = NoLine
      /\ conn = "none" /\ prompted = NoTask /\ out = <<>> /\ todo = <<>> /\ ~lost /\ ~torn
      /\ got = [task |-> NoTask, status |-> "Absent", events |-> <<>>, agents |-> <<>>,
                results |-> 0, cursor |-> Start]
  BY DEF Init, LogInit
<1>2. /\ DOMAIN got = {"task", "status", "events", "agents", "results", "cursor"}
      /\ got.task = NoTask /\ got.status = "Absent" /\ got.events = <<>> /\ got.agents = <<>>
      /\ got.results = 0 /\ got.cursor = Start /\ Start.task = 0 /\ Start.agent = 0
  BY <1>1 DEF Start
<1>3. ReaderTyped
  <2>1. <<>> \in Seq(Numbers) /\ <<>> \in Seq(Messages)
    BY EmptySeq
  <2>2. /\ got.status \in Statuses /\ got.results \in {0, 1}
        /\ got.cursor.task \in Nat /\ got.cursor.agent \in Nat
    BY <1>2 DEF Statuses
  <2>3. /\ lines \in Nat /\ ids \subseteq 1..lines /\ asked \in Lines /\ ended \in BOOLEAN
        /\ conn \in {"none", "open", "drained", "served", "broken"}
    BY <1>1, NoLineFacts
  <2>4. got.events \in Seq(Numbers) /\ out \in Seq(Messages)
    BY <1>1, <1>2, <2>1
  <2>5. got.task \in Task \union {NoTask} /\ prompted \in Task \union {NoTask}
    BY <1>1, <1>2
  <2> QED BY <1>1, <1>2, <2>2, <2>3, <2>4, <2>5 DEF ReaderTyped
<1>4. Read /\ Heard
  BY <1>2 DEF Read, Heard
<1>5. Answered
  BY <1>1, NoLineFacts DEF Answered
<1>6. Served
  BY <1>1, NoLineFacts DEF Served
<1> QED BY <1>3, <1>4, <1>5, <1>6, InitBoard DEF InterfaceInv

LEMMA Invariant == Spec => []InterfaceInv
<1>1. Init => InterfaceInv
  BY InitInv
<1>2. InterfaceInv /\ [Next]_vars => InterfaceInv'
  BY NextKeeps
<1> QED BY <1>1, <1>2, PTL DEF Spec

-----------------------------------------------------------------------------
(* The theorems.                                                           *)

\* The values of the board and of the readers are of their types, whatever
\* the clients, the engines and the restarts do.
THEOREM TypeCorrect == Spec => [](BoardTyped /\ ReaderTyped)
<1>1. InterfaceInv => BoardTyped /\ ReaderTyped
  BY DEF InterfaceInv, BoardInv
<1> QED BY <1>1, Invariant, PTL

\* What a reader has is, entry by entry, a beginning of the log, whatever was
\* written, failed or restarted between two polls.
THEOREM NothingIsMissed == Spec => []WatchersMissNothing
<1>1. ASSUME InterfaceInv PROVE WatchersMissNothing
  <2>1. SUFFICES ASSUME got.task # NoTask, ~Astray
                 PROVE  /\ IsPrefix(got.events, Numbered(Rec.log))
                        /\ IsPrefix(got.agents, AgentEvents(Rec))
    BY DEF WatchersMissNothing, Astray, Rec
  <2>2. Rec \in Records
    <3>1. got.task \in Task
      BY <1>1, <2>1 DEF InterfaceInv, ReaderTyped
    <3> QED BY <1>1, <3>1 DEF InterfaceInv, BoardInv, BoardTyped, Rec
  <2>3. /\ Len(got.events) <= Len(Rec.log)
        /\ \A i \in 1..Len(got.events) : got.events[i] = [seq |-> i, entry |-> Rec.log[i]]
        /\ got.agents = <<>> \/ got.agents = AgentEvents(Rec)
        /\ got.events \in Seq(Numbers)
    BY <1>1, <2>1 DEF InterfaceInv, Read, ReaderTyped
  <2> DEFINE log == Rec.log
             a == AgentEvents(Rec)
  <2>4. log \in Seq(Entries) /\ a \in Seq(AgentEvent)
    <3>1. log \in Seq(Entries)
      BY <2>2 DEF Records
    <3> QED BY <2>2, <3>1, AgentEventsType
  <2> HIDE DEF log, a
  <2>5. /\ Numbered(log) \in Seq(Numbers) /\ Len(Numbered(log)) = Len(log) /\ Len(log) \in Nat
        /\ \A i \in 1..Len(log) : Numbered(log)[i] = [seq |-> i, entry |-> log[i]]
    BY <2>4, NumberedFacts
  <2>6. IsPrefix(got.events, Numbered(log))
    <3>1. Len(got.events) \in Nat
      BY <2>3, LenProperties
    <3>2. Len(got.events) <= Len(Numbered(log))
      BY <2>3, <2>5 DEF log
    <3>3. \A i \in 1..Len(got.events) : got.events[i] = Numbered(log)[i]
      <4>1. \A i \in 1..Len(got.events) : i \in 1..Len(log)
        BY <2>5, <3>1, <3>2
      <4> QED BY <2>3, <2>5, <4>1 DEF log
    <3> QED BY <2>3, <2>5, <3>2, <3>3, PrefixByPosition
  <2>7. IsPrefix(got.agents, a)
    <3>1. got.agents \in Seq(AgentEvent) /\ Len(a) \in Nat
      <4>1. got.agents = <<>> \/ got.agents = a
        BY <2>3 DEF a
      <4>2. <<>> \in Seq(AgentEvent) /\ Len(a) \in Nat
        BY <2>4, EmptySeq, LenProperties
      <4> QED BY <2>4, <4>1, <4>2
    <3>2. Len(got.agents) <= Len(a) /\ \A i \in 1..Len(got.agents) : got.agents[i] = a[i]
      <4>1. CASE got.agents = <<>>
        <5>1. Len(got.agents) = 0
          BY <4>1
        <5> QED BY <3>1, <5>1
      <4>2. CASE got.agents = a
        BY <3>1, <4>2
      <4> QED BY <2>3, <4>1, <4>2 DEF a
    <3> QED BY <2>4, <3>1, <3>2, PrefixByPosition
  <2> QED BY <2>6, <2>7 DEF log, a
<1> QED BY <1>1, Invariant, PTL

\* Who is told of the end of a task has been told everything of it: each
\* operation and agent run of the report once, and the closing entry.
THEOREM EndComesLast == Spec => []EndIsToldLast
<1>1. ASSUME InterfaceInv PROVE EndIsToldLast
  <2> DEFINE log == [i \in DOMAIN got.events |-> got.events[i].entry]
             report == Rec.report
  <2>1. SUFFICES ASSUME got.task # NoTask, ~Astray
                 PROVE  /\ got.status = "Completed" =>
                             /\ \A i \in DOMAIN report.ops :
                                  Times(log, Entry("engine.operation", report.ops[i])) = 1
                             /\ \A i \in DOMAIN report.runs :
                                  Times(log, Entry("agent.run", report.runs[i].item)) = 1
                             /\ got.agents = AgentEvents(Rec)
                             /\ reader = "inspect" => got.results = 1
                        /\ Acp /\ ~torn =>
                             /\ got.status = "Completed" => Has({"task.completed"})
                             /\ got.status = "WaitingForInput" => Has({"task.waiting_for_input"})
                             /\ got.status = "Failed" => Has({"task.failed", "task.recovered"})
                             /\ got.status = "Cancelled" =>
                                  Has({"task.cancelled", "task.cancel.requested"})
    BY DEF EndIsToldLast, Astray, Rec
  <2>2. Rec \in Records /\ Sound(Rec)
    <3>1. got.task \in Task
      BY <1>1, <2>1 DEF InterfaceInv, ReaderTyped
    <3> QED BY <1>1, <3>1 DEF InterfaceInv, BoardInv, BoardTyped, Kept, Rec
  <2>3. /\ \A i \in DOMAIN got.events : got.events[i].entry = Rec.log[i] /\ i \in DOMAIN Rec.log
        /\ DOMAIN log = DOMAIN got.events
    <3>1. /\ Len(got.events) <= Len(Rec.log) /\ got.events \in Seq(Numbers)
          /\ \A i \in 1..Len(got.events) : got.events[i] = [seq |-> i, entry |-> Rec.log[i]]
      BY <1>1, <2>1 DEF InterfaceInv, Read, ReaderTyped
    <3>2. /\ DOMAIN got.events = 1..Len(got.events) /\ Len(got.events) \in Nat
          /\ DOMAIN Rec.log = 1..Len(Rec.log) /\ Len(Rec.log) \in Nat
      BY <2>2, <3>1, LenProperties DEF Records
    <3>3. \A i \in 1..Len(got.events) : i \in 1..Len(Rec.log)
      BY <3>1, <3>2
    <3>4. ASSUME NEW i \in 1..Len(got.events) PROVE got.events[i].entry = Rec.log[i]
      <4> DEFINE e == Rec.log[i]
      <4>1. got.events[i] = [seq |-> i, entry |-> e]
        BY <3>1
      <4> HIDE DEF e
      <4>2. got.events[i].entry = e
        BY <4>1
      <4> QED BY <4>2 DEF e
    <3> QED BY <3>2, <3>3, <3>4
  <2>4. /\ got.status = "Completed" =>
             /\ \A e \in ReportEntries(Rec.report) :
                  \E i \in DOMAIN got.events : got.events[i].entry = e
             /\ got.agents = AgentEvents(Rec)
             /\ reader = "inspect" => got.results = 1
        /\ Acp /\ ~torn =>
             /\ got.status = "Completed" => Has({"task.completed"})
             /\ got.status = "WaitingForInput" => Has({"task.waiting_for_input"})
             /\ got.status = "Failed" => Has({"task.failed", "task.recovered"})
             /\ got.status = "Cancelled" => Has({"task.cancelled", "task.cancel.requested"})
    BY <1>1, <2>1 DEF InterfaceInv, Heard
  <2>5. ASSUME got.status = "Completed", NEW e \in ReportEntries(report)
        PROVE  Times(log, e) = 1
    <3>1. e.kind \in OnceKinds
      BY DEF ReportEntries, Entry, OnceKinds
    <3>2. PICK p \in DOMAIN log : log[p] = e
      <4>1. PICK p \in DOMAIN got.events : got.events[p].entry = e
        BY <2>4, <2>5
      <4> QED BY <4>1
    <3>3. ASSUME NEW i \in DOMAIN log, log[i] = e PROVE i = p
      <4>1. Rec.log[i] = e /\ Rec.log[p] = e /\ i \in DOMAIN Rec.log /\ p \in DOMAIN Rec.log
        BY <2>3, <3>2, <3>3
      <4> QED BY <2>2, <3>1, <4>1 DEF Sound
    <3>4. {i \in DOMAIN log : log[i] = e} = {p}
      BY <3>2, <3>3
    <3> QED BY <3>4, FS_Singleton DEF Times
  <2>6. /\ \A i \in DOMAIN report.ops : Entry("engine.operation", report.ops[i]) \in ReportEntries(report)
        /\ \A i \in DOMAIN report.runs : Entry("agent.run", report.runs[i].item) \in ReportEntries(report)
    BY DEF ReportEntries
  <2> HIDE DEF log, report
  <2> QED BY <2>4, <2>5, <2>6
<1> QED BY <1>1, Invariant, PTL

\* Every request is answered once and in turn, and a task that an answer
\* names is in the store.
THEOREM AnswersFollow == Spec => []AnswersFollowRequests
<1>1. InterfaceInv => AnswersFollowRequests
  BY DEF InterfaceInv, Answered, AnswersFollowRequests
<1> QED BY <1>1, Invariant, PTL

\* The timeline has every entry of the log once and in order, hides no error
\* in a group, and ends with the status of the task.
THEOREM TimelineIsTrue == Spec => []TimelineTellsTheTask
<1>1. ASSUME InterfaceInv, NEW t \in Task, mem[t].log # <<>>
      PROVE  LET log == mem[t].log  shown == TimelineLines(log) IN
             /\ FlattenSeq(shown) = [i \in DOMAIN log |-> i]
             /\ \A l \in DOMAIN shown : Len(shown[l]) > 1 =>
                  \A i \in Range(shown[l]) : log[i].item[2] # "error"
             /\ /\ todo = <<>> /\ ~torn /\ ~lost
                /\ \A i \in DOMAIN log : log[i].kind # "task.recovered"
                => LastShown(log) = ShownAs(mem[t].status)
  <2> DEFINE log == mem[t].log
             shown == TimelineLines(log)
             s == ShownAs(mem[t].status)
  <2>1. log \in Seq(Entries) /\ mem[t] # Absent
    <3>1. log \in Seq(Entries)
      BY <1>1 DEF InterfaceInv, BoardInv, BoardTyped, Records
    <3> QED BY <1>1, <3>1 DEF Absent
  <2>2. todo = <<>> /\ ~torn /\ ~lost => ToldLast(log, s)
    <3>1. SUFFICES ASSUME todo = <<>>, ~torn, ~lost PROVE ToldLast(log, s)
      OBVIOUS
    <3>2. StatusTold(t) /\ NoSet(todo, t)
      BY <1>1, <3>1 DEF InterfaceInv, BoardInv, Told, NoSet
    <3>3. TellsStatus(todo, t, log, mem[t].status)
      BY <2>1, <3>1, <3>2 DEF StatusTold
    <3> QED BY <3>1, <3>3 DEF TellsStatus, LastTell
  <2> HIDE DEF log, s
  <2>3. LinesFit(shown, Len(log), log) /\ DOMAIN log = 1..Len(log) /\ Len(log) \in Nat
    BY <2>1, TimelineFits, LenProperties
  <2> HIDE DEF shown
  <2>4. FlattenSeq(shown) = [i \in DOMAIN log |-> i]
    BY <2>3 DEF LinesFit, Upto
  <2>5. ASSUME NEW l \in DOMAIN shown, Len(shown[l]) > 1, NEW i \in Range(shown[l])
        PROVE  log[i].item[2] # "error"
    <3>1. PICK k \in DOMAIN shown[l] : i = shown[l][k]
      BY <2>5 DEF Range
    <3>2. Groupable(log[i])
      BY <2>3, <2>5, <3>1 DEF LinesFit
    <3> QED BY <3>2 DEF Groupable
  <2>6. ASSUME todo = <<>>, ~torn, ~lost, \A i \in DOMAIN log : log[i].kind # "task.recovered"
        PROVE  LastShown(log) = s
    <3> DEFINE P(i) == /\ log[i].kind \in TaskKinds
                       /\ \A j \in DOMAIN log : log[j].kind \in TaskKinds => j <= i
               c == CHOOSE i \in DOMAIN log : P(i)
    <3>1. PICK i \in DOMAIN log :
            /\ log[i].kind \in TellingKinds /\ Tale(log[i].kind) = s
            /\ \A j \in DOMAIN log : j > i => log[j].kind \notin TellingKinds
      BY <2>2, <2>6 DEF ToldLast
    <3>2. log[i].kind \in TaskKinds /\ ItemStatus(log[i].kind) = s
      BY <2>6, <3>1 DEF TellingKinds, Tale
    <3>3. \A j \in DOMAIN log : log[j].kind \in TaskKinds => j <= i
      <4>1. \A j \in DOMAIN log : j > i => log[j].kind \notin TaskKinds
        BY <3>1 DEF TellingKinds
      <4> QED BY <2>3, <4>1
    <3>4. P(i)
      BY <3>2, <3>3
    <3>5. \A j \in DOMAIN log : P(j) => j = i
      BY <2>3, <3>2, <3>3
    <3>6. c = i
      BY <3>4, <3>5
    <3>7. LastShown(log) = ItemStatus(log[c].kind)
      BY DEF LastShown
    <3> HIDE DEF c
    <3> QED BY <3>2, <3>6, <3>7
  <2> QED BY <2>4, <2>5, <2>6 DEF log, shown, s
<1>2. InterfaceInv => TimelineTellsTheTask
  BY <1>1 DEF TimelineTellsTheTask
<1> QED BY <1>2, Invariant, PTL
=============================================================================

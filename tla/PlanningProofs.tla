--------------------------- MODULE PlanningProofs ---------------------------
(***************************************************************************)
(* Proofs about Planning, for every answer of the agents, every tree they  *)
(* plan, any nesting of parallel groups and every order of joins: ids keep *)
(* their meaning, only clean verdicts accept, and scopes narrow.           *)
(***************************************************************************)
EXTENDS Planning, Integers, SequenceTheorems, FiniteSetTheorems,
        WellFoundedInduction, TLAPS

-----------------------------------------------------------------------------
(* The node nearest to the root that would break a claim.                  *)

\* A set of natural numbers has a least element.
LEMMA LeastElement ==
  ASSUME NEW T \in SUBSET Nat, T # {}
  PROVE  \E x \in T : \A y \in T : x <= y
<1> DEFINE R == OpToRel(<, Nat)
<1>1. \A x, y \in Nat : y < x => <<y, x>> \in R
  BY DEF OpToRel
<1>2. IsWellFoundedOn(R, Nat)
  BY NatLessThanWellFounded
<1> HIDE DEF R
<1>3. PICK x \in T : \A y \in T : ~(<<y, x>> \in R)
  BY <1>2, WFMin
<1>4. \A y \in T : y \in Nat /\ x \in Nat /\ ~(y < x)
  BY <1>1, <1>3
<1>5. QED
  BY <1>3, <1>4

-----------------------------------------------------------------------------
(* The inductive invariant.                                                *)

Fits(child, parent) == child = parent \/ WithinParent(child, parent)

\* An edge of the tree, seen from the parent and from the child.
ChildrenOK(g, n) ==
  LET node == g.nodes[n] IN
    \A i \in DOMAIN node.children :
      LET c == node.children[i] IN
        /\ c \in DOMAIN g.nodes /\ n < c
        /\ g.nodes[c].parent = n /\ g.nodes[c].task = Append(node.task, i)
        /\ Fits(g.nodes[c].readScope, node.readScope)
        /\ Fits(g.nodes[c].writeScope, node.writeScope)

ParentOK(g, n) ==
  n # g.root =>
    LET p == g.nodes[n].parent IN
      p \in DOMAIN g.nodes /\ \E i \in DOMAIN g.nodes[p].children : g.nodes[p].children[i] = n

\* An artifact that a node may take for its work.
ServesKey(g, a, key) == a \in 1..g.nextArtifact /\ Text(g, a).key = key

WorkOK(g, n) ==
  LET node == g.nodes[n] IN
    /\ node.status = "New" => node.candidate = None /\ node.accepted = None
    /\ node.status \in {"New", "Specified"} => node.children = <<>>
    /\ node.candidate # None =>
         ServesKey(g, node.candidate, node.key) /\ Text(g, node.candidate).by = node.task
    /\ node.accepted # None => ServesKey(g, node.accepted, node.key)

\* The texts an artifact, or a request to combine, is made from.
SameTexts(g, ids, texts) ==
  /\ ids \in Seq(1..g.nextArtifact) /\ Len(texts) = Len(ids)
  /\ \A i \in DOMAIN ids : Text(g, ids[i]) = texts[i]

\* The maker of an artifact is past its specification.
MadeOK(g, a) ==
  LET artifact == g.artifacts[a] IN
    /\ DOMAIN artifact = {"node", "children", "text"}
    /\ Holds(g, artifact.node, artifact.text.by) /\ g.nodes[artifact.node].status # "New"
    /\ SameTexts(g, artifact.children, artifact.text.from)

MemoOK(g) == \A k \in DOMAIN g.memo : ServesKey(g, g.memo[k], k)

LogOK(g) ==
  \A entry \in g.log :
    DOMAIN entry = {"node", "task", "what"} /\ Holds(g, entry.node, entry.task)

\* What the handler of an answer relies on.
AskedOK(g) ==
  g.asked # None =>
    LET node == g.nodes[g.asked.node] IN
      /\ g.asked.op = "Specify" <=> node.status = "New"
      /\ g.asked.op = "Plan" => node.status = "Specified"
      /\ g.asked.op = "Combine" => SameTexts(g, g.asked.children, g.asked.packet.children)
      /\ g.asked.op = "Verify" => ServesKey(g, g.asked.candidate, node.key)

IsAsked(g, n) == g.asked # None /\ g.asked.node = n

Busy(g, n) == g.nodes[n].status \in {"Specified", "Planned", "Verifying"} \/ IsAsked(g, n)

\* The turn of n in its stage has come and is not over.
HasTurn(g, n) ==
  n # g.root =>
    LET parent == g.nodes[g.nodes[n].parent] IN
      /\ parent.status = "Planned" /\ parent.plan = "Stage"
      /\ \A i, j \in DOMAIN parent.children : parent.children[i] = n =>
           /\ j < i => g.nodes[parent.children[j]].status = "Committed"
           /\ i < j => g.nodes[parent.children[j]].status = "New"

\* One node after the other is at work, under parents that wait for it.
ThreadOK(g) ==
  /\ \A n \in DOMAIN g.nodes : Busy(g, n) =>
       HasTurn(g, n) /\ (n # g.root => ~IsAsked(g, g.nodes[n].parent))
  /\ \A n \in DOMAIN g.nodes :
       LET node == g.nodes[n] IN
         node.status = "Planned" /\ node.plan = "Stage" =>
           \A i, j \in DOMAIN node.children :
             i < j /\ g.nodes[node.children[j]].status # "New"
               => g.nodes[node.children[i]].status = "Committed"

EngineOK(g) ==
  /\ EngineShape(g)
  /\ \A n \in DOMAIN g.nodes : ChildrenOK(g, n) /\ ParentOK(g, n) /\ WorkOK(g, n)
  /\ \A a \in DOMAIN g.artifacts : MadeOK(g, a)
  /\ MemoOK(g) /\ LogOK(g) /\ AskedOK(g) /\ ThreadOK(g)

\* Accepted by a clean verdict, or unchanged Tiny work.
Clean(g, a, ok) ==
  \/ Text(g, a) \in ok
  \/ /\ Text(g, a).nth > 0 /\ ~Text(g, a).changed
     /\ g.nodes[g.artifacts[a].node].size = "Tiny"

CleanOK(g, ok) ==
  /\ \A n \in DOMAIN g.nodes : g.nodes[n].accepted # None => Clean(g, g.nodes[n].accepted, ok)
  /\ \A k \in DOMAIN g.memo : Clean(g, g.memo[k], ok)

\* What no operation on a node changes.
SameNode(v, w) ==
  /\ v.task = w.task /\ v.parent = w.parent /\ v.key = w.key
  /\ v.readScope = w.readScope /\ v.writeScope = w.writeScope

\* As long as the branch b is alive, the engine g it left keeps the child c as
\* it was, and its parent waits.
BranchOK(g, c, b) ==
  /\ c \in DOMAIN g.nodes /\ c # g.root /\ g.nodes[c].status = "New"
  /\ b.root = c /\ SameNode(g.nodes[c], b.nodes[c])
  /\ LET p == g.nodes[c].parent IN
       g.nodes[p].status = "Planned" /\ g.nodes[p].plan = "Parallel" /\ ~IsAsked(g, p)

PlanningInv ==
  /\ TypeOK
  /\ \A e \in DOMAIN engines : EngineOK(engines[e]) /\ CleanOK(engines[e], approved)
  /\ \A e \in DOMAIN engines \ {Root} :
       Front(e) \in DOMAIN engines /\ BranchOK(engines[Front(e)], Last(e), engines[e])
  /\ Root \in DOMAIN engines => engines[Root].root = 1

-----------------------------------------------------------------------------
(* Paths of ids and what terminal calls are taken for.                     *)

LEMMA FunctionInSeq ==
  ASSUME NEW S, NEW n \in Nat, NEW f \in [1..n -> S]
  PROVE  f \in Seq(S) /\ Len(f) = n /\ DOMAIN f = 1..n
<1>1. f = [i \in 1..n |-> f[i]]
  OBVIOUS
<1>2. [i \in 1..n |-> f[i]] \in Seq(S)
  OBVIOUS
<1>3. Len(f) \in Nat /\ DOMAIN f = 1..Len(f)
  BY <1>1, <1>2, LenProperties
<1> QED BY <1>1, <1>2, <1>3

LEMMA AppendFacts ==
  ASSUME NEW s \in Seq(Nat), NEW x \in Nat
  PROVE  /\ Append(s, x) \in Seq(Nat) /\ Append(s, x) # <<>> /\ Append(s, x) # s
         /\ Front(Append(s, x)) = s /\ Last(Append(s, x)) = x
<1> DEFINE t == Append(s, x)
<1>1. t \in Seq(Nat) /\ Len(t) = Len(s) + 1 /\ Len(s) \in Nat /\ t[Len(s) + 1] = x
      /\ \A i \in 1..Len(s) : t[i] = s[i]
  BY AppendProperties, LenProperties
<1>2. SubSeq(t, 1, Len(t) - 1) \in Seq(Nat) /\ Len(SubSeq(t, 1, Len(t) - 1)) = Len(s)
      /\ \A i \in 1..Len(s) : SubSeq(t, 1, Len(t) - 1)[i] = t[i]
  BY <1>1, SubSeqProperties
<1>3. SubSeq(t, 1, Len(t) - 1) = s
  BY <1>1, <1>2, SeqEqual
<1>4. Last(t) = x /\ t # s
  BY <1>1 DEF Last
<1>5. t # <<>>
  BY <1>1, EmptySeq
<1> QED BY <1>1, <1>3, <1>4, <1>5, Zenon DEF Front

LEMMA AppendOnce ==
  ASSUME NEW s \in Seq(Nat), NEW x \in Nat, NEW y \in Nat, Append(s, x) = Append(s, y)
  PROVE  x = y
BY AppendFacts

LEMMA FrontFacts ==
  ASSUME NEW s \in Seq(Nat), s # <<>>
  PROVE  /\ Front(s) \in Seq(Nat) /\ Last(s) \in Nat /\ s = Append(Front(s), Last(s))
<1>1. Len(s) \in Nat /\ Len(s) # 0 /\ DOMAIN s = 1..Len(s)
  BY LenProperties, EmptySeq
<1> DEFINE f == SubSeq(s, 1, Len(s) - 1)
           t == Append(f, s[Len(s)])
<1>2. f \in Seq(Nat) /\ Len(f) = Len(s) - 1 /\ \A i \in 1..(Len(s) - 1) : f[i] = s[i]
  BY <1>1, SubSeqProperties
<1>3. s[Len(s)] \in Nat
  BY <1>1, ElementOfSeq
<1>4. t \in Seq(Nat) /\ Len(t) = Len(s) /\ t[Len(s)] = s[Len(s)]
      /\ \A i \in 1..(Len(s) - 1) : t[i] = f[i]
  <2>1. Len(f) + 1 = Len(s)
    BY <1>1, <1>2
  <2> HIDE DEF f
  <2>2. t \in Seq(Nat) /\ Len(t) = Len(f) + 1 /\ t[Len(f) + 1] = s[Len(s)]
        /\ \A i \in 1..Len(f) : t[i] = f[i]
    BY <1>2, <1>3, AppendProperties
  <2>3. Len(f) = Len(s) - 1
    BY <1>2
  <2> QED BY <2>1, <2>2, <2>3
<1>5. \A i \in 1..Len(s) : t[i] = s[i]
  <2> HIDE DEF f, t
  <2> SUFFICES ASSUME NEW i \in 1..Len(s) PROVE t[i] = s[i]
    OBVIOUS
  <2> CASE i = Len(s)
    BY <1>4
  <2> CASE i # Len(s)
    <3>1. Len(s) \in Nat
      BY <1>1, Zenon
    <3>2. i \in 1..(Len(s) - 1)
      BY <3>1
    <3> QED BY <3>2, <1>2, <1>4
  <2> QED OBVIOUS
<1>6. s = t
  BY <1>4, <1>5, SeqEqual
<1> QED BY <1>2, <1>3, <1>6 DEF Front, Last

\* What a usable answer to each operation was made from.
LEMMA SpecifyOutputs ==
  ASSUME NEW out \in Outputs["Specify"], Usable(out)
  PROVE  out.kind = "Specified" /\ out.size \in ToSet(WorkSize)
<1>1. PICK r \in Response : out = DecodeResult("Specify", r)
  BY DEF Outputs, Operation
<1>2. r.call # None /\ r.call = "submit_specification" /\ r.args # Garbled
  BY <1>1 DEF DecodeResult, Usable, Failure, ToolsForOperation, ToolFor
<1>3. r.args \in SpecifyArgs
  BY <1>2 DEF Response
<1>4. out = [kind |-> "Specified", size |-> r.args.size]
  BY <1>1, <1>2 DEF DecodeResult, Submit, ToolsForOperation, ToolFor
<1>5. r.args \in [size : ToSet(WorkSize)]
  BY <1>3, PlanningAssumption DEF PlanningAssumption
<1> QED BY <1>4, <1>5

LEMMA PlanOutputs ==
  ASSUME NEW out \in Outputs["Plan"], Usable(out)
  PROVE  /\ out.kind = "Planned" /\ out.mode \in {"Stage", "Parallel"}
         /\ out.items \in Seq(Templates)
<1>1. PICK r \in Response : out = DecodeResult("Plan", r)
  BY DEF Outputs, Operation
<1>2. r.call # None /\ r.call = "submit_plan_group" /\ r.args # Garbled
  BY <1>1 DEF DecodeResult, Usable, Failure, ToolsForOperation, ToolFor
<1>3. r.args \in PlanArgs
  BY <1>2 DEF Response
<1>4. out = SubmitPlanGroup(r.args)
  BY <1>1, <1>2 DEF DecodeResult, Submit, ToolsForOperation, ToolFor
<1> DEFINE items == [i \in DOMAIN r.args.items |-> IntoNodeTemplate(r.args.items[i], i)]
<1>5. out = [kind |-> "Planned", mode |-> r.args.mode, items |-> items]
  BY <1>4 DEF SubmitPlanGroup, Usable
<1>6. r.args.mode \in {"Stage", "Parallel"} /\ r.args.items \in Seq(ToSet(r.args.items))
  BY <1>3, PlanningAssumption DEF PlanningAssumption
<1>7. Len(r.args.items) \in Nat /\ DOMAIN r.args.items = 1..Len(r.args.items)
  BY <1>6, LenProperties
<1>8. \A i \in DOMAIN items : items[i] \in Templates
  BY <1>3 DEF Templates
<1>9. items \in Seq(Templates)
  <2> HIDE DEF items
  <2>1. items \in [1..Len(r.args.items) -> Templates]
    BY <1>7, <1>8 DEF items
  <2> QED BY <1>7, <2>1, FunctionInSeq
<1> QED BY <1>5, <1>6, <1>9

LEMMA VerifyOutputs ==
  ASSUME NEW r \in Response, Usable(DecodeResult("Verify", r)),
         Verdict(DecodeResult("Verify", r)).verdict = "Accept"
  PROVE  r.call = "submit_verdict" /\ r.args.verdict = "accept" /\ r.args.hardViolations = {}
<1> DEFINE out == DecodeResult("Verify", r)
<1>2. r.call # None /\ r.call = "submit_verdict" /\ r.args # Garbled
  BY DEF DecodeResult, Usable, Failure, ToolsForOperation, ToolFor
<1>3. r.args \in VerdictArgs
  BY <1>2 DEF Response
<1>4. out = [kind |-> "Verified", verdict |-> IntoVerdict(r.args)]
  BY <1>2 DEF DecodeResult, Submit, ToolsForOperation, ToolFor
<1>5. IntoVerdict(r.args).verdict = "Accept"
  BY <1>4 DEF Verdict
<1>6. r.args.verdict \in {"accept", "reject", "need_information"}
  BY <1>3, PlanningAssumption DEF PlanningAssumption
<1> QED BY <1>2, <1>5, <1>6 DEF IntoVerdict

-----------------------------------------------------------------------------
(* The tree of an engine.                                                  *)

LEMMA NodeFacts ==
  ASSUME NEW g, EngineShape(g), NEW n \in DOMAIN g.nodes
  PROVE  /\ g.nodes[n] \in NodeType /\ n \in Nat /\ n \in g.root..g.nextNode
         /\ g.root \in Nat /\ g.nextNode \in Nat /\ g.nextArtifact \in Nat
         /\ g.root \in DOMAIN g.nodes /\ DOMAIN g.nodes = g.root..g.nextNode
         /\ g.nodes[n].task \in Seq(Nat) /\ g.nodes[n].children \in Seq(Nat)
         /\ Len(g.nodes[n].children) \in Nat
         /\ DOMAIN g.nodes[n].children = 1..Len(g.nodes[n].children)
<1>1. g.root \in Nat /\ g.nextNode \in Nat /\ g.root <= g.nextNode /\ g.nextArtifact \in Nat
      /\ g.nodes \in [g.root..g.nextNode -> NodeType]
  BY DEF EngineShape
<1>2. DOMAIN g.nodes = g.root..g.nextNode /\ g.nodes[n] \in NodeType
  BY <1>1
<1>3. g.root \in g.root..g.nextNode /\ n \in Nat
  BY <1>1, <1>2
<1>4. g.nodes[n].children \in Seq(Nat) /\ g.nodes[n].task \in Seq(Nat)
  BY <1>2 DEF NodeType
<1> QED BY <1>1, <1>2, <1>3, <1>4, LenProperties

LEMMA ChildIndex ==
  ASSUME NEW g, EngineOK(g), NEW n \in DOMAIN g.nodes,
         NEW i \in DOMAIN g.nodes[n].children
  PROVE  i \in Nat
<1>1. EngineShape(g)
  BY DEF EngineOK
<1>2. DOMAIN g.nodes[n].children = 1..Len(g.nodes[n].children) /\ Len(g.nodes[n].children) \in Nat
  BY <1>1, NodeFacts
<1> QED BY <1>2

LEMMA ChildFacts ==
  ASSUME NEW g, EngineOK(g), NEW n \in DOMAIN g.nodes,
         NEW i \in DOMAIN g.nodes[n].children
  PROVE  LET c == g.nodes[n].children[i] IN
           /\ c \in DOMAIN g.nodes /\ n < c /\ c # n /\ c # g.root
           /\ g.nodes[c].parent = n /\ g.nodes[c].task = Append(g.nodes[n].task, i)
           /\ \A j \in DOMAIN g.nodes[n].children : g.nodes[n].children[j] = c => j = i
<1> DEFINE node == g.nodes[n]
           c == node.children[i]
<1>1. EngineShape(g) /\ ChildrenOK(g, n)
  BY DEF EngineOK
<1>2. c \in DOMAIN g.nodes /\ n < c /\ g.nodes[c].parent = n
      /\ g.nodes[c].task = Append(node.task, i)
  BY <1>1 DEF ChildrenOK
<1>3. n \in Nat /\ c \in Nat /\ n \in g.root..g.nextNode /\ g.root \in Nat /\ g.nextNode \in Nat
  BY <1>1, <1>2, NodeFacts
<1>4. c # n /\ c # g.root
  BY <1>2, <1>3
<1>5. ASSUME NEW j \in DOMAIN node.children, node.children[j] = c PROVE j = i
  <2>1. g.nodes[c].task = Append(node.task, j)
    BY <1>1, <1>5 DEF ChildrenOK
  <2>2. i \in Nat /\ j \in Nat /\ node.task \in Seq(Nat)
    BY <1>1, NodeFacts
  <2> QED BY <1>2, <2>1, <2>2, AppendOnce, ZenonT(40)
<1> QED BY <1>2, <1>4, <1>5

LEMMA ParentFacts ==
  ASSUME NEW g, EngineOK(g), NEW n \in DOMAIN g.nodes, n # g.root
  PROVE  LET p == g.nodes[n].parent IN
           /\ p \in DOMAIN g.nodes /\ p < n /\ p # n
           /\ \E i \in DOMAIN g.nodes[p].children :
                g.nodes[p].children[i] = n /\ g.nodes[n].task = Append(g.nodes[p].task, i)
<1> DEFINE p == g.nodes[n].parent
<1>1. ParentOK(g, n)
  BY DEF EngineOK
<1>2. PICK i \in DOMAIN g.nodes[p].children : g.nodes[p].children[i] = n
  BY <1>1 DEF ParentOK
<1>3. p \in DOMAIN g.nodes
  BY <1>1 DEF ParentOK
<1> HIDE DEF p
<1>4. p < n /\ p # n /\ g.nodes[n].task = Append(g.nodes[p].task, i)
  BY <1>2, <1>3, ChildFacts
<1>5. \E j \in DOMAIN g.nodes[p].children :
        g.nodes[p].children[j] = n /\ g.nodes[n].task = Append(g.nodes[p].task, j)
  BY <1>2, <1>4
<1> QED BY <1>3, <1>4, <1>5 DEF p

-----------------------------------------------------------------------------
(* One node at work: what an operation on a node n keeps of the engine.    *)

AboutOnly(g, n) == g.asked # None => g.asked.node = n

Turn(g, n) ==
  /\ HasTurn(g, n) /\ AboutOnly(g, n)
  /\ \A i \in DOMAIN g.nodes[n].children : ~Busy(g, g.nodes[n].children[i])

Extends(g, h, n) ==
  /\ h.root = g.root /\ g.nextNode <= h.nextNode /\ g.nextArtifact <= h.nextArtifact
  /\ \A m \in DOMAIN g.nodes \ {n} : h.nodes[m] = g.nodes[m]
  /\ SameNode(g.nodes[n], h.nodes[n])
  /\ h.nodes[n].status = "New" => g.nodes[n].status = "New"
  /\ g.nodes[n].status # "New" => h.nodes[n].size = g.nodes[n].size
  /\ \A a \in DOMAIN g.artifacts : h.artifacts[a] = g.artifacts[a]
  /\ \A entry \in h.log :
       \/ entry \in g.log
       \/ /\ DOMAIN entry = {"node", "task", "what"}
          /\ entry.node = n /\ entry.task = g.nodes[n].task

\* The children of n stay as they are.
Local(g, h, n) ==
  /\ Extends(g, h, n)
  /\ h.nextNode = g.nextNode /\ h.nodes[n].children = g.nodes[n].children
  /\ h.nodes[n].status = "Planned" =>
       g.nodes[n].status = "Planned" /\ h.nodes[n].plan = g.nodes[n].plan

\* n gets its children.
Grows(g, h, n) ==
  /\ Extends(g, h, n)
  /\ g.nodes[n].children = <<>> /\ ChildrenOK(h, n)
  /\ \A i \in DOMAIN h.nodes[n].children : h.nodes[n].children[i] \notin DOMAIN g.nodes
  /\ \A m \in DOMAIN h.nodes \ DOMAIN g.nodes :
       /\ h.nodes[m].status = "New" /\ h.nodes[m].children = <<>>
       /\ h.nodes[m].candidate = None /\ h.nodes[m].accepted = None
       /\ h.nodes[m].parent = n
       /\ \E i \in DOMAIN h.nodes[n].children : h.nodes[n].children[i] = m

LEMMA LocalComposes ==
  ASSUME NEW g, NEW h, NEW k, NEW n \in DOMAIN g.nodes,
         EngineShape(g), EngineShape(h), Local(g, h, n), Local(h, k, n), EngineShape(k)
  PROVE  Local(g, k, n)
<1>1. DOMAIN h.nodes = DOMAIN g.nodes /\ h.root = g.root /\ h.nextNode = g.nextNode
  BY NodeFacts DEF Local, Extends, EngineShape
<1>2. g.nextArtifact \in Nat /\ h.nextArtifact \in Nat /\ k.nextArtifact \in Nat
      /\ g.nextArtifact <= h.nextArtifact /\ h.nextArtifact <= k.nextArtifact
      /\ g.nextNode \in Nat
      /\ DOMAIN g.artifacts = 1..g.nextArtifact /\ DOMAIN h.artifacts = 1..h.nextArtifact
  BY DEF EngineShape, Local, Extends
<1>3. DOMAIN g.artifacts \subseteq DOMAIN h.artifacts
  BY <1>2
<1>4. \A a \in DOMAIN g.artifacts : k.artifacts[a] = g.artifacts[a]
  BY <1>3 DEF Local, Extends
<1>5. \A m \in DOMAIN g.nodes \ {n} : k.nodes[m] = g.nodes[m]
  BY <1>1 DEF Local, Extends
<1>6. SameNode(g.nodes[n], k.nodes[n]) /\ h.nodes[n].task = g.nodes[n].task
  BY DEF Local, Extends, SameNode
<1>7. \A entry \in k.log :
        \/ entry \in g.log
        \/ /\ DOMAIN entry = {"node", "task", "what"}
           /\ entry.node = n /\ entry.task = g.nodes[n].task
  BY <1>6 DEF Local, Extends
<1>8. /\ k.nodes[n].status = "New" => g.nodes[n].status = "New"
      /\ g.nodes[n].status # "New" => k.nodes[n].size = g.nodes[n].size
  BY DEF Local, Extends
<1>9. Extends(g, k, n)
  <2>1. k.root = g.root /\ g.nextNode <= k.nextNode /\ g.nextArtifact <= k.nextArtifact
    BY <1>1, <1>2 DEF Local, Extends
  <2> QED BY <2>1, <1>4, <1>5, <1>6, <1>7, <1>8 DEF Extends
<1> QED BY <1>1, <1>9 DEF Local

LEMMA TurnFrom ==
  ASSUME NEW h, NEW n, NEW v, h.nodes[h.nodes[n].parent] = v,
         v.status = "Planned", v.plan = "Stage",
         \A i, j \in DOMAIN v.children : v.children[i] = n =>
           /\ j < i => h.nodes[v.children[j]].status = "Committed"
           /\ i < j => h.nodes[v.children[j]].status = "New"
  PROVE  HasTurn(h, n)
BY DEF HasTurn

LEMMA Siblings ==
  ASSUME NEW g, EngineOK(g), NEW n \in DOMAIN g.nodes, HasTurn(g, n),
         NEW p \in DOMAIN g.nodes,
         NEW i \in DOMAIN g.nodes[p].children, g.nodes[p].children[i] = n,
         NEW j \in DOMAIN g.nodes[p].children
  PROVE  /\ g.nodes[p].status = "Planned" /\ g.nodes[p].plan = "Stage"
         /\ j < i => g.nodes[g.nodes[p].children[j]].status = "Committed"
         /\ i < j => g.nodes[g.nodes[p].children[j]].status = "New"
<1>1. n # g.root /\ g.nodes[n].parent = p
  BY ChildFacts
<1> QED BY <1>1 DEF HasTurn

LEMMA Domains ==
  ASSUME NEW g, NEW h, NEW n \in DOMAIN g.nodes, EngineOK(g), EngineShape(h),
         Local(g, h, n) \/ Grows(g, h, n)
  PROVE  /\ DOMAIN g.nodes \subseteq DOMAIN h.nodes /\ h.root = g.root
         /\ \A m \in DOMAIN g.nodes \ {n} :
              /\ h.nodes[m] = g.nodes[m]
              /\ \A i \in DOMAIN g.nodes[m].children : g.nodes[m].children[i] \in DOMAIN g.nodes
         /\ \A m \in DOMAIN h.nodes \ DOMAIN g.nodes :
              /\ Grows(g, h, n)
              /\ h.nodes[m].status = "New" /\ h.nodes[m].children = <<>>
         /\ DOMAIN g.artifacts \subseteq DOMAIN h.artifacts
         /\ \A a \in DOMAIN g.artifacts : h.artifacts[a] = g.artifacts[a]
<1>1. Extends(g, h, n) /\ EngineShape(g)
  BY DEF Local, Grows, EngineOK
<1>2. /\ g.root \in Nat /\ g.nextNode \in Nat /\ h.nextNode \in Nat
      /\ h.root = g.root /\ g.nextNode <= h.nextNode
      /\ DOMAIN g.nodes = g.root..g.nextNode /\ DOMAIN h.nodes = h.root..h.nextNode
      /\ g.nextArtifact \in Nat /\ h.nextArtifact \in Nat /\ g.nextArtifact <= h.nextArtifact
      /\ DOMAIN g.artifacts = 1..g.nextArtifact /\ DOMAIN h.artifacts = 1..h.nextArtifact
  BY <1>1 DEF Extends, EngineShape
<1>3. DOMAIN g.nodes \subseteq DOMAIN h.nodes /\ DOMAIN g.artifacts \subseteq DOMAIN h.artifacts
  BY <1>2
<1>4. \A m \in DOMAIN g.nodes \ {n} :
        /\ h.nodes[m] = g.nodes[m]
        /\ \A i \in DOMAIN g.nodes[m].children : g.nodes[m].children[i] \in DOMAIN g.nodes
  BY <1>1, ChildFacts DEF Extends
<1>5. \A m \in DOMAIN h.nodes \ DOMAIN g.nodes :
        Grows(g, h, n) /\ h.nodes[m].status = "New" /\ h.nodes[m].children = <<>>
  BY <1>2 DEF Local, Grows
<1> QED BY <1>1, <1>2, <1>3, <1>4, <1>5 DEF Extends

\* Two nodes with something to do are never siblings, so what n does leaves
\* every other node its turn.
LEMMA ThreadKept ==
  ASSUME NEW g, NEW h, NEW n \in DOMAIN g.nodes, EngineOK(g), EngineShape(h),
         Local(g, h, n) \/ Grows(g, h, n), Turn(g, n), AboutOnly(h, n)
  PROVE  ThreadOK(h)
<1>1. /\ DOMAIN g.nodes \subseteq DOMAIN h.nodes /\ h.root = g.root
      /\ \A m \in DOMAIN g.nodes \ {n} :
           /\ h.nodes[m] = g.nodes[m]
           /\ \A i \in DOMAIN g.nodes[m].children : g.nodes[m].children[i] \in DOMAIN g.nodes
      /\ \A m \in DOMAIN h.nodes \ DOMAIN g.nodes :
           Grows(g, h, n) /\ h.nodes[m].status = "New" /\ h.nodes[m].children = <<>>
  BY Domains
<1>2. /\ ThreadOK(g) /\ HasTurn(g, n) /\ SameNode(g.nodes[n], h.nodes[n])
      /\ EngineShape(g)
  BY DEF EngineOK, Turn, Local, Grows, Extends
<1>3. ASSUME NEW m \in DOMAIN h.nodes, Busy(h, m)
      PROVE  HasTurn(h, m) /\ (m # h.root => ~IsAsked(h, h.nodes[m].parent))
  <2>1. m \in DOMAIN g.nodes
    BY <1>1, <1>3 DEF Busy, AboutOnly, IsAsked
  <2>2. h.nodes[m].parent = g.nodes[m].parent
    BY <1>1, <1>2, <2>1 DEF SameNode
  <2> SUFFICES ASSUME m # g.root PROVE HasTurn(h, m) /\ ~IsAsked(h, h.nodes[m].parent)
    BY <1>1, Zenon DEF HasTurn
  <2> DEFINE p == g.nodes[m].parent
  <2>3. p \in DOMAIN g.nodes /\ p # m
    BY <2>1, ParentFacts
  <2>4. CASE m = n
    <3>1. h.nodes[p] = g.nodes[p]
      BY <1>1, <2>3, <2>4
    <3>2. ~IsAsked(h, p)
      BY <2>3, <2>4 DEF AboutOnly, IsAsked
    <3>3. \A i, j \in DOMAIN g.nodes[p].children :
            g.nodes[p].children[i] = n /\ (j < i \/ i < j)
              => h.nodes[g.nodes[p].children[j]] = g.nodes[g.nodes[p].children[j]]
      <4> SUFFICES ASSUME NEW i \in DOMAIN g.nodes[p].children,
                          NEW j \in DOMAIN g.nodes[p].children,
                          g.nodes[p].children[i] = n, j < i \/ i < j
                   PROVE  h.nodes[g.nodes[p].children[j]] = g.nodes[g.nodes[p].children[j]]
        OBVIOUS
      <4>1. i \in Nat /\ j \in Nat
        BY <2>3, ChildIndex
      <4>2. g.nodes[p].children[j] # n
        BY <2>3, <4>1, ChildFacts
      <4> QED BY <1>1, <2>3, <2>4, <4>2
    <3>4. /\ g.nodes[p].status = "Planned" /\ g.nodes[p].plan = "Stage"
          /\ \A i, j \in DOMAIN g.nodes[p].children : g.nodes[p].children[i] = n =>
               /\ j < i => g.nodes[g.nodes[p].children[j]].status = "Committed"
               /\ i < j => g.nodes[g.nodes[p].children[j]].status = "New"
      BY <1>2, <2>4, ZenonT(40) DEF HasTurn
    <3>5. HasTurn(h, m)
      <4>1. \A i, j \in DOMAIN g.nodes[p].children : g.nodes[p].children[i] = n =>
               /\ j < i => h.nodes[g.nodes[p].children[j]].status = "Committed"
               /\ i < j => h.nodes[g.nodes[p].children[j]].status = "New"
        BY <3>3, <3>4, Zenon
      <4>2. h.nodes[h.nodes[n].parent] = g.nodes[p]
        BY <2>2, <2>4, <3>1
      <4> HIDE DEF p
      <4>3. HasTurn(h, n)
        BY <3>4, <4>1, <4>2, TurnFrom
      <4> QED BY <2>4, <4>3
    <3> QED BY <2>2, <3>2, <3>5
  <2>5. CASE m # n
    <3>1. h.nodes[m] = g.nodes[m] /\ Busy(g, m)
      BY <1>1, <1>3, <2>1, <2>5 DEF Busy, AboutOnly, IsAsked
    <3>2. HasTurn(g, m)
      BY <1>2, <2>1, <3>1 DEF ThreadOK
    <3>3. PICK i \in DOMAIN g.nodes[p].children : g.nodes[p].children[i] = m
      BY <2>1, ParentFacts
    <3>4. p # n
      BY <3>1, <3>3 DEF Turn
    <3>5. h.nodes[p] = g.nodes[p]
      BY <1>1, <2>3, <3>4
    <3>6. m \in DOMAIN g.nodes /\ g.nodes[m].status # "Committed" /\ g.nodes[m].status # "New"
      <4>1. ~IsAsked(g, m)
        BY <2>5 DEF IsAsked, Turn, AboutOnly
      <4> QED BY <2>1, <3>1, <4>1 DEF Busy
    <3>7. \A j \in DOMAIN g.nodes[p].children : g.nodes[p].children[j] # n
      <4> SUFFICES ASSUME NEW j \in DOMAIN g.nodes[p].children, g.nodes[p].children[j] = n
                   PROVE  FALSE
        OBVIOUS
      <4>1. i \in Nat /\ j \in Nat
        BY <2>3, ChildIndex
      <4> i # j
        BY <2>5, <3>3
      <4>2. ~(i < j) /\ ~(j < i)
        BY <1>2, <2>3, <3>3, <3>6, Siblings
      <4> QED BY <4>1, <4>2
    <3>8. \A j \in DOMAIN g.nodes[p].children :
            h.nodes[g.nodes[p].children[j]] = g.nodes[g.nodes[p].children[j]]
      BY <1>1, <2>3, <3>4, <3>7
    <3>9. HasTurn(h, m)
      <4>1. /\ g.nodes[p].status = "Planned" /\ g.nodes[p].plan = "Stage"
            /\ \A k, j \in DOMAIN g.nodes[p].children : g.nodes[p].children[k] = m =>
                 /\ j < k => g.nodes[g.nodes[p].children[j]].status = "Committed"
                 /\ k < j => g.nodes[g.nodes[p].children[j]].status = "New"
        BY <3>2, Zenon DEF HasTurn
      <4>2. h.nodes[h.nodes[m].parent] = g.nodes[p]
        BY <2>2, <3>5
      <4> HIDE DEF p
      <4>3. \A k, j \in DOMAIN g.nodes[p].children : g.nodes[p].children[k] = m =>
              /\ j < k => h.nodes[g.nodes[p].children[j]].status = "Committed"
              /\ k < j => h.nodes[g.nodes[p].children[j]].status = "New"
        BY <3>8, <4>1
      <4> QED BY <4>1, <4>2, <4>3, TurnFrom
    <3>10. ~IsAsked(h, p)
      BY <3>4 DEF AboutOnly, IsAsked
    <3> QED BY <2>2, <3>9, <3>10
  <2> QED BY <2>4, <2>5
<1>4. ASSUME NEW m \in DOMAIN h.nodes,
             h.nodes[m].status = "Planned", h.nodes[m].plan = "Stage",
             NEW i \in DOMAIN h.nodes[m].children, NEW j \in DOMAIN h.nodes[m].children,
             i < j, h.nodes[h.nodes[m].children[j]].status # "New"
      PROVE  h.nodes[h.nodes[m].children[i]].status = "Committed"
  <2>1. m \in DOMAIN g.nodes
    BY <1>1, <1>4
  <2>2. CASE m = n
    <3>1. h.nodes[n].children[j] \in DOMAIN g.nodes
      <4>1. CASE Local(g, h, n)
        BY <2>2, <4>1, ChildFacts DEF Local
      <4>2. CASE Grows(g, h, n)
        BY <1>1, <1>4, <2>2, <4>2, Zenon DEF Grows, ChildrenOK
      <4> QED BY <4>1, <4>2
    <3>2. Local(g, h, n)
      BY <1>4, <2>2, <3>1 DEF Grows
    <3>3. /\ g.nodes[n].status = "Planned" /\ g.nodes[n].plan = "Stage"
          /\ h.nodes[n].children = g.nodes[n].children
      BY <1>4, <2>2, <3>2 DEF Local
    <3>4. \A k \in DOMAIN g.nodes[n].children :
            h.nodes[g.nodes[n].children[k]] = g.nodes[g.nodes[n].children[k]]
      BY <1>1, ChildFacts
    <3> QED BY <1>2, <1>4, <2>2, <3>3, <3>4 DEF ThreadOK
  <2>3. CASE m # n
    <3>1. h.nodes[m] = g.nodes[m]
      BY <1>1, <2>1, <2>3
    <3>2. i \in Nat /\ j \in Nat
      BY <1>4, <2>1, <3>1, ChildIndex
    <3> DEFINE ci == g.nodes[m].children[i]
               cj == g.nodes[m].children[j]
    <3>3. ci \in DOMAIN g.nodes /\ cj \in DOMAIN g.nodes /\ ci # cj
      <4>1. i \in DOMAIN g.nodes[m].children /\ j \in DOMAIN g.nodes[m].children /\ i # j
        BY <1>4, <3>1, <3>2
      <4> QED BY <2>1, <4>1, ChildFacts
    <3>4. CASE cj = n
      <4>1. h.nodes[ci] = g.nodes[ci]
        BY <1>1, <3>3, <3>4
      <4>2. g.nodes[ci].status = "Committed"
        BY <1>2, <1>4, <2>1, <3>1, <3>4, Siblings
      <4> QED BY <3>1, <4>1, <4>2
    <3>5. CASE ci = n
      <4>1. h.nodes[cj] = g.nodes[cj]
        BY <1>1, <3>3, <3>5
      <4>2. g.nodes[cj].status = "New"
        BY <1>2, <1>4, <2>1, <3>1, <3>5, Siblings
      <4> QED BY <1>4, <3>1, <4>1, <4>2
    <3>6. CASE ci # n /\ cj # n
      <4>1. h.nodes[ci] = g.nodes[ci] /\ h.nodes[cj] = g.nodes[cj]
        BY <1>1, <3>3, <3>6
      <4> QED BY <1>2, <1>4, <2>1, <3>1, <4>1 DEF ThreadOK
    <3> QED BY <3>4, <3>5, <3>6
  <2> QED BY <2>2, <2>3
<1> QED BY <1>3, <1>4 DEF ThreadOK

LEMMA ChildrenKept ==
  ASSUME NEW g, NEW h, NEW n \in DOMAIN g.nodes, ChildrenOK(g, n),
         h.nodes[n].children = g.nodes[n].children,
         \A c \in DOMAIN g.nodes : c \in DOMAIN h.nodes /\ SameNode(g.nodes[c], h.nodes[c])
  PROVE  ChildrenOK(h, n)
<1> SUFFICES ASSUME NEW i \in DOMAIN g.nodes[n].children
             PROVE  LET c == g.nodes[n].children[i] IN
                      /\ c \in DOMAIN h.nodes /\ n < c
                      /\ h.nodes[c].parent = n /\ h.nodes[c].task = Append(h.nodes[n].task, i)
                      /\ Fits(h.nodes[c].readScope, h.nodes[n].readScope)
                      /\ Fits(h.nodes[c].writeScope, h.nodes[n].writeScope)
  BY ZenonT(40) DEF ChildrenOK
<1> DEFINE c == g.nodes[n].children[i]
<1>1. /\ c \in DOMAIN g.nodes /\ n < c
      /\ g.nodes[c].parent = n /\ g.nodes[c].task = Append(g.nodes[n].task, i)
      /\ Fits(g.nodes[c].readScope, g.nodes[n].readScope)
      /\ Fits(g.nodes[c].writeScope, g.nodes[n].writeScope)
  BY DEF ChildrenOK
<1>2. SameNode(g.nodes[c], h.nodes[c]) /\ SameNode(g.nodes[n], h.nodes[n]) /\ c \in DOMAIN h.nodes
  BY <1>1, Zenon
<1> HIDE DEF c
<1>3. /\ c \in DOMAIN h.nodes /\ n < c
      /\ h.nodes[c].parent = n /\ h.nodes[c].task = Append(h.nodes[n].task, i)
      /\ Fits(h.nodes[c].readScope, h.nodes[n].readScope)
      /\ Fits(h.nodes[c].writeScope, h.nodes[n].writeScope)
  BY <1>1, <1>2, ZenonT(40) DEF SameNode
<1> QED BY <1>3, Zenon DEF c

\* What is new is to be shown of n and of the artifacts, memo entries and
\* requests that were added.
LEMMA EngineKept ==
  ASSUME NEW g, NEW h, NEW n \in DOMAIN g.nodes, EngineOK(g), EngineShape(h),
         Local(g, h, n) \/ Grows(g, h, n), Turn(g, n), AboutOnly(h, n),
         WorkOK(h, n), AskedOK(h),
         \A a \in DOMAIN h.artifacts \ DOMAIN g.artifacts : MadeOK(h, a),
         \A k \in DOMAIN h.memo :
           (k \in DOMAIN g.memo /\ h.memo[k] = g.memo[k]) \/ ServesKey(h, h.memo[k], k)
  PROVE  EngineOK(h)
<1>1. /\ DOMAIN g.nodes \subseteq DOMAIN h.nodes /\ h.root = g.root
      /\ \A m \in DOMAIN g.nodes \ {n} :
           /\ h.nodes[m] = g.nodes[m]
           /\ \A i \in DOMAIN g.nodes[m].children : g.nodes[m].children[i] \in DOMAIN g.nodes
      /\ \A m \in DOMAIN h.nodes \ DOMAIN g.nodes :
           Grows(g, h, n) /\ h.nodes[m].status = "New" /\ h.nodes[m].children = <<>>
      /\ DOMAIN g.artifacts \subseteq DOMAIN h.artifacts
      /\ \A a \in DOMAIN g.artifacts : h.artifacts[a] = g.artifacts[a]
  BY Domains
<1>2. /\ EngineShape(g) /\ Extends(g, h, n) /\ SameNode(g.nodes[n], h.nodes[n])
  BY DEF EngineOK, Local, Grows, Extends
<1>3. \A m \in DOMAIN g.nodes : SameNode(g.nodes[m], h.nodes[m])
  BY <1>1, <1>2 DEF SameNode
<1>4. \A a \in 1..g.nextArtifact : a \in 1..h.nextArtifact /\ Text(h, a) = Text(g, a)
  BY <1>1, <1>2 DEF EngineShape, Text
<1>5. \A ids, texts : SameTexts(g, ids, texts) => SameTexts(h, ids, texts)
  <2> SUFFICES ASSUME NEW ids, NEW texts, SameTexts(g, ids, texts)
               PROVE  SameTexts(h, ids, texts)
    OBVIOUS
  <2>1. ids \in Seq(1..g.nextArtifact)
    BY DEF SameTexts
  <2>2. Len(ids) \in Nat /\ ids \in [1..Len(ids) -> 1..g.nextArtifact] /\ DOMAIN ids = 1..Len(ids)
    BY <2>1, LenProperties
  <2>3. ids \in [1..Len(ids) -> 1..h.nextArtifact]
    BY <1>4, <2>2
  <2>4. ids \in Seq(1..h.nextArtifact)
    BY <2>2, <2>3, FunctionInSeq
  <2>5. \A i \in DOMAIN ids : Text(h, ids[i]) = texts[i]
    BY <1>4, <2>2 DEF SameTexts
  <2> QED BY <2>4, <2>5 DEF SameTexts
<1>6. ASSUME NEW m \in DOMAIN h.nodes PROVE ChildrenOK(h, m) /\ ParentOK(h, m) /\ WorkOK(h, m)
  <2>1. CASE m \in DOMAIN g.nodes /\ m # n
    <3>1. ChildrenOK(g, m) /\ ParentOK(g, m) /\ WorkOK(g, m) /\ h.nodes[m] = g.nodes[m]
      BY <1>1, <2>1 DEF EngineOK
    <3>2. ChildrenOK(h, m)
      <4>1. \A c \in DOMAIN g.nodes : c \in DOMAIN h.nodes /\ SameNode(g.nodes[c], h.nodes[c])
        BY <1>1, <1>3
      <4> QED BY <2>1, <3>1, <4>1, ChildrenKept
    <3>3. ParentOK(h, m)
      <4> SUFFICES ASSUME m # g.root
                   PROVE  /\ g.nodes[m].parent \in DOMAIN h.nodes
                          /\ \E i \in DOMAIN h.nodes[g.nodes[m].parent].children :
                               h.nodes[g.nodes[m].parent].children[i] = m
        BY <1>1, <3>1 DEF ParentOK
      <4> DEFINE p == g.nodes[m].parent
      <4>1. p \in DOMAIN g.nodes /\ \E i \in DOMAIN g.nodes[p].children : g.nodes[p].children[i] = m
        BY <3>1 DEF ParentOK
      <4>2. CASE p # n
        BY <1>1, <4>1, <4>2
      <4>3. CASE p = n
        <5>1. h.nodes[n].children = g.nodes[n].children
          BY <4>1, <4>3 DEF Local, Grows
        <5> QED BY <1>1, <4>1, <4>3, <5>1
      <4> QED BY <4>2, <4>3
    <3>4. WorkOK(h, m)
      BY <1>4, <3>1 DEF WorkOK, ServesKey
    <3> QED BY <3>2, <3>3, <3>4
  <2>2. CASE m = n
    <3>1. ChildrenOK(h, n)
      <4>1. CASE Grows(g, h, n)
        BY <4>1 DEF Grows
      <4>2. CASE Local(g, h, n)
        <5>1. ChildrenOK(g, n) /\ h.nodes[n].children = g.nodes[n].children
          BY <4>2 DEF EngineOK, Local
        <5>2. \A c \in DOMAIN g.nodes : c \in DOMAIN h.nodes /\ SameNode(g.nodes[c], h.nodes[c])
          BY <1>1, <1>3
        <5> QED BY <5>1, <5>2, ChildrenKept
      <4> QED BY <4>1, <4>2
    <3>2. ParentOK(h, n)
      <4> SUFFICES ASSUME n # g.root PROVE ParentOK(h, n)
        BY <1>1 DEF ParentOK
      <4> DEFINE p == g.nodes[n].parent
      <4>1. /\ p \in DOMAIN g.nodes /\ p # n
            /\ \E i \in DOMAIN g.nodes[p].children : g.nodes[p].children[i] = n
        BY ParentFacts
      <4>2. h.nodes[p] = g.nodes[p] /\ h.nodes[n].parent = p /\ p \in DOMAIN h.nodes
        BY <1>1, <1>2, <4>1 DEF SameNode
      <4> HIDE DEF p
      <4> QED BY <4>1, <4>2 DEF ParentOK
    <3> QED BY <2>2, <3>1, <3>2
  <2>3. CASE m \notin DOMAIN g.nodes
    <3>1. /\ h.nodes[m].status = "New" /\ h.nodes[m].children = <<>>
          /\ h.nodes[m].candidate = None /\ h.nodes[m].accepted = None
          /\ h.nodes[m].parent = n
          /\ \E i \in DOMAIN h.nodes[n].children : h.nodes[n].children[i] = m
      BY <1>1, <2>3 DEF Grows
    <3>2. ChildrenOK(h, m) /\ WorkOK(h, m)
      BY <3>1 DEF ChildrenOK, WorkOK
    <3>3. ParentOK(h, m)
      BY <1>1, <3>1 DEF ParentOK
    <3> QED BY <3>2, <3>3
  <2> QED BY <2>1, <2>2, <2>3
<1>7. ASSUME NEW a \in DOMAIN h.artifacts PROVE MadeOK(h, a)
  <2> SUFFICES ASSUME a \in DOMAIN g.artifacts PROVE MadeOK(h, a)
    OBVIOUS
  <2>1. h.artifacts[a] = g.artifacts[a] /\ MadeOK(g, a)
    BY <1>1 DEF EngineOK
  <2> DEFINE maker == g.artifacts[a].node
  <2>2. /\ maker \in DOMAIN g.nodes /\ maker \in DOMAIN h.nodes
        /\ g.nodes[maker].task = g.artifacts[a].text.by /\ g.nodes[maker].status # "New"
    BY <1>1, <2>1 DEF MadeOK, Holds
  <2>3. h.nodes[maker].task = g.nodes[maker].task /\ h.nodes[maker].status # "New"
    BY <1>1, <1>2, <1>3, <2>2 DEF SameNode, Extends
  <2>4. SameTexts(h, g.artifacts[a].children, g.artifacts[a].text.from)
    BY <1>5, <2>1 DEF MadeOK
  <2> QED BY <2>1, <2>2, <2>3, <2>4 DEF MadeOK, Holds
<1>8. MemoOK(h)
  BY <1>4 DEF EngineOK, MemoOK, ServesKey
<1>9. LogOK(h)
  <2> SUFFICES ASSUME NEW entry \in h.log
               PROVE  DOMAIN entry = {"node", "task", "what"} /\ Holds(h, entry.node, entry.task)
    BY DEF LogOK
  <2>1. CASE entry \in g.log
    <3>1. DOMAIN entry = {"node", "task", "what"} /\ Holds(g, entry.node, entry.task)
      BY <2>1 DEF EngineOK, LogOK
    <3> QED BY <1>1, <1>3, <3>1 DEF Holds, SameNode
  <2>2. CASE entry \notin g.log
    <3>1. /\ DOMAIN entry = {"node", "task", "what"}
          /\ entry.node = n /\ entry.task = g.nodes[n].task
      BY <1>2, <2>2 DEF Extends
    <3> QED BY <1>1, <1>2, <3>1 DEF Holds, SameNode
  <2> QED BY <2>1, <2>2
<1>10. ThreadOK(h)
  BY ThreadKept
<1> QED BY <1>6, <1>7, <1>8, <1>9, <1>10 DEF EngineOK

LEMMA CleanKept ==
  ASSUME NEW g, NEW h, NEW n \in DOMAIN g.nodes, NEW ok, NEW okNext,
         EngineOK(g), EngineShape(h), EngineOK(h), CleanOK(g, ok), ok \subseteq okNext,
         Local(g, h, n) \/ Grows(g, h, n),
         h.nodes[n].accepted # None =>
           (h.nodes[n].accepted = g.nodes[n].accepted \/ Clean(h, h.nodes[n].accepted, okNext)),
         \A k \in DOMAIN h.memo :
           (k \in DOMAIN g.memo /\ h.memo[k] = g.memo[k]) \/ Clean(h, h.memo[k], okNext)
  PROVE  CleanOK(h, okNext)
<1>1. /\ DOMAIN g.nodes \subseteq DOMAIN h.nodes
      /\ \A m \in DOMAIN g.nodes \ {n} : h.nodes[m] = g.nodes[m]
      /\ \A m \in DOMAIN h.nodes \ DOMAIN g.nodes : h.nodes[m].status = "New"
      /\ \A a \in DOMAIN g.artifacts : h.artifacts[a] = g.artifacts[a]
  BY Domains
<1>2. EngineShape(g) /\ Extends(g, h, n)
  BY DEF EngineOK, Local, Grows
<1>3. ASSUME NEW a \in 1..g.nextArtifact, Clean(g, a, ok) PROVE Clean(h, a, okNext)
  <2>1. a \in DOMAIN g.artifacts /\ h.artifacts[a] = g.artifacts[a]
    BY <1>1, <1>2 DEF EngineShape
  <2> DEFINE maker == g.artifacts[a].node
  <2>2. maker \in DOMAIN g.nodes /\ g.nodes[maker].status # "New"
    BY <2>1 DEF EngineOK, MadeOK, Holds
  <2>3. h.nodes[maker].size = g.nodes[maker].size
    BY <1>1, <1>2, <2>2 DEF Extends
  <2> QED BY <1>3, <2>1, <2>3, Zenon DEF Clean, Text
<1>4. ASSUME NEW m \in DOMAIN h.nodes, h.nodes[m].accepted # None
      PROVE  Clean(h, h.nodes[m].accepted, okNext)
  <2>1. m \in DOMAIN g.nodes
    BY <1>1, <1>4 DEF EngineOK, WorkOK
  <2>2. WorkOK(g, m)
    BY <2>1 DEF EngineOK
  <2>3. g.nodes[m].accepted # None =>
          g.nodes[m].accepted \in 1..g.nextArtifact /\ Clean(g, g.nodes[m].accepted, ok)
    BY <2>1, <2>2 DEF WorkOK, ServesKey, CleanOK
  <2>4. CASE h.nodes[m].accepted = g.nodes[m].accepted
    BY <1>3, <1>4, <2>3, <2>4
  <2>5. CASE h.nodes[m].accepted # g.nodes[m].accepted
    <3>1. m = n
      BY <1>1, <2>1, <2>5
    <3> QED BY <1>4, <2>5, <3>1
  <2> QED BY <2>4, <2>5
<1>5. ASSUME NEW k \in DOMAIN h.memo PROVE Clean(h, h.memo[k], okNext)
  <2>1. \A j \in DOMAIN g.memo : g.memo[j] \in 1..g.nextArtifact /\ Clean(g, g.memo[j], ok)
    BY DEF EngineOK, MemoOK, ServesKey, CleanOK
  <2> QED BY <1>3, <2>1
<1> QED BY <1>4, <1>5 DEF CleanOK

\* Both sides of a branch.
LEMMA BranchKept ==
  ASSUME NEW g, NEW h, NEW n \in DOMAIN g.nodes, NEW c, NEW b,
         EngineOK(g), EngineShape(h), Local(g, h, n) \/ Grows(g, h, n), Turn(g, n),
         AboutOnly(h, n), BranchOK(g, c, b), g.nodes[c].parent # n
  PROVE  BranchOK(h, c, b)
<1>1. /\ DOMAIN g.nodes \subseteq DOMAIN h.nodes /\ h.root = g.root
      /\ \A m \in DOMAIN g.nodes \ {n} : h.nodes[m] = g.nodes[m]
  BY Domains
<1> DEFINE p == g.nodes[c].parent
<1>2. /\ c \in DOMAIN g.nodes /\ c # g.root /\ g.nodes[c].status = "New"
      /\ b.root = c /\ SameNode(g.nodes[c], b.nodes[c])
      /\ g.nodes[p].status = "Planned" /\ g.nodes[p].plan = "Parallel"
  BY DEF BranchOK
<1>3. c # n
  BY <1>2 DEF Turn, HasTurn
<1>4. p \in DOMAIN g.nodes /\ p # n
  BY <1>2, ParentFacts
<1>5. h.nodes[c] = g.nodes[c] /\ h.nodes[p] = g.nodes[p] /\ ~IsAsked(h, p)
  BY <1>1, <1>2, <1>3, <1>4 DEF AboutOnly, IsAsked
<1> QED BY <1>1, <1>2, <1>5 DEF BranchOK

LEMMA BranchGoesOn ==
  ASSUME NEW g, NEW h, NEW n \in DOMAIN g.nodes, NEW c, NEW f,
         EngineOK(g), EngineShape(h), Local(g, h, n) \/ Grows(g, h, n), BranchOK(f, c, g)
  PROVE  BranchOK(f, c, h)
<1>1. /\ h.root = g.root /\ SameNode(g.nodes[n], h.nodes[n])
      /\ \A m \in DOMAIN g.nodes \ {n} : h.nodes[m] = g.nodes[m]
  BY DEF Local, Grows, Extends
<1>2. g.root = c /\ c \in DOMAIN g.nodes
  BY NodeFacts DEF BranchOK, EngineOK
<1>3. SameNode(f.nodes[c], h.nodes[c])
  BY <1>1, <1>2 DEF BranchOK, SameNode
<1> QED BY <1>1, <1>2, <1>3 DEF BranchOK

-----------------------------------------------------------------------------
(* Whose turn it is.                                                       *)

LEMMA TurnOfAsked ==
  ASSUME NEW g, EngineOK(g), g.asked # None
  PROVE  g.asked.node \in DOMAIN g.nodes /\ Turn(g, g.asked.node)
<1> DEFINE n == g.asked.node
<1>1. n \in DOMAIN g.nodes /\ Busy(g, n) /\ ThreadOK(g) /\ IsAsked(g, n)
  BY DEF EngineOK, EngineShape, Busy, IsAsked
<1>2. HasTurn(g, n) /\ AboutOnly(g, n)
  BY <1>1 DEF ThreadOK, AboutOnly
<1>3. ASSUME NEW i \in DOMAIN g.nodes[n].children PROVE ~Busy(g, g.nodes[n].children[i])
  <2> DEFINE c == g.nodes[n].children[i]
  <2>1. c \in DOMAIN g.nodes /\ c # g.root /\ g.nodes[c].parent = n
    BY <1>1, ChildFacts
  <2> QED BY <1>1, <2>1 DEF ThreadOK
<1> QED BY <1>1, <1>2, <1>3 DEF Turn

LEMMA TurnOfNext ==
  ASSUME NEW g, EngineOK(g), NEW n \in DOMAIN g.nodes, IsNext(g, n)
  PROVE  Turn(g, n) /\ g.nodes[n].children = <<>>
<1>1. ThreadOK(g) /\ g.nodes[n].children = <<>> /\ g.asked = None /\ EngineShape(g)
      /\ g.nodes[n].status = "New"
  BY DEF EngineOK, WorkOK, IsNext
<1>2. HasTurn(g, n)
  <2> SUFFICES ASSUME n # g.root PROVE HasTurn(g, n)
    BY Zenon DEF HasTurn
  <2> DEFINE p == g.nodes[n].parent
  <2>1. p \in DOMAIN g.nodes
    BY ParentFacts
  <2>2. /\ g.nodes[p].plan = "Stage" /\ g.nodes[p].status = "Planned"
        /\ \A i \in DOMAIN g.nodes[p].children :
             (\E j \in DOMAIN g.nodes[p].children : i < j /\ g.nodes[p].children[j] = n)
               => g.nodes[g.nodes[p].children[i]].status = "Committed"
    BY DEF IsNext
  <2>3. \A i, j \in DOMAIN g.nodes[p].children :
          i < j /\ g.nodes[g.nodes[p].children[j]].status # "New"
            => g.nodes[g.nodes[p].children[i]].status = "Committed"
    BY <1>1, <2>1, <2>2, ZenonT(40) DEF ThreadOK
  <2>4. \A i, j \in DOMAIN g.nodes[p].children : g.nodes[p].children[i] = n =>
          /\ j < i => g.nodes[g.nodes[p].children[j]].status = "Committed"
          /\ i < j => g.nodes[g.nodes[p].children[j]].status = "New"
    BY <1>1, <2>2, <2>3, Zenon
  <2>5. g.nodes[g.nodes[n].parent] = g.nodes[p]
    OBVIOUS
  <2> HIDE DEF p
  <2> QED BY <2>2, <2>4, <2>5, TurnFrom
<1> QED BY <1>1, <1>2 DEF Turn, AboutOnly

LEMMA TurnOfWaiting ==
  ASSUME NEW g, EngineOK(g), NEW n \in DOMAIN g.nodes, g.asked = None,
         g.nodes[n].status = "Planned",
         \/ g.nodes[n].plan = "Parallel"
         \/ \A c \in ToSet(g.nodes[n].children) : g.nodes[c].status = "Committed"
         \/ \E c \in ToSet(g.nodes[n].children) : g.nodes[c].status \in Final \ {"Committed"}
  PROVE  Turn(g, n)
<1>1. ThreadOK(g) /\ EngineShape(g)
  BY DEF EngineOK
<1>2. HasTurn(g, n)
  BY <1>1 DEF ThreadOK, Busy
<1>3. ASSUME NEW i \in DOMAIN g.nodes[n].children, Busy(g, g.nodes[n].children[i])
      PROVE  FALSE
  <2> DEFINE c == g.nodes[n].children[i]
  <2>1. c \in DOMAIN g.nodes
    BY <1>3, ChildFacts
  <2>2. HasTurn(g, c) /\ g.nodes[c].status \in {"Specified", "Planned", "Verifying"}
    BY <1>1, <1>3, <2>1 DEF ThreadOK, Busy, IsAsked
  <2>3. g.nodes[n].plan = "Stage"
    BY <1>3, <2>1, <2>2, Siblings
  <2>4. ToSet(g.nodes[n].children) = {g.nodes[n].children[j] : j \in DOMAIN g.nodes[n].children}
    BY DEF ToSet
  <2>5. PICK j \in DOMAIN g.nodes[n].children :
          g.nodes[g.nodes[n].children[j]].status \in Final \ {"Committed"}
    BY <2>2, <2>3, <2>4
  <2>6. i \in Nat /\ j \in Nat
    BY <1>1, NodeFacts
  <2>7. i # j
    BY <2>2, <2>5 DEF Final
  <2>8. ~(i < j) /\ ~(j < i)
    BY <2>1, <2>2, <2>5, Siblings DEF Final
  <2> QED BY <2>6, <2>7, <2>8
<1> QED BY <1>2, <1>3 DEF Turn, AboutOnly

-----------------------------------------------------------------------------
(* What the parts of a handler change.                                     *)

LEMMA ExtendsItself ==
  ASSUME NEW g, EngineShape(g), NEW n \in DOMAIN g.nodes
  PROVE  Local(g, g, n)
BY DEF Local, Extends, SameNode, EngineShape

LEMMA RecordedFields ==
  ASSUME NEW g, EngineShape(g), NEW n \in DOMAIN g.nodes, NEW what,
         NEW h, h = Recorded(g, n, what)
  PROVE  /\ EngineShape(h) /\ Local(g, h, n)
         /\ h.nodes = g.nodes /\ h.artifacts = g.artifacts /\ h.memo = g.memo
         /\ h.root = g.root /\ h.nextNode = g.nextNode /\ h.nextArtifact = g.nextArtifact
         /\ h.asked = g.asked
<1> DEFINE entry == [node |-> n, task |-> g.nodes[n].task, what |-> what]
<1>1. /\ DOMAIN h = DOMAIN g
      /\ h.nodes = g.nodes /\ h.artifacts = g.artifacts /\ h.memo = g.memo
      /\ h.root = g.root /\ h.nextNode = g.nextNode /\ h.nextArtifact = g.nextArtifact
      /\ h.asked = g.asked /\ h.log = g.log \union {entry}
  BY DEF Recorded, EngineShape
<1>2. DOMAIN entry = {"node", "task", "what"} /\ entry.node = n /\ entry.task = g.nodes[n].task
  OBVIOUS
<1>3. EngineShape(h)
  BY <1>1 DEF EngineShape
<1> HIDE DEF entry
<1>4. Local(g, h, n)
  BY <1>1, <1>2 DEF Local, Extends, SameNode, EngineShape
<1> QED BY <1>1, <1>3, <1>4

LEMMA AnsweredFields ==
  ASSUME NEW e, NEW g, g = engines[e], EngineShape(g), g.asked # None,
         NEW n, n = g.asked.node, NEW h, h = Answered(e)
  PROVE  /\ EngineShape(h) /\ Local(g, h, n) /\ n \in DOMAIN g.nodes
         /\ h.nodes = g.nodes /\ h.artifacts = g.artifacts /\ h.memo = g.memo
         /\ h.root = g.root /\ h.nextNode = g.nextNode /\ h.nextArtifact = g.nextArtifact
         /\ h.asked = None
<1> DEFINE r == Recorded(g, n, g.asked.op)
<1>1. n \in DOMAIN g.nodes
  BY DEF EngineShape
<1>2. /\ EngineShape(r) /\ Local(g, r, n)
      /\ r.nodes = g.nodes /\ r.artifacts = g.artifacts /\ r.memo = g.memo
      /\ r.root = g.root /\ r.nextNode = g.nextNode /\ r.nextArtifact = g.nextArtifact
  BY <1>1, RecordedFields
<1>3. h = [r EXCEPT !.asked = None]
  BY DEF Answered
<1> HIDE DEF r
<1>4. /\ DOMAIN h = DOMAIN r
      /\ h.nodes = r.nodes /\ h.artifacts = r.artifacts /\ h.memo = r.memo
      /\ h.root = r.root /\ h.nextNode = r.nextNode /\ h.nextArtifact = r.nextArtifact
      /\ h.asked = None /\ h.log = r.log
  BY <1>2, <1>3 DEF EngineShape
<1>5. EngineShape(h)
  BY <1>2, <1>4 DEF EngineShape
<1>6. Local(g, h, n)
  <2>1. Extends(g, r, n)
    BY <1>2 DEF Local
  <2>2. Extends(g, h, n)
    BY <1>4, <2>1, Zenon DEF Extends
  <2> QED BY <1>2, <1>4, <2>2, Zenon DEF Local
<1> QED BY <1>1, <1>2, <1>4, <1>5, <1>6

LEMMA AskFields ==
  ASSUME NEW g, EngineShape(g), NEW n \in DOMAIN g.nodes, NEW op \in Operation,
         NEW h, h = Ask(g, n, op)
  PROVE  /\ EngineShape(h) /\ Local(g, h, n)
         /\ h.nodes = g.nodes /\ h.artifacts = g.artifacts /\ h.memo = g.memo
         /\ h.root = g.root /\ h.nextNode = g.nextNode /\ h.nextArtifact = g.nextArtifact
         /\ h.asked = Request(g, n, op) /\ h.asked.node = n /\ h.asked.op = op
         /\ h.asked.candidate = g.nodes[n].candidate
         /\ h.asked.children = ChildArtifacts(g, n) /\ h.asked.packet = Packet(g, n)
<1>1. /\ DOMAIN h = DOMAIN g
      /\ h.nodes = g.nodes /\ h.artifacts = g.artifacts /\ h.memo = g.memo
      /\ h.root = g.root /\ h.nextNode = g.nextNode /\ h.nextArtifact = g.nextArtifact
      /\ h.asked = Request(g, n, op) /\ h.log = g.log
  BY DEF Ask, EngineShape
<1>2. /\ h.asked.node = n /\ h.asked.op = op
      /\ h.asked.candidate = g.nodes[n].candidate
      /\ h.asked.children = ChildArtifacts(g, n) /\ h.asked.packet = Packet(g, n)
  BY <1>1 DEF Request
<1>3. EngineShape(h)
  BY <1>1, <1>2 DEF EngineShape
<1>4. Local(g, h, n)
  BY <1>1 DEF Local, Extends, SameNode, EngineShape
<1> QED BY <1>1, <1>2, <1>3, <1>4

SetNode(g, n, v) == [g EXCEPT !.nodes[n] = v]

LEMMA SetNodeFields ==
  ASSUME NEW g, EngineShape(g), NEW n \in DOMAIN g.nodes, NEW v \in NodeType
  PROVE  /\ EngineShape(SetNode(g, n, v))
         /\ \A m \in DOMAIN g.nodes \ {n} : SetNode(g, n, v).nodes[m] = g.nodes[m]
         /\ SetNode(g, n, v).nodes[n] = v /\ DOMAIN SetNode(g, n, v).nodes = DOMAIN g.nodes
         /\ SetNode(g, n, v).artifacts = g.artifacts /\ SetNode(g, n, v).memo = g.memo
         /\ SetNode(g, n, v).root = g.root /\ SetNode(g, n, v).nextNode = g.nextNode
         /\ SetNode(g, n, v).nextArtifact = g.nextArtifact
         /\ SetNode(g, n, v).asked = g.asked /\ SetNode(g, n, v).log = g.log
<1> DEFINE h == SetNode(g, n, v)
<1>1. /\ DOMAIN h = DOMAIN g /\ h.nodes = [g.nodes EXCEPT ![n] = v]
      /\ h.artifacts = g.artifacts /\ h.memo = g.memo
      /\ h.root = g.root /\ h.nextNode = g.nextNode /\ h.nextArtifact = g.nextArtifact
      /\ h.asked = g.asked /\ h.log = g.log
  BY DEF EngineShape, SetNode
<1> HIDE DEF h
<1>2. /\ h.nodes[n] = v /\ DOMAIN h.nodes = DOMAIN g.nodes
      /\ \A m \in DOMAIN g.nodes \ {n} : h.nodes[m] = g.nodes[m]
  BY <1>1
<1>3. h.nodes \in [g.root..g.nextNode -> NodeType]
  BY <1>1 DEF EngineShape
<1>4. EngineShape(h)
  BY <1>1, <1>2, <1>3 DEF EngineShape
<1> QED BY <1>1, <1>2, <1>4 DEF h

LEMMA SetNodeLocal ==
  ASSUME NEW g, EngineShape(g), NEW n \in DOMAIN g.nodes, NEW v \in NodeType,
         SameNode(g.nodes[n], v), v.children = g.nodes[n].children, v.status # "New",
         g.nodes[n].status # "New" => v.size = g.nodes[n].size,
         v.status = "Planned" => g.nodes[n].status = "Planned" /\ v.plan = g.nodes[n].plan
  PROVE  Local(g, SetNode(g, n, v), n)
<1> DEFINE h == SetNode(g, n, v)
<1>1. /\ \A m \in DOMAIN g.nodes \ {n} : h.nodes[m] = g.nodes[m]
      /\ h.nodes[n] = v /\ h.artifacts = g.artifacts /\ h.root = g.root /\ h.nextNode = g.nextNode
      /\ h.nextArtifact = g.nextArtifact /\ h.log = g.log
  BY SetNodeFields
<1> HIDE DEF h
<1>2. g.nextNode \in Nat /\ g.nextArtifact \in Nat
  BY DEF EngineShape
<1>3. Local(g, h, n)
  BY <1>1, <1>2 DEF Local, Extends
<1> QED BY <1>3 DEF h

LEMMA PushFields ==
  ASSUME NEW g, EngineShape(g), NEW n \in DOMAIN g.nodes, NEW children, NEW text,
         NEW h, h = Push(g, n, children, text)
  PROVE  /\ EngineShape(h) /\ Local(g, h, n)
         /\ h.nodes = g.nodes /\ h.memo = g.memo /\ h.asked = g.asked
         /\ h.root = g.root /\ h.nextNode = g.nextNode
         /\ h.nextArtifact = g.nextArtifact + 1
         /\ DOMAIN h.artifacts = DOMAIN g.artifacts \union {h.nextArtifact}
         /\ h.artifacts[h.nextArtifact] = [node |-> n, children |-> children, text |-> text]
         /\ h.nextArtifact \notin DOMAIN g.artifacts
<1> DEFINE new == g.nextArtifact + 1
           made == [node |-> n, children |-> children, text |-> text]
<1>1. /\ DOMAIN h = DOMAIN g
      /\ h.nodes = g.nodes /\ h.memo = g.memo /\ h.asked = g.asked /\ h.log = g.log
      /\ h.root = g.root /\ h.nextNode = g.nextNode /\ h.nextArtifact = new
      /\ h.artifacts = [a \in DOMAIN g.artifacts \union {new} |->
                          IF a \in DOMAIN g.artifacts THEN g.artifacts[a] ELSE made]
  BY DEF Push, EngineShape
<1>2. g.nextArtifact \in Nat /\ DOMAIN g.artifacts = 1..g.nextArtifact
  BY DEF EngineShape
<1>3. /\ new \in Nat /\ g.nextArtifact <= new /\ new \notin 1..g.nextArtifact
      /\ (1..g.nextArtifact) \union {new} = 1..new
      /\ 1..g.nextArtifact \subseteq 1..new
  BY <1>2
<1> HIDE DEF new, made
<1>4. EngineShape(h)
  <2>1. g.memo \in [DOMAIN g.memo -> 1..g.nextArtifact]
    BY DEF EngineShape
  <2>2. g.memo \in [DOMAIN g.memo -> 1..new]
    BY <1>3, <2>1
  <2> QED BY <1>1, <1>2, <1>3, <2>2 DEF EngineShape
<1>5. Local(g, h, n)
  BY <1>1, <1>2, <1>3 DEF Local, Extends, SameNode, EngineShape
<1> QED BY <1>1, <1>2, <1>3, <1>4, <1>5 DEF new, made

LEMMA CommitFields ==
  ASSUME NEW g, EngineShape(g), NEW n \in DOMAIN g.nodes, NEW a \in 1..g.nextArtifact,
         NEW h, h = Commit(g, n, a)
  PROVE  /\ EngineShape(h) /\ Local(g, h, n)
         /\ h.artifacts = g.artifacts /\ h.asked = g.asked
         /\ h.nextArtifact = g.nextArtifact /\ h.root = g.root /\ h.nextNode = g.nextNode
         /\ h.nodes[n].status = "Committed" /\ h.nodes[n].accepted = a
         /\ h.nodes[n].candidate = g.nodes[n].candidate
         /\ h.nodes[n].key = g.nodes[n].key /\ h.nodes[n].task = g.nodes[n].task
         /\ DOMAIN h.memo = DOMAIN g.memo \union {g.nodes[n].key}
         /\ \A k \in DOMAIN h.memo :
              h.memo[k] = IF k = g.nodes[n].key THEN a ELSE g.memo[k]
<1> DEFINE r == Recorded(g, n, "Commit")
           v == [g.nodes[n] EXCEPT !.status = "Committed", !.accepted = a]
           key == g.nodes[n].key
           memo == [k \in DOMAIN g.memo \union {key} |-> IF k = key THEN a ELSE g.memo[k]]
           s == SetNode(r, n, v)
<1>1. /\ EngineShape(r) /\ Local(g, r, n)
      /\ r.nodes = g.nodes /\ r.artifacts = g.artifacts /\ r.memo = g.memo
      /\ r.root = g.root /\ r.nextNode = g.nextNode /\ r.nextArtifact = g.nextArtifact
      /\ r.asked = g.asked
  BY RecordedFields
<1>2. g.nodes[n] \in NodeType /\ g.nextArtifact \in Nat
  BY NodeFacts
<1>3. a \in Nat
  BY <1>2
<1>4. /\ v \in NodeType /\ SameNode(g.nodes[n], v) /\ v.children = g.nodes[n].children
      /\ v.status = "Committed" /\ v.size = g.nodes[n].size /\ v.accepted = a
      /\ v.candidate = g.nodes[n].candidate /\ v.key = key /\ v.task = g.nodes[n].task
  BY <1>2, <1>3 DEF NodeType, SameNode, Status, Final
<1>5. h = [s EXCEPT !.memo = memo]
  BY <1>1 DEF Commit, EngineShape, SetNode
<1> HIDE DEF r, v
<1>6. /\ EngineShape(s) /\ Local(r, s, n)
      /\ s.nodes[n] = v /\ s.memo = g.memo /\ s.artifacts = g.artifacts
      /\ s.root = g.root /\ s.nextNode = g.nextNode /\ s.nextArtifact = g.nextArtifact
      /\ s.asked = g.asked
  <2>1. EngineShape(r) /\ n \in DOMAIN r.nodes /\ v \in NodeType
    BY <1>1, <1>4
  <2>2. /\ SameNode(r.nodes[n], v) /\ v.children = r.nodes[n].children
        /\ v.size = r.nodes[n].size /\ v.status # "New" /\ v.status # "Planned"
    BY <1>1, <1>4
  <2>3. Local(r, s, n)
    BY <2>1, <2>2, SetNodeLocal
  <2>4. /\ EngineShape(s) /\ s.nodes[n] = v /\ s.memo = r.memo /\ s.artifacts = r.artifacts
        /\ s.root = r.root /\ s.nextNode = r.nextNode /\ s.nextArtifact = r.nextArtifact
        /\ s.asked = r.asked
    BY <2>1, SetNodeFields
  <2> QED BY <1>1, <2>3, <2>4
<1>7. Local(g, s, n)
  BY <1>1, <1>6, LocalComposes
<1> HIDE DEF s
<1>8. /\ DOMAIN h = DOMAIN s /\ h.nodes = s.nodes /\ h.artifacts = s.artifacts
      /\ h.root = s.root /\ h.nextNode = s.nextNode /\ h.nextArtifact = s.nextArtifact
      /\ h.asked = s.asked /\ h.log = s.log /\ h.memo = memo
  BY <1>5, <1>6 DEF EngineShape
<1>9. memo \in [DOMAIN memo -> 1..g.nextArtifact] /\ DOMAIN memo = DOMAIN g.memo \union {key}
  BY DEF EngineShape
<1>10. EngineShape(h)
  BY <1>6, <1>8, <1>9 DEF EngineShape
<1>11. Local(g, h, n)
  BY <1>7, <1>8 DEF Local, Extends
<1> QED BY <1>4, <1>6, <1>8, <1>9, <1>10, <1>11 DEF v

-----------------------------------------------------------------------------
(* Recursive functions.                                                    *)

Steps(S, n) == [1..n -> [S -> S]]

Reaches(S, n, a, step) ==
  \E f \in [0..n -> S] : f[0] = a /\ \A i \in 1..n : f[i] = step[i][f[i - 1]]

LEMMA RecursionExists ==
  ASSUME NEW S, NEW n \in Nat, NEW a \in S, NEW step \in Steps(S, n)
  PROVE  Reaches(S, n, a, step)
<1> DEFINE Good(k) == \E f \in [0..k -> S] : f[0] = a /\ \A i \in 1..k : f[i] = step[i][f[i - 1]]
           Bad == {k \in 0..n : ~Good(k)}
<1>1. SUFFICES ASSUME n \in Bad PROVE FALSE
  BY DEF Reaches
<1>2. Bad \in SUBSET Nat /\ Bad # {}
  BY <1>1
<1> HIDE DEF Bad
<1>3. PICK k \in Bad : \A j \in Bad : k <= j
  BY <1>2, LeastElement
<1>4. k \in 0..n /\ k \in Nat /\ ~Good(k)
  BY <1>3 DEF Bad
<1>5. CASE k = 0
  <2> DEFINE f == [i \in 0..0 |-> a]
  <2>1. f \in [0..0 -> S] /\ f[0] = a /\ \A i \in 1..0 : f[i] = step[i][f[i - 1]]
    OBVIOUS
  <2> QED BY <1>4, <1>5, <2>1
<1>6. CASE k # 0
  <2>1. k - 1 \in 0..n /\ ~(k <= k - 1) /\ k \in 1..n /\ k - 1 \in 0..(k - 1) /\ 0 \in 0..(k - 1)
    BY <1>4, <1>6
  <2>2. Good(k - 1)
    BY <1>3, <2>1 DEF Bad
  <2>3. PICK f \in [0..(k - 1) -> S] :
          f[0] = a /\ \A i \in 1..(k - 1) : f[i] = step[i][f[i - 1]]
    BY <2>2
  <2> DEFINE h == [i \in 0..k |-> IF i = k THEN step[k][f[k - 1]] ELSE f[i]]
  <2>4. step[k][f[k - 1]] \in S
    BY <2>1, <2>3 DEF Steps
  <2>5. \A i \in 0..k : i # k => i \in 0..(k - 1)
    BY <1>4
  <2>6. h \in [0..k -> S]
    BY <2>3, <2>4, <2>5
  <2>7. h[0] = a
    BY <1>4, <1>6, <2>3
  <2>8. ASSUME NEW i \in 1..k PROVE h[i] = step[i][h[i - 1]]
    <3>1. i \in 0..k /\ i - 1 \in 0..k /\ i - 1 # k /\ (i # k => i \in 1..(k - 1))
      BY <1>4
    <3>2. h[i - 1] = f[i - 1]
      BY <3>1
    <3> QED BY <2>3, <3>1, <3>2
  <2> QED BY <1>4, <2>6, <2>7, <2>8
<1> QED BY <1>5, <1>6

LEMMA AcceptedWork ==
  ASSUME NEW g, EngineOK(g), NEW n \in DOMAIN g.nodes
  PROVE  ChildArtifacts(g, n) \in Seq(1..g.nextArtifact)
<1> DEFINE children == g.nodes[n].children
           S == Seq(1..g.nextArtifact)
           accepted(i) == g.nodes[children[i]].accepted
           upTo[i \in 0..Len(children)] ==
             IF i = 0 THEN <<>>
             ELSE IF g.nodes[children[i]].accepted = None THEN upTo[i - 1]
             ELSE Append(upTo[i - 1], g.nodes[children[i]].accepted)
           L == Len(children)
<1>1. L \in Nat /\ DOMAIN children = 1..L
  BY NodeFacts DEF EngineOK
<1>2. \A i \in 1..L : accepted(i) # None => accepted(i) \in 1..g.nextArtifact
  <2> SUFFICES ASSUME NEW i \in 1..L PROVE accepted(i) # None => accepted(i) \in 1..g.nextArtifact
    OBVIOUS
  <2>1. children[i] \in DOMAIN g.nodes
    BY <1>1, ChildFacts
  <2> QED BY <2>1 DEF EngineOK, WorkOK, ServesKey
<1>3. <<>> \in S /\ \A s \in S, a \in 1..g.nextArtifact : Append(s, a) \in S
  BY EmptySeq, AppendProperties
<1> HIDE DEF S, children, accepted, L
<1> DEFINE step == [i \in 1..L |-> [s \in S |-> IF accepted(i) = None THEN s ELSE Append(s, accepted(i))]]
<1>4. step \in Steps(S, L)
  BY <1>2, <1>3 DEF Steps
<1> HIDE DEF step
<1>5. PICK f \in [0..L -> S] : f[0] = <<>> /\ \A i \in 1..L : f[i] = step[i][f[i - 1]]
  <2>1. Reaches(S, L, <<>>, step)
    BY <1>1, <1>3, <1>4, RecursionExists
  <2> QED BY <2>1 DEF Reaches
<1>6. \A i \in 1..L : i - 1 \in 0..L
  BY <1>1
<1>7. \A i \in 1..L : f[i] = IF accepted(i) = None THEN f[i - 1] ELSE Append(f[i - 1], accepted(i))
  BY <1>5, <1>6 DEF step
<1>8. f = [i \in 0..L |->
             IF i = 0 THEN <<>>
             ELSE IF accepted(i) = None THEN f[i - 1] ELSE Append(f[i - 1], accepted(i))]
  <2>1. \A i \in 0..L : i # 0 => i \in 1..L
    BY <1>1
  <2>2. f = [i \in 0..L |-> f[i]]
    BY <1>5
  <2>3. \A i \in 0..L :
          f[i] = IF i = 0 THEN <<>>
                 ELSE IF accepted(i) = None THEN f[i - 1] ELSE Append(f[i - 1], accepted(i))
    BY <1>5, <1>7, <2>1, Zenon
  <2> QED BY <2>2, <2>3
<1>9. upTo = [i \in 0..Len(children) |->
             IF i = 0 THEN <<>>
             ELSE IF g.nodes[children[i]].accepted = None THEN upTo[i - 1]
             ELSE Append(upTo[i - 1], g.nodes[children[i]].accepted)]
  BY <1>8, Zenon DEF upTo, L, accepted
<1>10. upTo[L] = ChildArtifacts(g, n)
  BY DEF ChildArtifacts, L, children
<1>11. upTo[0] = <<>> /\ \A i \in 1..L :
         upTo[i] = IF accepted(i) = None THEN upTo[i - 1] ELSE Append(upTo[i - 1], accepted(i))
  <2>1. L = Len(children) /\ \A i \in 1..L : i \in 0..L /\ i # 0 /\ 0 \in 0..L
    BY <1>1 DEF L
  <2>2. 0 \in 0..L
    BY <1>1
  <2> HIDE DEF upTo
  <2> QED BY <1>9, <2>1, <2>2 DEF accepted
<1> HIDE DEF upTo
<1> DEFINE Bad == {i \in 0..L : upTo[i] \notin S}
<1>12. ASSUME Bad # {} PROVE FALSE
  <2>1. Bad \in SUBSET Nat
    BY <1>1
  <2> HIDE DEF Bad
  <2>2. PICK i \in Bad : \A j \in Bad : i <= j
    BY <1>12, <2>1, LeastElement
  <2>3. i \in 0..L /\ upTo[i] \notin S
    BY <2>2 DEF Bad
  <2>4. i # 0
    BY <1>3, <1>11, <2>3
  <2>5. i \in 1..L /\ i - 1 \in 0..L /\ ~(i <= i - 1)
    BY <1>1, <2>3, <2>4
  <2>6. upTo[i - 1] \in S
    BY <2>2, <2>5 DEF Bad
  <2> QED BY <1>2, <1>3, <1>11, <2>3, <2>5, <2>6
<1>13. L \in 0..L
  BY <1>1
<1> QED BY <1>10, <1>12, <1>13 DEF S

LEMMA WorkTexts ==
  ASSUME NEW g, EngineOK(g), NEW n \in DOMAIN g.nodes
  PROVE  SameTexts(g, ChildArtifacts(g, n), Packet(g, n).children)
<1> DEFINE ids == ChildArtifacts(g, n)
           texts == [i \in DOMAIN ids |-> Text(g, ids[i])]
<1>1. ids \in Seq(1..g.nextArtifact)
  BY AcceptedWork
<1>2. Packet(g, n).children = texts
  BY DEF Packet
<1> HIDE DEF ids
<1>3. Len(ids) \in Nat /\ DOMAIN ids = 1..Len(ids)
  BY <1>1, LenProperties
<1>4. texts \in [1..Len(ids) -> {Text(g, ids[i]) : i \in DOMAIN ids}]
  BY <1>3
<1>5. \A i \in DOMAIN ids : Text(g, ids[i]) = texts[i]
  OBVIOUS
<1> HIDE DEF texts
<1>6. Len(texts) = Len(ids)
  BY <1>3, <1>4, FunctionInSeq
<1> QED BY <1>1, <1>2, <1>5, <1>6 DEF SameTexts, ids

-----------------------------------------------------------------------------
(* The parts of a handler keep an engine in order while n has its turn.    *)

Good(g, n, ok) == EngineOK(g) /\ n \in DOMAIN g.nodes /\ Turn(g, n) /\ CleanOK(g, ok)

LEMMA TurnKept ==
  ASSUME NEW g, NEW h, NEW n \in DOMAIN g.nodes, EngineOK(g), EngineShape(h),
         Local(g, h, n), Turn(g, n), AboutOnly(h, n)
  PROVE  Turn(h, n)
<1>1. /\ h.root = g.root
      /\ \A m \in DOMAIN g.nodes \ {n} : h.nodes[m] = g.nodes[m]
      /\ h.nodes[n].parent = g.nodes[n].parent /\ h.nodes[n].children = g.nodes[n].children
  BY DEF Local, Extends, SameNode
<1>2. HasTurn(h, n)
  <2> SUFFICES ASSUME n # g.root PROVE HasTurn(h, n)
    BY <1>1, Zenon DEF HasTurn
  <2>1. PICK p \in DOMAIN g.nodes : p = g.nodes[n].parent /\ p # n
    BY ParentFacts
  <2>2. h.nodes[h.nodes[n].parent] = g.nodes[p]
    BY <1>1, <2>1
  <2>3. /\ g.nodes[p].status = "Planned" /\ g.nodes[p].plan = "Stage"
        /\ \A i, j \in DOMAIN g.nodes[p].children : g.nodes[p].children[i] = n =>
             /\ j < i => g.nodes[g.nodes[p].children[j]].status = "Committed"
             /\ i < j => g.nodes[g.nodes[p].children[j]].status = "New"
    BY <2>1, Zenon DEF Turn, HasTurn
  <2>4. ASSUME NEW i \in DOMAIN g.nodes[p].children, NEW j \in DOMAIN g.nodes[p].children,
               g.nodes[p].children[i] = n, j < i \/ i < j
        PROVE  h.nodes[g.nodes[p].children[j]] = g.nodes[g.nodes[p].children[j]]
    <3>1. i \in Nat /\ j \in Nat
      BY NodeFacts DEF EngineOK
    <3>2. i # j
      BY <2>4, <3>1
    <3>3. g.nodes[p].children[j] # n /\ g.nodes[p].children[j] \in DOMAIN g.nodes
      BY <2>4, <3>2, ChildFacts
    <3> QED BY <1>1, <3>3
  <2>5. \A i, j \in DOMAIN g.nodes[p].children : g.nodes[p].children[i] = n =>
          /\ j < i => h.nodes[g.nodes[p].children[j]].status = "Committed"
          /\ i < j => h.nodes[g.nodes[p].children[j]].status = "New"
    BY <2>3, <2>4
  <2> QED BY <2>2, <2>3, <2>5, TurnFrom
<1>3. ASSUME NEW i \in DOMAIN g.nodes[n].children PROVE ~Busy(h, g.nodes[n].children[i])
  <2> DEFINE c == g.nodes[n].children[i]
  <2>1. c \in DOMAIN g.nodes /\ c # n /\ ~Busy(g, c)
    BY ChildFacts DEF Turn
  <2> HIDE DEF c
  <2>2. h.nodes[c] = g.nodes[c] /\ ~IsAsked(h, c)
    BY <1>1, <2>1 DEF AboutOnly, IsAsked
  <2>3. ~Busy(h, c)
    BY <2>1, <2>2 DEF Busy
  <2> QED BY <2>3 DEF c
<1> QED BY <1>1, <1>2, <1>3 DEF Turn

\* What is left to show of a part that adds no nodes.
LEMMA GoodKept ==
  ASSUME NEW g, NEW h, NEW n, NEW ok, NEW okNext, Good(g, n, ok), ok \subseteq okNext,
         EngineShape(h), Local(g, h, n), AboutOnly(h, n), WorkOK(h, n), AskedOK(h),
         \A a \in DOMAIN h.artifacts \ DOMAIN g.artifacts : MadeOK(h, a),
         \A k \in DOMAIN h.memo :
           \/ k \in DOMAIN g.memo /\ h.memo[k] = g.memo[k]
           \/ ServesKey(h, h.memo[k], k) /\ Clean(h, h.memo[k], okNext),
         h.nodes[n].accepted # None =>
           (h.nodes[n].accepted = g.nodes[n].accepted \/ Clean(h, h.nodes[n].accepted, okNext))
  PROVE  Good(h, n, okNext)
<1>1. n \in DOMAIN g.nodes /\ EngineOK(g) /\ Turn(g, n) /\ CleanOK(g, ok)
  BY DEF Good
<1>2. EngineOK(h)
  BY <1>1, EngineKept
<1>3. Turn(h, n)
  BY <1>1, TurnKept
<1>4. CleanOK(h, okNext)
  BY <1>1, <1>2, CleanKept
<1>5. n \in DOMAIN h.nodes
  BY <1>1, Domains
<1> QED BY <1>2, <1>3, <1>4, <1>5 DEF Good

LEMMA SameWork ==
  ASSUME NEW g, NEW h, NEW n, WorkOK(g, n), h.nodes[n] = g.nodes[n],
         h.artifacts = g.artifacts, h.nextArtifact = g.nextArtifact
  PROVE  WorkOK(h, n)
BY DEF WorkOK, ServesKey, Text

LEMMA AnsweredGood ==
  ASSUME NEW e, NEW g, g = engines[e], EngineOK(g), g.asked # None, NEW ok, CleanOK(g, ok),
         NEW n, n = g.asked.node, NEW h, h = Answered(e)
  PROVE  Good(h, n, ok) /\ Local(g, h, n) /\ n \in DOMAIN g.nodes
<1>1. EngineShape(g)
  BY DEF EngineOK
<1>2. /\ EngineShape(h) /\ Local(g, h, n) /\ n \in DOMAIN g.nodes
      /\ h.nodes = g.nodes /\ h.artifacts = g.artifacts /\ h.memo = g.memo
      /\ h.nextArtifact = g.nextArtifact /\ h.asked = None
  BY <1>1, AnsweredFields
<1>3. Good(g, n, ok)
  BY <1>2, TurnOfAsked DEF Good
<1>4. WorkOK(h, n)
  BY <1>2, SameWork DEF EngineOK
<1>5. AboutOnly(h, n) /\ AskedOK(h)
  BY <1>2 DEF AboutOnly, AskedOK
<1>6. Good(h, n, ok)
  BY <1>2, <1>3, <1>4, <1>5, GoodKept
<1> QED BY <1>2, <1>6

LEMMA RecordedGood ==
  ASSUME NEW g, NEW n, NEW ok, Good(g, n, ok), g.asked = None, NEW what,
         NEW h, h = Recorded(g, n, what)
  PROVE  Good(h, n, ok) /\ Local(g, h, n)
<1>1. EngineShape(g) /\ n \in DOMAIN g.nodes /\ WorkOK(g, n)
  BY DEF EngineOK, Good
<1>2. /\ EngineShape(h) /\ Local(g, h, n)
      /\ h.nodes = g.nodes /\ h.artifacts = g.artifacts /\ h.memo = g.memo
      /\ h.nextArtifact = g.nextArtifact /\ h.asked = None
  BY <1>1, RecordedFields
<1>3. WorkOK(h, n) /\ AboutOnly(h, n) /\ AskedOK(h)
  BY <1>1, <1>2, SameWork DEF AboutOnly, AskedOK
<1>4. Good(h, n, ok)
  BY <1>2, <1>3, GoodKept
<1> QED BY <1>2, <1>4

LEMMA AskGood ==
  ASSUME NEW g, NEW n, NEW ok, Good(g, n, ok), NEW op \in Operation,
         op = "Specify" <=> g.nodes[n].status = "New",
         op = "Plan" => g.nodes[n].status = "Specified",
         op = "Verify" => g.nodes[n].candidate # None,
         NEW h, h = Ask(g, n, op)
  PROVE  Good(h, n, ok) /\ Local(g, h, n)
<1>1. EngineOK(g) /\ EngineShape(g) /\ n \in DOMAIN g.nodes /\ WorkOK(g, n)
  BY DEF EngineOK, Good
<1>2. /\ EngineShape(h) /\ Local(g, h, n)
      /\ h.nodes = g.nodes /\ h.artifacts = g.artifacts /\ h.memo = g.memo
      /\ h.nextArtifact = g.nextArtifact
      /\ h.asked.node = n /\ h.asked.op = op
      /\ h.asked.candidate = g.nodes[n].candidate
      /\ h.asked.children = ChildArtifacts(g, n) /\ h.asked.packet = Packet(g, n)
  BY <1>1, AskFields
<1>3. WorkOK(h, n) /\ AboutOnly(h, n)
  BY <1>1, <1>2, SameWork DEF AboutOnly
<1>4. SameTexts(h, h.asked.children, h.asked.packet.children)
  BY <1>1, <1>2, WorkTexts DEF SameTexts, Text
<1>5. op = "Verify" => ServesKey(h, h.asked.candidate, h.nodes[n].key)
  BY <1>2, <1>3 DEF WorkOK
<1>6. AskedOK(h)
  BY <1>2, <1>4, <1>5 DEF AskedOK
<1>7. Good(h, n, ok)
  BY <1>2, <1>3, <1>6, GoodKept
<1> QED BY <1>2, <1>7

LEMMA SetNodeGood ==
  ASSUME NEW g, NEW n, NEW ok, Good(g, n, ok), g.asked = None, NEW v \in NodeType,
         SameNode(g.nodes[n], v), v.children = g.nodes[n].children, v.status # "New",
         g.nodes[n].status # "New" => v.size = g.nodes[n].size,
         v.status = "Planned" => g.nodes[n].status = "Planned" /\ v.plan = g.nodes[n].plan,
         v.status = "Specified" => v.children = <<>>,
         v.candidate # None =>
           ServesKey(g, v.candidate, v.key) /\ Text(g, v.candidate).by = v.task,
         v.accepted = g.nodes[n].accepted
  PROVE  Good(SetNode(g, n, v), n, ok) /\ Local(g, SetNode(g, n, v), n)
<1> DEFINE h == SetNode(g, n, v)
<1>1. EngineShape(g) /\ n \in DOMAIN g.nodes /\ WorkOK(g, n)
  BY DEF EngineOK, Good
<1>2. /\ EngineShape(h) /\ Local(g, h, n) /\ h.nodes[n] = v
      /\ h.artifacts = g.artifacts /\ h.memo = g.memo
      /\ h.nextArtifact = g.nextArtifact /\ h.asked = None
  BY <1>1, SetNodeFields, SetNodeLocal
<1> HIDE DEF h
<1>3. AboutOnly(h, n) /\ AskedOK(h)
  BY <1>2 DEF AboutOnly, AskedOK
<1>4. v.accepted # None => ServesKey(h, v.accepted, v.key)
  BY <1>1, <1>2 DEF WorkOK, ServesKey, Text, SameNode
<1>5. v.candidate # None => ServesKey(h, v.candidate, v.key) /\ Text(h, v.candidate).by = v.task
  BY <1>2 DEF ServesKey, Text
<1>6. WorkOK(h, n)
  BY <1>2, <1>4, <1>5 DEF WorkOK
<1>7. Good(h, n, ok)
  BY <1>2, <1>3, <1>6, GoodKept
<1> QED BY <1>2, <1>7 DEF h

LEMMA PushGood ==
  ASSUME NEW g, NEW n, NEW ok, Good(g, n, ok), g.asked = None, g.nodes[n].status # "New",
         NEW children, NEW text, SameTexts(g, children, text.from), text.by = g.nodes[n].task,
         NEW h, h = Push(g, n, children, text)
  PROVE  /\ Good(h, n, ok) /\ Local(g, h, n) /\ h.asked = None
         /\ h.nodes = g.nodes /\ h.nextArtifact \in 1..h.nextArtifact
         /\ Text(h, h.nextArtifact) = text /\ h.artifacts[h.nextArtifact].node = n
<1>1. EngineShape(g) /\ n \in DOMAIN g.nodes /\ WorkOK(g, n)
  BY DEF EngineOK, Good
<1>2. /\ EngineShape(h) /\ Local(g, h, n)
      /\ h.nodes = g.nodes /\ h.memo = g.memo /\ h.asked = None
      /\ h.nextArtifact = g.nextArtifact + 1
      /\ DOMAIN h.artifacts = DOMAIN g.artifacts \union {h.nextArtifact}
      /\ h.artifacts[h.nextArtifact] = [node |-> n, children |-> children, text |-> text]
      /\ h.nextArtifact \notin DOMAIN g.artifacts
  BY <1>1, PushFields
<1>3. /\ g.nextArtifact \in Nat /\ h.nextArtifact \in 1..h.nextArtifact
      /\ 1..g.nextArtifact \subseteq 1..h.nextArtifact
      /\ DOMAIN g.artifacts = 1..g.nextArtifact
  BY <1>1, <1>2 DEF EngineShape
<1>4. \A a \in 1..g.nextArtifact : Text(h, a) = Text(g, a)
  BY <1>2, <1>3 DEF Local, Extends, Text
<1>5. WorkOK(h, n)
  BY <1>1, <1>2, <1>3, <1>4 DEF WorkOK, ServesKey
<1>6. SameTexts(h, children, text.from)
  <2>1. Len(children) \in Nat /\ children \in [1..Len(children) -> 1..g.nextArtifact]
        /\ DOMAIN children = 1..Len(children)
    BY LenProperties DEF SameTexts
  <2>2. children \in [1..Len(children) -> 1..h.nextArtifact]
    BY <1>3, <2>1
  <2>3. children \in Seq(1..h.nextArtifact)
    BY <2>1, <2>2, FunctionInSeq
  <2> QED BY <1>4, <2>1, <2>3 DEF SameTexts
<1>7. Text(h, h.nextArtifact) = text /\ h.artifacts[h.nextArtifact].node = n
  BY <1>2 DEF Text
<1>8. MadeOK(h, h.nextArtifact)
  BY <1>1, <1>2, <1>6 DEF MadeOK, Holds
<1>9. AboutOnly(h, n) /\ AskedOK(h)
  BY <1>2 DEF AboutOnly, AskedOK
<1>10. Good(h, n, ok)
  BY <1>2, <1>5, <1>8, <1>9, GoodKept
<1> QED BY <1>2, <1>3, <1>7, <1>10

LEMMA CommitGood ==
  ASSUME NEW g, NEW n, NEW ok, NEW okNext, Good(g, n, ok), ok \subseteq okNext, g.asked = None,
         NEW a, ServesKey(g, a, g.nodes[n].key), Clean(g, a, okNext),
         NEW h, h = Commit(g, n, a)
  PROVE  /\ Good(h, n, okNext) /\ Local(g, h, n) /\ h.asked = None
         /\ h.nodes[n].status = "Committed" /\ h.nodes[n].candidate = g.nodes[n].candidate
<1>1. EngineOK(g) /\ EngineShape(g) /\ n \in DOMAIN g.nodes /\ WorkOK(g, n)
  BY DEF EngineOK, Good
<1>2. a \in 1..g.nextArtifact
  BY DEF ServesKey
<1>3. /\ EngineShape(h) /\ Local(g, h, n)
      /\ h.artifacts = g.artifacts /\ h.asked = None
      /\ h.nextArtifact = g.nextArtifact
      /\ h.nodes[n].status = "Committed" /\ h.nodes[n].accepted = a
      /\ h.nodes[n].candidate = g.nodes[n].candidate
      /\ h.nodes[n].key = g.nodes[n].key /\ h.nodes[n].task = g.nodes[n].task
      /\ DOMAIN h.memo = DOMAIN g.memo \union {g.nodes[n].key}
      /\ \A k \in DOMAIN h.memo :
           h.memo[k] = IF k = g.nodes[n].key THEN a ELSE g.memo[k]
  BY <1>1, <1>2, CommitFields
<1>4. WorkOK(h, n)
  BY <1>1, <1>3 DEF WorkOK, ServesKey, Text
<1>5. AboutOnly(h, n) /\ AskedOK(h)
  BY <1>3 DEF AboutOnly, AskedOK
<1>6. g.artifacts[a].node \in DOMAIN g.nodes /\ g.nodes[g.artifacts[a].node].status # "New"
  BY <1>1, <1>2 DEF EngineOK, EngineShape, MadeOK, Holds
<1>7. h.nodes[g.artifacts[a].node].size = g.nodes[g.artifacts[a].node].size
  BY <1>3, <1>6 DEF Local, Extends
<1>8. Clean(h, a, okNext)
  BY <1>3, <1>7 DEF Clean, Text
<1>9. ServesKey(h, a, g.nodes[n].key)
  BY <1>3 DEF ServesKey, Text
<1>10. \A k \in DOMAIN h.memo :
         \/ k \in DOMAIN g.memo /\ h.memo[k] = g.memo[k]
         \/ ServesKey(h, h.memo[k], k) /\ Clean(h, h.memo[k], okNext)
  BY <1>3, <1>8, <1>9
<1>11. Good(h, n, okNext)
  BY <1>3, <1>4, <1>5, <1>8, <1>10, GoodKept
<1> QED BY <1>3, <1>11

-----------------------------------------------------------------------------
(* From one engine to all of them.                                         *)

LEMMA CleanGrows ==
  ASSUME NEW g, NEW ok, NEW okNext, CleanOK(g, ok), ok \subseteq okNext
  PROVE  CleanOK(g, okNext)
BY DEF CleanOK, Clean

\* e became h by what happened at n, and perhaps spawned branches.
LEMMA Lifted ==
  ASSUME PlanningInv, NEW e \in DOMAIN engines, NEW n \in DOMAIN engines[e].nodes, NEW h,
         DOMAIN engines \subseteq DOMAIN engines', engines'[e] = h,
         \A b \in DOMAIN engines \ {e} : engines'[b] = engines[b],
         Local(engines[e], h, n) \/ Grows(engines[e], h, n),
         EngineOK(h), CleanOK(h, approved'), approved \subseteq approved',
         Turn(engines[e], n), AboutOnly(h, n),
         \A c \in Nat : Append(e, c) \in DOMAIN engines => engines[e].nodes[c].parent # n,
         \A b \in DOMAIN engines' \ DOMAIN engines :
           /\ b \in Seq(Nat) /\ b # Root /\ Front(b) = e
           /\ EngineOK(engines'[b]) /\ CleanOK(engines'[b], approved')
           /\ BranchOK(h, Last(b), engines'[b]),
         outcome' \in {"running", "error"} \union Final, setbacks' \in 0..MaxSetbacks
  PROVE  PlanningInv'
<1> DEFINE g == engines[e]
<1>1. /\ TypeOK
      /\ \A b \in DOMAIN engines : EngineOK(engines[b]) /\ CleanOK(engines[b], approved)
      /\ \A b \in DOMAIN engines \ {Root} :
           Front(b) \in DOMAIN engines /\ BranchOK(engines[Front(b)], Last(b), engines[b])
      /\ Root \in DOMAIN engines => engines[Root].root = 1
  BY DEF PlanningInv
<1>2. \A b \in DOMAIN engines : b \in Seq(Nat) /\ EngineShape(engines[b])
  BY <1>1 DEF TypeOK
<1>3. EngineShape(h) /\ h.root = g.root
  BY DEF EngineOK, Local, Grows, Extends
<1>4. ASSUME NEW b \in DOMAIN engines'
      PROVE  b \in Seq(Nat) /\ EngineOK(engines'[b]) /\ CleanOK(engines'[b], approved')
  <2>1. CASE b = e
    BY <1>2, <2>1
  <2>2. CASE b \in DOMAIN engines /\ b # e
    BY <1>1, <1>2, <2>2, CleanGrows
  <2>3. CASE b \notin DOMAIN engines
    BY <2>3
  <2> QED BY <2>1, <2>2, <2>3
<1>5. TypeOK'
  BY <1>4 DEF TypeOK, EngineOK
<1>6. ASSUME NEW b \in DOMAIN engines', b # Root
      PROVE  Front(b) \in DOMAIN engines' /\ BranchOK(engines'[Front(b)], Last(b), engines'[b])
  <2>1. CASE b \in DOMAIN engines
    <3>1. /\ Front(b) \in DOMAIN engines /\ BranchOK(engines[Front(b)], Last(b), engines[b])
          /\ b \in Seq(Nat) /\ b # <<>>
      BY <1>1, <1>2, <1>6, <2>1 DEF Root
    <3>2. Front(b) \in Seq(Nat) /\ Last(b) \in Nat /\ b = Append(Front(b), Last(b))
      BY <3>1, FrontFacts
    <3>3. Front(b) # b
      BY <3>2, AppendFacts
    <3>4. CASE b = e
      <4>1. BranchOK(engines[Front(b)], Last(b), h)
        BY <1>1, <1>3, <3>1, <3>4, BranchGoesOn
      <4> QED BY <3>1, <3>3, <3>4, <4>1
    <3>5. CASE Front(b) = e
      <4>1. g.nodes[Last(b)].parent # n
        BY <2>1, <3>2, <3>5
      <4>2. BranchOK(h, Last(b), engines[b])
        BY <1>1, <1>3, <3>1, <3>5, <4>1, BranchKept
      <4> QED BY <2>1, <3>1, <3>3, <3>5, <4>2
    <3>6. CASE b # e /\ Front(b) # e
      BY <2>1, <3>1, <3>6
    <3> QED BY <3>4, <3>5, <3>6
  <2>2. CASE b \notin DOMAIN engines
    BY <2>2
  <2> QED BY <2>1, <2>2
<1>7. Root \in DOMAIN engines' => engines'[Root].root = 1
  <2>1. Root \in DOMAIN engines \/ Root \notin DOMAIN engines'
    OBVIOUS
  <2> QED BY <1>1, <1>3, <2>1
<1> QED BY <1>4, <1>5, <1>6, <1>7 DEF PlanningInv

\* An engine that becomes another while n has its turn.
LEMMA Becoming ==
  ASSUME PlanningInv, NEW e \in DOMAIN engines, NEW n \in DOMAIN engines[e].nodes, NEW h,
         Becomes(e, h), Local(engines[e], h, n), Good(h, n, approved'),
         approved \subseteq approved', Turn(engines[e], n),
         \A c \in Nat : Append(e, c) \in DOMAIN engines => engines[e].nodes[c].parent # n,
         outcome' = outcome, setbacks' \in 0..MaxSetbacks
  PROVE  PlanningInv'
<1>1. DOMAIN engines' = DOMAIN engines /\ engines'[e] = h
      /\ \A b \in DOMAIN engines \ {e} : engines'[b] = engines[b]
  BY DEF Becomes
<1>2. EngineOK(h) /\ CleanOK(h, approved') /\ AboutOnly(h, n)
  BY DEF Good, Turn
<1>3. outcome' \in {"running", "error"} \union Final
  BY DEF PlanningInv, TypeOK
<1> QED BY <1>1, <1>2, <1>3, Lifted

LEMMA Failing ==
  ASSUME PlanningInv, Failed, setbacks' = setbacks
  PROVE  PlanningInv'
BY DEF PlanningInv, Failed, EmptyMap, TypeOK

\* The branches of a node that is asked about, and of a New one, are gone.
LEMMA NoBranches ==
  ASSUME PlanningInv, NEW e \in DOMAIN engines, NEW n,
         IsAsked(engines[e], n) \/ engines[e].nodes[n].status # "Planned"
           \/ engines[e].nodes[n].plan # "Parallel",
         NEW c \in Nat, Append(e, c) \in DOMAIN engines
  PROVE  engines[e].nodes[c].parent # n
<1>1. e \in Seq(Nat)
  BY DEF PlanningInv, TypeOK
<1>2. Append(e, c) # Root /\ Front(Append(e, c)) = e /\ Last(Append(e, c)) = c
  BY <1>1, AppendFacts DEF Root
<1>3. BranchOK(engines[e], c, engines[Append(e, c)])
  BY <1>2 DEF PlanningInv
<1> QED BY <1>3 DEF BranchOK

-----------------------------------------------------------------------------
(* The handlers.                                                           *)

LEMMA EngineFacts ==
  ASSUME PlanningInv, NEW e \in DOMAIN engines
  PROVE  /\ EngineOK(engines[e]) /\ EngineShape(engines[e]) /\ CleanOK(engines[e], approved)
         /\ AskedOK(engines[e]) /\ setbacks \in 0..MaxSetbacks
BY DEF PlanningInv, EngineOK, TypeOK

LEMMA AskedFacts ==
  ASSUME PlanningInv, NEW e, engines[e].asked # None, e \in DOMAIN engines,
         NEW n, n = engines[e].asked.node
  PROVE  /\ n \in DOMAIN engines[e].nodes /\ Turn(engines[e], n)
         /\ Good(Answered(e), n, approved) /\ Local(engines[e], Answered(e), n)
         /\ Answered(e).nodes = engines[e].nodes /\ Answered(e).asked = None
         /\ Answered(e).artifacts = engines[e].artifacts
         /\ Answered(e).nextArtifact = engines[e].nextArtifact
         /\ EngineShape(Answered(e)) /\ Answered(e).root = engines[e].root
         /\ Answered(e).memo = engines[e].memo /\ Answered(e).nextNode = engines[e].nextNode
         /\ \A c \in Nat : Append(e, c) \in DOMAIN engines => engines[e].nodes[c].parent # n
<1>1. EngineOK(engines[e]) /\ EngineShape(engines[e]) /\ CleanOK(engines[e], approved)
  BY EngineFacts
<1>2. n \in DOMAIN engines[e].nodes /\ Turn(engines[e], n)
  BY <1>1, TurnOfAsked
<1>3. Good(Answered(e), n, approved) /\ Local(engines[e], Answered(e), n)
  BY <1>1, AnsweredGood
<1>4. /\ Answered(e).nodes = engines[e].nodes /\ Answered(e).asked = None
      /\ Answered(e).artifacts = engines[e].artifacts
      /\ Answered(e).nextArtifact = engines[e].nextArtifact
      /\ EngineShape(Answered(e)) /\ Answered(e).root = engines[e].root
      /\ Answered(e).memo = engines[e].memo /\ Answered(e).nextNode = engines[e].nextNode
  BY <1>1, AnsweredFields
<1>5. \A c \in Nat : Append(e, c) \in DOMAIN engines => engines[e].nodes[c].parent # n
  BY NoBranches DEF IsAsked
<1> QED BY <1>2, <1>3, <1>4, <1>5

LEMMA ResolveKeeps ==
  ASSUME PlanningInv, NEW e \in DOMAIN engines, Resolve(e)
  PROVE  PlanningInv'
<1> DEFINE g == engines[e]
<1>1. EngineOK(g) /\ EngineShape(g) /\ CleanOK(g, approved) /\ setbacks \in 0..MaxSetbacks
  BY EngineFacts
<1>2. PICK n \in DOMAIN g.nodes :
        /\ IsNext(g, n)
        /\ Becomes(e, IF g.nodes[n].key \in DOMAIN g.memo
                      THEN Commit(g, n, g.memo[g.nodes[n].key])
                      ELSE Ask(g, n, "Specify"))
  BY DEF Resolve
<1>3. outcome' = outcome /\ setbacks' = setbacks /\ approved' = approved
  BY DEF Resolve
<1>4. Good(g, n, approved) /\ g.asked = None /\ g.nodes[n].status = "New" /\ Turn(g, n)
  BY <1>1, <1>2, TurnOfNext, Zenon DEF Good, IsNext
<1>5. \A c \in Nat : Append(e, c) \in DOMAIN engines => g.nodes[c].parent # n
  BY <1>4, NoBranches
<1>6. CASE g.nodes[n].key \in DOMAIN g.memo
  <2> DEFINE a == g.memo[g.nodes[n].key]
             h == Commit(g, n, a)
  <2>1. ServesKey(g, a, g.nodes[n].key) /\ Clean(g, a, approved)
    BY <1>1, <1>6 DEF EngineOK, MemoOK, CleanOK
  <2>2. Good(h, n, approved) /\ Local(g, h, n)
    BY <1>4, <2>1, CommitGood
  <2>3. Becomes(e, h)
    BY <1>2, <1>6
  <2> HIDE DEF h
  <2> QED BY <1>1, <1>3, <1>4, <1>5, <2>2, <2>3, Becoming
<1>7. CASE g.nodes[n].key \notin DOMAIN g.memo
  <2> DEFINE h == Ask(g, n, "Specify")
  <2>1. "Specify" \in Operation /\ "Specify" # "Plan" /\ "Specify" # "Verify"
    BY DEF Operation
  <2>2. Good(h, n, approved) /\ Local(g, h, n)
    BY <1>4, <2>1, AskGood
  <2>3. Becomes(e, h)
    BY <1>2, <1>7
  <2> HIDE DEF h
  <2> QED BY <1>1, <1>3, <1>4, <1>5, <2>2, <2>3, Becoming
<1> QED BY <1>6, <1>7

LEMMA SpecifiedKeeps ==
  ASSUME PlanningInv, NEW e, Specified(e)
  PROVE  PlanningInv'
<1> DEFINE g == Answered(e)
           n == engines[e].asked.node
           node == g.nodes[n]
           size(out) == IF out.kind = "Specified" THEN out.size ELSE node.size
           plan(out) == IF out.kind # "Specified" THEN node.plan
                        ELSE PlanFromScopeAssessment(size(out), node.plan,
                               DefaultPolicyPack[node.taskType],
                               Len(node.task) < MaxDecompositionDepth)
           v(out) == [node EXCEPT !.size = size(out), !.plan = plan(out), !.status = "Specified"]
           op(out) == IF plan(out) = "Execute" THEN "Execute" ELSE "Plan"
<1>1. e \in DOMAIN engines /\ engines[e].asked # None /\ engines[e].asked.op = "Specify"
  BY ZenonT(40) DEF Specified, Asked, Running
<1>2. PICK out \in Outputs["Specify"] :
        /\ Usable(out)
        /\ Becomes(e, Ask([g EXCEPT !.nodes[n].size = size(out), !.nodes[n].plan = plan(out),
                                    !.nodes[n].status = "Specified"], n, op(out)))
  BY ZenonT(40) DEF Specified
<1>3. outcome' = outcome /\ setbacks' = setbacks /\ approved' = approved
  BY Zenon DEF Specified
<1>4. /\ n \in DOMAIN engines[e].nodes /\ Turn(engines[e], n)
      /\ Good(g, n, approved) /\ Local(engines[e], g, n)
      /\ g.nodes = engines[e].nodes /\ g.asked = None /\ EngineShape(g)
      /\ \A c \in Nat : Append(e, c) \in DOMAIN engines => engines[e].nodes[c].parent # n
  BY <1>1, AskedFacts
<1>5. node.status = "New" /\ node.candidate = None /\ node.children = <<>> /\ node \in NodeType
  <2>1. engines[e].nodes[n].status = "New"
    BY <1>1, EngineFacts DEF AskedOK
  <2>2. WorkOK(g, n)
    BY <1>4 DEF Good, EngineOK
  <2> QED BY <1>4, <2>1, <2>2, NodeFacts DEF WorkOK
<1>6. size(out) \in ToSet(WorkSize) /\ plan(out) \in {"Execute", "NeedsPlanning", "Stage", "Parallel"}
  <2>1. out.kind = "Specified" /\ out.size \in ToSet(WorkSize)
    BY <1>2, SpecifyOutputs, Zenon
  <2>2. node.plan \in {"Execute", "NeedsPlanning", "Stage", "Parallel"}
    BY <1>5 DEF NodeType
  <2> HIDE DEF g, n, node
  <2> QED BY <2>1, <2>2 DEF PlanFromScopeAssessment
<1> HIDE DEF size, plan
<1>7. /\ v(out) \in NodeType /\ SameNode(node, v(out))
      /\ v(out).children = <<>> /\ v(out).status = "Specified"
      /\ v(out).candidate = None /\ v(out).accepted = node.accepted
  BY <1>5, <1>6 DEF NodeType, SameNode, Status
<1> DEFINE s == SetNode(g, n, v(out))
<1>8. [g EXCEPT !.nodes[n].size = size(out), !.nodes[n].plan = plan(out),
                !.nodes[n].status = "Specified"] = s
  BY <1>4 DEF SetNode, EngineShape
<1> HIDE DEF g, node, v
<1>9. node = g.nodes[n]
  BY DEF node
<1>10. Good(s, n, approved) /\ Local(g, s, n)
  BY <1>4, <1>5, <1>7, <1>9, SetNodeGood
<1>11. s.nodes[n].status = "Specified" /\ s.asked = None /\ EngineShape(s)
  BY <1>4, <1>7, SetNodeFields
<1> DEFINE h == Ask(s, n, op(out))
<1>12. Becomes(e, h)
  BY <1>2, <1>8
<1>13. op(out) \in Operation /\ op(out) # "Specify" /\ op(out) # "Verify"
  BY DEF Operation
<1> HIDE DEF s, op
<1>14. Good(h, n, approved) /\ Local(s, h, n)
  BY <1>10, <1>11, <1>13, AskGood
<1> HIDE DEF h
<1>15. Local(engines[e], h, n)
  <2>1. EngineShape(engines[e]) /\ EngineShape(h)
    BY <1>1, <1>14, EngineFacts DEF Good, EngineOK
  <2>2. Local(g, h, n)
    BY <1>4, <1>10, <1>11, <1>14, <2>1, LocalComposes
  <2> QED BY <1>4, <2>1, <2>2, LocalComposes
<1> QED BY <1>1, <1>3, <1>4, <1>12, <1>14, <1>15, EngineFacts, Becoming

LEMMA JudgeGood ==
  ASSUME NEW g, NEW n, NEW ok, Good(g, n, ok), g.asked = None,
         NEW a, ServesKey(g, a, g.nodes[n].key), Text(g, a).by = g.nodes[n].task,
         NEW h, h = Judge(g, n, a)
  PROVE  Good(h, n, ok) /\ Local(g, h, n)
<1> DEFINE v == [g.nodes[n] EXCEPT !.candidate = a, !.status = "Verifying"]
           s == SetNode(g, n, v)
<1>1. EngineOK(g) /\ EngineShape(g) /\ n \in DOMAIN g.nodes
  BY DEF Good, EngineOK
<1>2. g.nodes[n] \in NodeType /\ a \in Nat /\ a # None
  BY <1>1, NodeFacts, PlanningAssumption DEF ServesKey, PlanningAssumption
<1>3. /\ v \in NodeType /\ SameNode(g.nodes[n], v) /\ v.children = g.nodes[n].children
      /\ v.status = "Verifying" /\ v.size = g.nodes[n].size /\ v.candidate = a
      /\ v.accepted = g.nodes[n].accepted /\ v.key = g.nodes[n].key /\ v.task = g.nodes[n].task
  BY <1>2 DEF NodeType, SameNode, Status
<1>4. h = Ask(s, n, "Verify")
  BY <1>1 DEF Judge, SetNode, EngineShape
<1> HIDE DEF v
<1>5. Good(s, n, ok) /\ Local(g, s, n)
  BY <1>3, SetNodeGood
<1>6. s.nodes[n] = v /\ EngineShape(s)
  BY <1>1, <1>3, SetNodeFields
<1> HIDE DEF s
<1>7. "Verify" \in Operation /\ "Verify" # "Specify" /\ "Verify" # "Plan"
  BY DEF Operation
<1>8. Good(h, n, ok) /\ Local(s, h, n)
  BY <1>2, <1>3, <1>4, <1>5, <1>6, <1>7, AskGood
<1>9. Local(g, h, n)
  BY <1>1, <1>5, <1>6, <1>8, LocalComposes DEF Good, EngineOK
<1> QED BY <1>8, <1>9

LEMMA WorkDoneKeeps ==
  ASSUME PlanningInv, NEW e, Asked(e, "Execute"), NEW changed,
         Becomes(e, WorkDone(Answered(e), engines[e].asked.node, changed)),
         UNCHANGED <<outcome, setbacks, approved>>
  PROVE  PlanningInv'
<1> DEFINE n == engines[e].asked.node
           node == engines[e].nodes[n]
           q == Answered(e)
           v == [node EXCEPT !.attempts = @ + 1]
           s == SetNode(q, n, v)
           text == Written(node, node.attempts + 1, <<>>, changed)
           g == Push(s, n, <<>>, text)
           a == g.nextArtifact
<1>1. e \in DOMAIN engines /\ engines[e].asked # None /\ engines[e].asked.op = "Execute"
  BY DEF Asked, Running
<1>2. approved' = approved /\ setbacks' = setbacks
  OBVIOUS
<1>3. /\ n \in DOMAIN engines[e].nodes /\ Turn(engines[e], n)
      /\ Good(q, n, approved) /\ Local(engines[e], q, n)
      /\ q.nodes = engines[e].nodes /\ q.asked = None /\ EngineShape(q)
      /\ \A c \in Nat : Append(e, c) \in DOMAIN engines => engines[e].nodes[c].parent # n
  BY <1>1, AskedFacts
<1>4. EngineShape(engines[e]) /\ setbacks \in 0..MaxSetbacks
  BY <1>1, EngineFacts
<1>5. node.status # "New" /\ node \in NodeType /\ WorkOK(q, n) /\ q.nodes[n] = node
  BY <1>1, <1>3, EngineFacts, NodeFacts DEF AskedOK, Good, EngineOK
<1>6. [q EXCEPT !.nodes[n].attempts = @ + 1] = s
  BY <1>3 DEF SetNode, EngineShape
<1>20. g = Push(s, n, <<>>, text) /\ a = g.nextArtifact
  OBVIOUS
<1>7. Becomes(e, IF ~SkipsVerify(node, changed) THEN Judge(g, n, a)
                 ELSE IF node.candidate = None THEN Commit(g, n, a)
                 ELSE Ask(Commit(g, n, a), n, "Verify"))
  <2>1. WorkDone(q, n, changed) =
          IF ~SkipsVerify(node, changed) THEN Judge(g, n, a)
          ELSE IF node.candidate = None THEN Commit(g, n, a)
          ELSE Ask(Commit(g, n, a), n, "Verify")
    BY <1>5, <1>6, Zenon DEF WorkDone
  <2> QED BY <2>1, Zenon
<1> HIDE DEF q, g, a
<1>8. /\ v \in NodeType /\ SameNode(node, v) /\ v.children = node.children
      /\ v.status = node.status /\ v.size = node.size /\ v.plan = node.plan
      /\ v.candidate = node.candidate /\ v.accepted = node.accepted
      /\ v.key = node.key /\ v.task = node.task
  <2> HIDE DEF node
  <2>1. node.attempts \in Nat
    BY <1>5 DEF NodeType
  <2>2. node.attempts + 1 \in Nat
    BY <2>1
  <2> DEFINE attempts == node.attempts + 1
  <2>3. v = [node EXCEPT !.attempts = attempts]
    OBVIOUS
  <2> HIDE DEF attempts, v
  <2>4. attempts \in Nat
    BY <2>2 DEF attempts
  <2>5. v \in NodeType
    BY <1>5, <2>3, <2>4 DEF NodeType
  <2> QED BY <1>5, <2>3, <2>5 DEF NodeType, SameNode
<1>9. Good(s, n, approved) /\ Local(q, s, n)
  <2> HIDE DEF v, node, n
  <2> QED BY <1>3, <1>5, <1>8, SetNodeGood DEF WorkOK
<1>10. s.nodes[n] = v /\ s.asked = None /\ EngineShape(s)
  <2>1. v \in NodeType /\ n \in DOMAIN q.nodes
    BY <1>3, <1>8
  <2> HIDE DEF v, node, n
  <2> QED BY <1>3, <2>1, SetNodeFields
<1>11. text.by = node.task /\ text.from = <<>> /\ text.key = node.key /\ text.nth = node.attempts + 1
       /\ text.changed = changed
  BY DEF Written
<1>12. SameTexts(s, <<>>, text.from)
  BY <1>11 DEF SameTexts
<1> HIDE DEF s, text, v
<1>13. /\ Good(g, n, approved) /\ Local(s, g, n) /\ g.asked = None
       /\ g.nodes = s.nodes /\ a \in 1..a
       /\ Text(g, a) = text /\ g.artifacts[a].node = n
  <2>1. s.nodes[n].status # "New" /\ s.nodes[n].task = node.task
    BY <1>5, <1>8, <1>10
  <2> HIDE DEF node, n
  <2> QED BY <1>9, <1>10, <1>11, <1>12, <1>20, <2>1, PushGood
<1>14. ServesKey(g, a, g.nodes[n].key) /\ Text(g, a).by = g.nodes[n].task /\ g.nodes[n] = v
  BY <1>8, <1>10, <1>11, <1>13 DEF ServesKey, a
<1>15. EngineShape(g) /\ Local(engines[e], g, n)
  <2>1. EngineShape(g)
    BY <1>13 DEF Good, EngineOK
  <2>2. Local(engines[e], s, n)
    BY <1>3, <1>4, <1>9, <1>10, LocalComposes
  <2> QED BY <1>3, <1>4, <1>10, <1>13, <2>1, <2>2, LocalComposes
<1>16. ASSUME NEW h, Good(h, n, approved), Local(g, h, n), Becomes(e, h), outcome' = outcome
       PROVE  PlanningInv'
  <2>1. Local(engines[e], h, n)
    BY <1>3, <1>4, <1>15, <1>16, LocalComposes DEF Good, EngineOK
  <2>2. Good(h, n, approved') /\ approved \subseteq approved' /\ setbacks' \in 0..MaxSetbacks
    BY <1>2, <1>4, <1>16
  <2> QED BY <1>1, <1>3, <1>16, <2>1, <2>2, Becoming
<1>17. outcome' = outcome
  OBVIOUS
<1>18. CASE ~SkipsVerify(node, changed)
  <2>1. Becomes(e, Judge(g, n, a))
    BY <1>7, <1>18
  <2>2. Good(Judge(g, n, a), n, approved) /\ Local(g, Judge(g, n, a), n)
    BY <1>13, <1>14, JudgeGood
  <2> QED BY <1>16, <1>17, <2>1, <2>2
<1>19. CASE SkipsVerify(node, changed)
  <2> DEFINE h == Commit(g, n, a)
             w == Ask(h, n, "Verify")
  <2>1. Clean(g, a, approved)
    <3>1. node.attempts + 1 > 0
      <4> HIDE DEF node
      <4>1. node.attempts \in Nat
        BY <1>5 DEF NodeType
      <4> QED BY <4>1
    <3>2. node.size = "Tiny" /\ ~changed
      BY <1>19 DEF SkipsVerify
    <3>3. g.nodes[g.artifacts[a].node].size = "Tiny"
      BY <1>8, <1>13, <1>14, <3>2
    <3> QED BY <1>11, <1>13, <3>1, <3>2, <3>3 DEF Clean
  <2>2. /\ Good(h, n, approved) /\ Local(g, h, n) /\ h.nodes[n].status = "Committed"
        /\ h.nodes[n].candidate = node.candidate
    <3>1. g.nodes[n].candidate = node.candidate
      BY <1>8, <1>14
    <3> HIDE DEF node, n
    <3>2. Good(g, n, approved) /\ g.asked = None /\ ServesKey(g, a, g.nodes[n].key)
      BY <1>13, <1>14
    <3>3. /\ Good(h, n, approved) /\ Local(g, h, n) /\ h.nodes[n].status = "Committed"
          /\ h.nodes[n].candidate = g.nodes[n].candidate
      BY <2>1, <3>2, CommitGood
    <3> QED BY <3>1, <3>3
  <2>3. IF node.candidate = None THEN Becomes(e, h) ELSE Becomes(e, w)
    BY <1>7, <1>19
  <2>5. CASE node.candidate = None
    <3>1. Becomes(e, h)
      BY <2>3, <2>5
    <3> HIDE DEF h
    <3> QED BY <1>16, <1>17, <2>2, <3>1
  <2>6. CASE node.candidate # None
    <3>1. Becomes(e, w)
      BY <2>3, <2>6
    <3>2. "Verify" \in Operation /\ "Verify" # "Specify" /\ "Verify" # "Plan"
      BY DEF Operation
    <3> HIDE DEF h
    <3>3. Good(w, n, approved) /\ Local(h, w, n)
      BY <2>2, <2>6, <3>2, AskGood
    <3> HIDE DEF w
    <3>4. Local(g, w, n)
      BY <1>13, <1>15, <2>2, <3>3, LocalComposes DEF Good, EngineOK
    <3> QED BY <1>16, <1>17, <3>1, <3>3, <3>4
  <2> QED BY <2>5, <2>6
<1> QED BY <1>18, <1>19

LEMMA ExecutedKeeps ==
  ASSUME PlanningInv, NEW e, Executed(e)
  PROVE  PlanningInv'
<1>1. Asked(e, "Execute") /\ setbacks' = setbacks /\ approved' = approved
  BY Zenon DEF Executed
<1>2. PICK out \in Outputs["Execute"] :
        /\ Usable(out)
        /\ IF out.kind # "Executed" THEN Failed
           ELSE /\ Becomes(e, WorkDone(Answered(e), engines[e].asked.node, out.changed))
                /\ UNCHANGED outcome
  BY Zenon DEF Executed
<1>3. CASE out.kind # "Executed"
  BY <1>1, <1>2, <1>3, Failing
<1>4. CASE out.kind = "Executed"
  <2>1. Becomes(e, WorkDone(Answered(e), engines[e].asked.node, out.changed))
    BY <1>2, <1>4
  <2>2. outcome' = outcome
    BY <1>2, <1>4
  <2> QED BY <1>1, <2>1, <2>2, WorkDoneKeeps
<1> QED BY <1>3, <1>4

LEMMA ResumeKeeps ==
  ASSUME PlanningInv, NEW e \in DOMAIN engines, Resume(e)
  PROVE  PlanningInv'
<1> DEFINE g == engines[e]
<1>1. EngineOK(g) /\ EngineShape(g) /\ CleanOK(g, approved) /\ setbacks \in 0..MaxSetbacks
  BY EngineFacts
<1>2. PICK n \in DOMAIN g.nodes :
        /\ g.nodes[n].status = "Planned" /\ GroupOver(e, n)
        /\ Becomes(e, IF GroupSucceeded(g, n) THEN Ask(g, n, "Combine")
                      ELSE [Recorded(g, n, "Combine") EXCEPT
                              !.nodes[n].status = BlockedStatus(g, n)])
  BY DEF Resume
<1>3. outcome' = outcome /\ setbacks' = setbacks /\ approved' = approved /\ g.asked = None
  BY DEF Resume
<1>4. Turn(g, n)
  BY <1>1, <1>2, <1>3, TurnOfWaiting DEF GroupOver
<1>5. Good(g, n, approved)
  BY <1>1, <1>4 DEF Good
<1>6. ASSUME NEW c \in Nat, Append(e, c) \in DOMAIN engines PROVE g.nodes[c].parent # n
  <2>1. CASE g.nodes[n].plan # "Parallel"
    BY <1>6, <2>1, NoBranches
  <2>2. CASE g.nodes[n].plan = "Parallel"
    <3> SUFFICES ASSUME g.nodes[c].parent = n PROVE FALSE
      OBVIOUS
    <3>1. e \in Seq(Nat)
      BY DEF PlanningInv, TypeOK
    <3>2. Append(e, c) # Root /\ Front(Append(e, c)) = e /\ Last(Append(e, c)) = c
      BY <3>1, AppendFacts DEF Root
    <3>3. BranchOK(g, c, engines[Append(e, c)])
      BY <1>6, <3>2 DEF PlanningInv
    <3>4. c \in DOMAIN g.nodes /\ c # g.root
      BY <3>3 DEF BranchOK
    <3>5. PICK i \in DOMAIN g.nodes[n].children : g.nodes[n].children[i] = c
      BY <1>1, <3>4, ParentFacts
    <3>6. c \in ToSet(g.nodes[n].children)
      BY <3>5 DEF ToSet
    <3> QED BY <1>2, <1>6, <2>2, <3>6 DEF GroupOver
  <2> QED BY <2>1, <2>2
<1>7. CASE GroupSucceeded(g, n)
  <2> DEFINE h == Ask(g, n, "Combine")
  <2>1. Becomes(e, h)
    BY <1>2, <1>7
  <2>2. "Combine" \in Operation /\ "Combine" # "Specify" /\ "Combine" # "Plan"
    BY DEF Operation
  <2>3. Good(h, n, approved) /\ Local(g, h, n)
    BY <1>2, <1>5, <2>2, AskGood
  <2> HIDE DEF h
  <2> QED BY <1>1, <1>3, <1>4, <1>6, <2>1, <2>3, Becoming
<1>8. CASE ~GroupSucceeded(g, n)
  <2> DEFINE r == Recorded(g, n, "Combine")
             v == [g.nodes[n] EXCEPT !.status = BlockedStatus(g, n)]
             h == SetNode(r, n, v)
  <2>1. Good(r, n, approved) /\ Local(g, r, n)
    BY <1>3, <1>5, RecordedGood
  <2>2. r.nodes = g.nodes /\ r.asked = None /\ EngineShape(r) /\ WorkOK(r, n)
    BY <1>1, <1>3, <2>1, RecordedFields DEF Good, EngineOK
  <2>3. h = [Recorded(g, n, "Combine") EXCEPT !.nodes[n].status = BlockedStatus(g, n)]
    BY <2>2 DEF SetNode, EngineShape
  <2> HIDE DEF r
  <2>4. g.nodes[n] \in NodeType /\ BlockedStatus(g, n) \in {"WaitingForInfo", "Pruned"}
    BY <1>1, NodeFacts DEF BlockedStatus
  <2>5. /\ v \in NodeType /\ SameNode(g.nodes[n], v) /\ v.children = g.nodes[n].children
        /\ v.status \in {"WaitingForInfo", "Pruned"} /\ v.size = g.nodes[n].size
        /\ v.candidate = g.nodes[n].candidate /\ v.accepted = g.nodes[n].accepted
        /\ v.key = g.nodes[n].key /\ v.task = g.nodes[n].task
    BY <2>4 DEF NodeType, SameNode, Status, Final
  <2> HIDE DEF v
  <2>6. Good(h, n, approved) /\ Local(r, h, n)
    BY <2>1, <2>2, <2>5, SetNodeGood DEF WorkOK
  <2>7. Becomes(e, h)
    BY <1>2, <1>8, <2>3
  <2> HIDE DEF h
  <2>8. Local(g, h, n)
    BY <1>1, <2>1, <2>2, <2>6, LocalComposes DEF Good, EngineOK
  <2> QED BY <1>1, <1>3, <1>4, <1>6, <2>6, <2>7, <2>8, Becoming
<1> QED BY <1>7, <1>8

LEMMA CombinedKeeps ==
  ASSUME PlanningInv, NEW e, Combined(e)
  PROVE  PlanningInv'
<1> DEFINE n == engines[e].asked.node
           node == engines[e].nodes[n]
           q == Answered(e)
           children == engines[e].asked.children
           text == Written(node, 0, engines[e].asked.packet.children, TRUE)
           g == Push(q, n, children, text)
           a == g.nextArtifact
           h == Judge(g, n, a)
<1>1. e \in DOMAIN engines /\ engines[e].asked # None /\ engines[e].asked.op = "Combine"
  BY DEF Combined, Asked, Running
<1>2. approved' = approved /\ setbacks' = setbacks
  BY DEF Combined
<1>3. /\ n \in DOMAIN engines[e].nodes /\ Turn(engines[e], n)
      /\ Good(q, n, approved) /\ Local(engines[e], q, n)
      /\ q.nodes = engines[e].nodes /\ q.asked = None /\ EngineShape(q)
      /\ q.artifacts = engines[e].artifacts /\ q.nextArtifact = engines[e].nextArtifact
      /\ \A c \in Nat : Append(e, c) \in DOMAIN engines => engines[e].nodes[c].parent # n
  BY <1>1, AskedFacts
<1>4. EngineShape(engines[e]) /\ setbacks \in 0..MaxSetbacks
  BY <1>1, EngineFacts
<1>5. node.status # "New" /\ q.nodes[n] = node
  BY <1>1, <1>3, EngineFacts DEF AskedOK
<1>6. SameTexts(engines[e], children, engines[e].asked.packet.children)
  BY <1>1, EngineFacts DEF AskedOK
<1>7. /\ text.by = node.task /\ text.key = node.key
      /\ text.from = engines[e].asked.packet.children
  BY DEF Written
<1>8. SameTexts(q, children, text.from)
  BY <1>3, <1>6, <1>7, Zenon DEF SameTexts, Text
<1>9. g = Push(q, n, children, text) /\ a = g.nextArtifact /\ h = Judge(g, n, a)
  OBVIOUS
<1>10. PICK out \in Outputs["Combine"] :
         /\ Usable(out)
         /\ IF out.kind # "Combined" THEN Failed ELSE Becomes(e, h) /\ UNCHANGED outcome
  BY DEF Combined
<1> HIDE DEF q, text, children, g, a, h
<1>11. /\ Good(g, n, approved) /\ Local(q, g, n) /\ g.asked = None
       /\ g.nodes = q.nodes /\ a \in 1..a /\ Text(g, a) = text
  <2>1. q.nodes[n].status # "New" /\ text.by = q.nodes[n].task
    BY <1>5, <1>7
  <2> HIDE DEF n, node
  <2> QED BY <1>3, <1>8, <1>9, <2>1, PushGood
<1>12. ServesKey(g, a, g.nodes[n].key) /\ Text(g, a).by = g.nodes[n].task
  BY <1>5, <1>7, <1>9, <1>11 DEF ServesKey
<1>13. Good(h, n, approved) /\ Local(g, h, n)
  BY <1>9, <1>11, <1>12, JudgeGood
<1>14. Local(engines[e], h, n)
  <2>1. EngineShape(g) /\ EngineShape(h)
    BY <1>11, <1>13 DEF Good, EngineOK
  <2>2. Local(engines[e], g, n)
    BY <1>3, <1>4, <1>11, <2>1, LocalComposes
  <2> QED BY <1>3, <1>4, <1>13, <2>1, <2>2, LocalComposes
<1>15. CASE out.kind # "Combined"
  BY <1>2, <1>10, <1>15, Failing
<1>16. CASE out.kind = "Combined"
  BY <1>1, <1>2, <1>3, <1>4, <1>10, <1>13, <1>14, <1>16, Becoming
<1> QED BY <1>15, <1>16

LEMMA VerifyAcceptsKeeps ==
  ASSUME PlanningInv, NEW e, VerifyAccepts(e)
  PROVE  PlanningInv'
<1> DEFINE n == engines[e].asked.node
           a == engines[e].asked.candidate
           q == Answered(e)
           h == Commit(q, n, a)
<1>1. e \in DOMAIN engines /\ engines[e].asked # None /\ engines[e].asked.op = "Verify"
  BY DEF VerifyAccepts, Asked, Running
<1>2. outcome' = outcome /\ setbacks' = setbacks
  BY DEF VerifyAccepts
<1>3. /\ n \in DOMAIN engines[e].nodes /\ Turn(engines[e], n)
      /\ Good(q, n, approved) /\ Local(engines[e], q, n)
      /\ q.nodes = engines[e].nodes /\ q.asked = None /\ EngineShape(q)
      /\ q.artifacts = engines[e].artifacts /\ q.nextArtifact = engines[e].nextArtifact
      /\ \A c \in Nat : Append(e, c) \in DOMAIN engines => engines[e].nodes[c].parent # n
  BY <1>1, AskedFacts
<1>4. EngineShape(engines[e]) /\ setbacks \in 0..MaxSetbacks
  BY <1>1, EngineFacts
<1>5. ServesKey(engines[e], a, engines[e].nodes[n].key)
  BY <1>1, EngineFacts DEF AskedOK
<1>6. ServesKey(q, a, q.nodes[n].key) /\ Text(q, a) = Text(engines[e], a)
  BY <1>3, <1>5 DEF ServesKey, Text
<1>7. PICK r \in Response :
        /\ Usable(DecodeResult("Verify", r))
        /\ Verdict(DecodeResult("Verify", r)).verdict = "Accept"
        /\ Becomes(e, h)
        /\ approved' = IF /\ r.call = "submit_verdict" /\ r.args.verdict = "accept"
                          /\ r.args.hardViolations = {}
                       THEN approved \union {Text(engines[e], a)} ELSE approved
  BY DEF VerifyAccepts
<1>8. approved' = approved \union {Text(engines[e], a)}
  BY <1>7, VerifyOutputs
<1>9. approved \subseteq approved' /\ Clean(q, a, approved')
  BY <1>6, <1>8 DEF Clean
<1> HIDE DEF q, a
<1>10. Good(h, n, approved') /\ Local(q, h, n)
  BY <1>3, <1>6, <1>9, CommitGood
<1> HIDE DEF h
<1>11. Local(engines[e], h, n)
  BY <1>3, <1>4, <1>10, LocalComposes DEF Good, EngineOK
<1> QED BY <1>1, <1>2, <1>3, <1>4, <1>7, <1>9, <1>10, <1>11, Becoming

LEMMA VerifyRefusesKeeps ==
  ASSUME PlanningInv, NEW e, VerifyRefuses(e)
  PROVE  PlanningInv'
<1> DEFINE n == engines[e].asked.node
           q == Answered(e)
           v(status) == [q.nodes[n] EXCEPT !.status = status]
<1>1. e \in DOMAIN engines /\ engines[e].asked # None /\ engines[e].asked.op = "Verify"
  BY DEF VerifyRefuses, Asked, Running
<1>2. outcome' = outcome /\ setbacks' = setbacks + 1 /\ approved' = approved /\ setbacks < MaxSetbacks
  BY DEF VerifyRefuses
<1>3. /\ n \in DOMAIN engines[e].nodes /\ Turn(engines[e], n)
      /\ Good(q, n, approved) /\ Local(engines[e], q, n)
      /\ q.nodes = engines[e].nodes /\ q.asked = None /\ EngineShape(q)
      /\ \A c \in Nat : Append(e, c) \in DOMAIN engines => engines[e].nodes[c].parent # n
  BY <1>1, AskedFacts
<1>4. EngineShape(engines[e]) /\ setbacks \in 0..MaxSetbacks
  BY <1>1, EngineFacts
<1>5. setbacks' \in 0..MaxSetbacks
  BY <1>2, <1>4, PlanningAssumption DEF PlanningAssumption
<1>6. q.nodes[n] \in NodeType /\ q.nodes[n].status # "New" /\ WorkOK(q, n)
  BY <1>1, <1>3, NodeFacts, EngineFacts DEF AskedOK, Good, EngineOK
<1>7. PICK out \in Outputs["Verify"] : Becomes(e, Refused(q, n, Verdict(out)))
  BY DEF VerifyRefuses
<1> HIDE DEF q
<1>8. ASSUME NEW h, Becomes(e, h), Good(h, n, approved), Local(q, h, n) PROVE PlanningInv'
  <2>1. Local(engines[e], h, n)
    BY <1>3, <1>4, <1>8, LocalComposes DEF Good, EngineOK
  <2> QED BY <1>1, <1>2, <1>3, <1>5, <1>8, <2>1, Becoming
<1>9. ASSUME NEW status \in {"WaitingForInfo", "Rejected", "Pruned"}
      PROVE  LET h == [q EXCEPT !.nodes[n].status = status] IN
               Good(h, n, approved) /\ Local(q, h, n)
  <2> DEFINE w == v(status)
  <2>1. [q EXCEPT !.nodes[n].status = status] = SetNode(q, n, w)
    BY <1>3 DEF SetNode, EngineShape
  <2>2. /\ w \in NodeType /\ SameNode(q.nodes[n], w) /\ w.children = q.nodes[n].children
        /\ w.status = status /\ w.size = q.nodes[n].size
        /\ w.candidate = q.nodes[n].candidate /\ w.accepted = q.nodes[n].accepted
        /\ w.key = q.nodes[n].key /\ w.task = q.nodes[n].task
    BY <1>6, Zenon DEF NodeType, SameNode, Status, Final
  <2> HIDE DEF w, n
  <2>3. Good(SetNode(q, n, w), n, approved) /\ Local(q, SetNode(q, n, w), n)
    BY <1>3, <1>6, <2>2, SetNodeGood DEF WorkOK
  <2> QED BY <2>1, <2>3
<1>10. Good(Ask(q, n, "Execute"), n, approved) /\ Local(q, Ask(q, n, "Execute"), n)
  <2>1. "Execute" \in Operation /\ "Execute" # "Specify" /\ "Execute" # "Plan" /\ "Execute" # "Verify"
    BY DEF Operation
  <2> QED BY <1>3, <1>6, <2>1, AskGood
<1>11. \/ \E status \in {"WaitingForInfo", "Rejected", "Pruned"} :
            Becomes(e, [q EXCEPT !.nodes[n].status = status])
       \/ Becomes(e, Ask(q, n, "Execute"))
  BY <1>7 DEF Refused
<1> QED BY <1>8, <1>9, <1>10, <1>11, Zenon

LEMMA AgentFailsKeeps ==
  ASSUME PlanningInv, NEW e, AgentFails(e)
  PROVE  PlanningInv'
BY Failing DEF AgentFails

-----------------------------------------------------------------------------
(* A group of children, and the engines of a parallel one.                 *)

LEMMA TemplateFacts ==
  ASSUME NEW t \in Templates
  PROVE  /\ DOMAIN t = {"key", "size", "plan", "policy", "taskType", "readScope", "writeScope"}
         /\ t.size = "Small" /\ t.plan = "Execute"
<1>1. CASE t = RootTemplate
  BY <1>1 DEF RootTemplate
<1>2. CASE t # RootTemplate
  <2>1. PICK p \in PlanArgs : t \in {IntoNodeTemplate(p.items[i], i) : i \in DOMAIN p.items}
    BY <1>2 DEF Templates
  <2>2. PICK i \in DOMAIN p.items : t = IntoNodeTemplate(p.items[i], i)
    BY <2>1
  <2> QED BY <2>2 DEF IntoNodeTemplate
<1> QED BY <1>1, <1>2

LEMMA ChildNode ==
  ASSUME NEW node \in NodeType, NEW item \in Templates, NEW task \in Seq(Nat), NEW n \in Nat,
         ItemFits(node, item)
  PROVE  LET child == NewNode(task, n, Inherit(node, item)) IN
         /\ child \in NodeType /\ child.task = task /\ child.parent = n
         /\ child.status = "New" /\ child.children = <<>>
         /\ child.candidate = None /\ child.accepted = None
         /\ Fits(child.readScope, node.readScope) /\ Fits(child.writeScope, node.writeScope)
<1> DEFINE t == Inherit(node, item)
           child == NewNode(task, n, t)
           rs == InheritScope(item.readScope, node.readScope)
           ws == InheritScope(item.writeScope, node.writeScope)
<1>1. /\ t.key = item.key /\ t.size = "Small" /\ t.plan = "Execute"
      /\ t.readScope = rs /\ t.writeScope = ws
      /\ t.policy \in {item.policy, node.policy} /\ t.taskType \in {item.taskType, node.taskType}
  BY TemplateFacts DEF Inherit
<1>2. rs \in Scopes /\ ws \in Scopes
  BY DEF InheritScope, Scopes, NodeType
<1>3. t.policy \in {x.policy : x \in Templates} /\ t.taskType \in {x.taskType : x \in Templates}
      /\ t.key \in {x.key : x \in Templates}
  BY <1>1 DEF NodeType
<1>4. Fits(rs, node.readScope) /\ Fits(ws, node.writeScope)
  BY DEF Fits, InheritScope, ItemFits
<1> HIDE DEF t, rs, ws
<1>5. child = [task |-> task, parent |-> n, key |-> t.key, size |-> t.size,
               plan |-> t.plan, policy |-> t.policy, taskType |-> t.taskType,
               readScope |-> t.readScope, writeScope |-> t.writeScope,
               children |-> <<>>, status |-> "New", candidate |-> None, accepted |-> None,
               attempts |-> 0]
  BY DEF NewNode, t
<1>6. "Small" \in ToSet(WorkSize) /\ <<>> \in Seq(Nat) /\ "New" \in Status /\ 0 \in Nat
  <2>1. DOMAIN WorkSize = 1..5 /\ WorkSize[2] = "Small" /\ 2 \in 1..5
    BY DEF WorkSize
  <2> QED BY <2>1 DEF ToSet, Status
<1>7. child \in NodeType
  BY <1>1, <1>2, <1>3, <1>5, <1>6 DEF NodeType
<1>8. /\ child.task = task /\ child.parent = n
      /\ child.status = "New" /\ child.children = <<>>
      /\ child.candidate = None /\ child.accepted = None
      /\ child.readScope = rs /\ child.writeScope = ws
  BY <1>1, <1>5
<1> HIDE DEF child
<1>9. child = NewNode(task, n, Inherit(node, item))
  BY DEF child, t
<1> QED BY <1>4, <1>7, <1>8, <1>9

LEMMA GroupFields ==
  ASSUME NEW g, EngineShape(g), NEW n \in DOMAIN g.nodes, NEW mode \in {"Stage", "Parallel"},
         NEW items \in Seq(Templates), \A i \in DOMAIN items : ItemFits(g.nodes[n], items[i]),
         NEW h, h = Group(g, n, mode, items)
  PROVE  /\ EngineShape(h)
         /\ h.root = g.root /\ h.nextNode = g.nextNode + Len(items)
         /\ h.nextArtifact = g.nextArtifact /\ h.artifacts = g.artifacts
         /\ h.memo = g.memo /\ h.log = g.log /\ h.asked = g.asked
         /\ DOMAIN h.nodes = DOMAIN g.nodes \union {g.nextNode + i : i \in DOMAIN items}
         /\ \A i \in DOMAIN items : g.nextNode + i \notin DOMAIN g.nodes
         /\ \A m \in DOMAIN g.nodes \ {n} : h.nodes[m] = g.nodes[m]
         /\ SameNode(g.nodes[n], h.nodes[n])
         /\ h.nodes[n].status = "Planned" /\ h.nodes[n].plan = mode
         /\ h.nodes[n].size = g.nodes[n].size
         /\ h.nodes[n].candidate = g.nodes[n].candidate
         /\ h.nodes[n].accepted = g.nodes[n].accepted
         /\ DOMAIN h.nodes[n].children = DOMAIN items
         /\ \A i \in DOMAIN items :
              /\ h.nodes[n].children[i] = g.nextNode + i
              /\ h.nodes[g.nextNode + i] =
                   NewNode(Append(g.nodes[n].task, i), n, Inherit(g.nodes[n], items[i]))
<1> DEFINE new == {g.nextNode + i : i \in DOMAIN items}
           node == g.nodes[n]
           made(id) == NewNode(Append(node.task, id - g.nextNode), n,
                               Inherit(node, items[id - g.nextNode]))
           nodes0 == [id \in DOMAIN g.nodes \union new |->
                        IF id \in DOMAIN g.nodes THEN g.nodes[id] ELSE made(id)]
           children == [i \in DOMAIN items |-> g.nextNode + i]
           v == [node EXCEPT !.children = children, !.plan = mode, !.status = "Planned"]
           nodes == [nodes0 EXCEPT ![n] = v]
<1>1. /\ g.root \in Nat /\ g.nextNode \in Nat /\ g.root <= g.nextNode
      /\ DOMAIN g.nodes = g.root..g.nextNode /\ node \in NodeType /\ n \in Nat
      /\ node.task \in Seq(Nat)
  BY NodeFacts DEF EngineShape
<1>2. Len(items) \in Nat /\ DOMAIN items = 1..Len(items) /\ \A i \in DOMAIN items : items[i] \in Templates
  <2>1. Len(items) \in Nat /\ items \in [1..Len(items) -> Templates] /\ DOMAIN items = 1..Len(items)
    BY LenProperties
  <2> QED BY <2>1
<1>3. new \intersect DOMAIN g.nodes = {} /\ n \notin new /\ n \in DOMAIN nodes0 /\ nodes0[n] = node
  BY <1>1, <1>2
<1>4. \A i \in DOMAIN items : (g.nextNode + i) - g.nextNode = i
  BY <1>1, <1>2
<1>5. /\ DOMAIN h = DOMAIN g /\ h.root = g.root /\ h.nextNode = g.nextNode + Len(items)
      /\ h.nextArtifact = g.nextArtifact /\ h.artifacts = g.artifacts
      /\ h.memo = g.memo /\ h.log = g.log /\ h.asked = g.asked
  BY DEF Group, EngineShape
<1>6. h.nodes = nodes
  <2>1. h.nodes = [nodes0 EXCEPT ![n].children = children, ![n].plan = mode, ![n].status = "Planned"]
    BY DEF Group, EngineShape
  <2> HIDE DEF nodes0, children
  <2> QED BY <1>3, <2>1
<1>7. DOMAIN g.nodes \union new = g.root..(g.nextNode + Len(items))
  <2> DEFINE L == Len(items)
             k == g.nextNode
  <2>1. L \in Nat /\ k \in Nat /\ g.root \in Nat /\ g.root <= k
        /\ DOMAIN g.nodes = g.root..k /\ new = {k + i : i \in 1..L}
    BY <1>1, <1>2
  <2> HIDE DEF L, k, new
  <2>2. ASSUME NEW x \in g.root..(k + L), x \notin g.root..k PROVE x \in new
    <3>1. x - k \in 1..L /\ x = k + (x - k)
      BY <2>1, <2>2
    <3> QED BY <2>1, <3>1
  <2>3. \A i \in 1..L : k + i \in g.root..(k + L)
    BY <2>1
  <2>4. g.root..k \subseteq g.root..(k + L)
    BY <2>1
  <2> QED BY <2>1, <2>2, <2>3, <2>4 DEF L, k
<1>8. children \in Seq(Nat) /\ DOMAIN children = DOMAIN items /\ \A i \in DOMAIN items : children[i] = g.nextNode + i
  <2>9. Len(items) \in Nat /\ g.nextNode \in Nat
    BY <1>1, <1>2
  <2>0. \A i \in 1..Len(items) : g.nextNode + i \in Nat
    BY <2>9
  <2>1. children \in [1..Len(items) -> Nat]
    BY <1>2, <2>0
  <2> QED BY <1>2, <2>1, FunctionInSeq
<1>9. \A i \in DOMAIN items : made(g.nextNode + i) =
        NewNode(Append(node.task, i), n, Inherit(node, items[i]))
  BY <1>4
<1>10. ASSUME NEW i \in DOMAIN items PROVE made(g.nextNode + i) \in NodeType
  <2>1. Append(node.task, i) \in Seq(Nat)
    BY <1>1, <1>2, AppendProperties
  <2>2. NewNode(Append(node.task, i), n, Inherit(node, items[i])) \in NodeType
    <3>1. items[i] \in Templates /\ ItemFits(node, items[i]) /\ node \in NodeType /\ n \in Nat
      BY <1>1, <1>2
    <3> HIDE DEF node
    <3> QED BY <2>1, <3>1, ChildNode
  <2> QED BY <1>9, <2>2
<1> HIDE DEF made, children
<1>11. /\ v \in NodeType /\ SameNode(node, v) /\ v.status = "Planned" /\ v.plan = mode
       /\ v.size = node.size /\ v.candidate = node.candidate /\ v.accepted = node.accepted
       /\ v.children = children
  BY <1>1, <1>8 DEF NodeType, SameNode, Status
<1> HIDE DEF v
<1>12. /\ DOMAIN nodes = DOMAIN g.nodes \union new /\ nodes[n] = v
       /\ \A m \in DOMAIN g.nodes \ {n} : nodes[m] = g.nodes[m]
       /\ \A i \in DOMAIN items : nodes[g.nextNode + i] = made(g.nextNode + i)
  BY <1>3
<1>13. \A m \in DOMAIN g.nodes : g.nodes[m] \in NodeType
  BY DEF EngineShape
<1>14. nodes \in [g.root..(g.nextNode + Len(items)) -> NodeType]
  <2>1. \A m \in DOMAIN g.nodes \union new : nodes[m] \in NodeType
    BY <1>10, <1>11, <1>12, <1>13
  <2>2. nodes = [m \in DOMAIN g.nodes \union new |-> nodes[m]]
    BY <1>12
  <2> HIDE DEF nodes, new
  <2> QED BY <1>7, <2>1, <2>2
<1>15. EngineShape(h)
  <2>1. g.nextNode + Len(items) \in Nat /\ g.root <= g.nextNode + Len(items)
    BY <1>1, <1>2
  <2>2. g.asked # None => g.asked.node \in DOMAIN nodes /\ g.asked.op \in Operation
    BY <1>12 DEF EngineShape
  <2> HIDE DEF nodes, new
  <2> QED BY <1>5, <1>6, <1>14, <2>1, <2>2 DEF EngineShape
<1> HIDE DEF nodes
<1> QED BY <1>3, <1>5, <1>6, <1>8, <1>9, <1>11, <1>12, <1>15

LEMMA GroupGrows ==
  ASSUME NEW g, NEW n, NEW ok, Good(g, n, ok), g.asked = None, g.nodes[n].status = "Specified",
         NEW mode \in {"Stage", "Parallel"}, NEW items \in Seq(Templates),
         \A i \in DOMAIN items : ItemFits(g.nodes[n], items[i]),
         NEW h, h = Group(g, n, mode, items)
  PROVE  /\ EngineOK(h) /\ CleanOK(h, ok) /\ Grows(g, h, n) /\ h.asked = None
         /\ h.nodes[n].status = "Planned" /\ h.nodes[n].plan = mode
<1>1. /\ EngineOK(g) /\ EngineShape(g) /\ CleanOK(g, ok) /\ n \in DOMAIN g.nodes
      /\ WorkOK(g, n) /\ Turn(g, n)
  BY DEF Good, EngineOK
<1>2. /\ EngineShape(h)
      /\ h.root = g.root /\ h.nextNode = g.nextNode + Len(items)
      /\ h.nextArtifact = g.nextArtifact /\ h.artifacts = g.artifacts
      /\ h.memo = g.memo /\ h.log = g.log /\ h.asked = None
      /\ DOMAIN h.nodes = DOMAIN g.nodes \union {g.nextNode + i : i \in DOMAIN items}
      /\ \A i \in DOMAIN items : g.nextNode + i \notin DOMAIN g.nodes
      /\ \A m \in DOMAIN g.nodes \ {n} : h.nodes[m] = g.nodes[m]
      /\ SameNode(g.nodes[n], h.nodes[n])
      /\ h.nodes[n].status = "Planned" /\ h.nodes[n].plan = mode
      /\ h.nodes[n].size = g.nodes[n].size
      /\ h.nodes[n].candidate = g.nodes[n].candidate
      /\ h.nodes[n].accepted = g.nodes[n].accepted
      /\ DOMAIN h.nodes[n].children = DOMAIN items
      /\ \A i \in DOMAIN items :
           /\ h.nodes[n].children[i] = g.nextNode + i
           /\ h.nodes[g.nextNode + i] =
                NewNode(Append(g.nodes[n].task, i), n, Inherit(g.nodes[n], items[i]))
  BY <1>1, GroupFields
<1>3. Len(items) \in Nat /\ DOMAIN items = 1..Len(items) /\ \A i \in DOMAIN items : items[i] \in Templates
  <2>1. Len(items) \in Nat /\ items \in [1..Len(items) -> Templates] /\ DOMAIN items = 1..Len(items)
    BY LenProperties
  <2> QED BY <2>1
<1>4. /\ g.nodes[n] \in NodeType /\ n \in Nat /\ g.nextNode \in Nat /\ n <= g.nextNode
      /\ g.nodes[n].task \in Seq(Nat)
  BY <1>1, NodeFacts
<1>5. ASSUME NEW i \in DOMAIN items
      PROVE  LET c == g.nextNode + i IN
               /\ h.nodes[c].task = Append(g.nodes[n].task, i) /\ h.nodes[c].parent = n
               /\ h.nodes[c].status = "New" /\ h.nodes[c].children = <<>>
               /\ h.nodes[c].candidate = None /\ h.nodes[c].accepted = None
               /\ Fits(h.nodes[c].readScope, g.nodes[n].readScope)
               /\ Fits(h.nodes[c].writeScope, g.nodes[n].writeScope)
               /\ c \in DOMAIN h.nodes /\ n < c /\ c \notin DOMAIN g.nodes
  <2>1. i \in Nat /\ items[i] \in Templates /\ ItemFits(g.nodes[n], items[i])
    BY <1>3
  <2>2. Append(g.nodes[n].task, i) \in Seq(Nat)
    BY <1>4, <2>1, AppendProperties
  <2>3. n < g.nextNode + i
    BY <1>3, <1>4
  <2>4. g.nextNode + i \in DOMAIN h.nodes /\ g.nextNode + i \notin DOMAIN g.nodes
    BY <1>2
  <2> DEFINE child == NewNode(Append(g.nodes[n].task, i), n, Inherit(g.nodes[n], items[i]))
  <2>5. h.nodes[g.nextNode + i] = child
    BY <1>2
  <2>6. /\ child.task = Append(g.nodes[n].task, i) /\ child.parent = n
        /\ child.status = "New" /\ child.children = <<>>
        /\ child.candidate = None /\ child.accepted = None
        /\ Fits(child.readScope, g.nodes[n].readScope)
        /\ Fits(child.writeScope, g.nodes[n].writeScope)
    <3> DEFINE node == g.nodes[n]
               task == Append(node.task, i)
               item == items[i]
    <3>1. node \in NodeType /\ item \in Templates /\ task \in Seq(Nat) /\ n \in Nat
          /\ ItemFits(node, item) /\ child = NewNode(task, n, Inherit(node, item))
      BY <1>4, <2>1, <2>2
    <3> HIDE DEF node, task, item
    <3>2. LET x == NewNode(task, n, Inherit(node, item)) IN
            /\ x.task = task /\ x.parent = n
            /\ x.status = "New" /\ x.children = <<>>
            /\ x.candidate = None /\ x.accepted = None
            /\ Fits(x.readScope, node.readScope) /\ Fits(x.writeScope, node.writeScope)
      BY <3>1, ChildNode
    <3> QED BY <3>1, <3>2 DEF node, task, item
  <2> QED BY <2>3, <2>4, <2>5, <2>6
<1>6. ChildrenOK(h, n)
  <2> SUFFICES ASSUME NEW i \in DOMAIN items
               PROVE  LET c == h.nodes[n].children[i] IN
                        /\ c \in DOMAIN h.nodes /\ n < c
                        /\ h.nodes[c].parent = n /\ h.nodes[c].task = Append(h.nodes[n].task, i)
                        /\ Fits(h.nodes[c].readScope, h.nodes[n].readScope)
                        /\ Fits(h.nodes[c].writeScope, h.nodes[n].writeScope)
    BY <1>2, Zenon DEF ChildrenOK
  <2>1. h.nodes[n].children[i] = g.nextNode + i
    BY <1>2
  <2>2. /\ h.nodes[n].task = g.nodes[n].task /\ h.nodes[n].readScope = g.nodes[n].readScope
        /\ h.nodes[n].writeScope = g.nodes[n].writeScope
    BY <1>2 DEF SameNode
  <2> QED BY <1>5, <2>1, <2>2
<1>7. Extends(g, h, n)
  <2>1. g.nextNode <= h.nextNode /\ g.nextArtifact <= h.nextArtifact
    BY <1>1, <1>2, <1>3, <1>4 DEF EngineShape
  <2> QED BY <1>2, <2>1 DEF Extends
<1>8. Grows(g, h, n)
  <2>1. g.nodes[n].children = <<>>
    BY <1>1 DEF WorkOK
  <2>2. \A i \in DOMAIN h.nodes[n].children : h.nodes[n].children[i] \notin DOMAIN g.nodes
    BY <1>2
  <2>3. ASSUME NEW m \in DOMAIN h.nodes \ DOMAIN g.nodes
        PROVE  /\ h.nodes[m].status = "New" /\ h.nodes[m].children = <<>>
               /\ h.nodes[m].candidate = None /\ h.nodes[m].accepted = None
               /\ h.nodes[m].parent = n
               /\ \E i \in DOMAIN h.nodes[n].children : h.nodes[n].children[i] = m
    <3>1. PICK i \in DOMAIN items : m = g.nextNode + i
      BY <1>2, <2>3
    <3> QED BY <1>2, <1>5, <3>1, ZenonT(40)
  <2> QED BY <1>6, <1>7, <2>1, <2>2, <2>3 DEF Grows
<1>9. WorkOK(h, n)
  BY <1>1, <1>2 DEF WorkOK, ServesKey, Text, SameNode
<1>10. AskedOK(h) /\ AboutOnly(h, n)
  BY <1>2 DEF AskedOK, AboutOnly
<1>11. EngineOK(h)
  BY <1>1, <1>2, <1>8, <1>9, <1>10, EngineKept
<1>12. CleanOK(h, ok)
  BY <1>1, <1>2, <1>8, <1>11, CleanKept
<1> QED BY <1>2, <1>8, <1>11, <1>12

LEMMA GrowsAfter ==
  ASSUME NEW f, NEW g, NEW h, NEW n \in DOMAIN f.nodes, EngineShape(f),
         Local(f, g, n), g.nodes = f.nodes, g.artifacts = f.artifacts,
         g.nextNode = f.nextNode, g.nextArtifact = f.nextArtifact, Grows(g, h, n)
  PROVE  Grows(f, h, n)
<1>1. Extends(f, g, n) /\ Extends(g, h, n)
  BY DEF Local, Grows
<1>2. Extends(f, h, n)
  BY <1>1 DEF Extends
<1> QED BY <1>2 DEF Grows

LEMMA NewEngineOK ==
  ASSUME NEW c \in Nat, NEW node \in NodeType, node.status = "New", node.children = <<>>,
         node.candidate = None, node.accepted = None, NEW ok
  PROVE  LET b == NewEngine(c, node) IN
           /\ EngineOK(b) /\ CleanOK(b, ok) /\ b.root = c /\ b.nodes[c] = node
<1> DEFINE b == NewEngine(c, node)
<1>1. /\ DOMAIN b = {"root", "nextNode", "nextArtifact", "nodes", "artifacts", "memo", "log", "asked"}
      /\ b.root = c /\ b.nextNode = c /\ b.nextArtifact = 0
      /\ DOMAIN b.nodes = {c} /\ b.nodes[c] = node
      /\ DOMAIN b.artifacts = {} /\ DOMAIN b.memo = {} /\ b.memo = [x \in {} |-> x]
      /\ b.log = {} /\ b.asked = None /\ b.nodes = [i \in {c} |-> node]
  BY DEF NewEngine, EmptyMap
<1> HIDE DEF b
<1>2. c..c = {c} /\ 1..0 = {} /\ 0 \in Nat /\ c <= c
  OBVIOUS
<1>3. b.nodes \in [c..c -> NodeType]
  BY <1>1, <1>2
<1>4. b.memo \in [{} -> {}]
  BY <1>1
<1>5. EngineShape(b)
  BY <1>1, <1>2, <1>3, <1>4 DEF EngineShape
<1>6. ChildrenOK(b, c) /\ ParentOK(b, c) /\ WorkOK(b, c)
  BY <1>1 DEF ChildrenOK, ParentOK, WorkOK
<1>7. MemoOK(b) /\ LogOK(b) /\ AskedOK(b) /\ ThreadOK(b) /\ CleanOK(b, ok)
  BY <1>1 DEF MemoOK, LogOK, AskedOK, ThreadOK, Busy, IsAsked, CleanOK
<1>8. EngineOK(b)
  BY <1>1, <1>5, <1>6, <1>7 DEF EngineOK
<1> QED BY <1>1, <1>7, <1>8 DEF b

LEMMA PlannedKeeps ==
  ASSUME PlanningInv, NEW e, Planned(e)
  PROVE  PlanningInv'
<1> DEFINE f == engines[e]
           n == f.asked.node
           g == Answered(e)
<1>1. e \in DOMAIN engines /\ f.asked # None /\ f.asked.op = "Plan"
  BY DEF Planned, Asked, Running
<1>2. approved' = approved /\ setbacks' = setbacks
  BY DEF Planned
<1>3. /\ n \in DOMAIN f.nodes /\ Turn(f, n) /\ Good(g, n, approved) /\ Local(f, g, n)
      /\ g.nodes = f.nodes /\ g.asked = None /\ EngineShape(g) /\ g.artifacts = f.artifacts
      /\ g.nextArtifact = f.nextArtifact /\ g.nextNode = f.nextNode /\ g.root = f.root
      /\ \A c \in Nat : Append(e, c) \in DOMAIN engines => f.nodes[c].parent # n
  BY <1>1, AskedFacts
<1>4. EngineOK(f) /\ EngineShape(f) /\ setbacks \in 0..MaxSetbacks /\ e \in Seq(Nat)
  BY <1>1, EngineFacts DEF PlanningInv, TypeOK
<1>5. g.nodes[n].status = "Specified"
  BY <1>1, <1>3, EngineFacts DEF AskedOK
<1>6. PICK out \in Outputs["Plan"] :
        /\ Usable(out)
        /\ LET mode == IF out.kind = "Planned" THEN out.mode ELSE "Stage"
               items == IF out.kind = "Planned" THEN out.items ELSE <<>>
               h == Group(g, n, mode, items)
           IN IF \A i \in DOMAIN items : ItemFits(g.nodes[n], items[i])
              THEN /\ engines' = Updated([engines EXCEPT ![e] = h],
                         IF mode = "Parallel" THEN Branches(e, h, n) ELSE EmptyMap)
                   /\ UNCHANGED outcome
              ELSE Failed
  BY DEF Planned
<1> DEFINE mode == out.mode
           items == out.items
           h == Group(g, n, mode, items)
<1>7. out.kind = "Planned" /\ mode \in {"Stage", "Parallel"} /\ items \in Seq(Templates)
  BY <1>6, PlanOutputs
<1>8. IF \A i \in DOMAIN items : ItemFits(g.nodes[n], items[i])
      THEN /\ engines' = Updated([engines EXCEPT ![e] = h],
                 IF mode = "Parallel" THEN Branches(e, h, n) ELSE EmptyMap)
           /\ outcome' = outcome
      ELSE Failed
  BY <1>6, <1>7
<1> HIDE DEF f, g, mode, items, n
<1>9. CASE ~\A i \in DOMAIN items : ItemFits(g.nodes[n], items[i])
  BY <1>2, <1>8, <1>9, Failing
<1>10. CASE \A i \in DOMAIN items : ItemFits(g.nodes[n], items[i])
  <2>1. /\ EngineOK(h) /\ CleanOK(h, approved) /\ Grows(g, h, n) /\ h.asked = None
        /\ h.nodes[n].status = "Planned" /\ h.nodes[n].plan = mode
    BY <1>3, <1>5, <1>7, <1>10, GroupGrows
  <2>2. outcome' = outcome
        /\ engines' = Updated([engines EXCEPT ![e] = h],
                 IF mode = "Parallel" THEN Branches(e, h, n) ELSE EmptyMap)
    BY <1>8, <1>10
  <2> HIDE DEF h
  <2>3. Grows(f, h, n)
    BY <1>3, <1>4, <2>1, GrowsAfter
  <2> DEFINE fresh == IF mode = "Parallel" THEN {Append(e, c) : c \in ToSet(h.nodes[n].children)} ELSE {}
             by == IF mode = "Parallel" THEN Branches(e, h, n) ELSE EmptyMap
  <2>4. DOMAIN by = fresh
    BY DEF Branches, EmptyMap
  <2>5. h.root = f.root /\ EngineShape(h) /\ n \in DOMAIN h.nodes
    BY <1>3, <1>4, <2>1, <2>3, Domains DEF EngineOK
  <2>6. ASSUME NEW b \in fresh
        PROVE  /\ b \notin DOMAIN engines /\ b \in Seq(Nat) /\ b # Root /\ Front(b) = e
               /\ by[b] = NewEngine(Last(b), h.nodes[Last(b)])
               /\ EngineOK(by[b]) /\ CleanOK(by[b], approved) /\ BranchOK(h, Last(b), by[b])
    <3>1. mode = "Parallel" /\ \E c \in ToSet(h.nodes[n].children) : b = Append(e, c)
      BY <2>6
    <3>2. PICK i \in DOMAIN h.nodes[n].children : b = Append(e, h.nodes[n].children[i])
      BY <3>1 DEF ToSet
    <3> DEFINE c == h.nodes[n].children[i]
    <3>3. c \in DOMAIN h.nodes \ DOMAIN f.nodes /\ c # h.root /\ h.nodes[c].parent = n
      <4>1. c \in DOMAIN h.nodes /\ c # h.root /\ h.nodes[c].parent = n
        BY <2>1, <2>5, ChildFacts
      <4>2. c \notin DOMAIN f.nodes
        BY <2>3 DEF Grows
      <4> QED BY <4>1, <4>2
    <3>4. /\ h.nodes[c].status = "New" /\ h.nodes[c].children = <<>>
          /\ h.nodes[c].candidate = None /\ h.nodes[c].accepted = None
      BY <2>3, <3>3 DEF Grows
    <3>5. c \in Nat /\ h.nodes[c] \in NodeType
      BY <2>5, <3>3, NodeFacts
    <3> HIDE DEF c
    <3>6. b = Append(e, c)
      BY <3>2 DEF c
    <3>7. b \in Seq(Nat) /\ b # Root /\ Front(b) = e /\ Last(b) = c
      BY <1>4, <3>5, <3>6, AppendFacts DEF Root
    <3>8. b \notin DOMAIN engines
      <4> SUFFICES ASSUME b \in DOMAIN engines PROVE FALSE
        OBVIOUS
      <4>1. BranchOK(f, c, engines[b])
        BY <3>7 DEF PlanningInv, f
      <4> QED BY <3>3, <4>1 DEF BranchOK
    <3>9. by[b] = NewEngine(c, h.nodes[c])
      BY <3>1, <3>7 DEF Branches
    <3>10. /\ EngineOK(by[b]) /\ CleanOK(by[b], approved)
           /\ by[b].root = c /\ by[b].nodes[c] = h.nodes[c]
      BY <3>4, <3>5, <3>9, NewEngineOK
    <3>11. BranchOK(h, c, by[b])
      BY <2>1, <3>1, <3>3, <3>4, <3>10 DEF BranchOK, SameNode, IsAsked
    <3> QED BY <3>7, <3>8, <3>9, <3>10, <3>11
  <2>7. engines' = Updated([engines EXCEPT ![e] = h], by)
    BY <2>2
  <2> HIDE DEF by, fresh
  <2>8. /\ DOMAIN engines' = DOMAIN engines \union fresh
        /\ \A b \in fresh : engines'[b] = by[b]
        /\ \A b \in DOMAIN engines \ fresh : engines'[b] = [engines EXCEPT ![e] = h][b]
    BY <2>4, <2>7 DEF Updated
  <2>9. /\ DOMAIN engines \subseteq DOMAIN engines' /\ engines'[e] = h
        /\ \A b \in DOMAIN engines \ {e} : engines'[b] = engines[b]
        /\ \A b \in DOMAIN engines' \ DOMAIN engines : b \in fresh /\ engines'[b] = by[b]
    BY <1>1, <2>6, <2>8
  <2>10. \A b \in DOMAIN engines' \ DOMAIN engines :
           /\ b \in Seq(Nat) /\ b # Root /\ Front(b) = e
           /\ EngineOK(engines'[b]) /\ CleanOK(engines'[b], approved')
           /\ BranchOK(h, Last(b), engines'[b])
    BY <1>2, <2>6, <2>9
  <2>11. AboutOnly(h, n) /\ CleanOK(h, approved') /\ approved \subseteq approved'
    BY <1>2, <2>1 DEF AboutOnly
  <2>12. outcome' \in {"running", "error"} \union Final /\ setbacks' \in 0..MaxSetbacks
    BY <1>2, <1>4, <2>2 DEF PlanningInv, TypeOK
  <2> QED BY <1>1, <1>3, <2>1, <2>3, <2>9, <2>10, <2>11, <2>12, Lifted DEF f
<1> QED BY <1>9, <1>10

-----------------------------------------------------------------------------
(* Joining a branch.                                                       *)

\* Where a branch is over, nothing in it is at work.
LEMMA Quiet ==
  ASSUME NEW b, EngineOK(b), Over(b), NEW n \in DOMAIN b.nodes
  PROVE  ~Busy(b, n)
<1> DEFINE At == {m \in DOMAIN b.nodes : Busy(b, m)}
<1>1. EngineShape(b) /\ ThreadOK(b)
  BY DEF EngineOK
<1>2. ASSUME At # {} PROVE FALSE
  <2>1. At \in SUBSET Nat
    BY <1>1, NodeFacts
  <2> HIDE DEF At
  <2>2. PICK m \in At : \A k \in At : m <= k
    BY <1>2, <2>1, LeastElement
  <2>3. m \in DOMAIN b.nodes /\ Busy(b, m)
    BY <2>2 DEF At
  <2>4. m # b.root
    BY <2>3 DEF Over, Busy, IsAsked, Final
  <2> DEFINE p == b.nodes[m].parent
  <2>5. p \in DOMAIN b.nodes /\ p < m
    BY <2>3, <2>4, ParentFacts
  <2>6. b.nodes[p].status = "Planned"
    BY <1>1, <2>3, <2>4 DEF ThreadOK, HasTurn
  <2>7. p \in At
    BY <2>5, <2>6 DEF At, Busy
  <2>8. m \in Nat /\ p \in Nat
    BY <1>1, <2>3, <2>5, NodeFacts
  <2> QED BY <2>2, <2>5, <2>7, <2>8
<1> QED BY <1>2

OneToOne(values, map) == \A x, y \in DOMAIN values : map[x] = map[y] => x = y

LEMMA MovedFacts ==
  ASSUME NEW values, NEW map, OneToOne(values, map)
  PROVE  /\ DOMAIN Moved(values, map) = {map[old] : old \in DOMAIN values}
         /\ \A old \in DOMAIN values : Moved(values, map)[map[old]] = values[old]
<1>1. DOMAIN Moved(values, map) = {map[old] : old \in DOMAIN values}
  BY DEF Moved
<1>2. ASSUME NEW old \in DOMAIN values PROVE Moved(values, map)[map[old]] = values[old]
  <2> DEFINE x == CHOOSE y \in DOMAIN values : map[y] = map[old]
  <2>1. x \in DOMAIN values /\ map[x] = map[old]
    <3>1. \E y \in DOMAIN values : map[y] = map[old]
      OBVIOUS
    <3> QED BY <3>1, Zenon
  <2>2. x = old
    BY <2>1 DEF OneToOne
  <2>3. Moved(values, map)[map[old]] = values[x]
    BY DEF Moved
  <2> QED BY <2>2, <2>3
<1> QED BY <1>1, <1>2

LEMMA IntervalSize ==
  ASSUME NEW a \in Nat, NEW k \in Nat, a <= k + 1
  PROVE  Cardinality(a..k) = (k + 1) - a
<1>1. a \in Int /\ k \in Int
  OBVIOUS
<1>2. Cardinality(a..k) = IF a > k THEN 0 ELSE k - a + 1
  BY <1>1, FS_Interval
<1>3. a > k => (k + 1) - a = 0
  OBVIOUS
<1>4. k - a + 1 = (k + 1) - a
  OBVIOUS
<1> QED BY <1>2, <1>3, <1>4

\* The new ids: c stays, everything else follows what the engine has.
LEMMA MapFacts ==
  ASSUME NEW g, NEW b, EngineShape(g), EngineShape(b), b.root \in DOMAIN g.nodes
  PROVE  /\ DOMAIN NodeMap(g, b) = DOMAIN b.nodes /\ NodeMap(g, b)[b.root] = b.root
         /\ \A id \in DOMAIN b.nodes \ {b.root} : NodeMap(g, b)[id] = g.nextNode + (id - b.root)
         /\ DOMAIN ArtifactMap(g, b) = DOMAIN b.artifacts
         /\ \A a \in DOMAIN b.artifacts : ArtifactMap(g, b)[a] = g.nextArtifact + a
         /\ Cardinality(DOMAIN b.nodes \ {b.root}) = b.nextNode - b.root
         /\ Cardinality(DOMAIN b.artifacts) = b.nextArtifact
<1> DEFINE c == b.root
<1>1. /\ c \in Nat /\ b.nextNode \in Nat /\ c <= b.nextNode /\ DOMAIN b.nodes = c..b.nextNode
      /\ b.nextArtifact \in Nat /\ DOMAIN b.artifacts = 1..b.nextArtifact
  BY DEF EngineShape
<1>2. DOMAIN b.nodes \ {c} = (c + 1)..b.nextNode
  BY <1>1
<1>3. Cardinality(DOMAIN b.nodes \ {c}) = b.nextNode - c
  <2>1. c + 1 \in Nat /\ b.nextNode \in Nat /\ c + 1 <= b.nextNode + 1
    BY <1>1
  <2>2. Cardinality((c + 1)..b.nextNode) = (b.nextNode + 1) - (c + 1)
    BY <2>1, IntervalSize
  <2>3. (b.nextNode + 1) - (c + 1) = b.nextNode - c
    BY <1>1
  <2> QED BY <1>2, <2>2, <2>3
<1>4. Cardinality(DOMAIN b.artifacts) = b.nextArtifact
  <2>1. 1 \in Nat /\ 1 <= b.nextArtifact + 1 /\ (b.nextArtifact + 1) - 1 = b.nextArtifact
    BY <1>1
  <2>2. Cardinality(1..b.nextArtifact) = (b.nextArtifact + 1) - 1
    BY <1>1, <2>1, IntervalSize
  <2> QED BY <1>1, <2>1, <2>2
<1>5. ASSUME NEW id \in DOMAIN b.nodes \ {c}
      PROVE  Cardinality({m \in DOMAIN b.nodes \ {c} : m <= id}) = id - c
  <2>1. {m \in DOMAIN b.nodes \ {c} : m <= id} = (c + 1)..id
    BY <1>1, <1>2
  <2>2. id \in Nat /\ c + 1 \in Nat /\ c + 1 <= id + 1 /\ (id + 1) - (c + 1) = id - c
    BY <1>1
  <2>3. Cardinality((c + 1)..id) = (id + 1) - (c + 1)
    BY <2>2, IntervalSize
  <2> QED BY <2>1, <2>2, <2>3
<1>6. ASSUME NEW a \in DOMAIN b.artifacts
      PROVE  Cardinality({x \in DOMAIN b.artifacts : x <= a}) = a
  <2>1. {x \in DOMAIN b.artifacts : x <= a} = 1..a
    BY <1>1
  <2>2. a \in Nat /\ 1 \in Nat /\ 1 <= a + 1 /\ (a + 1) - 1 = a
    BY <1>1
  <2>3. Cardinality(1..a) = (a + 1) - 1
    BY <2>2, IntervalSize
  <2> QED BY <2>1, <2>2, <2>3
<1>7. c \in DOMAIN b.nodes
  BY <1>1
<1> QED BY <1>3, <1>4, <1>5, <1>6, <1>7 DEF NodeMap, ArtifactMap

LEMMA UpdatedFacts ==
  ASSUME NEW map, NEW by
  PROVE  /\ DOMAIN Updated(map, by) = DOMAIN map \union DOMAIN by
         /\ \A x \in DOMAIN by : Updated(map, by)[x] = by[x]
         /\ \A x \in DOMAIN map \ DOMAIN by : Updated(map, by)[x] = map[x]
BY DEF Updated

LEMMA RemapFacts ==
  ASSUME NEW x \in NodeType, NEW nodeMap, NEW artifactMap
  PROVE  LET new == RemapNode(x, nodeMap, artifactMap) IN
           /\ DOMAIN new = DOMAIN x
           /\ new.task = x.task /\ new.key = x.key /\ new.size = x.size /\ new.plan = x.plan
           /\ new.policy = x.policy /\ new.taskType = x.taskType
           /\ new.readScope = x.readScope /\ new.writeScope = x.writeScope
           /\ new.status = x.status /\ new.attempts = x.attempts
           /\ new.parent = IF x.parent \in DOMAIN nodeMap THEN nodeMap[x.parent] ELSE x.parent
           /\ DOMAIN new.children = DOMAIN x.children
           /\ \A i \in DOMAIN x.children : new.children[i] = nodeMap[x.children[i]]
           /\ new.candidate = Through(artifactMap, x.candidate)
           /\ new.accepted = Through(artifactMap, x.accepted)
BY DEF NodeType, RemapNode, AllThrough

LEMMA RemapType ==
  ASSUME NEW x \in NodeType, NEW nodeMap, NEW artifactMap,
         \A id \in DOMAIN nodeMap : nodeMap[id] \in Nat,
         \A i \in DOMAIN x.children : x.children[i] \in DOMAIN nodeMap,
         x.candidate # None => artifactMap[x.candidate] \in Nat,
         x.accepted # None => artifactMap[x.accepted] \in Nat
  PROVE  RemapNode(x, nodeMap, artifactMap) \in NodeType
<1> DEFINE new == RemapNode(x, nodeMap, artifactMap)
           children == AllThrough(nodeMap, x.children)
           parent == IF x.parent \in DOMAIN nodeMap THEN nodeMap[x.parent] ELSE x.parent
           candidate == Through(artifactMap, x.candidate)
           accepted == Through(artifactMap, x.accepted)
<1>1. new = [x EXCEPT !.parent = parent, !.children = children,
                      !.candidate = candidate, !.accepted = accepted]
  BY DEF RemapNode, NodeType
<1>2. Len(x.children) \in Nat /\ DOMAIN x.children = 1..Len(x.children)
  <2>1. x.children \in Seq(Nat)
    BY DEF NodeType
  <2> QED BY <2>1, LenProperties
<1>3. children \in Seq(Nat)
  <2>1. children \in [1..Len(x.children) -> Nat]
    BY <1>2 DEF AllThrough
  <2> QED BY <1>2, <2>1, FunctionInSeq
<1>4. parent \in Nat \union {None} /\ candidate \in Nat \union {None}
      /\ accepted \in Nat \union {None}
  BY DEF Through, NodeType
<1> HIDE DEF new, children, parent, candidate, accepted
<1>5. new \in NodeType
  BY <1>1, <1>3, <1>4 DEF NodeType
<1> QED BY <1>5 DEF new

Renumbers(g, b, N, A) ==
  /\ N = NodeMap(g, b) /\ A = ArtifactMap(g, b)
  /\ DOMAIN N = DOMAIN b.nodes /\ N[b.root] = b.root
  /\ \A id \in DOMAIN b.nodes :
       /\ N[id] \in Nat /\ N[id] \in g.root..(g.nextNode + (b.nextNode - b.root))
       /\ id # b.root => N[id] \notin DOMAIN g.nodes
  /\ \A i, j \in DOMAIN b.nodes : (N[i] = N[j] => i = j) /\ (i < j => N[i] < N[j])
  /\ g.root..(g.nextNode + (b.nextNode - b.root)) =
       DOMAIN g.nodes \union {N[id] : id \in DOMAIN b.nodes}
  /\ DOMAIN A = DOMAIN b.artifacts
  /\ \A a \in DOMAIN b.artifacts :
       /\ A[a] \in 1..(g.nextArtifact + b.nextArtifact)
       /\ A[a] \in Nat /\ A[a] \notin DOMAIN g.artifacts
  /\ \A i, j \in DOMAIN b.artifacts : A[i] = A[j] => i = j
  /\ 1..(g.nextArtifact + b.nextArtifact) =
       DOMAIN g.artifacts \union {A[a] : a \in DOMAIN b.artifacts}

LEMMA MapsRenumber ==
  ASSUME NEW g, NEW b, EngineShape(g), EngineShape(b), b.root \in DOMAIN g.nodes
  PROVE  Renumbers(g, b, NodeMap(g, b), ArtifactMap(g, b))
<1> DEFINE N == NodeMap(g, b)
           A == ArtifactMap(g, b)
           c == b.root
           k == g.nextNode
           K == b.nextNode
           a0 == g.nextArtifact
           B == b.nextArtifact
<1>1. /\ DOMAIN N = DOMAIN b.nodes /\ N[c] = c
      /\ \A id \in DOMAIN b.nodes \ {c} : N[id] = k + (id - c)
      /\ DOMAIN A = DOMAIN b.artifacts
      /\ \A a \in DOMAIN b.artifacts : A[a] = a0 + a
  BY MapFacts
<1>2. /\ c \in Nat /\ K \in Nat /\ c <= K /\ DOMAIN b.nodes = c..K
      /\ B \in Nat /\ DOMAIN b.artifacts = 1..B
      /\ g.root \in Nat /\ k \in Nat /\ g.root <= k /\ DOMAIN g.nodes = g.root..k
      /\ a0 \in Nat /\ DOMAIN g.artifacts = 1..a0
  BY DEF EngineShape
<1>3. g.root <= c /\ c <= k
  BY <1>2
<1> HIDE DEF N, A, c, k, K, a0, B
<1>4. ASSUME NEW id \in DOMAIN b.nodes
      PROVE  /\ N[id] \in Nat /\ N[id] \in g.root..(k + (K - c))
             /\ id # c => N[id] \notin DOMAIN g.nodes
  <2>1. CASE id = c
    BY <1>1, <1>2, <1>3, <2>1
  <2>2. CASE id # c
    <3>1. N[id] = k + (id - c) /\ id \in Nat /\ c < id /\ id <= K
      BY <1>1, <1>2, <2>2
    <3>2. id - c \in Nat /\ 0 < id - c /\ id - c <= K - c
      BY <1>2, <3>1
    <3> QED BY <1>2, <3>1, <3>2
  <2> QED BY <2>1, <2>2
<1>5. ASSUME NEW i \in DOMAIN b.nodes, NEW j \in DOMAIN b.nodes, i < j PROVE N[i] < N[j]
  <2>1. i \in Nat /\ j \in Nat /\ c <= i /\ c < j /\ N[j] = k + (j - c)
    BY <1>1, <1>2, <1>5
  <2>2. CASE i = c
    BY <1>1, <1>2, <1>3, <2>1, <2>2
  <2>3. CASE i # c
    BY <1>1, <1>2, <1>5, <2>1, <2>3
  <2> QED BY <2>2, <2>3
<1>6. ASSUME NEW i \in DOMAIN b.nodes, NEW j \in DOMAIN b.nodes, N[i] = N[j] PROVE i = j
  <2>1. i \in Nat /\ j \in Nat /\ N[i] \in Nat /\ N[j] \in Nat
    BY <1>2, <1>4
  <2>2. ~(i < j) /\ ~(j < i)
    BY <1>5, <1>6, <2>1
  <2> QED BY <2>1, <2>2
<1>7. g.root..(k + (K - c)) = DOMAIN g.nodes \union {N[id] : id \in DOMAIN b.nodes}
  <2>1. ASSUME NEW x \in g.root..(k + (K - c)), x \notin DOMAIN g.nodes
        PROVE  \E id \in DOMAIN b.nodes : x = N[id]
    <3>1. x \in Nat /\ k < x /\ x <= k + (K - c)
      BY <1>2, <2>1
    <3>2. (x - k) + c \in DOMAIN b.nodes \ {c}
      BY <1>2, <3>1
    <3>3. k + (((x - k) + c) - c) = x
      BY <1>2, <3>1
    <3> QED BY <1>1, <3>2, <3>3
  <2>2. DOMAIN g.nodes \subseteq g.root..(k + (K - c))
    BY <1>2
  <2> QED BY <1>4, <2>1, <2>2
<1>8. ASSUME NEW a \in DOMAIN b.artifacts
      PROVE  A[a] \in 1..(a0 + B) /\ A[a] \in Nat /\ A[a] \notin DOMAIN g.artifacts
  <2>1. a \in Nat /\ 1 <= a /\ a <= B /\ A[a] = a0 + a
    BY <1>1, <1>2
  <2> QED BY <1>2, <2>1
<1>9. \A i, j \in DOMAIN b.artifacts : A[i] = A[j] => i = j
  BY <1>1, <1>2
<1>10. 1..(a0 + B) = DOMAIN g.artifacts \union {A[a] : a \in DOMAIN b.artifacts}
  <2>1. ASSUME NEW x \in 1..(a0 + B), x \notin DOMAIN g.artifacts
        PROVE  \E a \in DOMAIN b.artifacts : x = A[a]
    <3>1. x \in Nat /\ a0 < x /\ x <= a0 + B
      BY <1>2, <2>1
    <3>2. x - a0 \in DOMAIN b.artifacts /\ a0 + (x - a0) = x
      BY <1>2, <3>1
    <3> QED BY <1>1, <3>2
  <2>2. DOMAIN g.artifacts \subseteq 1..(a0 + B)
    BY <1>2
  <2> QED BY <1>8, <2>1, <2>2
<1>11. /\ N = NodeMap(g, b) /\ A = ArtifactMap(g, b) /\ c = b.root /\ k = g.nextNode
       /\ K = b.nextNode /\ a0 = g.nextArtifact /\ B = b.nextArtifact
  BY DEF N, A, c, k, K, a0, B
<1>12. Renumbers(g, b, N, A)
  BY <1>1, <1>4, <1>5, <1>6, <1>7, <1>8, <1>9, <1>10, <1>11 DEF Renumbers
<1> QED BY <1>11, <1>12


\* What merge_parallel_branch leaves: M is g, with everything of b renumbered.
Merged(g, b, N, A, M) ==
  /\ DOMAIN M = DOMAIN g /\ M.root = g.root /\ M.asked = g.asked
  /\ M.nextNode = g.nextNode + (b.nextNode - b.root)
  /\ M.nextArtifact = g.nextArtifact + b.nextArtifact
  /\ M.nodes = [m \in DOMAIN M.nodes |-> M.nodes[m]]
  /\ M.memo = [k \in DOMAIN M.memo |-> M.memo[k]]
  /\ DOMAIN M.nodes = DOMAIN g.nodes \union {N[id] : id \in DOMAIN b.nodes}
  /\ \A id \in DOMAIN b.nodes : M.nodes[N[id]] = RemapNode(b.nodes[id], N, A)
  /\ \A m \in DOMAIN g.nodes \ {b.root} : M.nodes[m] = g.nodes[m]
  /\ DOMAIN M.artifacts = DOMAIN g.artifacts \union {A[a] : a \in DOMAIN b.artifacts}
  /\ \A a \in DOMAIN b.artifacts : M.artifacts[A[a]] = RemapArtifact(b.artifacts[a], N, A)
  /\ \A a \in DOMAIN g.artifacts : M.artifacts[a] = g.artifacts[a]
  /\ DOMAIN M.memo = DOMAIN g.memo \union DOMAIN b.memo
  /\ \A k \in DOMAIN b.memo : M.memo[k] = A[b.memo[k]]
  /\ \A k \in DOMAIN g.memo \ DOMAIN b.memo : M.memo[k] = g.memo[k]
  /\ M.log = g.log \union {[entry EXCEPT !.node = N[@]] : entry \in b.log}

LEMMA MergeFields ==
  ASSUME NEW g, NEW b, EngineShape(g), EngineShape(b), b.root \in DOMAIN g.nodes
  PROVE  Merged(g, b, NodeMap(g, b), ArtifactMap(g, b), Merge(g, b))
<1> DEFINE N == NodeMap(g, b)
           A == ArtifactMap(g, b)
           M == Merge(g, b)
           nodes == [id \in DOMAIN b.nodes |-> RemapNode(b.nodes[id], N, A)]
           artifacts == [a \in DOMAIN b.artifacts |-> RemapArtifact(b.artifacts[a], N, A)]
           memo == [k \in DOMAIN b.memo |-> A[b.memo[k]]]
           newNodes == Updated(g.nodes, Moved(nodes, N))
           newArtifacts == Updated(g.artifacts, Moved(artifacts, A))
           newMemo == Updated(g.memo, memo)
           newLog == g.log \union {[entry EXCEPT !.node = N[@]] : entry \in b.log}
           nodeCount == Cardinality(DOMAIN b.nodes \ {b.root})
           artifactCount == Cardinality(DOMAIN b.artifacts)
<1>1. Renumbers(g, b, N, A)
  BY MapsRenumber
<1>2. nodeCount = b.nextNode - b.root /\ artifactCount = b.nextArtifact
  BY MapFacts
<1>3. DOMAIN g = {"root", "nextNode", "nextArtifact", "nodes", "artifacts", "memo", "log", "asked"}
  BY DEF EngineShape
<1>4. M = [g EXCEPT !.nextNode = g.nextNode + nodeCount,
                    !.nextArtifact = g.nextArtifact + artifactCount,
                    !.nodes = newNodes, !.artifacts = newArtifacts, !.memo = newMemo,
                    !.log = newLog]
  BY <1>3 DEF Merge
<1> HIDE DEF newNodes, newArtifacts, newMemo, newLog, nodeCount, artifactCount, M
<1>5. /\ DOMAIN M = DOMAIN g /\ M.root = g.root /\ M.asked = g.asked
      /\ M.nextNode = g.nextNode + nodeCount
      /\ M.nextArtifact = g.nextArtifact + artifactCount
      /\ M.nodes = newNodes /\ M.artifacts = newArtifacts /\ M.memo = newMemo /\ M.log = newLog
  BY <1>3, <1>4
<1>6. /\ DOMAIN Moved(nodes, N) = {N[id] : id \in DOMAIN b.nodes}
      /\ \A id \in DOMAIN b.nodes : Moved(nodes, N)[N[id]] = RemapNode(b.nodes[id], N, A)
  <2>1. OneToOne(nodes, N)
    BY <1>1 DEF Renumbers, OneToOne
  <2>2. /\ DOMAIN nodes = DOMAIN b.nodes
        /\ \A id \in DOMAIN b.nodes : nodes[id] = RemapNode(b.nodes[id], N, A)
    OBVIOUS
  <2> HIDE DEF nodes, N, A
  <2>3. /\ DOMAIN Moved(nodes, N) = {N[old] : old \in DOMAIN nodes}
        /\ \A old \in DOMAIN nodes : Moved(nodes, N)[N[old]] = nodes[old]
    BY <2>1, MovedFacts
  <2> QED BY <2>2, <2>3
<1>7. /\ DOMAIN Moved(artifacts, A) = {A[a] : a \in DOMAIN b.artifacts}
      /\ \A a \in DOMAIN b.artifacts :
           Moved(artifacts, A)[A[a]] = RemapArtifact(b.artifacts[a], N, A)
  <2>1. OneToOne(artifacts, A)
    BY <1>1 DEF Renumbers, OneToOne
  <2>2. /\ DOMAIN artifacts = DOMAIN b.artifacts
        /\ \A a \in DOMAIN b.artifacts : artifacts[a] = RemapArtifact(b.artifacts[a], N, A)
    OBVIOUS
  <2> HIDE DEF nodes, artifacts, memo, N, A
  <2>3. /\ DOMAIN Moved(artifacts, A) = {A[old] : old \in DOMAIN artifacts}
        /\ \A old \in DOMAIN artifacts : Moved(artifacts, A)[A[old]] = artifacts[old]
    BY <2>1, MovedFacts
  <2> QED BY <2>2, <2>3
<1>8. DOMAIN memo = DOMAIN b.memo /\ \A k \in DOMAIN b.memo : memo[k] = A[b.memo[k]]
  OBVIOUS
<1> HIDE DEF nodes, artifacts, memo, N, A
<1>9. /\ DOMAIN newNodes = DOMAIN g.nodes \union {N[id] : id \in DOMAIN b.nodes}
      /\ \A id \in DOMAIN b.nodes : newNodes[N[id]] = RemapNode(b.nodes[id], N, A)
      /\ \A m \in DOMAIN g.nodes \ {b.root} : newNodes[m] = g.nodes[m]
  <2>1. /\ DOMAIN newNodes = DOMAIN g.nodes \union DOMAIN Moved(nodes, N)
        /\ \A x \in DOMAIN Moved(nodes, N) : newNodes[x] = Moved(nodes, N)[x]
        /\ \A x \in DOMAIN g.nodes \ DOMAIN Moved(nodes, N) : newNodes[x] = g.nodes[x]
    BY UpdatedFacts DEF newNodes
  <2>2. ASSUME NEW m \in DOMAIN g.nodes \ {b.root} PROVE m \notin DOMAIN Moved(nodes, N)
    <3>1. \A id \in DOMAIN b.nodes : id = b.root \/ N[id] \notin DOMAIN g.nodes
      BY <1>1 DEF Renumbers
    <3>2. N[b.root] = b.root
      BY <1>1 DEF Renumbers
    <3> QED BY <1>6, <2>2, <3>1, <3>2
  <2> QED BY <1>6, <2>1, <2>2
<1>10. /\ DOMAIN newArtifacts = DOMAIN g.artifacts \union {A[a] : a \in DOMAIN b.artifacts}
       /\ \A a \in DOMAIN b.artifacts : newArtifacts[A[a]] = RemapArtifact(b.artifacts[a], N, A)
       /\ \A a \in DOMAIN g.artifacts : newArtifacts[a] = g.artifacts[a]
  <2>1. /\ DOMAIN newArtifacts = DOMAIN g.artifacts \union DOMAIN Moved(artifacts, A)
        /\ \A x \in DOMAIN Moved(artifacts, A) : newArtifacts[x] = Moved(artifacts, A)[x]
        /\ \A x \in DOMAIN g.artifacts \ DOMAIN Moved(artifacts, A) :
             newArtifacts[x] = g.artifacts[x]
    BY UpdatedFacts DEF newArtifacts
  <2>2. ASSUME NEW a \in DOMAIN g.artifacts PROVE a \notin DOMAIN Moved(artifacts, A)
    <3>1. \A x \in DOMAIN b.artifacts : A[x] \notin DOMAIN g.artifacts
      BY <1>1 DEF Renumbers
    <3> QED BY <1>7, <2>2, <3>1
  <2> QED BY <1>7, <2>1, <2>2
<1>11. /\ DOMAIN newMemo = DOMAIN g.memo \union DOMAIN b.memo
       /\ \A k \in DOMAIN b.memo : newMemo[k] = A[b.memo[k]]
       /\ \A k \in DOMAIN g.memo \ DOMAIN b.memo : newMemo[k] = g.memo[k]
  <2>1. /\ DOMAIN newMemo = DOMAIN g.memo \union DOMAIN memo
        /\ \A x \in DOMAIN memo : newMemo[x] = memo[x]
        /\ \A x \in DOMAIN g.memo \ DOMAIN memo : newMemo[x] = g.memo[x]
    BY UpdatedFacts DEF newMemo
  <2> QED BY <1>8, <2>1
<1>12. Merged(g, b, N, A, M)
  <2>1. M.nextNode = g.nextNode + (b.nextNode - b.root)
        /\ M.nextArtifact = g.nextArtifact + b.nextArtifact
    BY <1>2, <1>5
  <2>2. M.log = newLog
    BY <1>5
  <2>3. /\ DOMAIN M = DOMAIN g /\ M.root = g.root /\ M.asked = g.asked
        /\ M.nodes = newNodes /\ M.artifacts = newArtifacts /\ M.memo = newMemo
    BY <1>5
  <2>4. /\ newNodes = [m \in DOMAIN newNodes |-> newNodes[m]]
        /\ newMemo = [k \in DOMAIN newMemo |-> newMemo[k]]
    BY DEF newNodes, newMemo, Updated
  <2> QED BY <1>9, <1>10, <1>11, <2>1, <2>2, <2>3, <2>4 DEF Merged, newLog
<1> QED BY <1>12 DEF M, N, A

\* The branch b, over, is merged into g with the new ids N and A: M.
Joins(g, b, N, A, M) ==
  /\ EngineOK(g) /\ EngineOK(b) /\ Over(b) /\ BranchOK(g, b.root, b)
  /\ Renumbers(g, b, N, A) /\ Merged(g, b, N, A, M)

LEMMA JoinFacts ==
  ASSUME NEW g, NEW b, NEW N, NEW A, NEW M, Joins(g, b, N, A, M)
  PROVE  LET c == b.root
             p == g.nodes[c].parent
         IN /\ EngineShape(g) /\ EngineShape(b)
            /\ c \in DOMAIN g.nodes /\ c \in DOMAIN b.nodes /\ c # g.root /\ N[c] = c
            /\ g.nodes[c].status = "New" /\ g.nodes[c].children = <<>>
            /\ g.nodes[c].parent = b.nodes[c].parent
            /\ p \in DOMAIN g.nodes /\ p # c /\ p \notin DOMAIN b.nodes
            /\ \E i \in DOMAIN g.nodes[p].children : g.nodes[p].children[i] = c
            /\ g.nodes[p].plan = "Parallel" /\ ~IsAsked(g, c)
<1> DEFINE c == b.root
           p == g.nodes[c].parent
<1>1. /\ EngineOK(g) /\ EngineOK(b) /\ BranchOK(g, c, b) /\ Renumbers(g, b, N, A)
      /\ EngineShape(g) /\ EngineShape(b)
  BY DEF Joins, EngineOK
<1>2. /\ c \in DOMAIN g.nodes /\ c # g.root /\ g.nodes[c].status = "New"
      /\ g.nodes[c].parent = b.nodes[c].parent /\ g.nodes[p].plan = "Parallel"
  BY <1>1 DEF BranchOK, SameNode
<1>3. p \in DOMAIN g.nodes /\ p < c /\ p # c
      /\ \E i \in DOMAIN g.nodes[p].children : g.nodes[p].children[i] = c
  <2>1. EngineOK(g) /\ c \in DOMAIN g.nodes /\ c # g.root
    BY <1>1, <1>2
  <2> HIDE DEF c
  <2> QED BY <2>1, ParentFacts
<1>4. c \in DOMAIN b.nodes /\ p \notin DOMAIN b.nodes
  <2>1. /\ c \in Nat /\ b.nextNode \in Nat /\ c <= b.nextNode /\ DOMAIN b.nodes = c..b.nextNode
    BY <1>1 DEF EngineShape
  <2>2. p \in Nat
    BY <1>1, <1>3, NodeFacts
  <2> QED BY <1>3, <2>1, <2>2
<1>5. g.nodes[c].children = <<>>
  BY <1>1, <1>2 DEF EngineOK, WorkOK
<1>6. ~IsAsked(g, c)
  <2> SUFFICES ASSUME IsAsked(g, c) PROVE FALSE
    OBVIOUS
  <2>1. HasTurn(g, c)
    BY <1>1, <1>2 DEF EngineOK, ThreadOK, Busy
  <2> QED BY <1>2, <2>1 DEF HasTurn
<1>7. N[c] = c
  BY <1>1 DEF Renumbers
<1> HIDE DEF c, p
<1>9. /\ EngineShape(g) /\ EngineShape(b) /\ c \in DOMAIN g.nodes /\ c \in DOMAIN b.nodes
      /\ c # g.root /\ N[c] = c /\ g.nodes[c].status = "New" /\ g.nodes[c].children = <<>>
      /\ g.nodes[c].parent = b.nodes[c].parent /\ ~IsAsked(g, c)
  BY <1>1, <1>2, <1>4, <1>5, <1>6, <1>7
<1>10. /\ p \in DOMAIN g.nodes /\ p # c /\ p \notin DOMAIN b.nodes
       /\ \E i \in DOMAIN g.nodes[p].children : g.nodes[p].children[i] = c
       /\ g.nodes[p].plan = "Parallel"
  BY <1>2, <1>3, <1>4
<1> QED BY <1>9, <1>10, Zenon DEF c, p

\* The artifacts of both engines, under the ids they have after the join.
LEMMA JoinedArtifacts ==
  ASSUME NEW g, NEW b, NEW N, NEW A, NEW M, Joins(g, b, N, A, M)
  PROVE  /\ \A a \in DOMAIN b.artifacts :
              LET x == b.artifacts[a]
                  y == M.artifacts[A[a]]
              IN /\ DOMAIN y = {"node", "children", "text"}
                 /\ y.text = x.text /\ y.node = N[x.node]
                 /\ DOMAIN y.children = DOMAIN x.children
                 /\ \A i \in DOMAIN x.children : y.children[i] = A[x.children[i]]
                 /\ y.children = AllThrough(A, x.children)
         /\ M.nextArtifact \in Nat /\ M.nextArtifact = g.nextArtifact + b.nextArtifact
         /\ DOMAIN M.artifacts = 1..M.nextArtifact
         /\ \A a \in DOMAIN g.artifacts : a \in DOMAIN M.artifacts /\ M.artifacts[a] = g.artifacts[a]
         /\ \A a \in DOMAIN b.artifacts : A[a] \in DOMAIN M.artifacts /\ A[a] \in Nat
<1>1. /\ EngineOK(b) /\ EngineShape(g) /\ EngineShape(b)
      /\ Renumbers(g, b, N, A) /\ Merged(g, b, N, A, M)
  BY DEF Joins, EngineOK
<1>2. ASSUME NEW a \in DOMAIN b.artifacts
      PROVE  LET x == b.artifacts[a]
                 y == M.artifacts[A[a]]
             IN /\ DOMAIN y = {"node", "children", "text"}
                /\ y.text = x.text /\ y.node = N[x.node]
                /\ DOMAIN y.children = DOMAIN x.children
                /\ \A i \in DOMAIN x.children : y.children[i] = A[x.children[i]]
                /\ y.children = AllThrough(A, x.children)
  <2> DEFINE x == b.artifacts[a]
             y == M.artifacts[A[a]]
  <2>1. DOMAIN x = {"node", "children", "text"}
    BY <1>1 DEF EngineOK, MadeOK
  <2>2. y = RemapArtifact(x, N, A)
    BY <1>1 DEF Merged
  <2> HIDE DEF x, y
  <2>3. /\ DOMAIN y = DOMAIN x /\ y.text = x.text /\ y.node = N[x.node]
        /\ y.children = AllThrough(A, x.children)
    BY <2>1, <2>2 DEF RemapArtifact
  <2>4. /\ DOMAIN AllThrough(A, x.children) = DOMAIN x.children
        /\ \A i \in DOMAIN x.children : AllThrough(A, x.children)[i] = A[x.children[i]]
    BY DEF AllThrough
  <2> QED BY <2>1, <2>3, <2>4 DEF x, y
<1>3. M.nextArtifact = g.nextArtifact + b.nextArtifact /\ M.nextArtifact \in Nat
  BY <1>1 DEF Merged, EngineShape
<1>4. DOMAIN M.artifacts = 1..M.nextArtifact
  BY <1>1 DEF Merged, Renumbers
<1>5. \A a \in DOMAIN g.artifacts : a \in DOMAIN M.artifacts /\ M.artifacts[a] = g.artifacts[a]
  BY <1>1 DEF Merged
<1>6. \A a \in DOMAIN b.artifacts : A[a] \in DOMAIN M.artifacts /\ A[a] \in Nat
  BY <1>1 DEF Merged, Renumbers
<1> QED BY <1>2, <1>3, <1>4, <1>5, <1>6

\* What serves a key or is made from texts still does, under its new id.
LEMMA JoinedTexts ==
  ASSUME NEW g, NEW b, NEW N, NEW A, NEW M, Joins(g, b, N, A, M)
  PROVE  /\ \A a, key : ServesKey(g, a, key) => ServesKey(M, a, key) /\ Text(M, a) = Text(g, a)
         /\ \A a, key : ServesKey(b, a, key) =>
              ServesKey(M, A[a], key) /\ Text(M, A[a]) = Text(b, a) /\ A[a] \in Nat
         /\ \A ids, texts : SameTexts(g, ids, texts) => SameTexts(M, ids, texts)
         /\ \A ids, texts : SameTexts(b, ids, texts) => SameTexts(M, AllThrough(A, ids), texts)
<1>1. EngineShape(g) /\ EngineShape(b)
  BY JoinFacts
<1>2. /\ DOMAIN g.artifacts = 1..g.nextArtifact /\ DOMAIN b.artifacts = 1..b.nextArtifact
      /\ g.nextArtifact \in Nat /\ b.nextArtifact \in Nat
  BY <1>1 DEF EngineShape
<1>3. /\ \A a \in 1..b.nextArtifact :
           A[a] \in 1..M.nextArtifact /\ A[a] \in Nat /\ Text(M, A[a]) = Text(b, a)
      /\ \A a \in 1..g.nextArtifact : a \in 1..M.nextArtifact /\ Text(M, a) = Text(g, a)
  <2>1. DOMAIN M.artifacts = 1..M.nextArtifact
    BY JoinedArtifacts
  <2>2. \A a \in DOMAIN b.artifacts :
          A[a] \in DOMAIN M.artifacts /\ A[a] \in Nat /\ M.artifacts[A[a]].text = b.artifacts[a].text
    BY JoinedArtifacts
  <2>3. \A a \in DOMAIN g.artifacts : a \in DOMAIN M.artifacts /\ M.artifacts[a] = g.artifacts[a]
    BY JoinedArtifacts
  <2> QED BY <1>2, <2>1, <2>2, <2>3 DEF Text
<1>4. ASSUME NEW a, NEW key, ServesKey(g, a, key)
      PROVE  ServesKey(M, a, key) /\ Text(M, a) = Text(g, a)
  BY <1>3, <1>4 DEF ServesKey
<1>5. ASSUME NEW a, NEW key, ServesKey(b, a, key)
      PROVE  ServesKey(M, A[a], key) /\ Text(M, A[a]) = Text(b, a) /\ A[a] \in Nat
  BY <1>3, <1>5 DEF ServesKey
<1>6. ASSUME NEW ids, NEW texts, SameTexts(g, ids, texts) PROVE SameTexts(M, ids, texts)
  <2>1. /\ ids \in Seq(1..g.nextArtifact) /\ Len(texts) = Len(ids)
        /\ \A i \in DOMAIN ids : Text(g, ids[i]) = texts[i]
    BY <1>6 DEF SameTexts
  <2>2. Len(ids) \in Nat /\ DOMAIN ids = 1..Len(ids) /\ \A i \in DOMAIN ids : ids[i] \in 1..g.nextArtifact
    BY <2>1, LenProperties, ElementOfSeq
  <2>3. ids = [i \in 1..Len(ids) |-> ids[i]]
    BY <2>1, <2>2, LenProperties
  <2>4. \A i \in DOMAIN ids : ids[i] \in 1..M.nextArtifact /\ Text(M, ids[i]) = texts[i]
    BY <1>3, <2>1, <2>2
  <2>5. ids \in [1..Len(ids) -> 1..M.nextArtifact]
    BY <2>2, <2>3, <2>4
  <2>6. ids \in Seq(1..M.nextArtifact)
    BY <2>2, <2>5, FunctionInSeq
  <2> QED BY <2>1, <2>4, <2>6 DEF SameTexts
<1>7. ASSUME NEW ids, NEW texts, SameTexts(b, ids, texts)
      PROVE  SameTexts(M, AllThrough(A, ids), texts)
  <2> DEFINE new == AllThrough(A, ids)
  <2>1. /\ ids \in Seq(1..b.nextArtifact) /\ Len(texts) = Len(ids)
        /\ \A i \in DOMAIN ids : Text(b, ids[i]) = texts[i]
    BY <1>7 DEF SameTexts
  <2>2. Len(ids) \in Nat /\ DOMAIN ids = 1..Len(ids) /\ \A i \in DOMAIN ids : ids[i] \in 1..b.nextArtifact
    BY <2>1, LenProperties, ElementOfSeq
  <2>3. new = [i \in 1..Len(ids) |-> A[ids[i]]]
    BY <2>2 DEF AllThrough
  <2> HIDE DEF new
  <2>4. \A i \in 1..Len(ids) : A[ids[i]] \in 1..M.nextArtifact /\ Text(M, A[ids[i]]) = texts[i]
    BY <1>3, <2>1, <2>2
  <2>5. new \in [1..Len(ids) -> 1..M.nextArtifact]
    BY <2>3, <2>4
  <2>6. new \in Seq(1..M.nextArtifact) /\ Len(new) = Len(ids)
    BY <2>2, <2>5, FunctionInSeq
  <2>7. DOMAIN new = 1..Len(ids) /\ \A i \in DOMAIN new : Text(M, new[i]) = texts[i]
    BY <2>3, <2>4
  <2>8. SameTexts(M, new, texts)
    BY <2>1, <2>6, <2>7 DEF SameTexts
  <2> QED BY <2>8 DEF new
<1> QED BY <1>4, <1>5, <1>6, <1>7

\* The nodes of the branch under their new ids, and those of the engine.
LEMMA JoinedNodes ==
  ASSUME NEW g, NEW b, NEW N, NEW A, NEW M, Joins(g, b, N, A, M)
  PROVE  /\ \A id \in DOMAIN b.nodes :
              LET x == b.nodes[id]
                  y == M.nodes[N[id]]
              IN /\ N[id] \in DOMAIN M.nodes /\ y \in NodeType
                 /\ y.task = x.task /\ y.key = x.key /\ y.size = x.size /\ y.plan = x.plan
                 /\ y.readScope = x.readScope /\ y.writeScope = x.writeScope
                 /\ y.status = x.status
                 /\ id = b.root => y.parent = x.parent
                 /\ id # b.root => x.parent \in DOMAIN b.nodes /\ y.parent = N[x.parent]
                 /\ DOMAIN y.children = DOMAIN x.children
                 /\ \A i \in DOMAIN x.children : y.children[i] = N[x.children[i]]
                 /\ y.candidate = Through(A, x.candidate) /\ y.accepted = Through(A, x.accepted)
         /\ \A m \in DOMAIN g.nodes :
              /\ m \in DOMAIN M.nodes /\ SameNode(g.nodes[m], M.nodes[m])
              /\ m # b.root => M.nodes[m] = g.nodes[m]
         /\ \A m \in DOMAIN M.nodes :
              (m \in DOMAIN g.nodes /\ m # b.root) \/ \E id \in DOMAIN b.nodes : m = N[id]
<1> DEFINE c == b.root
<1>1. /\ EngineOK(g) /\ EngineOK(b) /\ EngineShape(g) /\ EngineShape(b) /\ BranchOK(g, c, b)
      /\ Renumbers(g, b, N, A) /\ Merged(g, b, N, A, M)
  BY DEF Joins, EngineOK
<1>2. /\ c \in DOMAIN g.nodes /\ c \in DOMAIN b.nodes /\ N[c] = c
      /\ g.nodes[c].parent = b.nodes[c].parent /\ g.nodes[c].parent \notin DOMAIN b.nodes
  BY JoinFacts
<1>3. ASSUME NEW id \in DOMAIN b.nodes
      PROVE  LET x == b.nodes[id]
                 y == M.nodes[N[id]]
             IN /\ N[id] \in DOMAIN M.nodes /\ y \in NodeType
                /\ y.task = x.task /\ y.key = x.key /\ y.size = x.size /\ y.plan = x.plan
                /\ y.readScope = x.readScope /\ y.writeScope = x.writeScope
                /\ y.status = x.status
                /\ id = b.root => y.parent = x.parent
                /\ id # b.root => x.parent \in DOMAIN b.nodes /\ y.parent = N[x.parent]
                /\ DOMAIN y.children = DOMAIN x.children
                /\ \A i \in DOMAIN x.children : y.children[i] = N[x.children[i]]
                /\ y.candidate = Through(A, x.candidate) /\ y.accepted = Through(A, x.accepted)
  <2> DEFINE x == b.nodes[id]
             y == M.nodes[N[id]]
  <2>1. x \in NodeType
    BY <1>1, NodeFacts
  <2>2. y = RemapNode(x, N, A) /\ N[id] \in DOMAIN M.nodes
    BY <1>1 DEF Merged
  <2>3. DOMAIN N = DOMAIN b.nodes /\ \A m \in DOMAIN N : N[m] \in Nat
    BY <1>1 DEF Renumbers
  <2>4. \A i \in DOMAIN x.children : x.children[i] \in DOMAIN N
    <3>1. ChildrenOK(b, id)
      BY <1>1 DEF EngineOK
    <3> QED BY <2>3, <3>1 DEF ChildrenOK
  <2>5. /\ x.candidate # None => A[x.candidate] \in Nat
        /\ x.accepted # None => A[x.accepted] \in Nat
    <3>1. WorkOK(b, id) /\ DOMAIN b.artifacts = 1..b.nextArtifact
      BY <1>1 DEF EngineOK, EngineShape
    <3>2. \A a \in DOMAIN b.artifacts : A[a] \in Nat
      BY <1>1 DEF Renumbers
    <3> QED BY <3>1, <3>2 DEF WorkOK, ServesKey
  <2>6. id # c => x.parent \in DOMAIN b.nodes
    BY <1>1, ParentFacts
  <2>7. id = c => x.parent \notin DOMAIN b.nodes
    BY <1>2
  <2> HIDE DEF x, y
  <2>8. RemapNode(x, N, A) \in NodeType
    BY <2>1, <2>3, <2>4, <2>5, RemapType
  <2>9. /\ y.task = x.task /\ y.key = x.key /\ y.size = x.size /\ y.plan = x.plan
        /\ y.readScope = x.readScope /\ y.writeScope = x.writeScope
        /\ y.status = x.status
        /\ y.parent = IF x.parent \in DOMAIN N THEN N[x.parent] ELSE x.parent
        /\ DOMAIN y.children = DOMAIN x.children
        /\ \A i \in DOMAIN x.children : y.children[i] = N[x.children[i]]
        /\ y.candidate = Through(A, x.candidate) /\ y.accepted = Through(A, x.accepted)
    BY <2>1, <2>2, RemapFacts
  <2>10. /\ id = c => y.parent = x.parent
         /\ id # c => y.parent = N[x.parent]
    BY <2>3, <2>6, <2>7, <2>9
  <2> QED BY <2>2, <2>6, <2>8, <2>9, <2>10 DEF x, y
<1>4. ASSUME NEW m \in DOMAIN g.nodes
      PROVE  /\ m \in DOMAIN M.nodes /\ SameNode(g.nodes[m], M.nodes[m])
             /\ m # b.root => M.nodes[m] = g.nodes[m]
  <2>1. m \in DOMAIN M.nodes /\ (m # c => M.nodes[m] = g.nodes[m])
    BY <1>1 DEF Merged
  <2>2. SameNode(g.nodes[c], M.nodes[c])
    <3>1. SameNode(g.nodes[c], b.nodes[c])
      BY <1>1 DEF BranchOK
    <3>2. /\ M.nodes[c].task = b.nodes[c].task /\ M.nodes[c].parent = b.nodes[c].parent
          /\ M.nodes[c].key = b.nodes[c].key
          /\ M.nodes[c].readScope = b.nodes[c].readScope
          /\ M.nodes[c].writeScope = b.nodes[c].writeScope
      BY <1>2, <1>3
    <3> QED BY <3>1, <3>2 DEF SameNode
  <2> QED BY <2>1, <2>2 DEF SameNode
<1>5. ASSUME NEW m \in DOMAIN M.nodes
      PROVE  (m \in DOMAIN g.nodes /\ m # b.root) \/ \E id \in DOMAIN b.nodes : m = N[id]
  <2>1. m \in DOMAIN g.nodes \/ \E id \in DOMAIN b.nodes : m = N[id]
    BY <1>1, <1>5 DEF Merged
  <2> QED BY <1>2, <2>1
<1> QED BY <1>3, <1>4, <1>5

LEMMA JoinedShape ==
  ASSUME NEW g, NEW b, NEW N, NEW A, NEW M, Joins(g, b, N, A, M)
  PROVE  EngineShape(M)
<1>1. /\ EngineOK(g) /\ EngineOK(b) /\ EngineShape(g) /\ EngineShape(b)
      /\ Renumbers(g, b, N, A) /\ Merged(g, b, N, A, M)
  BY DEF Joins, EngineOK
<1>2. M.root \in Nat /\ M.nextNode \in Nat /\ M.root <= M.nextNode
  <2>1. /\ M.root = g.root /\ M.nextNode = g.nextNode + (b.nextNode - b.root)
    BY <1>1 DEF Merged
  <2>2. /\ g.root \in Nat /\ g.nextNode \in Nat /\ g.root <= g.nextNode
        /\ b.root \in Nat /\ b.nextNode \in Nat /\ b.root <= b.nextNode
    BY <1>1 DEF EngineShape
  <2> QED BY <2>1, <2>2
<1>3. M.nodes \in [M.root..M.nextNode -> NodeType]
  <2>1. DOMAIN M.nodes = M.root..M.nextNode /\ M.nodes = [m \in DOMAIN M.nodes |-> M.nodes[m]]
    BY <1>1 DEF Merged, Renumbers
  <2>2. ASSUME NEW m \in DOMAIN M.nodes PROVE M.nodes[m] \in NodeType
    <3>1. CASE m \in DOMAIN g.nodes /\ m # b.root
      <4>1. M.nodes[m] = g.nodes[m]
        BY <3>1, JoinedNodes
      <4> QED BY <1>1, <3>1, <4>1, NodeFacts
    <3>2. CASE \E id \in DOMAIN b.nodes : m = N[id]
      BY <3>2, JoinedNodes
    <3> QED BY <3>1, <3>2, JoinedNodes
  <2> QED BY <2>1, <2>2
<1>4. M.nextArtifact \in Nat /\ DOMAIN M.artifacts = 1..M.nextArtifact
  BY JoinedArtifacts
<1>5. M.memo \in [DOMAIN M.memo -> 1..M.nextArtifact]
  <2>1. M.memo = [k \in DOMAIN M.memo |-> M.memo[k]]
    BY <1>1 DEF Merged
  <2>2. ASSUME NEW k \in DOMAIN M.memo PROVE M.memo[k] \in 1..M.nextArtifact
    <3>1. CASE k \in DOMAIN b.memo
      <4>1. M.memo[k] = A[b.memo[k]]
        BY <1>1, <3>1 DEF Merged
      <4>2. b.memo[k] \in DOMAIN b.artifacts
        BY <1>1, <3>1 DEF EngineShape
      <4> QED BY <1>4, <4>1, <4>2, JoinedArtifacts
    <3>2. CASE k \in DOMAIN g.memo \ DOMAIN b.memo
      <4>1. M.memo[k] = g.memo[k]
        BY <1>1, <3>2 DEF Merged
      <4>2. g.memo[k] \in DOMAIN g.artifacts
        BY <1>1, <3>2 DEF EngineShape
      <4> QED BY <1>4, <4>1, <4>2, JoinedArtifacts
    <3>3. k \in DOMAIN g.memo \union DOMAIN b.memo
      BY <1>1, <2>2 DEF Merged
    <3> QED BY <3>1, <3>2, <3>3
  <2> QED BY <2>1, <2>2
<1>6. M.asked # None => M.asked.node \in DOMAIN M.nodes /\ M.asked.op \in Operation
  <2>1. M.asked = g.asked
    BY <1>1 DEF Merged
  <2>2. g.asked # None => g.asked.node \in DOMAIN g.nodes /\ g.asked.op \in Operation
    BY <1>1 DEF EngineShape
  <2> QED BY <2>1, <2>2, JoinedNodes
<1>7. DOMAIN M = {"root", "nextNode", "nextArtifact", "nodes", "artifacts", "memo", "log", "asked"}
  BY <1>1 DEF Merged, EngineShape
<1> QED BY <1>2, <1>3, <1>4, <1>5, <1>6, <1>7 DEF EngineShape

\* Every node keeps its edges and its work.
LEMMA JoinedTree ==
  ASSUME NEW g, NEW b, NEW N, NEW A, NEW M, Joins(g, b, N, A, M), NEW m \in DOMAIN M.nodes
  PROVE  ChildrenOK(M, m) /\ ParentOK(M, m) /\ WorkOK(M, m)
<1> DEFINE c == b.root
<1>1. /\ EngineOK(g) /\ EngineOK(b) /\ Renumbers(g, b, N, A) /\ Merged(g, b, N, A, M)
  BY DEF Joins
<1>2. EngineShape(g) /\ EngineShape(b) /\ EngineShape(M)
  BY JoinFacts, JoinedShape
<1>3. /\ c \in DOMAIN g.nodes /\ c \in DOMAIN b.nodes /\ N[c] = c
      /\ g.nodes[c].children = <<>> /\ g.nodes[c].parent = b.nodes[c].parent
      /\ g.nodes[c].parent \in DOMAIN g.nodes /\ g.nodes[c].parent # c
      /\ \E i \in DOMAIN g.nodes[g.nodes[c].parent].children :
           g.nodes[g.nodes[c].parent].children[i] = c
  BY JoinFacts
<1>4. M.root = g.root
  BY <1>1 DEF Merged
<1> HIDE DEF c
<1>5. c = b.root
  BY DEF c
<1>6. CASE m \in DOMAIN g.nodes /\ m # c
  <2>1. M.nodes[m] = g.nodes[m]
    BY <1>5, <1>6, JoinedNodes
  <2>2. ChildrenOK(g, m) /\ ParentOK(g, m) /\ WorkOK(g, m)
    BY <1>1, <1>6 DEF EngineOK
  <2>3. \A k \in DOMAIN g.nodes : k \in DOMAIN M.nodes /\ SameNode(g.nodes[k], M.nodes[k])
    BY JoinedNodes
  <2>4. ChildrenOK(M, m)
    <3> SUFFICES ASSUME NEW i \in DOMAIN g.nodes[m].children
                 PROVE  LET d == g.nodes[m].children[i] IN
                          /\ d \in DOMAIN M.nodes /\ m < d
                          /\ M.nodes[d].parent = m /\ M.nodes[d].task = Append(g.nodes[m].task, i)
                          /\ Fits(M.nodes[d].readScope, g.nodes[m].readScope)
                          /\ Fits(M.nodes[d].writeScope, g.nodes[m].writeScope)
      BY <2>1, ZenonT(40) DEF ChildrenOK
    <3> DEFINE d == g.nodes[m].children[i]
    <3>1. /\ d \in DOMAIN g.nodes /\ m < d
          /\ g.nodes[d].parent = m /\ g.nodes[d].task = Append(g.nodes[m].task, i)
          /\ Fits(g.nodes[d].readScope, g.nodes[m].readScope)
          /\ Fits(g.nodes[d].writeScope, g.nodes[m].writeScope)
      BY <2>2 DEF ChildrenOK
    <3> HIDE DEF d
    <3>2. d \in DOMAIN M.nodes /\ SameNode(g.nodes[d], M.nodes[d])
      BY <2>3, <3>1
    <3>3. /\ d \in DOMAIN M.nodes /\ m < d
          /\ M.nodes[d].parent = m /\ M.nodes[d].task = Append(g.nodes[m].task, i)
          /\ Fits(M.nodes[d].readScope, g.nodes[m].readScope)
          /\ Fits(M.nodes[d].writeScope, g.nodes[m].writeScope)
      BY <3>1, <3>2 DEF SameNode
    <3> QED BY <3>3, ZenonT(40) DEF d
  <2>5. ParentOK(M, m)
    <3> SUFFICES ASSUME m # g.root
                 PROVE  LET p == g.nodes[m].parent IN
                          p \in DOMAIN M.nodes /\ \E i \in DOMAIN M.nodes[p].children :
                            M.nodes[p].children[i] = m
      BY <1>4, <2>1 DEF ParentOK
    <3> DEFINE p == g.nodes[m].parent
    <3>1. p \in DOMAIN g.nodes /\ \E i \in DOMAIN g.nodes[p].children : g.nodes[p].children[i] = m
      BY <2>2 DEF ParentOK
    <3>2. p # c
      BY <1>3, <3>1
    <3>3. M.nodes[p] = g.nodes[p]
      BY <1>5, <3>1, <3>2, JoinedNodes
    <3> QED BY <2>3, <3>1, <3>3
  <2>6. WorkOK(M, m)
    <3>1. \A a, key : ServesKey(g, a, key) => ServesKey(M, a, key) /\ Text(M, a) = Text(g, a)
      BY JoinedTexts
    <3> QED BY <2>1, <2>2, <3>1 DEF WorkOK
  <2> QED BY <2>4, <2>5, <2>6
<1>7. CASE \E id \in DOMAIN b.nodes : m = N[id]
  <2>1. PICK id \in DOMAIN b.nodes : m = N[id]
    BY <1>7
  <2> DEFINE x == b.nodes[id]
             y == M.nodes[m]
  <2>2. /\ y \in NodeType
        /\ y.task = x.task /\ y.key = x.key
        /\ y.readScope = x.readScope /\ y.writeScope = x.writeScope
        /\ y.status = x.status
        /\ DOMAIN y.children = DOMAIN x.children
        /\ \A i \in DOMAIN x.children : y.children[i] = N[x.children[i]]
        /\ y.candidate = Through(A, x.candidate) /\ y.accepted = Through(A, x.accepted)
    BY <2>1, JoinedNodes
  <2>3. id # c => x.parent \in DOMAIN b.nodes /\ y.parent = N[x.parent]
    BY <1>5, <2>1, JoinedNodes
  <2>4. ChildrenOK(b, id) /\ ParentOK(b, id) /\ WorkOK(b, id)
    BY <1>1 DEF EngineOK
  <2>5. x \in NodeType /\ id \in Nat /\ c \in Nat /\ c <= id
    BY <1>2, <1>5, NodeFacts
  <2>6. ChildrenOK(M, m)
    <3> SUFFICES ASSUME NEW i \in DOMAIN y.children
                 PROVE  LET d == y.children[i] IN
                          /\ d \in DOMAIN M.nodes /\ m < d
                          /\ M.nodes[d].parent = m /\ M.nodes[d].task = Append(y.task, i)
                          /\ Fits(M.nodes[d].readScope, y.readScope)
                          /\ Fits(M.nodes[d].writeScope, y.writeScope)
      BY DEF ChildrenOK
    <3> DEFINE d == x.children[i]
    <3>1. i \in DOMAIN x.children /\ y.children[i] = N[d]
      BY <2>2
    <3>2. /\ d \in DOMAIN b.nodes /\ id < d /\ b.nodes[d].parent = id
          /\ b.nodes[d].task = Append(x.task, i)
          /\ Fits(b.nodes[d].readScope, x.readScope)
          /\ Fits(b.nodes[d].writeScope, x.writeScope)
      BY <2>4, <3>1, Zenon DEF ChildrenOK
    <3> HIDE DEF d
    <3>3. d # c
      <4>1. d \in Nat
        BY <1>2, <3>2, NodeFacts
      <4> QED BY <2>5, <3>2, <4>1
    <3>4. N[id] < N[d]
      BY <1>1, <3>2 DEF Renumbers
    <3>5. /\ N[d] \in DOMAIN M.nodes /\ M.nodes[N[d]].parent = N[b.nodes[d].parent]
          /\ M.nodes[N[d]].task = b.nodes[d].task
          /\ M.nodes[N[d]].readScope = b.nodes[d].readScope
          /\ M.nodes[N[d]].writeScope = b.nodes[d].writeScope
      BY <1>5, <3>2, <3>3, JoinedNodes
    <3> HIDE DEF x, y
    <3> QED BY <2>1, <2>2, <3>1, <3>2, <3>4, <3>5
  <2>7. ParentOK(M, m)
    <3>1. CASE id = c
      <4> DEFINE p == g.nodes[c].parent
      <4>1. m = c /\ y.parent = p
        <5>1. M.nodes[N[id]].parent = b.nodes[id].parent
          BY <1>5, <3>1, JoinedNodes
        <5> QED BY <1>3, <2>1, <3>1, <5>1
      <4>2. p \in DOMAIN g.nodes /\ p # c
            /\ \E i \in DOMAIN g.nodes[p].children : g.nodes[p].children[i] = c
        BY <1>3
      <4> HIDE DEF p
      <4>3. p \in DOMAIN M.nodes /\ M.nodes[p] = g.nodes[p]
        BY <1>5, <4>2, JoinedNodes
      <4> QED BY <4>1, <4>2, <4>3 DEF ParentOK
    <3>2. CASE id # c
      <4> DEFINE p == x.parent
      <4>1. p \in DOMAIN b.nodes /\ \E i \in DOMAIN b.nodes[p].children : b.nodes[p].children[i] = id
        BY <1>5, <2>4, <3>2 DEF ParentOK
      <4>2. PICK i \in DOMAIN b.nodes[p].children : b.nodes[p].children[i] = id
        BY <4>1
      <4>3. y.parent = N[p]
        BY <2>3, <3>2
      <4> HIDE DEF p
      <4>4. N[p] \in DOMAIN M.nodes /\ i \in DOMAIN M.nodes[N[p]].children
            /\ M.nodes[N[p]].children[i] = N[id]
        BY <4>1, <4>2, JoinedNodes
      <4> QED BY <2>1, <4>3, <4>4 DEF ParentOK
    <3> QED BY <3>1, <3>2
  <2>8. WorkOK(M, m)
    <3> HIDE DEF y
    <3>0. y = M.nodes[m]
      BY DEF y
    <3>1. y.status \in {"New", "Specified"} => y.children = <<>>
      <4> SUFFICES ASSUME y.status \in {"New", "Specified"} PROVE y.children = <<>>
        OBVIOUS
      <4>1. x.children = <<>>
        BY <2>2, <2>4 DEF WorkOK
      <4>2. y.children \in Seq(Nat) /\ DOMAIN y.children = {}
        BY <2>2, <4>1 DEF NodeType
      <4>3. Len(y.children) \in Nat /\ DOMAIN y.children = 1..Len(y.children)
        BY <4>2, LenProperties
      <4>4. Len(y.children) = 0
        <5>1. 1 \notin 1..Len(y.children)
          BY <4>2, <4>3
        <5> QED BY <4>3, <5>1
      <4> QED BY <4>2, <4>4, EmptySeq
    <3>2. \A a, key : ServesKey(b, a, key) =>
            ServesKey(M, A[a], key) /\ Text(M, A[a]) = Text(b, a) /\ A[a] \in Nat
      BY JoinedTexts
    <3>3. /\ x.candidate # None =>
               ServesKey(b, x.candidate, x.key) /\ Text(b, x.candidate).by = x.task
          /\ x.accepted # None => ServesKey(b, x.accepted, x.key)
          /\ x.status = "New" => x.candidate = None /\ x.accepted = None
      BY <2>4 DEF WorkOK
    <3> HIDE DEF x
    <3>4. /\ y.candidate # None =>
               x.candidate # None /\ y.candidate = A[x.candidate]
          /\ y.accepted # None => x.accepted # None /\ y.accepted = A[x.accepted]
          /\ x.candidate = None => y.candidate = None
          /\ x.accepted = None => y.accepted = None
      BY <2>2 DEF Through
    <3>5. y.candidate # None => ServesKey(M, y.candidate, y.key) /\ Text(M, y.candidate).by = y.task
      BY <2>2, <3>2, <3>3, <3>4
    <3>6. y.accepted # None => ServesKey(M, y.accepted, y.key)
      BY <2>2, <3>2, <3>3, <3>4
    <3>7. y.status = "New" => y.candidate = None /\ y.accepted = None
      BY <2>2, <3>3, <3>4
    <3> QED BY <3>0, <3>1, <3>5, <3>6, <3>7 DEF WorkOK
  <2> QED BY <2>6, <2>7, <2>8
<1> QED BY <1>5, <1>6, <1>7, JoinedNodes

\* Every artifact, memo, log entry and request keeps what it refers to.
LEMMA JoinedRecords ==
  ASSUME NEW g, NEW b, NEW N, NEW A, NEW M, Joins(g, b, N, A, M)
  PROVE  (\A a \in DOMAIN M.artifacts : MadeOK(M, a)) /\ MemoOK(M) /\ LogOK(M) /\ AskedOK(M)
<1>1. /\ EngineOK(g) /\ EngineOK(b) /\ Renumbers(g, b, N, A) /\ Merged(g, b, N, A, M)
  BY DEF Joins
<1>2. /\ EngineShape(g) /\ EngineShape(b)
      /\ g.nodes[b.root].status = "New" /\ ~IsAsked(g, b.root)
  BY JoinFacts
<1>3. /\ \A ids, texts : SameTexts(g, ids, texts) => SameTexts(M, ids, texts)
      /\ \A ids, texts : SameTexts(b, ids, texts) => SameTexts(M, AllThrough(A, ids), texts)
      /\ \A a, key : ServesKey(g, a, key) => ServesKey(M, a, key)
      /\ \A a, key : ServesKey(b, a, key) => ServesKey(M, A[a], key)
  BY JoinedTexts
<1>4. /\ \A m \in DOMAIN g.nodes : m \in DOMAIN M.nodes /\ M.nodes[m].task = g.nodes[m].task
      /\ \A m \in DOMAIN g.nodes : m # b.root => M.nodes[m] = g.nodes[m]
  BY JoinedNodes DEF SameNode
<1>5. \A id \in DOMAIN b.nodes :
        /\ N[id] \in DOMAIN M.nodes /\ M.nodes[N[id]].task = b.nodes[id].task
        /\ M.nodes[N[id]].status = b.nodes[id].status
  BY JoinedNodes
<1>6. ASSUME NEW a \in DOMAIN g.artifacts PROVE MadeOK(M, a)
  <2>1. MadeOK(g, a)
    BY <1>1 DEF EngineOK
  <2>2. M.artifacts[a] = g.artifacts[a]
    BY JoinedArtifacts
  <2> DEFINE x == g.artifacts[a]
             n == x.node
  <2>3. DOMAIN x = {"node", "children", "text"} /\ SameTexts(M, x.children, x.text.from)
    BY <1>3, <2>1 DEF MadeOK
  <2>4. n \in DOMAIN g.nodes /\ g.nodes[n].task = x.text.by /\ g.nodes[n].status # "New"
    BY <2>1 DEF MadeOK, Holds
  <2> HIDE DEF n
  <2>5. n \in DOMAIN M.nodes /\ M.nodes[n] = g.nodes[n]
    BY <1>2, <1>4, <2>4
  <2>6. n = x.node
    BY DEF n
  <2> HIDE DEF x
  <2>7. M.artifacts[a] = x
    BY <2>2 DEF x
  <2> QED BY <2>3, <2>4, <2>5, <2>6, <2>7 DEF MadeOK, Holds
<1>7. ASSUME NEW a \in DOMAIN b.artifacts PROVE MadeOK(M, A[a])
  <2> DEFINE x == b.artifacts[a]
             y == M.artifacts[A[a]]
             n == x.node
  <2>1. DOMAIN y = {"node", "children", "text"} /\ y.text = x.text /\ y.node = N[n]
        /\ y.children = AllThrough(A, x.children)
    BY JoinedArtifacts
  <2>2. n \in DOMAIN b.nodes /\ b.nodes[n].task = x.text.by /\ b.nodes[n].status # "New"
        /\ SameTexts(b, x.children, x.text.from)
    BY <1>1 DEF EngineOK, MadeOK, Holds
  <2>3. y = M.artifacts[A[a]]
    OBVIOUS
  <2> HIDE DEF x, y, n
  <2>4. N[n] \in DOMAIN M.nodes /\ M.nodes[N[n]].task = x.text.by /\ M.nodes[N[n]].status # "New"
    BY <1>5, <2>2
  <2>5. SameTexts(M, y.children, y.text.from)
    BY <1>3, <2>1, <2>2
  <2> QED BY <2>1, <2>3, <2>4, <2>5 DEF MadeOK, Holds
<1>8. \A a \in DOMAIN M.artifacts : MadeOK(M, a)
  <2>1. \A a \in DOMAIN M.artifacts :
          a \in DOMAIN g.artifacts \/ \E x \in DOMAIN b.artifacts : a = A[x]
    BY <1>1 DEF Merged
  <2> QED BY <1>6, <1>7, <2>1
<1>9. MemoOK(M)
  <2> SUFFICES ASSUME NEW k \in DOMAIN M.memo PROVE ServesKey(M, M.memo[k], k)
    BY DEF MemoOK
  <2>1. k \in DOMAIN g.memo \union DOMAIN b.memo
    BY <1>1 DEF Merged
  <2>2. CASE k \in DOMAIN b.memo
    <3>1. ServesKey(b, b.memo[k], k)
      BY <1>1, <2>2 DEF EngineOK, MemoOK
    <3>2. M.memo[k] = A[b.memo[k]]
      BY <1>1, <2>2 DEF Merged
    <3> QED BY <1>3, <3>1, <3>2
  <2>3. CASE k \in DOMAIN g.memo \ DOMAIN b.memo
    <3>1. ServesKey(g, g.memo[k], k)
      BY <1>1, <2>3 DEF EngineOK, MemoOK
    <3>2. M.memo[k] = g.memo[k]
      BY <1>1, <2>3 DEF Merged
    <3> QED BY <1>3, <3>1, <3>2
  <2> QED BY <2>1, <2>2, <2>3
<1>10. LogOK(M)
  <2> SUFFICES ASSUME NEW entry \in M.log
               PROVE  DOMAIN entry = {"node", "task", "what"} /\ Holds(M, entry.node, entry.task)
    BY DEF LogOK
  <2>1. entry \in g.log \/ \E x \in b.log : entry = [x EXCEPT !.node = N[x.node]]
    BY <1>1 DEF Merged
  <2>2. CASE entry \in g.log
    <3>1. DOMAIN entry = {"node", "task", "what"} /\ Holds(g, entry.node, entry.task)
      BY <1>1, <2>2 DEF EngineOK, LogOK
    <3> QED BY <1>4, <3>1 DEF Holds
  <2>3. CASE \E x \in b.log : entry = [x EXCEPT !.node = N[x.node]]
    <3>1. PICK x \in b.log : entry = [x EXCEPT !.node = N[x.node]]
      BY <2>3
    <3>2. DOMAIN x = {"node", "task", "what"} /\ Holds(b, x.node, x.task)
      BY <1>1 DEF EngineOK, LogOK
    <3>3. DOMAIN entry = {"node", "task", "what"} /\ entry.node = N[x.node] /\ entry.task = x.task
      BY <3>1, <3>2
    <3> QED BY <1>5, <3>2, <3>3 DEF Holds
  <2> QED BY <2>1, <2>2, <2>3
<1>11. AskedOK(M)
  <2> SUFFICES ASSUME g.asked # None
               PROVE  LET node == M.nodes[g.asked.node] IN
                        /\ g.asked.op = "Specify" <=> node.status = "New"
                        /\ g.asked.op = "Plan" => node.status = "Specified"
                        /\ g.asked.op = "Combine" =>
                             SameTexts(M, g.asked.children, g.asked.packet.children)
                        /\ g.asked.op = "Verify" => ServesKey(M, g.asked.candidate, node.key)
    BY <1>1 DEF AskedOK, Merged
  <2>1. g.asked.node \in DOMAIN g.nodes
    BY <1>2 DEF EngineShape
  <2>2. g.asked.node # b.root
    BY <1>2 DEF IsAsked
  <2>3. M.nodes[g.asked.node] = g.nodes[g.asked.node]
    BY <1>4, <2>1, <2>2
  <2>4. AskedOK(g)
    BY <1>1 DEF EngineOK
  <2> QED BY <1>3, <2>3, <2>4 DEF AskedOK
<1> QED BY <1>8, <1>9, <1>10, <1>11

\* The branch is quiet and its first node was not at work, so who is at work
\* in g has its turn as before.
LEMMA JoinedThread ==
  ASSUME NEW g, NEW b, NEW N, NEW A, NEW M, Joins(g, b, N, A, M)
  PROVE  ThreadOK(M)
<1> DEFINE c == b.root
<1>1. /\ EngineOK(g) /\ EngineOK(b) /\ Over(b) /\ ThreadOK(g) /\ EngineShape(g)
      /\ Renumbers(g, b, N, A) /\ Merged(g, b, N, A, M)
  BY DEF Joins, EngineOK
<1>2. /\ c \in DOMAIN g.nodes /\ g.nodes[c].status = "New" /\ ~IsAsked(g, c)
      /\ g.nodes[g.nodes[c].parent].plan = "Parallel" /\ N[c] = c
  BY JoinFacts
<1>3. M.root = g.root /\ M.asked = g.asked
  BY <1>1 DEF Merged
<1>4. \A m \in DOMAIN g.nodes : m # c => M.nodes[m] = g.nodes[m]
  BY JoinedNodes
<1> HIDE DEF c
<1>5. ASSUME NEW m \in DOMAIN M.nodes, Busy(M, m)
      PROVE  m \in DOMAIN g.nodes /\ m # c /\ Busy(g, m)
  <2>1. CASE m \in DOMAIN g.nodes /\ m # c
    BY <1>3, <1>4, <1>5, <2>1 DEF Busy, IsAsked
  <2>2. CASE \E id \in DOMAIN b.nodes : m = N[id]
    <3>1. PICK id \in DOMAIN b.nodes : m = N[id]
      BY <2>2
    <3>2. ~Busy(b, id)
      BY <1>1, Quiet
    <3>3. M.nodes[m].status = b.nodes[id].status
      BY <3>1, JoinedNodes
    <3>4. IsAsked(M, m)
      BY <1>5, <3>2, <3>3 DEF Busy
    <3>5. m \in DOMAIN g.nodes /\ IsAsked(g, m)
      BY <1>1, <1>3, <3>4 DEF IsAsked, EngineShape
    <3>6. id = c
      BY <1>1, <3>1, <3>5 DEF Renumbers, c
    <3> QED BY <1>2, <3>1, <3>5, <3>6
  <2> QED BY <2>1, <2>2, JoinedNodes DEF c
<1>6. ASSUME NEW p \in DOMAIN g.nodes, g.nodes[p].plan = "Stage",
             NEW i \in DOMAIN g.nodes[p].children
      PROVE  LET d == g.nodes[p].children[i] IN
               d \in DOMAIN g.nodes /\ M.nodes[d] = g.nodes[d]
  <2> DEFINE d == g.nodes[p].children[i]
  <2>1. d \in DOMAIN g.nodes /\ g.nodes[d].parent = p
    BY <1>1, <1>6, ChildFacts
  <2>2. d # c
    BY <1>2, <1>6, <2>1
  <2> QED BY <1>4, <2>1, <2>2
<1>7. ASSUME NEW m \in DOMAIN M.nodes, Busy(M, m)
      PROVE  HasTurn(M, m) /\ (m # M.root => ~IsAsked(M, M.nodes[m].parent))
  <2>1. m \in DOMAIN g.nodes /\ m # c /\ Busy(g, m) /\ M.nodes[m] = g.nodes[m]
    BY <1>4, <1>5, <1>7
  <2>2. HasTurn(g, m) /\ (m # g.root => ~IsAsked(g, g.nodes[m].parent))
    BY <1>1, <2>1 DEF ThreadOK
  <2>3. m # M.root => ~IsAsked(M, M.nodes[m].parent)
    BY <1>3, <2>1, <2>2 DEF IsAsked
  <2>4. HasTurn(M, m)
    <3> DEFINE p == g.nodes[m].parent
    <3> SUFFICES ASSUME m # g.root
                 PROVE  /\ M.nodes[p].status = "Planned" /\ M.nodes[p].plan = "Stage"
                        /\ \A i, j \in DOMAIN M.nodes[p].children :
                             M.nodes[p].children[i] = m =>
                               /\ j < i => M.nodes[M.nodes[p].children[j]].status = "Committed"
                               /\ i < j => M.nodes[M.nodes[p].children[j]].status = "New"
      BY <1>3, <2>1, ZenonT(40) DEF HasTurn
    <3>1. /\ g.nodes[p].status = "Planned" /\ g.nodes[p].plan = "Stage"
          /\ \A i, j \in DOMAIN g.nodes[p].children :
               g.nodes[p].children[i] = m =>
                 /\ j < i => g.nodes[g.nodes[p].children[j]].status = "Committed"
                 /\ i < j => g.nodes[g.nodes[p].children[j]].status = "New"
      BY <2>2, Zenon DEF HasTurn
    <3>2. p \in DOMAIN g.nodes
      BY <1>1, <2>1, ParentFacts
    <3> HIDE DEF p
    <3>3. M.nodes[p] = g.nodes[p]
      BY <1>2, <1>4, <3>1, <3>2
    <3>4. \A j \in DOMAIN g.nodes[p].children :
            M.nodes[g.nodes[p].children[j]] = g.nodes[g.nodes[p].children[j]]
      BY <1>6, <3>1, <3>2
    <3> QED BY <3>1, <3>3, <3>4
  <2> QED BY <2>3, <2>4
<1>8. ASSUME NEW m \in DOMAIN M.nodes, M.nodes[m].status = "Planned", M.nodes[m].plan = "Stage",
             NEW i \in DOMAIN M.nodes[m].children, NEW j \in DOMAIN M.nodes[m].children,
             i < j, M.nodes[M.nodes[m].children[j]].status # "New"
      PROVE  M.nodes[M.nodes[m].children[i]].status = "Committed"
  <2>1. m \in DOMAIN g.nodes /\ M.nodes[m] = g.nodes[m]
    BY <1>4, <1>5, <1>8 DEF Busy
  <2>2. \A k \in DOMAIN g.nodes[m].children :
          M.nodes[g.nodes[m].children[k]] = g.nodes[g.nodes[m].children[k]]
    BY <1>6, <1>8, <2>1
  <2>3. \A k, l \in DOMAIN g.nodes[m].children :
          k < l /\ g.nodes[g.nodes[m].children[l]].status # "New"
            => g.nodes[g.nodes[m].children[k]].status = "Committed"
    BY <1>1, <1>8, <2>1 DEF ThreadOK
  <2> QED BY <1>8, <2>1, <2>2, <2>3
<1> QED BY <1>7, <1>8 DEF ThreadOK

LEMMA JoinedClean ==
  ASSUME NEW g, NEW b, NEW N, NEW A, NEW M, Joins(g, b, N, A, M),
         NEW ok, CleanOK(g, ok), CleanOK(b, ok)
  PROVE  CleanOK(M, ok)
<1>1. /\ EngineOK(g) /\ EngineOK(b) /\ EngineShape(g) /\ EngineShape(b)
      /\ Renumbers(g, b, N, A) /\ Merged(g, b, N, A, M)
  BY DEF Joins, EngineOK
<1>2. ASSUME NEW a \in 1..g.nextArtifact, Clean(g, a, ok) PROVE Clean(M, a, ok)
  <2>1. a \in DOMAIN g.artifacts
    BY <1>1 DEF EngineShape
  <2> DEFINE n == g.artifacts[a].node
  <2>2. M.artifacts[a] = g.artifacts[a]
    BY <2>1, JoinedArtifacts
  <2>3. n \in DOMAIN g.nodes /\ g.nodes[n].status # "New"
    BY <1>1, <2>1 DEF EngineOK, MadeOK, Holds
  <2>4. n # b.root
    BY <2>3, JoinFacts
  <2>5. M.nodes[n] = g.nodes[n]
    BY <2>3, <2>4, JoinedNodes
  <2> QED BY <1>2, <2>2, <2>5 DEF Clean, Text
<1>3. ASSUME NEW a \in 1..b.nextArtifact, Clean(b, a, ok) PROVE Clean(M, A[a], ok)
  <2>1. a \in DOMAIN b.artifacts
    BY <1>1 DEF EngineShape
  <2> DEFINE n == b.artifacts[a].node
  <2>2. M.artifacts[A[a]].text = b.artifacts[a].text /\ M.artifacts[A[a]].node = N[n]
    BY <2>1, JoinedArtifacts
  <2>3. n \in DOMAIN b.nodes
    BY <1>1, <2>1 DEF EngineOK, MadeOK, Holds
  <2>4. M.nodes[N[n]].size = b.nodes[n].size
    BY <2>3, JoinedNodes
  <2> QED BY <1>3, <2>2, <2>4 DEF Clean, Text
<1>4. ASSUME NEW m \in DOMAIN M.nodes, M.nodes[m].accepted # None
      PROVE  Clean(M, M.nodes[m].accepted, ok)
  <2>1. CASE m \in DOMAIN g.nodes /\ m # b.root
    <3>1. M.nodes[m] = g.nodes[m]
      BY <2>1, JoinedNodes
    <3>2. WorkOK(g, m) /\ Clean(g, g.nodes[m].accepted, ok)
      BY <1>1, <1>4, <2>1, <3>1 DEF EngineOK, CleanOK
    <3>3. g.nodes[m].accepted \in 1..g.nextArtifact
      BY <1>4, <3>1, <3>2 DEF WorkOK, ServesKey
    <3> QED BY <1>2, <3>1, <3>2, <3>3
  <2>2. CASE \E id \in DOMAIN b.nodes : m = N[id]
    <3>1. PICK id \in DOMAIN b.nodes : m = N[id]
      BY <2>2
    <3>2. M.nodes[m].accepted = Through(A, b.nodes[id].accepted)
      BY <3>1, JoinedNodes
    <3>3. b.nodes[id].accepted # None /\ M.nodes[m].accepted = A[b.nodes[id].accepted]
      BY <1>4, <3>2 DEF Through
    <3>4. WorkOK(b, id) /\ Clean(b, b.nodes[id].accepted, ok)
      BY <1>1, <3>3 DEF EngineOK, CleanOK
    <3>5. b.nodes[id].accepted \in 1..b.nextArtifact
      BY <3>3, <3>4 DEF WorkOK, ServesKey
    <3> QED BY <1>3, <3>3, <3>4, <3>5
  <2> QED BY <2>1, <2>2, JoinedNodes
<1>5. ASSUME NEW k \in DOMAIN M.memo PROVE Clean(M, M.memo[k], ok)
  <2>1. k \in DOMAIN g.memo \union DOMAIN b.memo
    BY <1>1 DEF Merged
  <2>2. CASE k \in DOMAIN b.memo
    <3>1. b.memo[k] \in 1..b.nextArtifact /\ Clean(b, b.memo[k], ok)
      BY <1>1, <2>2 DEF EngineShape, CleanOK
    <3>2. M.memo[k] = A[b.memo[k]]
      BY <1>1, <2>2 DEF Merged
    <3> QED BY <1>3, <3>1, <3>2
  <2>3. CASE k \in DOMAIN g.memo \ DOMAIN b.memo
    <3>1. g.memo[k] \in 1..g.nextArtifact /\ Clean(g, g.memo[k], ok)
      BY <1>1, <2>3 DEF EngineShape, CleanOK
    <3>2. M.memo[k] = g.memo[k]
      BY <1>1, <2>3 DEF Merged
    <3> QED BY <1>2, <3>1, <3>2
  <2> QED BY <2>1, <2>2, <2>3
<1> QED BY <1>4, <1>5 DEF CleanOK

LEMMA JoinedOK ==
  ASSUME NEW g, NEW b, EngineOK(g), EngineOK(b), Over(b), BranchOK(g, b.root, b),
         NEW ok, CleanOK(g, ok), CleanOK(b, ok)
  PROVE  LET M == Merge(g, b) IN
           /\ EngineOK(M) /\ CleanOK(M, ok) /\ M.root = g.root /\ M.asked = g.asked
           /\ \A m \in DOMAIN g.nodes :
                /\ m \in DOMAIN M.nodes /\ SameNode(g.nodes[m], M.nodes[m])
                /\ m # b.root => M.nodes[m] = g.nodes[m]
<1> DEFINE N == NodeMap(g, b)
           A == ArtifactMap(g, b)
           M == Merge(g, b)
<1>1. EngineShape(g) /\ EngineShape(b) /\ b.root \in DOMAIN g.nodes
  BY DEF EngineOK, BranchOK
<1>2. Renumbers(g, b, N, A) /\ Merged(g, b, N, A, M)
  BY <1>1, MapsRenumber, MergeFields
<1> HIDE DEF N, A, M
<1>3. Joins(g, b, N, A, M)
  BY <1>2 DEF Joins
<1>4. EngineOK(M)
  BY <1>3, JoinedShape, JoinedTree, JoinedRecords, JoinedThread DEF EngineOK
<1>5. CleanOK(M, ok)
  BY <1>3, JoinedClean
<1>6. M.root = g.root /\ M.asked = g.asked
  BY <1>2 DEF Merged
<1>7. \A m \in DOMAIN g.nodes :
        /\ m \in DOMAIN M.nodes /\ SameNode(g.nodes[m], M.nodes[m])
        /\ m # b.root => M.nodes[m] = g.nodes[m]
  BY <1>3, JoinedNodes
<1> QED BY <1>4, <1>5, <1>6, <1>7 DEF M

LEMMA JoinKeeps ==
  ASSUME PlanningInv, NEW e, Join(e)
  PROVE  PlanningInv'
<1> DEFINE into == Front(e)
           f == engines[e]
           g == engines[into]
           M == Merge(g, f)
<1>1. /\ e \in DOMAIN engines /\ e # Root /\ Over(f)
      /\ engines' = [x \in DOMAIN engines \ {e} |-> IF x = into THEN M ELSE engines[x]]
      /\ outcome' = outcome /\ setbacks' = setbacks /\ approved' = approved
  BY DEF Join, Running
<1>2. \A x \in DOMAIN engines : x \in Seq(Nat)
  BY DEF PlanningInv, TypeOK
<1>3. into \in DOMAIN engines /\ BranchOK(g, Last(e), f) /\ f.root = Last(e)
  BY <1>1 DEF PlanningInv, BranchOK
<1>4. e = Append(into, Last(e)) /\ Last(e) \in Nat /\ into \in Seq(Nat) /\ into # e
  <2>1. /\ into \in Seq(Nat) /\ Last(e) \in Nat /\ e = Append(into, Last(e))
    BY <1>1, <1>2, FrontFacts DEF Root
  <2> HIDE DEF into
  <2>2. Append(into, Last(e)) # into
    BY <2>1, AppendFacts
  <2> QED BY <2>1, <2>2
<1>5. /\ EngineOK(g) /\ EngineOK(f) /\ CleanOK(g, approved) /\ CleanOK(f, approved)
  BY <1>1, <1>3, EngineFacts
<1>6. /\ EngineOK(M) /\ CleanOK(M, approved) /\ M.root = g.root /\ M.asked = g.asked
      /\ \A m \in DOMAIN g.nodes :
           /\ m \in DOMAIN M.nodes /\ SameNode(g.nodes[m], M.nodes[m])
           /\ m # f.root => M.nodes[m] = g.nodes[m]
  <2> HIDE DEF f, g
  <2> QED BY <1>1, <1>3, <1>5, JoinedOK
<1>7. /\ DOMAIN engines' = DOMAIN engines \ {e} /\ into \in DOMAIN engines' /\ engines'[into] = M
      /\ \A x \in DOMAIN engines' \ {into} : engines'[x] = engines[x]
  BY <1>1, <1>3, <1>4
<1> HIDE DEF M
<1>8. ASSUME NEW x \in DOMAIN engines \ {Root}, x # e
      PROVE  /\ Front(x) \in DOMAIN engines' /\ Front(x) # x
             /\ BranchOK(engines[Front(x)], Last(x), engines[x])
             /\ Front(x) = into => Last(x) # f.root
  <2>1. /\ Front(x) \in DOMAIN engines /\ BranchOK(engines[Front(x)], Last(x), engines[x])
    BY <1>8 DEF PlanningInv
  <2>2. x = Append(Front(x), Last(x)) /\ Front(x) \in Seq(Nat) /\ Last(x) \in Nat
    BY <1>2, <1>8, FrontFacts DEF Root
  <2>3. Front(x) # x
    <3> DEFINE y == Front(x)
    <3>1. y \in Seq(Nat) /\ x = Append(y, Last(x)) /\ Last(x) \in Nat
      BY <2>2
    <3> HIDE DEF y
    <3>2. Append(y, Last(x)) # y
      BY <3>1, AppendFacts
    <3> QED BY <3>1, <3>2 DEF y
  <2>4. Front(x) = into => Last(x) # f.root
    BY <1>3, <1>4, <1>8, <2>2
  <2>5. Front(x) # e
    <3> SUFFICES ASSUME Front(x) = e PROVE FALSE
      OBVIOUS
    <3> DEFINE c == Last(x)
               p == f.nodes[c].parent
    <3>1. c \in DOMAIN f.nodes /\ c # f.root /\ f.nodes[p].status = "Planned"
      BY <2>1 DEF BranchOK
    <3>2. p \in DOMAIN f.nodes
      BY <1>5, <3>1, ParentFacts
    <3> HIDE DEF f, p
    <3>3. ~Busy(f, p)
      BY <1>1, <1>5, <3>2, Quiet
    <3> QED BY <3>1, <3>3 DEF Busy, p
  <2> QED BY <1>7, <2>1, <2>3, <2>4, <2>5
<1>9. ASSUME NEW x \in DOMAIN engines' \ {Root}
      PROVE  Front(x) \in DOMAIN engines' /\ BranchOK(engines'[Front(x)], Last(x), engines'[x])
  <2> DEFINE y == Front(x)
             c == Last(x)
             old == engines[x]
  <2>1. x \in DOMAIN engines \ {Root} /\ x # e
    BY <1>7, <1>9
  <2>2. y \in DOMAIN engines' /\ y # x /\ BranchOK(engines[y], c, old)
        /\ (y = into => c # f.root)
    BY <1>8, <2>1
  <2>3. CASE y = into
    <3>1. engines'[x] = old /\ engines'[y] = M /\ engines[y] = g
      BY <1>7, <1>9, <2>2, <2>3
    <3> DEFINE p == g.nodes[c].parent
    <3>2. /\ c \in DOMAIN g.nodes /\ c # g.root /\ g.nodes[c].status = "New"
          /\ old.root = c /\ SameNode(g.nodes[c], old.nodes[c])
          /\ g.nodes[p].status = "Planned" /\ g.nodes[p].plan = "Parallel" /\ ~IsAsked(g, p)
      BY <2>2, <3>1 DEF BranchOK
    <3>3. p \in DOMAIN g.nodes
      BY <1>5, <3>2, ParentFacts
    <3>4. g.nodes[f.root].status = "New"
      BY <1>3 DEF BranchOK
    <3> HIDE DEF f, g, p, c, old, y
    <3>5. p # f.root /\ c # f.root
      BY <2>2, <2>3, <3>2, <3>4
    <3>6. M.nodes[c] = g.nodes[c] /\ M.nodes[p] = g.nodes[p] /\ c \in DOMAIN M.nodes
      BY <1>6, <3>2, <3>3, <3>5
    <3>7. p = g.nodes[c].parent
      BY DEF p
    <3>8. BranchOK(M, c, old)
      BY <1>6, <3>2, <3>6, <3>7 DEF BranchOK, IsAsked
    <3> QED BY <2>2, <3>1, <3>8 DEF y, c
  <2>4. CASE y # into /\ x = into
    <3>1. engines'[x] = M /\ engines'[y] = engines[y] /\ old = g
      BY <1>7, <1>9, <2>2, <2>4
    <3> DEFINE u == engines[y]
    <3>2. BranchOK(u, c, g)
      BY <2>2, <3>1
    <3>3. g.root \in DOMAIN g.nodes
      <4>1. EngineShape(g)
        BY <1>5 DEF EngineOK
      <4>2. g.root \in Nat /\ g.nextNode \in Nat /\ g.root <= g.nextNode
            /\ DOMAIN g.nodes = g.root..g.nextNode
        BY <4>1 DEF EngineShape
      <4> QED BY <4>2
    <3> HIDE DEF u, g
    <3>4. c = g.root /\ SameNode(u.nodes[c], g.nodes[c])
      BY <3>2 DEF BranchOK
    <3>5. SameNode(g.nodes[c], M.nodes[c])
      BY <1>6, <3>3, <3>4
    <3>6. SameNode(u.nodes[c], M.nodes[c])
      BY <3>4, <3>5 DEF SameNode
    <3>7. BranchOK(u, c, M)
      BY <1>6, <3>2, <3>6 DEF BranchOK
    <3> QED BY <2>2, <3>1, <3>7 DEF u
  <2>5. CASE y # into /\ x # into
    BY <1>7, <1>9, <2>2, <2>5
  <2> QED BY <2>3, <2>4, <2>5
<1>10. ASSUME NEW x \in DOMAIN engines'
       PROVE  /\ x \in Seq(Nat) /\ EngineShape(engines'[x])
              /\ EngineOK(engines'[x]) /\ CleanOK(engines'[x], approved')
  <2>1. x \in DOMAIN engines
    BY <1>7, <1>10
  <2>2. EngineOK(engines'[x]) /\ CleanOK(engines'[x], approved')
    <3>1. CASE x = into
      BY <1>1, <1>6, <1>7, <3>1
    <3>2. CASE x # into
      <4>1. engines'[x] = engines[x]
        BY <1>7, <1>10, <3>2
      <4> QED BY <1>1, <2>1, <4>1, EngineFacts
    <3> QED BY <3>1, <3>2
  <2> QED BY <1>2, <2>1, <2>2 DEF EngineOK
<1>11. Root \in DOMAIN engines' => engines'[Root].root = 1
  <2> SUFFICES ASSUME Root \in DOMAIN engines' PROVE engines'[Root].root = 1
    OBVIOUS
  <2>1. Root \in DOMAIN engines /\ engines[Root].root = 1
    BY <1>7 DEF PlanningInv
  <2> HIDE DEF into
  <2>2. CASE Root = into
    BY <1>6, <1>7, <2>1, <2>2
  <2>3. CASE Root # into
    BY <1>7, <2>1, <2>3
  <2> QED BY <2>2, <2>3
<1>12. outcome' \in {"running", "error"} \union Final /\ setbacks' \in 0..MaxSetbacks
  BY <1>1 DEF PlanningInv, TypeOK
<1> QED BY <1>9, <1>10, <1>11, <1>12 DEF PlanningInv, TypeOK

-----------------------------------------------------------------------------
(* Scopes.                                                                 *)

\* The same, from the last row to the first.
Descends(S, n, a, step) ==
  \E m \in [1..(n + 1) -> S] : m[n + 1] = a /\ \A p \in 1..n : m[p] = step[p][m[p + 1]]

LEMMA DescentExists ==
  ASSUME NEW S, NEW n \in Nat, NEW a \in S, NEW step \in Steps(S, n)
  PROVE  Descends(S, n, a, step)
<1> DEFINE back == [k \in 1..n |-> step[(n + 1) - k]]
<1>1. \A k \in 1..n : (n + 1) - k \in 1..n
  OBVIOUS
<1>2. back \in Steps(S, n)
  BY <1>1 DEF Steps
<1>3. PICK f \in [0..n -> S] : f[0] = a /\ \A k \in 1..n : f[k] = back[k][f[k - 1]]
  <2> HIDE DEF back
  <2>1. Reaches(S, n, a, back)
    BY <1>2, RecursionExists
  <2> QED BY <2>1 DEF Reaches
<1> DEFINE m == [p \in 1..(n + 1) |-> f[(n + 1) - p]]
<1>4. \A p \in 1..(n + 1) : (n + 1) - p \in 0..n
  OBVIOUS
<1>5. m \in [1..(n + 1) -> S]
  BY <1>3, <1>4
<1>6. m[n + 1] = a
  <2>1. n + 1 \in 1..(n + 1) /\ (n + 1) - (n + 1) = 0
    OBVIOUS
  <2> QED BY <1>3, <2>1
<1>7. ASSUME NEW p \in 1..n PROVE m[p] = step[p][m[p + 1]]
  <2> DEFINE k == (n + 1) - p
  <2>1. k \in 1..n /\ (n + 1) - k = p /\ k - 1 = (n + 1) - (p + 1)
        /\ p \in 1..(n + 1) /\ p + 1 \in 1..(n + 1)
    OBVIOUS
  <2>2. m[p] = f[k] /\ m[p + 1] = f[k - 1]
    BY <2>1
  <2> HIDE DEF m, k
  <2>3. back[k] = step[p]
    BY <2>1
  <2> QED BY <1>3, <2>1, <2>2, <2>3
<1> QED BY <1>5, <1>6, <1>7 DEF Descends

\* What the recursion of segments_match says of the two positions.
SegmentsRow(pattern, path, p, s, next) ==
  IF s > Len(path) THEN \A q \in p..Len(pattern) : pattern[q] = AnyDepth
  ELSE IF pattern[p] = AnyDepth THEN \E t \in s..(Len(path) + 1) : next[t]
  ELSE SegmentMatch(pattern[p], path[s]) /\ next[s + 1]

LEMMA SegmentsEquation ==
  ASSUME NEW pattern, NEW path, Len(pattern) \in Nat, Len(path) \in Nat
  PROVE  LET m == SegmentsMatch(pattern, path)
             n == Len(pattern)
         IN /\ \A s \in 1..(Len(path) + 1) : m[n + 1][s] <=> s > Len(path)
            /\ \A p \in 1..n, s \in 1..(Len(path) + 1) :
                 m[p][s] <=> SegmentsRow(pattern, path, p, s, m[p + 1])
<1> DEFINE n == Len(pattern)
           P == 1..(Len(path) + 1)
           S == [P -> BOOLEAN]
           end == [s \in P |-> s > Len(path)]
           step == [p \in 1..n |-> [next \in S |-> [s \in P |-> SegmentsRow(pattern, path, p, s, next)]]]
           m[p \in 1..(n + 1)] ==
             [s \in 1..(Len(path) + 1) |->
                IF p > Len(pattern) THEN s > Len(path)
                ELSE IF s > Len(path) THEN \A q \in p..Len(pattern) : pattern[q] = AnyDepth
                ELSE IF pattern[p] = AnyDepth THEN \E t \in s..(Len(path) + 1) : m[p + 1][t]
                ELSE SegmentMatch(pattern[p], path[s]) /\ m[p + 1][s + 1]]
<1>1. n \in Nat /\ Len(path) \in Nat
  OBVIOUS
<1>2. end \in S
  OBVIOUS
<1>3. step \in Steps(S, n)
  <2>1. ASSUME NEW p \in 1..n, NEW next \in S
        PROVE  [s \in P |-> SegmentsRow(pattern, path, p, s, next)] \in S
    <3>1. \A s \in P : SegmentsRow(pattern, path, p, s, next) \in BOOLEAN
      BY DEF SegmentsRow
    <3> QED BY <3>1
  <2> QED BY <2>1 DEF Steps
<1> HIDE DEF step, end, S, P, n
<1>4. PICK f \in [1..(n + 1) -> S] : f[n + 1] = end /\ \A p \in 1..n : f[p] = step[p][f[p + 1]]
  <2>1. Descends(S, n, end, step)
    BY <1>1, <1>2, <1>3, DescentExists
  <2> QED BY <2>1 DEF Descends
<1>5. \A p \in 1..n : p \in 1..(n + 1) /\ p + 1 \in 1..(n + 1) /\ ~(p > n)
  BY <1>1
<1>6. \A p \in 1..n : f[p] = [s \in P |-> SegmentsRow(pattern, path, p, s, f[p + 1])]
  <2> SUFFICES ASSUME NEW p \in 1..n
               PROVE  f[p] = [s \in P |-> SegmentsRow(pattern, path, p, s, f[p + 1])]
    OBVIOUS
  <2>1. f[p + 1] \in S /\ f[p] = step[p][f[p + 1]]
    BY <1>4, <1>5
  <2> QED BY <2>1 DEF step
<1>7. f = [p \in 1..(n + 1) |->
             [s \in 1..(Len(path) + 1) |->
                IF p > Len(pattern) THEN s > Len(path)
                ELSE IF s > Len(path) THEN \A q \in p..Len(pattern) : pattern[q] = AnyDepth
                ELSE IF pattern[p] = AnyDepth THEN \E t \in s..(Len(path) + 1) : f[p + 1][t]
                ELSE SegmentMatch(pattern[p], path[s]) /\ f[p + 1][s + 1]]]
  <2>1. f = [p \in 1..(n + 1) |-> f[p]]
    BY <1>4
  <2>2. ASSUME NEW p \in 1..(n + 1)
        PROVE  f[p] = [s \in 1..(Len(path) + 1) |->
                 IF p > Len(pattern) THEN s > Len(path)
                 ELSE IF s > Len(path) THEN \A q \in p..Len(pattern) : pattern[q] = AnyDepth
                 ELSE IF pattern[p] = AnyDepth THEN \E t \in s..(Len(path) + 1) : f[p + 1][t]
                 ELSE SegmentMatch(pattern[p], path[s]) /\ f[p + 1][s + 1]]
    <3>1. CASE p = n + 1
      <4>1. p > Len(pattern)
        BY <1>1, <3>1 DEF n
      <4>2. f[p] = [s \in P |-> s > Len(path)]
        BY <1>4, <3>1 DEF end
      <4> QED BY <4>1, <4>2 DEF P
    <3>2. CASE p # n + 1
      <4>1. p \in 1..n /\ ~(p > Len(pattern))
        BY <1>1, <3>2 DEF n
      <4>2. f[p] = [s \in P |-> SegmentsRow(pattern, path, p, s, f[p + 1])]
        BY <1>6, <4>1, Zenon
      <4> QED BY <4>1, <4>2 DEF P, SegmentsRow
    <3> QED BY <3>1, <3>2
  <2> QED BY <2>1, <2>2
<1>8. m = [p \in 1..(n + 1) |->
             [s \in 1..(Len(path) + 1) |->
                IF p > Len(pattern) THEN s > Len(path)
                ELSE IF s > Len(path) THEN \A q \in p..Len(pattern) : pattern[q] = AnyDepth
                ELSE IF pattern[p] = AnyDepth THEN \E t \in s..(Len(path) + 1) : m[p + 1][t]
                ELSE SegmentMatch(pattern[p], path[s]) /\ m[p + 1][s + 1]]]
  BY <1>7, Zenon DEF m
<1>9. m = SegmentsMatch(pattern, path)
  BY DEF SegmentsMatch, n
<1> HIDE DEF m
<1>10. ASSUME NEW s \in 1..(Len(path) + 1) PROVE m[n + 1][s] <=> s > Len(path)
  <2>1. n + 1 \in 1..(n + 1) /\ n + 1 > Len(pattern)
    BY <1>1 DEF n
  <2>2. m[n + 1] = [t \in 1..(Len(path) + 1) |-> t > Len(path)]
    BY <1>8, <2>1
  <2> QED BY <2>2
<1>11. ASSUME NEW p \in 1..n, NEW s \in 1..(Len(path) + 1)
       PROVE  m[p][s] <=> SegmentsRow(pattern, path, p, s, m[p + 1])
  <2>1. p \in 1..(n + 1) /\ ~(p > Len(pattern))
    BY <1>5 DEF n
  <2> QED BY <1>8, <2>1 DEF SegmentsRow
<1> QED BY <1>9, <1>10, <1>11 DEF n

\* What the recursion of segment_chars_match says of the two positions.
CharsRow(pattern, segment, p, s, next) ==
  IF pattern[p] = "*" THEN \E t \in s..(Len(segment) + 1) : next[t]
  ELSE s <= Len(segment) /\ pattern[p] \in {"?", segment[s]} /\ next[s + 1]

LEMMA CharsEquation ==
  ASSUME NEW pattern, NEW segment, Len(pattern) \in Nat, Len(segment) \in Nat
  PROVE  LET m == SegmentCharsMatch(pattern, segment)
             n == Len(pattern)
         IN /\ \A s \in 1..(Len(segment) + 1) : m[n + 1][s] <=> s > Len(segment)
            /\ \A p \in 1..n, s \in 1..(Len(segment) + 1) :
                 m[p][s] <=> CharsRow(pattern, segment, p, s, m[p + 1])
<1> DEFINE n == Len(pattern)
           P == 1..(Len(segment) + 1)
           S == [P -> BOOLEAN]
           end == [s \in P |-> s > Len(segment)]
           step == [p \in 1..n |-> [next \in S |-> [s \in P |-> CharsRow(pattern, segment, p, s, next)]]]
           m[p \in 1..(n + 1)] ==
             [s \in 1..(Len(segment) + 1) |->
                IF p > Len(pattern) THEN s > Len(segment)
                ELSE IF pattern[p] = "*" THEN \E t \in s..(Len(segment) + 1) : m[p + 1][t]
                ELSE /\ s <= Len(segment)
                     /\ pattern[p] \in {"?", segment[s]}
                     /\ m[p + 1][s + 1]]
<1>1. n \in Nat /\ Len(segment) \in Nat
  OBVIOUS
<1>2. end \in S
  OBVIOUS
<1>3. step \in Steps(S, n)
  <2>1. ASSUME NEW p \in 1..n, NEW next \in S
        PROVE  [s \in P |-> CharsRow(pattern, segment, p, s, next)] \in S
    <3>1. \A s \in P : CharsRow(pattern, segment, p, s, next) \in BOOLEAN
      BY DEF CharsRow
    <3> QED BY <3>1
  <2> QED BY <2>1 DEF Steps
<1> HIDE DEF step, end, S, P, n
<1>4. PICK f \in [1..(n + 1) -> S] : f[n + 1] = end /\ \A p \in 1..n : f[p] = step[p][f[p + 1]]
  <2>1. Descends(S, n, end, step)
    BY <1>1, <1>2, <1>3, DescentExists
  <2> QED BY <2>1 DEF Descends
<1>5. \A p \in 1..n : p \in 1..(n + 1) /\ p + 1 \in 1..(n + 1) /\ ~(p > n)
  BY <1>1
<1>6. \A p \in 1..n : f[p] = [s \in P |-> CharsRow(pattern, segment, p, s, f[p + 1])]
  <2> SUFFICES ASSUME NEW p \in 1..n
               PROVE  f[p] = [s \in P |-> CharsRow(pattern, segment, p, s, f[p + 1])]
    OBVIOUS
  <2>1. f[p + 1] \in S /\ f[p] = step[p][f[p + 1]]
    BY <1>4, <1>5
  <2> QED BY <2>1 DEF step
<1>7. f = [p \in 1..(n + 1) |->
             [s \in 1..(Len(segment) + 1) |->
                IF p > Len(pattern) THEN s > Len(segment)
                ELSE IF pattern[p] = "*" THEN \E t \in s..(Len(segment) + 1) : f[p + 1][t]
                ELSE /\ s <= Len(segment)
                     /\ pattern[p] \in {"?", segment[s]}
                     /\ f[p + 1][s + 1]]]
  <2>1. f = [p \in 1..(n + 1) |-> f[p]]
    BY <1>4
  <2>2. ASSUME NEW p \in 1..(n + 1)
        PROVE  f[p] = [s \in 1..(Len(segment) + 1) |->
                 IF p > Len(pattern) THEN s > Len(segment)
                 ELSE IF pattern[p] = "*" THEN \E t \in s..(Len(segment) + 1) : f[p + 1][t]
                 ELSE /\ s <= Len(segment)
                      /\ pattern[p] \in {"?", segment[s]}
                      /\ f[p + 1][s + 1]]
    <3>1. CASE p = n + 1
      <4>1. p > Len(pattern)
        BY <1>1, <3>1 DEF n
      <4>2. f[p] = [s \in P |-> s > Len(segment)]
        BY <1>4, <3>1 DEF end
      <4> QED BY <4>1, <4>2 DEF P
    <3>2. CASE p # n + 1
      <4>1. p \in 1..n /\ ~(p > Len(pattern))
        BY <1>1, <3>2 DEF n
      <4>2. f[p] = [s \in P |-> CharsRow(pattern, segment, p, s, f[p + 1])]
        BY <1>6, <4>1
      <4> QED BY <4>1, <4>2, Zenon DEF P, CharsRow
    <3> QED BY <3>1, <3>2
  <2> QED BY <2>1, <2>2
<1>8. m = [p \in 1..(n + 1) |->
             [s \in 1..(Len(segment) + 1) |->
                IF p > Len(pattern) THEN s > Len(segment)
                ELSE IF pattern[p] = "*" THEN \E t \in s..(Len(segment) + 1) : m[p + 1][t]
                ELSE /\ s <= Len(segment)
                     /\ pattern[p] \in {"?", segment[s]}
                     /\ m[p + 1][s + 1]]]
  BY <1>7, Zenon DEF m
<1>9. m = SegmentCharsMatch(pattern, segment)
  BY DEF SegmentCharsMatch, n
<1> HIDE DEF m
<1>10. ASSUME NEW s \in 1..(Len(segment) + 1) PROVE m[n + 1][s] <=> s > Len(segment)
  <2>1. n + 1 \in 1..(n + 1) /\ n + 1 > Len(pattern)
    BY <1>1 DEF n
  <2>2. m[n + 1] = [t \in 1..(Len(segment) + 1) |-> t > Len(segment)]
    BY <1>8, <2>1
  <2> QED BY <2>2
<1>11. ASSUME NEW p \in 1..n, NEW s \in 1..(Len(segment) + 1)
       PROVE  m[p][s] <=> CharsRow(pattern, segment, p, s, m[p + 1])
  <2>1. p \in 1..(n + 1) /\ ~(p > Len(pattern))
    BY <1>5 DEF n
  <2>2. m[p] = [t \in 1..(Len(segment) + 1) |->
                  IF p > Len(pattern) THEN t > Len(segment)
                  ELSE IF pattern[p] = "*" THEN \E u \in t..(Len(segment) + 1) : m[p + 1][u]
                  ELSE /\ t <= Len(segment)
                       /\ pattern[p] \in {"?", segment[t]}
                       /\ m[p + 1][t + 1]]
    BY <1>8, <2>1, Zenon
  <2>3. m[p][s] = IF p > Len(pattern) THEN s > Len(segment)
                  ELSE IF pattern[p] = "*" THEN \E u \in s..(Len(segment) + 1) : m[p + 1][u]
                  ELSE /\ s <= Len(segment)
                       /\ pattern[p] \in {"?", segment[s]}
                       /\ m[p + 1][s + 1]
    BY <2>2, Zenon
  <2> QED BY <2>1, <2>3, Zenon DEF CharsRow
<1> QED BY <1>9, <1>10, <1>11 DEF n

\* Without `*` and `?` a pattern matches itself and nothing else.
LEMMA LiteralSegment ==
  ASSUME NEW pattern \in Seq(STRING), NEW segment \in Seq(STRING),
         ToSet(pattern) \cap {"*", "?"} = {}, SegmentMatch(pattern, segment)
  PROVE  pattern = segment
<1> DEFINE m == SegmentCharsMatch(pattern, segment)
           n == Len(pattern)
           l == Len(segment)
           Agree(k) == /\ m[k][k] /\ k <= l + 1
                       /\ \A j \in 1..n : j < k => pattern[j] = segment[j]
           Bad == {k \in 1..(n + 1) : ~Agree(k)}
<1>1. n \in Nat /\ l \in Nat /\ DOMAIN pattern = 1..n
  BY LenProperties
<1>2. \A j \in 1..n : pattern[j] \notin {"*", "?"}
  BY <1>1 DEF ToSet
<1>3. /\ \A s \in 1..(l + 1) : m[n + 1][s] <=> s > l
      /\ \A p \in 1..n, s \in 1..(l + 1) : m[p][s] <=> CharsRow(pattern, segment, p, s, m[p + 1])
  BY CharsEquation
<1>4. m[1][1]
  BY DEF SegmentMatch
<1>5. l = Len(segment) /\ n = Len(pattern)
  OBVIOUS
<1> HIDE DEF m, n, l
<1>6. ASSUME Bad # {} PROVE FALSE
  <2>1. Bad \in SUBSET Nat
    BY <1>1
  <2> HIDE DEF Bad
  <2>2. PICK k \in Bad : \A j \in Bad : k <= j
    BY <1>6, <2>1, LeastElement
  <2>3. k \in 1..(n + 1) /\ ~Agree(k)
    BY <2>2 DEF Bad
  <2>4. k # 1
    <3>1. Agree(1)
      BY <1>1, <1>4
    <3> QED BY <2>3, <3>1
  <2> DEFINE i == k - 1
  <2>5. i \in 1..n /\ i \in 1..(n + 1) /\ ~(k <= i) /\ i + 1 = k /\ i \in Nat
    BY <1>1, <2>3, <2>4
  <2>6. Agree(i)
    BY <2>2, <2>5 DEF Bad
  <2> HIDE DEF i
  <2>7. i \in 1..(l + 1)
    BY <1>1, <2>5, <2>6
  <2>8. CharsRow(pattern, segment, i, i, m[i + 1])
    BY <1>3, <2>5, <2>6, <2>7
  <2>9. i <= l /\ pattern[i] = segment[i] /\ m[k][k]
    BY <1>2, <1>5, <2>5, <2>8 DEF CharsRow
  <2>10. k <= l + 1
    BY <1>1, <2>5, <2>9
  <2>11. \A j \in 1..n : j < k => pattern[j] = segment[j]
    <3> SUFFICES ASSUME NEW j \in 1..n, j < k PROVE pattern[j] = segment[j]
      OBVIOUS
    <3>1. j = i \/ j < i
      BY <2>5
    <3> QED BY <2>6, <2>9, <3>1
  <2> QED BY <2>3, <2>9, <2>10, <2>11
<1>7. Agree(n + 1)
  <2>1. n + 1 \in 1..(n + 1)
    BY <1>1
  <2>2. n + 1 \notin Bad
    BY <1>6
  <2> HIDE DEF Agree
  <2> QED BY <2>1, <2>2
<1>8. n + 1 > l
  <2>1. n + 1 \in 1..(l + 1)
    BY <1>1, <1>7
  <2> QED BY <1>3, <1>7, <2>1
<1>9. n = l
  BY <1>1, <1>7, <1>8
<1>10. \A j \in 1..n : pattern[j] = segment[j]
  BY <1>1, <1>7
<1> QED BY <1>5, <1>9, <1>10, SeqEqual

LEMMA StarMatches ==
  ASSUME NEW segment \in Seq(STRING)
  PROVE  SegmentMatch(<<"*">>, segment)
<1> DEFINE m == SegmentCharsMatch(<<"*">>, segment)
           l == Len(segment)
<1>1. Len(<<"*">>) = 1 /\ <<"*">>[1] = "*" /\ 1 \in 1..1 /\ 1 \in Nat
  OBVIOUS
<1>2. l \in Nat
  BY LenProperties
<1>3. /\ \A s \in 1..(l + 1) : m[1 + 1][s] <=> s > l
      /\ \A s \in 1..(l + 1) : m[1][s] <=> CharsRow(<<"*">>, segment, 1, s, m[1 + 1])
  <2> DEFINE star == <<"*">>
  <2>1. Len(star) \in Nat /\ Len(star) = 1 /\ Len(segment) \in Nat
    BY <1>1, <1>2
  <2> HIDE DEF star
  <2>2. LET u == SegmentCharsMatch(star, segment)
            n == Len(star)
        IN /\ \A s \in 1..(Len(segment) + 1) : u[n + 1][s] <=> s > Len(segment)
           /\ \A p \in 1..n, s \in 1..(Len(segment) + 1) :
                u[p][s] <=> CharsRow(star, segment, p, s, u[p + 1])
    BY <2>1, CharsEquation
  <2>3. m = SegmentCharsMatch(star, segment)
    BY DEF star
  <2> HIDE DEF m
  <2>4. \A s \in 1..(l + 1) : m[1][s] <=> CharsRow(star, segment, 1, s, m[1 + 1])
    BY <1>1, <2>1, <2>2, <2>3
  <2>5. \A s \in 1..(l + 1) : m[1 + 1][s] <=> s > l
    BY <2>1, <2>2, <2>3
  <2> QED BY <2>4, <2>5 DEF star
<1>4. l = Len(segment)
  OBVIOUS
<1>5. m[1][1] => SegmentMatch(<<"*">>, segment)
  BY DEF SegmentMatch
<1> HIDE DEF m, l
<1>6. l + 1 \in 1..(l + 1) /\ l + 1 > l /\ 1 \in 1..(l + 1)
  BY <1>2
<1>7. m[1 + 1][l + 1]
  BY <1>3, <1>6
<1>8. CharsRow(<<"*">>, segment, 1, 1, m[1 + 1])
  BY <1>1, <1>4, <1>6, <1>7 DEF CharsRow
<1> QED BY <1>3, <1>5, <1>6, <1>8

\* `**/*` matches every path.
LEMMA EverythingMatches ==
  ASSUME NEW path \in Segmented
  PROVE  GlobMatches(Everything, path)
<1> DEFINE m == SegmentsMatch(Everything, path)
           l == Len(path)
<1>1. <<"*">> # AnyDepth
  <2>1. Len(AnyDepth) = 2 /\ Len(<<"*">>) = 1
    BY DEF AnyDepth
  <2> QED BY <2>1
<1>2. Len(Everything) = 2 /\ Everything[1] = AnyDepth /\ Everything[2] = <<"*">> /\ 2 \in Nat
  BY DEF Everything
<1>3. path \in Seq(Seq(STRING)) /\ l \in Nat /\ l # 0
  <2>1. path \in Seq(Seq(STRING)) /\ path # <<>>
    BY DEF Segmented
  <2> QED BY <2>1, LenProperties, EmptySeq
<1>4. path[l] \in Seq(STRING)
  <2>1. l \in 1..l
    BY <1>3
  <2> QED BY <1>3, <2>1, ElementOfSeq
<1>5. /\ \A s \in 1..(l + 1) : m[2 + 1][s] <=> s > l
      /\ \A p \in 1..2, s \in 1..(l + 1) : m[p][s] <=> SegmentsRow(Everything, path, p, s, m[p + 1])
  BY <1>2, <1>3, SegmentsEquation
<1>6. l = Len(path)
  OBVIOUS
<1>7. m[1][1] => GlobMatches(Everything, path)
  BY DEF GlobMatches
<1> HIDE DEF m, l
<1>8. /\ l \in 1..(l + 1) /\ l + 1 \in 1..(l + 1) /\ 1 \in 1..(l + 1) /\ l + 1 > l /\ ~(l > l)
      /\ ~(1 > l) /\ l >= 1 /\ 1 \in 1..2 /\ 2 \in 1..2 /\ 1 + 1 = 2
  BY <1>3
<1>9. m[2][l]
  <2>1. m[2 + 1][l + 1]
    BY <1>5, <1>8
  <2>2. SegmentMatch(<<"*">>, path[l])
    BY <1>4, StarMatches
  <2>3. SegmentsRow(Everything, path, 2, l, m[2 + 1])
    BY <1>1, <1>2, <1>6, <1>8, <2>1, <2>2 DEF SegmentsRow
  <2> QED BY <1>5, <1>8, <2>3
<1>10. SegmentsRow(Everything, path, 1, 1, m[1 + 1])
  <2>1. l \in 1..(l + 1) /\ m[1 + 1][l]
    BY <1>8, <1>9
  <2> QED BY <1>2, <1>6, <1>8, <2>1 DEF SegmentsRow
<1> QED BY <1>5, <1>7, <1>8, <1>10

\* What follows in a pattern matches what follows in the path, from some place on.
LEMMA RestMatches ==
  ASSUME NEW pattern \in Seq(Seq(STRING)), NEW path \in Seq(Seq(STRING)),
         NEW s \in 1..(Len(pattern) + 1), NEW t \in 1..(Len(path) + 1),
         SegmentsMatch(pattern, path)[s][t],
         NEW u \in s..(Len(pattern) + 1)
  PROVE  \E v \in t..(Len(path) + 1) : SegmentsMatch(pattern, path)[u][v]
<1> DEFINE m == SegmentsMatch(pattern, path)
           n == Len(pattern)
           l == Len(path)
           Bad == {k \in s..(n + 1) : ~\E v \in t..(l + 1) : m[k][v]}
<1>1. n \in Nat /\ l \in Nat
  BY LenProperties
<1>2. /\ \A v \in 1..(l + 1) : m[n + 1][v] <=> v > l
      /\ \A k \in 1..n, v \in 1..(l + 1) : m[k][v] <=> SegmentsRow(pattern, path, k, v, m[k + 1])
  BY <1>1, SegmentsEquation
<1>3. n = Len(pattern) /\ l = Len(path) /\ m[s][t]
  OBVIOUS
<1> HIDE DEF m, n, l
<1>4. s \in Nat /\ 1 <= s /\ s <= n + 1 /\ t \in Nat /\ 1 <= t /\ t <= l + 1
  BY <1>1, <1>3
<1>5. ASSUME Bad # {} PROVE FALSE
  <2>1. Bad \in SUBSET Nat
    BY <1>1, <1>4
  <2> HIDE DEF Bad
  <2>2. PICK k \in Bad : \A j \in Bad : k <= j
    BY <1>5, <2>1, LeastElement
  <2>3. k \in s..(n + 1) /\ ~\E v \in t..(l + 1) : m[k][v]
    BY <2>2 DEF Bad
  <2>4. k # s
    <3>1. t \in t..(l + 1)
      BY <1>1, <1>4
    <3> QED BY <1>3, <2>3, <3>1
  <2> DEFINE i == k - 1
  <2>5. i \in 1..n /\ i \in s..(n + 1) /\ ~(k <= i) /\ i + 1 = k
    BY <1>1, <1>4, <2>3, <2>4
  <2>6. \E v \in t..(l + 1) : m[i][v]
    BY <2>2, <2>5 DEF Bad
  <2> HIDE DEF i
  <2>7. PICK v \in t..(l + 1) : m[i][v]
    BY <2>6
  <2>8. v \in 1..(l + 1) /\ v \in Nat /\ t <= v /\ v <= l + 1
    BY <1>1, <1>4
  <2>9. SegmentsRow(pattern, path, i, v, m[k])
    BY <1>2, <2>5, <2>7, <2>8
  <2>10. CASE v > l
    <3>1. \A q \in i..n : pattern[q] = AnyDepth
      BY <1>3, <2>9, <2>10 DEF SegmentsRow
    <3>2. CASE k = n + 1
      BY <1>2, <2>3, <2>7, <2>8, <2>10, <3>2
    <3>3. CASE k # n + 1
      <4>1. k \in 1..n /\ \A q \in k..n : q \in i..n
        BY <1>1, <1>4, <2>3, <2>5, <3>3
      <4>2. SegmentsRow(pattern, path, k, v, m[k + 1])
        BY <1>3, <2>10, <3>1, <4>1 DEF SegmentsRow
      <4> QED BY <1>2, <2>3, <2>8, <4>1, <4>2
    <3> QED BY <3>2, <3>3
  <2>11. CASE ~(v > l) /\ pattern[i] = AnyDepth
    <3>1. \E w \in v..(l + 1) : m[k][w]
      BY <1>3, <2>9, <2>11 DEF SegmentsRow
    <3>2. \A w \in v..(l + 1) : w \in t..(l + 1)
      BY <1>1, <1>4, <2>8
    <3> QED BY <2>3, <3>1, <3>2
  <2>12. CASE ~(v > l) /\ pattern[i] # AnyDepth
    <3>1. m[k][v + 1]
      BY <1>3, <2>9, <2>12 DEF SegmentsRow
    <3>2. v + 1 \in t..(l + 1)
      BY <1>1, <1>4, <2>8, <2>12
    <3> QED BY <2>3, <3>1, <3>2
  <2> QED BY <2>10, <2>11, <2>12
<1> QED BY <1>3, <1>5 DEF m

\* A pattern without wildcards inside a segment that matches a pattern, taken
\* for a path, matches every path that one matches.
LEMMA MatchComposes ==
  ASSUME NEW p \in Seq(Seq(STRING)), NEW c \in Seq(Seq(STRING)), NEW x \in Seq(Seq(STRING)),
         \A i \in DOMAIN p : p[i] = AnyDepth \/ ToSet(p[i]) \cap {"*", "?"} = {},
         GlobMatches(p, c), GlobMatches(c, x)
  PROVE  GlobMatches(p, x)
<1> DEFINE P == SegmentsMatch(p, c)
           C == SegmentsMatch(c, x)
           X == SegmentsMatch(p, x)
           n == Len(p)
           k == Len(c)
           l == Len(x)
           From(i) == \A s \in 1..(k + 1), t \in 1..(l + 1) : P[i][s] /\ C[s][t] => X[i][t]
           Bad == {d \in 0..n : ~From((n + 1) - d)}
<1>1. n \in Nat /\ k \in Nat /\ l \in Nat /\ DOMAIN p = 1..n
  BY LenProperties
<1>2. /\ \A s \in 1..(k + 1) : P[n + 1][s] <=> s > k
      /\ \A i \in 1..n, s \in 1..(k + 1) : P[i][s] <=> SegmentsRow(p, c, i, s, P[i + 1])
  BY <1>1, SegmentsEquation
<1>3. /\ \A t \in 1..(l + 1) : C[k + 1][t] <=> t > l
      /\ \A s \in 1..k, t \in 1..(l + 1) : C[s][t] <=> SegmentsRow(c, x, s, t, C[s + 1])
  BY <1>1, SegmentsEquation
<1>4. /\ \A t \in 1..(l + 1) : X[n + 1][t] <=> t > l
      /\ \A i \in 1..n, t \in 1..(l + 1) : X[i][t] <=> SegmentsRow(p, x, i, t, X[i + 1])
  BY <1>1, SegmentsEquation
<1>5. P[1][1] /\ C[1][1] /\ (X[1][1] => GlobMatches(p, x))
  BY DEF GlobMatches
<1>6. n = Len(p) /\ k = Len(c) /\ l = Len(x)
  OBVIOUS
<1>7. \A s \in 1..(k + 1), t \in 1..(l + 1) : C[s][t] =>
        \A u \in s..(k + 1) : \E v \in t..(l + 1) : C[u][v]
  BY RestMatches
<1> HIDE DEF P, C, X, n, k, l
\* The last segment of the child's pattern ends where the path ends.
<1>8. From(n + 1)
  <2> SUFFICES ASSUME NEW s \in 1..(k + 1), NEW t \in 1..(l + 1), P[n + 1][s], C[s][t]
               PROVE  X[n + 1][t]
    OBVIOUS
  <2>1. s = k + 1
    BY <1>1, <1>2
  <2> QED BY <1>3, <1>4, <2>1
<1>9. ASSUME NEW i \in 1..n, From(i + 1) PROVE From(i)
  <2> SUFFICES ASSUME NEW s \in 1..(k + 1), NEW t \in 1..(l + 1), P[i][s], C[s][t]
               PROVE  X[i][t]
    OBVIOUS
  <2>1. SegmentsRow(p, c, i, s, P[i + 1])
    BY <1>2
  <2>2. /\ i \in Nat /\ s \in Nat /\ t \in Nat /\ 1 <= i /\ i <= n
        /\ 1 <= s /\ s <= k + 1 /\ 1 <= t /\ t <= l + 1
    BY <1>1
  <2>3. X[i][t] <=> SegmentsRow(p, x, i, t, X[i + 1])
    BY <1>4
  <2>4. CASE s > k
    <3>1. \A q \in i..n : p[q] = AnyDepth
      BY <1>6, <2>1, <2>4 DEF SegmentsRow
    <3>2. s = k + 1
      BY <1>1, <2>2, <2>4
    <3>3. t > l
      BY <1>3, <3>2
    <3> QED BY <1>6, <2>3, <3>1, <3>3 DEF SegmentsRow
  <2>5. CASE ~(s > k) /\ p[i] = AnyDepth
    <3>1. PICK u \in s..(k + 1) : P[i + 1][u]
      BY <1>6, <2>1, <2>5 DEF SegmentsRow
    <3>2. PICK v \in t..(l + 1) : C[u][v]
      BY <1>7
    <3>3. u \in 1..(k + 1) /\ v \in 1..(l + 1)
      BY <1>1, <2>2
    <3>4. X[i + 1][v]
      BY <1>9, <3>1, <3>2, <3>3
    <3>5. CASE ~(t > l)
      BY <1>6, <2>3, <2>5, <3>4, <3>5 DEF SegmentsRow
    <3>6. CASE t > l
      <4>1. v > l
        BY <1>1, <2>2, <3>6
      <4>2. \A q \in (i + 1)..n : p[q] = AnyDepth
        <5>1. CASE i + 1 \in 1..n
          <6>1. SegmentsRow(p, x, i + 1, v, X[(i + 1) + 1])
            BY <1>4, <3>3, <3>4, <5>1
          <6> QED BY <1>6, <4>1, <6>1 DEF SegmentsRow
        <5>2. CASE i + 1 \notin 1..n
          BY <1>1, <2>2, <5>2
        <5> QED BY <5>1, <5>2
      <4>3. \A q \in i..n : q = i \/ q \in (i + 1)..n
        BY <1>1, <2>2
      <4>4. \A q \in i..n : p[q] = AnyDepth
        BY <2>5, <4>2, <4>3
      <4> QED BY <1>6, <2>3, <3>6, <4>4 DEF SegmentsRow
    <3> QED BY <3>5, <3>6
  <2>6. CASE ~(s > k) /\ p[i] # AnyDepth
    <3>1. SegmentMatch(p[i], c[s]) /\ P[i + 1][s + 1]
      BY <1>6, <2>1, <2>6 DEF SegmentsRow
    <3>2. s \in 1..k /\ s + 1 \in 1..(k + 1)
      BY <1>1, <2>2, <2>6
    <3>3. p[i] \in Seq(STRING) /\ c[s] \in Seq(STRING) /\ ToSet(p[i]) \cap {"*", "?"} = {}
      BY <1>1, <1>6, <2>6, <3>2, ElementOfSeq
    <3>4. p[i] = c[s]
      BY <3>1, <3>3, LiteralSegment
    <3>5. SegmentsRow(c, x, s, t, C[s + 1])
      BY <1>3, <3>2
    <3>6. ~(t > l)
      <4>1. s \in s..Len(c)
        BY <1>1, <1>6, <3>2
      <4> QED BY <1>6, <2>6, <3>4, <3>5, <4>1 DEF SegmentsRow
    <3>7. SegmentMatch(c[s], x[t]) /\ C[s + 1][t + 1]
      BY <1>6, <2>6, <3>4, <3>5, <3>6 DEF SegmentsRow
    <3>8. t + 1 \in 1..(l + 1)
      BY <1>1, <2>2, <3>6
    <3>9. X[i + 1][t + 1]
      BY <1>9, <3>1, <3>2, <3>7, <3>8
    <3> QED BY <1>6, <2>3, <2>6, <3>4, <3>6, <3>7, <3>9 DEF SegmentsRow
  <2> QED BY <2>4, <2>5, <2>6
<1>10. ASSUME Bad # {} PROVE FALSE
  <2>1. Bad \in SUBSET Nat
    BY <1>1
  <2> HIDE DEF Bad
  <2>2. PICK d \in Bad : \A e \in Bad : d <= e
    BY <1>10, <2>1, LeastElement
  <2>3. d \in 0..n /\ ~From((n + 1) - d)
    BY <2>2 DEF Bad
  <2>4. d # 0
    <3>1. (n + 1) - 0 = n + 1
      BY <1>1
    <3> HIDE DEF From
    <3> QED BY <1>8, <2>3, <3>1
  <2> DEFINE i == (n + 1) - d
  <2>5. i \in 1..n /\ d - 1 \in 0..n /\ ~(d <= d - 1) /\ (n + 1) - (d - 1) = i + 1
    BY <1>1, <2>3, <2>4
  <2>6. From((n + 1) - (d - 1))
    <3> HIDE DEF From
    <3> QED BY <2>2, <2>5 DEF Bad
  <2>7. From(i + 1)
    <3> HIDE DEF From, i
    <3> QED BY <2>5, <2>6
  <2>8. From(i)
    <3> HIDE DEF From, i
    <3> QED BY <1>9, <2>5, <2>7
  <2> QED BY <2>3, <2>8
<1>11. From(1)
  <2>1. n \in 0..n /\ (n + 1) - n = 1
    BY <1>1
  <2> HIDE DEF From
  <2>2. From((n + 1) - n)
    BY <1>10, <2>1
  <2> QED BY <2>1, <2>2
<1>12. 1 \in 1..(k + 1) /\ 1 \in 1..(l + 1)
  BY <1>1
<1> QED BY <1>5, <1>11, <1>12

LEMMA TemplateScopes ==
  ASSUME NEW scope \in Scopes
  PROVE  scope \subseteq Segmented
<1>1. PICK t \in Templates : scope \in {t.readScope, t.writeScope}
  BY DEF Scopes
<1>2. CASE t = RootTemplate
  BY <1>1, <1>2, PlanningAssumption DEF RootTemplate
<1>3. CASE t # RootTemplate
  <2>1. PICK p \in PlanArgs : t \in {IntoNodeTemplate(p.items[i], i) : i \in DOMAIN p.items}
    BY <1>3 DEF Templates
  <2>2. PICK i \in DOMAIN p.items : t = IntoNodeTemplate(p.items[i], i)
    BY <2>1
  <2>3. t.readScope = p.items[i].readScope /\ t.writeScope = p.items[i].writeScope
    BY <2>2 DEF IntoNodeTemplate
  <2>4. p.items[i].readScope \union p.items[i].writeScope \subseteq Segmented
    BY PlanningAssumption
  <2> QED BY <1>1, <2>3, <2>4
<1> QED BY <1>2, <1>3

\* The rule for scopes: what fits a parent without wildcards inside a segment
\* allows no other path (ensure_child_scopes_within_parent).
LEMMA FittingNarrows ==
  ASSUME NEW child \in Scopes, NEW parent \in Scopes, Fits(child, parent)
  PROVE  Narrows(child, parent)
<1> SUFFICES ASSUME Plain(parent), NEW x \in Universe, PathAllowed(child, x), child # parent
             PROVE  PathAllowed(parent, x)
  BY DEF Narrows, AllowedBy, Allowed
<1>1. x \in Segmented /\ child \subseteq Segmented /\ parent \subseteq Segmented
  BY PlanningAssumption, TemplateScopes
<1>2. PICK c \in child : GlobMatches(c, x)
  BY DEF PathAllowed
<1>3. PICK p \in parent : p = Everything \/ p = c \/ GlobMatches(p, c)
  BY DEF Fits, WithinParent, ScopeAllowedByParent, ParentScopeAllowsChild, PathAllowed
<1>4. /\ p \in Seq(Seq(STRING)) /\ c \in Seq(Seq(STRING)) /\ x \in Seq(Seq(STRING))
  BY <1>1 DEF Segmented
<1>5. GlobMatches(p, x)
  <2>1. CASE p = Everything
    BY <1>1, <2>1, EverythingMatches
  <2>2. CASE p = c
    BY <1>2, <2>2
  <2>3. CASE p # Everything /\ p # c
    <3>1. ASSUME NEW i \in DOMAIN p PROVE p[i] = AnyDepth \/ ToSet(p[i]) \cap {"*", "?"} = {}
      BY <2>3 DEF Plain
    <3>2. GlobMatches(p, c)
      BY <1>3, <2>3
    <3> QED BY <1>2, <1>4, <3>1, <3>2, MatchComposes
  <2> QED BY <2>1, <2>2, <2>3
<1> QED BY <1>5 DEF PathAllowed

-----------------------------------------------------------------------------
(* The theorems.                                                           *)

LEMMA InitHolds == Init => PlanningInv
<1> SUFFICES ASSUME Init PROVE PlanningInv
  OBVIOUS
<1> DEFINE node == NewNode(<<>>, None, RootTemplate)
           b == NewEngine(1, node)
<1>1. node \in NodeType
  <2>1. RootTemplate \in Templates
    BY DEF Templates
  <2>2. DOMAIN WorkSize = 1..5 /\ WorkSize[2] = "Small" /\ 2 \in 1..5
    BY DEF WorkSize
  <2>3. "Small" \in ToSet(WorkSize) /\ <<>> \in Seq(Nat) /\ "New" \in Status /\ 0 \in Nat
    BY <2>2 DEF ToSet, Status
  <2>4. /\ RootTemplate.key \in {t.key : t \in Templates}
        /\ RootTemplate.policy \in {t.policy : t \in Templates}
        /\ RootTemplate.taskType \in {t.taskType : t \in Templates}
        /\ RootTemplate.readScope \in Scopes /\ RootTemplate.writeScope \in Scopes
        /\ RootTemplate.size = "Small" /\ RootTemplate.plan = "Execute"
    BY <2>1, TemplateFacts DEF Scopes
  <2> QED BY <2>3, <2>4 DEF NewNode, NodeType
<1>2. /\ node.status = "New" /\ node.children = <<>>
      /\ node.candidate = None /\ node.accepted = None /\ 1 \in Nat
  BY DEF NewNode
<1>3. DOMAIN engines = {Root} /\ engines[Root] = b /\ outcome = "running" /\ setbacks = 0
  BY DEF Init
<1> HIDE DEF node
<1>4. EngineOK(b) /\ CleanOK(b, approved) /\ b.root = 1
  BY <1>1, <1>2, NewEngineOK
<1> HIDE DEF b
<1>5. EngineShape(b) /\ Root \in Seq(Nat) /\ 0 \in 0..MaxSetbacks
  BY <1>4, PlanningAssumption DEF EngineOK, Root
<1>6. TypeOK
  BY <1>3, <1>5 DEF TypeOK
<1> QED BY <1>3, <1>4, <1>6 DEF PlanningInv

LEMMA NextKeeps ==
  ASSUME PlanningInv, [Next]_vars
  PROVE  PlanningInv'
<1>1. CASE Report
  <2>1. engines' = engines /\ setbacks' = setbacks /\ approved' = approved
    BY <1>1 DEF Report
  <2>2. outcome' \in Final
    <3>1. Root \in DOMAIN engines /\ Over(engines[Root])
      BY <1>1 DEF Report, Running
    <3>2. engines[Root].root = 1
      BY <3>1 DEF PlanningInv
    <3> QED BY <1>1, <3>1, <3>2 DEF Report, Over
  <2> QED BY <2>1, <2>2 DEF PlanningInv, TypeOK
<1>2. CASE \E e \in DOMAIN engines : Step(e)
  <2>1. PICK e \in DOMAIN engines : Step(e)
    BY <1>2
  <2> QED
    BY <2>1, ResolveKeeps, SpecifiedKeeps, PlannedKeeps, ExecutedKeeps, ResumeKeeps,
       CombinedKeeps, VerifyAcceptsKeeps, VerifyRefusesKeeps, AgentFailsKeeps, JoinKeeps
       DEF Step
<1>3. CASE UNCHANGED vars
  BY <1>3 DEF vars, PlanningInv, TypeOK
<1> QED BY <1>1, <1>2, <1>3 DEF Next

\* The invariant: in every engine ids are dense, every edge of the tree is
\* seen from both ends, the work of a node and the memo of a key are the
\* node's and the key's, one node at a time is at work under parents that
\* wait for it; and an engine keeps the child of a branch as it was until the
\* branch is joined.
THEOREM Invariance == Spec => []PlanningInv
<1>1. Init => PlanningInv
  BY InitHolds
<1>2. PlanningInv /\ [Next]_vars => PlanningInv'
  BY NextKeeps
<1> QED BY <1>1, <1>2, PTL DEF Spec

\* The types, and that the ids of an engine are dense: the nodes from its
\* first on, the artifacts from 1 on, whatever was merged into it.
THEOREM TypeCorrect == Spec => []TypeOK
<1>1. PlanningInv => TypeOK
  BY DEF PlanningInv
<1> QED BY <1>1, Invariance, PTL

LEMMA MeaningOfIds ==
  ASSUME NEW g, EngineOK(g)
  PROVE  /\ \A id \in DOMAIN g.nodes : NodeIdsAgree(g, id)
         /\ \A a \in DOMAIN g.artifacts : ArtifactIdsAgree(g, a)
         /\ \A k \in DOMAIN g.memo :
              g.memo[k] \in DOMAIN g.artifacts /\ Text(g, g.memo[k]).key = k
         /\ \A entry \in g.log : Holds(g, entry.node, entry.task)
<1>1. EngineShape(g) /\ DOMAIN g.artifacts = 1..g.nextArtifact
  BY DEF EngineOK, EngineShape
<1>2. ASSUME NEW id \in DOMAIN g.nodes PROVE NodeIdsAgree(g, id)
  <2> DEFINE node == g.nodes[id]
             p == node.parent
  <2>1. ChildrenOK(g, id) /\ WorkOK(g, id)
    BY DEF EngineOK
  <2>2. id # g.root => Holds(g, p, Front(node.task))
    <3> SUFFICES ASSUME id # g.root PROVE Holds(g, p, Front(node.task))
      OBVIOUS
    <3>1. p \in DOMAIN g.nodes
      BY ParentFacts
    <3>2. PICK i \in DOMAIN g.nodes[p].children : node.task = Append(g.nodes[p].task, i)
      BY ParentFacts
    <3> HIDE DEF p, node
    <3>3. i \in Nat /\ g.nodes[p].task \in Seq(Nat)
      BY <1>1, <3>1, NodeFacts
    <3>4. Front(node.task) = g.nodes[p].task
      BY <3>2, <3>3, AppendFacts
    <3> QED BY <3>1, <3>4 DEF Holds
  <2>3. \A i \in DOMAIN node.children : Holds(g, node.children[i], Append(node.task, i))
    BY <2>1 DEF ChildrenOK, Holds
  <2>4. /\ node.candidate # None =>
             node.candidate \in DOMAIN g.artifacts /\ Text(g, node.candidate).by = node.task
        /\ node.accepted # None =>
             node.accepted \in DOMAIN g.artifacts /\ Text(g, node.accepted).key = node.key
    BY <1>1, <2>1 DEF WorkOK, ServesKey
  <2> QED BY <2>2, <2>3, <2>4 DEF NodeIdsAgree
<1>3. ASSUME NEW a \in DOMAIN g.artifacts PROVE ArtifactIdsAgree(g, a)
  <2> DEFINE x == g.artifacts[a]
  <2>1. Holds(g, x.node, x.text.by) /\ SameTexts(g, x.children, x.text.from)
    BY DEF EngineOK, MadeOK
  <2>2. x.children \in Seq(1..g.nextArtifact) /\ Len(x.text.from) = Len(x.children)
        /\ \A i \in DOMAIN x.children : Text(g, x.children[i]) = x.text.from[i]
    BY <2>1 DEF SameTexts
  <2>3. \A i \in DOMAIN x.children : x.children[i] \in 1..g.nextArtifact
    BY <2>2, LenProperties, ElementOfSeq
  <2> QED BY <1>1, <2>1, <2>2, <2>3 DEF ArtifactIdsAgree, HoldsText, Text
<1>4. \A k \in DOMAIN g.memo :
        g.memo[k] \in DOMAIN g.artifacts /\ Text(g, g.memo[k]).key = k
  BY <1>1 DEF EngineOK, MemoOK, ServesKey
<1>5. \A entry \in g.log : Holds(g, entry.node, entry.task)
  BY DEF EngineOK, LogOK
<1> QED BY <1>2, <1>3, <1>4, <1>5

\* Whatever ids a branch gave on its own, however groups are nested and in
\* whatever order branches are joined: every id an engine keeps, in nodes,
\* artifacts, the memo table and the log, means what it meant when it was
\* given.
THEOREM IdsKeep == Spec => []IdsKeepTheirMeaning
<1>1. PlanningInv => IdsKeepTheirMeaning
  <2> SUFFICES ASSUME PlanningInv, NEW e \in DOMAIN engines
               PROVE  LET g == engines[e] IN
                        /\ \A id \in DOMAIN g.nodes : NodeIdsAgree(g, id)
                        /\ \A a \in DOMAIN g.artifacts : ArtifactIdsAgree(g, a)
                        /\ \A k \in DOMAIN g.memo :
                             g.memo[k] \in DOMAIN g.artifacts /\ Text(g, g.memo[k]).key = k
                        /\ \A entry \in g.log : Holds(g, entry.node, entry.task)
    BY DEF IdsKeepTheirMeaning
  <2>1. EngineOK(engines[e])
    BY DEF PlanningInv
  <2> QED BY <2>1, MeaningOfIds
<1> QED BY <1>1, Invariance, PTL

\* Work is accepted by a verdict without a hard violation, or is unchanged
\* Tiny work, along every route: verified, combined, taken from the memo
\* table, or merged from a branch.
THEOREM CleanVerdicts == Spec => []AcceptedOnACleanVerdict
<1>1. PlanningInv => AcceptedOnACleanVerdict
  BY DEF PlanningInv, CleanOK, Clean, AcceptedOnACleanVerdict
<1> QED BY <1>1, Invariance, PTL

\* However deep the tree, by whichever plans and joins it grew: a child's
\* scopes allow no path its parent's do not, as long as the parent's have no
\* wildcard inside a segment.
THEOREM NarrowScopes == Spec => []ScopesNarrow
<1>1. PlanningInv => ScopesNarrow
  <2> SUFFICES ASSUME PlanningInv, NEW e \in DOMAIN engines, NEW id \in DOMAIN engines[e].nodes,
                      NEW i \in DOMAIN engines[e].nodes[id].children
               PROVE  LET nodes == engines[e].nodes
                          child == nodes[nodes[id].children[i]]
                      IN /\ Narrows(child.readScope, nodes[id].readScope)
                         /\ Narrows(child.writeScope, nodes[id].writeScope)
    BY DEF ScopesNarrow
  <2> DEFINE g == engines[e]
             c == g.nodes[id].children[i]
  <2>1. EngineShape(g) /\ ChildrenOK(g, id)
    BY DEF PlanningInv, EngineOK
  <2>2. /\ c \in DOMAIN g.nodes
        /\ Fits(g.nodes[c].readScope, g.nodes[id].readScope)
        /\ Fits(g.nodes[c].writeScope, g.nodes[id].writeScope)
    BY <2>1 DEF ChildrenOK
  <2>3. g.nodes[c] \in NodeType /\ g.nodes[id] \in NodeType
    BY <2>1, <2>2, NodeFacts
  <2> HIDE DEF c
  <2>4. /\ g.nodes[c].readScope \in Scopes /\ g.nodes[id].readScope \in Scopes
        /\ g.nodes[c].writeScope \in Scopes /\ g.nodes[id].writeScope \in Scopes
    BY <2>3 DEF NodeType
  <2>5. /\ Narrows(g.nodes[c].readScope, g.nodes[id].readScope)
        /\ Narrows(g.nodes[c].writeScope, g.nodes[id].writeScope)
    BY <2>2, <2>4, FittingNarrows
  <2> QED BY <2>5 DEF c
<1> QED BY <1>1, Invariance, PTL
=============================================================================

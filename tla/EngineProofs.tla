---------------------------- MODULE EngineProofs ----------------------------
(***************************************************************************)
(* Proofs about Engine for every bound on nodes, plans, attempts and       *)
(* depth, every set of keys and paths, and whatever agents leave.          *)
(***************************************************************************)
EXTENDS Engine, Integers, SequenceTheorems, WellFoundedInduction, TLAPS

-----------------------------------------------------------------------------
(* The node nearest to the root that would break a claim.                  *)

\* A set of natural numbers has a least element.
LEMMA LeastElement ==
  ASSUME NEW T \in SUBSET Nat, T # {}
  PROVE  \E x \in T : \A y \in T : x <= y
<1> DEFINE R == OpToRel(<, Nat)
<1>1. \A x, y \in Nat : y < x => <<y, x>> \in R
  BY DEF OpToRel
<1>2. IsWellFoundedOn(R, Nat)
  BY NatLessThanWellFounded
<1> HIDE DEF R
<1>3. PICK x \in T : \A y \in T : ~(<<y, x>> \in R)
  BY <1>2, WFMin
<1>4. \A y \in T : y \in Nat /\ x \in Nat /\ ~(y < x)
  BY <1>1, <1>3
<1>5. QED
  BY <1>3, <1>4

-----------------------------------------------------------------------------

Early == {"idle", "resolve", "specify", "plan", "children"}

Past == {"execute", "combine", "check", "verify", "some", "none"}

\* The nodes form a tree whose edges lead from smaller ids to larger ones.
TreeInv ==
  /\ \A n \in Node : n > created =>
       pc[n] = "idle" /\ children[n] = <<>> /\ status[n] = "New"
  /\ parent[Root] = 0
  /\ \A n \in Node : 1 < n /\ n <= created =>
       parent[n] \in Node /\ n \in ChildrenOf(parent[n])
  /\ \A n \in Node : \A i \in DOMAIN children[n] :
       children[n][i] > n /\ children[n][i] <= created /\ parent[children[n][i]] = n
  /\ \A n \in Node : \A i, j \in DOMAIN children[n] :
       children[n][i] = children[n][j] => i = j
  /\ \A n \in Node : pc[n] \in {"idle", "resolve", "specify", "plan"} => children[n] = <<>>
  /\ \A n \in Node : children[n] # <<>> => plan[n] \in {"Stage", "Parallel"}

\* A stage starts its children one after the other; a branch has an engine
\* of its own until it has ended and is joined.
BranchInv ==
  /\ engine[Root] = Root
  /\ \A n \in Node : engine[n] <= n
  /\ \A n \in Node : \A i, j \in DOMAIN children[n] :
       plan[n] = "Stage" /\ i < j /\ pc[children[n][j]] # "idle"
         => pc[children[n][i]] = "some"
  /\ \A n \in Node : \A c \in ChildrenOf(n) :
       /\ plan[n] = "Stage" => engine[c] = engine[n]
       /\ plan[n] = "Parallel" =>
            engine[c] = c \/ (engine[c] = engine[n] /\ pc[c] \in {"some", "none"})

Quiet(n) == \A c \in ChildrenOf(n) : pc[c] \in {"idle", "some", "none"} /\ engine[c] = engine[n]

Complete(n) == \A c \in ChildrenOf(n) : accepted[c] # NoArtifact

Asks(n) == status[n] = "WaitingForInfo" /\ accepted[n] = NoArtifact

Told(n) == \A c \in ChildrenOf(n) : Asks(c) => Asks(n)

\* What a node knows of its children once it no longer waits for them.
GroupInv ==
  \A n \in Node :
    /\ pc[n] \in Past \/ status[n] = "Committed" => Quiet(n)
    /\ pc[n] \in Past \ {"none"} \/ status[n] = "Committed" => Complete(n)
    /\ pc[n] \in {"some", "none"} => Told(n)

\* What a node knows of its own work.
NodeOK(n) ==
  /\ pc[n] \in Early => /\ accepted[n] = NoArtifact /\ candidate[n] = NoArtifact
                        /\ attempts[n] = 0 /\ status[n] # "Committed"
  /\ pc[n] = "execute" => attempts[n] = 0 \/ attempts[n] < MaxAttempts
  /\ candidate[n] # NoArtifact => candidate[n].node = n
  /\ pc[n] \in {"check", "verify"} => candidate[n] # NoArtifact
  /\ pc[n] = "verify" => ~IsUnsafe(n, candidate[n])
  /\ pc[n] = "some" => status[n] = "Committed"
  /\ pc[n] = "none" => status[n] \in {"WaitingForInfo", "Rejected", "Pruned"}

NodeInv == \A n \in Node : NodeOK(n)

\* An accepted artifact was made by a node that has been at work.
MakerInv == \A n \in Node : accepted[n] # NoArtifact => pc[accepted[n].node] \notin Early

ReportInv == report \in ReportStatus => pc[Root] \in {"some", "none"} /\ report = status[Root]

EngineInv ==
  /\ TypeOK /\ TreeInv /\ BranchInv /\ GroupInv /\ NodeInv /\ MakerInv /\ ReportInv
  /\ OnlyCheckedWorkIsAccepted /\ MemoIsBacked

-----------------------------------------------------------------------------
(* A step of one active node n: pc[n] becomes x, and of the other nodes    *)
(* nothing changes.                                                        *)

Others(n) ==
  \A m \in Node : m # n =>
    /\ pc'[m] = pc[m] /\ status'[m] = status[m] /\ plan'[m] = plan[m]
    /\ candidate'[m] = candidate[m] /\ accepted'[m] = accepted[m]
    /\ attempts'[m] = attempts[m] /\ size'[m] = size[m]

LEMMA ChildrenAreNodes ==
  ASSUME EngineInv, NEW n \in Node
  PROVE  /\ children[n] \in Seq(Node) /\ Len(children[n]) \in Nat
         /\ DOMAIN children[n] = 1..Len(children[n])
         /\ ChildrenOf(n) = {children[n][i] : i \in DOMAIN children[n]}
         /\ \A c \in ChildrenOf(n) : c \in Node /\ c > n /\ c <= created /\ parent[c] = n
         /\ children[n] = <<>> => ChildrenOf(n) = {}
<1>1. children[n] \in Seq(Node) /\ ChildrenOf(n) = {children[n][i] : i \in DOMAIN children[n]}
  BY DEF EngineInv, TypeOK, ChildrenOf, ToSet
<1>2. Len(children[n]) \in Nat /\ DOMAIN children[n] = 1..Len(children[n])
  BY <1>1
<1>3. \A i \in DOMAIN children[n] : children[n][i] \in Node
  BY <1>1
<1>4. QED
  BY <1>1, <1>2, <1>3 DEF EngineInv, TreeInv

LEMMA TreeStep ==
  ASSUME EngineInv, NEW n \in Node, Active(n), Others(n), UNCHANGED treeVars,
         plan'[n] = plan[n] \/ children[n] = <<>>, pc'[n] # "idle",
         pc'[n] \in {"resolve", "specify", "plan"} => children[n] = <<>>
  PROVE  TreeInv'
<1>1. n <= created /\ n \in Nat /\ created \in Nat
  BY DEF EngineInv, TypeOK, TreeInv, Active, Node
<1>2. \A m \in Node : m > created => m # n
  BY <1>1 DEF Node
<1>3. UNCHANGED <<created, parent, children>> /\ \A m \in Node : ChildrenOf(m)' = ChildrenOf(m)
  BY DEF treeVars, ChildrenOf
<1>4. \A m \in Node : m > created =>
        pc'[m] = "idle" /\ children[m] = <<>> /\ status'[m] = "New"
  BY <1>2 DEF EngineInv, TreeInv, Others
<1>5. \A m \in Node : pc'[m] \in {"idle", "resolve", "specify", "plan"} => children[m] = <<>>
  BY DEF EngineInv, TreeInv, Others
<1>6. \A m \in Node : children[m] # <<>> => plan'[m] \in {"Stage", "Parallel"}
  BY DEF EngineInv, TreeInv, Others
<1>7. QED
  BY <1>3, <1>4, <1>5, <1>6 DEF EngineInv, TreeInv

LEMMA BranchStep ==
  ASSUME EngineInv, NEW n \in Node, Active(n), Others(n), UNCHANGED <<treeVars, engine>>,
         plan'[n] = plan[n] \/ children[n] = <<>>
  PROVE  BranchInv'
<1>1. UNCHANGED <<created, children, engine>> /\ \A m \in Node : ChildrenOf(m)' = ChildrenOf(m)
  BY DEF treeVars, ChildrenOf
<1>2. pc[n] \notin {"idle", "some", "none"}
  BY DEF Active, Ended
<1>3. ASSUME NEW m \in Node, NEW i \in DOMAIN children[m], NEW j \in DOMAIN children[m],
             plan'[m] = "Stage", i < j, pc'[children[m][j]] # "idle"
      PROVE  pc'[children[m][i]] = "some"
  <2>1. plan[m] = "Stage" /\ children[m][i] \in Node /\ children[m][j] \in Node
    BY <1>3, ChildrenAreNodes DEF Others
  <2>2. pc[children[m][j]] # "idle"
    BY <1>2, <1>3, <2>1 DEF Others
  <2>3. pc[children[m][i]] = "some"
    BY <1>3, <2>1, <2>2 DEF EngineInv, BranchInv
  <2>4. QED
    BY <1>2, <2>1, <2>3 DEF Others
<1>4. ASSUME NEW m \in Node, NEW c \in ChildrenOf(m)
      PROVE  /\ plan'[m] = "Stage" => engine[c] = engine[m]
             /\ plan'[m] = "Parallel" =>
                  engine[c] = c \/ (engine[c] = engine[m] /\ pc'[c] \in {"some", "none"})
  <2>1. plan'[m] = plan[m] /\ c \in Node
    BY ChildrenAreNodes DEF Others
  <2>2. pc[c] \in {"some", "none"} => pc'[c] = pc[c]
    BY <1>2, <2>1 DEF Others
  <2>3. QED
    BY <2>1, <2>2 DEF EngineInv, BranchInv
<1>5. QED
  BY <1>1, <1>3, <1>4 DEF EngineInv, BranchInv

\* A node that takes a step is no longer waited for by anyone who has
\* stopped waiting.
LEMMA GroupStep ==
  ASSUME EngineInv, NEW n \in Node, Active(n), Others(n), UNCHANGED <<treeVars, engine>>,
         pc'[n] \in Past \/ status'[n] = "Committed" => Quiet(n),
         pc'[n] \in Past \ {"none"} \/ status'[n] = "Committed" => Complete(n),
         pc'[n] \in {"some", "none"} =>
           \A c \in ChildrenOf(n) : Asks(c) => status'[n] = "WaitingForInfo" /\ accepted'[n] = NoArtifact
  PROVE  GroupInv'
<1>1. UNCHANGED <<children, engine>> /\ \A m \in Node : ChildrenOf(m)' = ChildrenOf(m)
  BY DEF treeVars, ChildrenOf
<1>2. pc[n] \notin {"idle", "some", "none"}
  BY DEF Active, Ended
<1>3. ASSUME NEW m \in Node, Quiet(m)
      PROVE  /\ Quiet(m)' /\ (Complete(m) => Complete(m)')
             /\ \A c \in ChildrenOf(m) : c \in Node /\ c # n /\ Asks(c)' = Asks(c)
  <2>1. \A c \in ChildrenOf(m) : c \in Node /\ c # n
    BY <1>2, <1>3, ChildrenAreNodes DEF Quiet
  <2>2. \A c \in ChildrenOf(m) : /\ pc'[c] = pc[c] /\ accepted'[c] = accepted[c]
                                 /\ status'[c] = status[c]
    BY <2>1 DEF Others
  <2>3. QED
    BY <1>1, <1>3, <2>1, <2>2 DEF Quiet, Complete, Asks
<1>4. ASSUME NEW m \in Node
      PROVE  /\ pc'[m] \in Past \/ status'[m] = "Committed" => Quiet(m)'
             /\ pc'[m] \in Past \ {"none"} \/ status'[m] = "Committed" => Complete(m)'
             /\ pc'[m] \in {"some", "none"} => Told(m)'
  <2>1. CASE m = n
    <3>1. pc'[n] \in {"some", "none"} => Told(n)'
      <4> SUFFICES ASSUME pc'[n] \in {"some", "none"}, NEW c \in ChildrenOf(n), Asks(c)'
                   PROVE  Asks(n)'
        BY <1>1 DEF Told
      <4>1. Asks(c)
        BY <1>3 DEF Past
      <4>2. QED
        BY <4>1 DEF Asks
    <3>2. QED
      BY <1>3, <2>1, <3>1 DEF Past
  <2>2. CASE m # n
    <3>1. pc'[m] = pc[m] /\ status'[m] = status[m] /\ accepted'[m] = accepted[m]
      BY <2>2 DEF Others
    <3>2. /\ pc[m] \in Past \/ status[m] = "Committed" => Quiet(m)
          /\ pc[m] \in Past \ {"none"} \/ status[m] = "Committed" => Complete(m)
          /\ pc[m] \in {"some", "none"} => Told(m)
      BY DEF EngineInv, GroupInv
    <3>3. pc'[m] \in {"some", "none"} => Told(m)'
      <4> SUFFICES ASSUME pc'[m] \in {"some", "none"}, NEW c \in ChildrenOf(m), Asks(c)'
                   PROVE  Asks(m)'
        BY <1>1 DEF Told
      <4>1. Asks(c)
        BY <1>3, <3>1, <3>2 DEF Past
      <4>2. QED
        BY <3>1, <3>2, <4>1 DEF Told, Asks
    <3>4. QED
      BY <1>3, <3>1, <3>2, <3>3 DEF Past
  <2>3. QED
    BY <2>1, <2>2
<1>5. QED
  BY <1>4 DEF GroupInv

\* Nothing a node rests on is still open once it has its children's work.
LEMMA NothingOpen ==
  ASSUME EngineInv, NEW n \in Node, Active(n), pc[n] # "children"
  PROVE  Quiet(n) /\ Complete(n) /\ \A c \in ChildrenOf(n) : ~Asks(c)
<1>1. CASE pc[n] \in {"resolve", "specify", "plan"}
  <2>1. children[n] = <<>>
    BY <1>1 DEF EngineInv, TreeInv
  <2>2. ChildrenOf(n) = {}
    BY <2>1, ChildrenAreNodes
  <2>3. QED
    BY <2>2 DEF Quiet, Complete
<1>2. CASE pc[n] \in Past \ {"some", "none"}
  BY <1>2 DEF EngineInv, GroupInv, Complete, Asks
<1>3. QED
  BY <1>1, <1>2 DEF Active, Ended, Past, EngineInv, TypeOK, AgentOp

\* The step of one node keeps the invariant if what the node itself knows
\* and what is accepted stay right.
LEMMA NodeStep ==
  ASSUME EngineInv, NEW n \in Node, Active(n), Others(n),
         UNCHANGED <<treeVars, engine, report>>, TypeOK',
         plan'[n] = plan[n] \/ children[n] = <<>>,
         pc'[n] \notin {"idle", "children"},
         pc'[n] \in {"resolve", "specify", "plan"} => pc[n] \in {"resolve", "specify"},
         pc[n] = "children" =>
           /\ pc'[n] \in {"combine", "none"} => Quiet(n)
           /\ pc'[n] = "combine" => Complete(n)
           /\ pc'[n] = "none" =>
                \A c \in ChildrenOf(n) : Asks(c) => status'[n] = "WaitingForInfo" /\ accepted'[n] = NoArtifact
           /\ pc'[n] \in {"combine", "none", "error", "aborted"} /\ status'[n] # "Committed",
         NodeOK(n)', MakerInv', OnlyCheckedWorkIsAccepted', MemoIsBacked'
  PROVE  EngineInv'
<1>1. TreeInv'
  <2>1. pc[n] \in {"resolve", "specify"} => children[n] = <<>>
    BY DEF EngineInv, TreeInv
  <2>2. QED
    BY <2>1, TreeStep
<1>2. BranchInv'
  BY BranchStep
<1>3. GroupInv'
  <2>1. CASE pc[n] = "children"
    BY <2>1, GroupStep DEF Past
  <2>2. CASE pc[n] # "children"
    BY <2>2, NothingOpen, GroupStep
  <2>3. QED
    BY <2>1, <2>2
<1>4. NodeInv'
  <2>1. ASSUME NEW m \in Node, m # n PROVE NodeOK(m)'
    <3>1. NodeOK(m)
      BY DEF EngineInv, NodeInv
    <3>2. /\ pc'[m] = pc[m] /\ status'[m] = status[m] /\ candidate'[m] = candidate[m]
          /\ accepted'[m] = accepted[m] /\ attempts'[m] = attempts[m] /\ scope' = scope
      BY <2>1 DEF Others, treeVars
    <3>3. QED
      BY <3>1, <3>2 DEF NodeOK, IsUnsafe
  <2>2. QED
    BY <2>1 DEF NodeInv
<1>5. ReportInv'
  <2>1. Root \in Node
    BY EngineAssumption DEF Node, Root
  <2>2. n = Root => report \notin ReportStatus
    BY DEF EngineInv, ReportInv, Active, Ended
  <2>3. QED
    BY <2>1, <2>2 DEF EngineInv, ReportInv, Others
<1>6. QED
  BY <1>1, <1>2, <1>3, <1>4, <1>5 DEF EngineInv

-----------------------------------------------------------------------------
(* What is accepted.                                                       *)

\* A step that accepts nothing.
LEMMA NothingAccepted ==
  ASSUME EngineInv, NEW n \in Node, Others(n), UNCHANGED <<treeVars, engine, accepted, memo, approved>>,
         pc[n] \notin Early => pc'[n] \notin Early /\ size'[n] = size[n]
  PROVE  MakerInv' /\ OnlyCheckedWorkIsAccepted' /\ MemoIsBacked'
<1>1. ASSUME NEW m \in Node, accepted[m] # NoArtifact
      PROVE  /\ accepted[m].node \in Node
             /\ pc'[accepted[m].node] \notin Early
             /\ size'[accepted[m].node] = size[accepted[m].node]
  <2>1. accepted[m].node \in Node /\ pc[accepted[m].node] \notin Early
    BY <1>1 DEF EngineInv, TypeOK, MakerInv, Artifact
  <2>2. QED
    BY <2>1 DEF Others
<1>2. UNCHANGED <<key, scope, engine, accepted, memo, approved>>
  BY DEF treeVars
<1>3. MakerInv'
  BY <1>1, <1>2 DEF MakerInv
<1>4. OnlyCheckedWorkIsAccepted'
  BY <1>1, <1>2 DEF EngineInv, OnlyCheckedWorkIsAccepted
<1>5. MemoIsBacked'
  BY <1>2 DEF EngineInv, MemoIsBacked
<1>6. QED
  BY <1>3, <1>4, <1>5

\* A commit of work that was checked.
LEMMA CheckedWorkAccepted ==
  ASSUME EngineInv, NEW n \in Node, Others(n), UNCHANGED <<treeVars, engine, size>>,
         NEW a \in Artifact, Commit(n, a),
         pc[n] \notin Early => pc'[n] \notin Early, pc'[a.node] \notin Early,
         approved \subseteq approved',
         a \in approved' \/ (a.paths = {} /\ a.nth > 0 /\ size[a.node] = "Tiny"),
         a.node = n => a.paths \subseteq (IF AllowWrite THEN scope[n] ELSE {})
  PROVE  MakerInv' /\ OnlyCheckedWorkIsAccepted' /\ MemoIsBacked'
<1>1. /\ accepted' = [accepted EXCEPT ![n] = a]
      /\ memo' = [memo EXCEPT ![engine[n]][key[n]] = a]
      /\ UNCHANGED <<key, scope>>
  BY DEF Commit, treeVars
<1>2. /\ accepted'[n] = a /\ \A m \in Node : m # n => accepted'[m] = accepted[m]
      /\ engine[n] \in Node /\ key[n] \in Key \union {RootKey}
  BY <1>1 DEF EngineInv, TypeOK
<1>3. \A e \in Node, k \in Key \union {RootKey} :
        memo'[e][k] = IF e = engine[n] /\ k = key[n] THEN a ELSE memo[e][k]
  BY <1>1, <1>2 DEF EngineInv, TypeOK
<1>4. MakerInv'
  <2>1. ASSUME NEW m \in Node, accepted[m] # NoArtifact
        PROVE  pc'[accepted[m].node] \notin Early
    <3>1. accepted[m].node \in Node /\ pc[accepted[m].node] \notin Early
      BY <2>1 DEF EngineInv, TypeOK, MakerInv, Artifact
    <3>2. QED
      BY <3>1 DEF Others
  <2>2. QED
    BY <1>2, <2>1 DEF MakerInv
<1>5. OnlyCheckedWorkIsAccepted'
  BY <1>1, <1>2 DEF EngineInv, OnlyCheckedWorkIsAccepted
<1>6. MemoIsBacked'
  <2> SUFFICES ASSUME NEW e \in Node, NEW k \in Key \union {RootKey}, memo'[e][k] # NoArtifact
               PROVE  \E m \in Node : engine[m] = e /\ key[m] = k /\ accepted'[m] = memo'[e][k]
    BY <1>1 DEF MemoIsBacked
  <2>1. CASE e = engine[n] /\ k = key[n]
    BY <1>2, <1>3, <2>1
  <2>2. CASE ~(e = engine[n] /\ k = key[n])
    <3>1. memo'[e][k] = memo[e][k]
      BY <1>3, <2>2
    <3>2. PICK m \in Node : engine[m] = e /\ key[m] = k /\ accepted[m] = memo[e][k]
      BY <3>1 DEF EngineInv, MemoIsBacked
    <3>3. QED
      BY <1>2, <2>2, <3>1, <3>2
  <2>3. QED
    BY <2>1, <2>2
<1>7. QED
  BY <1>4, <1>5, <1>6

-----------------------------------------------------------------------------
(* The actions of a node that take no artifact: control, agents that fail. *)

\* Only pc and status of n change, and no other part of the state.
StatusStep(n) ==
  /\ UNCHANGED <<treeVars, engineVars, size, plan, candidate, accepted, attempts,
                 cancelled, report, approved>>
  /\ status' \in [Node -> NodeStatus] /\ \A m \in Node : m # n => status'[m] = status[m]

LEMMA StatusStepInv ==
  ASSUME EngineInv, NEW n \in Node, Active(n), StatusStep(n),
         NEW x \in AgentOp \union Ended, Goto(n, x),
         x \in {"specify", "plan"} => pc[n] \in {"resolve", "specify"},
         pc[n] \notin Early => x \notin Early,
         pc[n] = "children" =>
           /\ x \in {"combine", "none"} => Quiet(n)
           /\ x = "combine" => Complete(n)
           /\ x = "none" =>
                \A c \in ChildrenOf(n) : Asks(c) => status'[n] = "WaitingForInfo"
           /\ x \in {"combine", "none", "error", "aborted"} /\ status'[n] # "Committed",
         x \in Early => status'[n] # "Committed",
         x = "execute" => attempts[n] = 0 \/ attempts[n] < MaxAttempts,
         x = "verify" => candidate[n] # NoArtifact /\ ~IsUnsafe(n, candidate[n]),
         x = "some" => status'[n] = "Committed",
         x = "none" => status'[n] \in {"WaitingForInfo", "Rejected", "Pruned"}
  PROVE  EngineInv'
<1>1. pc' = [pc EXCEPT ![n] = x] /\ pc'[n] = x
  BY DEF Goto, EngineInv, TypeOK
<1>2. /\ UNCHANGED <<created, parent, children, depth, key, scope, engine, memo, size, plan,
                     candidate, accepted, attempts, cancelled, report, approved>>
      /\ UNCHANGED <<treeVars, engine>>
  BY DEF StatusStep, treeVars, engineVars
<1>3. Others(n)
  BY <1>1, <1>2 DEF Others, StatusStep, EngineInv, TypeOK
<1>4. TypeOK'
  BY <1>1, <1>2 DEF EngineInv, TypeOK, StatusStep
<1>5. MakerInv' /\ OnlyCheckedWorkIsAccepted' /\ MemoIsBacked'
  BY <1>1, <1>2, <1>3, NothingAccepted
<1>6. NodeOK(n)'
  <2>1. NodeOK(n)
    BY DEF EngineInv, NodeInv
  <2>2. x \in Early => pc[n] \in Early
    OBVIOUS
  <2>3. IsUnsafe(n, candidate[n])' = IsUnsafe(n, candidate[n])
    BY <1>2 DEF IsUnsafe
  <2>4. QED
    BY <1>1, <1>2, <2>1, <2>2, <2>3 DEF NodeOK, AgentOp, Ended
<1>7. pc[n] = "children" => accepted[n] = NoArtifact
  BY DEF EngineInv, NodeInv, NodeOK, Early
<1>8. QED
  BY <1>1, <1>2, <1>3, <1>4, <1>5, <1>6, <1>7, NodeStep DEF AgentOp, Ended

\* An agent run that ends without an answer, and a group that fails.
LEMMA FailInv ==
  ASSUME EngineInv, NEW n \in Node, AgentCancelled(n) \/ AgentFails(n) \/ ChildFails(n)
  PROVE  EngineInv'
<1>1. /\ Active(n) /\ Goto(n, "error")
      /\ UNCHANGED <<treeVars, workVars, engineVars, cancelled, report, approved>>
  BY DEF AgentCancelled, AgentFails, ChildFails, Active, AgentOp, Ended
<1>2. StatusStep(n)
  BY <1>1 DEF StatusStep, workVars, EngineInv, TypeOK
<1>3. pc[n] = "children" => status'[n] # "Committed"
  BY <1>1 DEF EngineInv, NodeInv, NodeOK, Early, workVars
<1>4. QED
  BY <1>1, <1>2, <1>3, StatusStepInv DEF Ended, Early

\* What a node waits for when its children are done.
LEMMA DoneIsQuiet ==
  ASSUME EngineInv, NEW n \in Node, pc[n] = "children", ChildrenDone(n)
  PROVE  Quiet(n)
<1>1. \A c \in ChildrenOf(n) : c \in Node
  BY ChildrenAreNodes
<1>2. CASE plan[n] = "Parallel"
  <2>1. ASSUME NEW c \in ChildrenOf(n) PROVE pc[c] \in {"some", "none"} /\ engine[c] = engine[n]
    <3>1. engine[c] = engine[n] /\ c > n
      BY <1>2, ChildrenAreNodes DEF ChildrenDone, Joined
    <3>2. engine[n] # c
      <4>1. engine[n] <= n /\ engine[n] \in Nat /\ n \in Nat /\ c \in Nat
        BY <1>1 DEF EngineInv, BranchInv, TypeOK, Node
      <4>2. QED
        BY <3>1, <4>1
    <3>3. QED
      BY <1>2, <3>1, <3>2 DEF EngineInv, BranchInv
  <2>2. QED
    BY <2>1 DEF Quiet
<1>3. CASE plan[n] # "Parallel"
  <2>1. ASSUME NEW c \in ChildrenOf(n) PROVE plan[n] = "Stage" /\ engine[c] = engine[n]
    <3>1. children[n] # <<>>
      BY ChildrenAreNodes
    <3>2. QED
      BY <1>3, <3>1 DEF EngineInv, TreeInv, BranchInv
  <2>2. CASE \A c \in ChildrenOf(n) : pc[c] = "some"
    BY <2>1, <2>2 DEF Quiet
  <2>3. CASE \E c \in ChildrenOf(n) : pc[c] = "none"
    <3>1. PICK j \in DOMAIN children[n] : pc[children[n][j]] = "none"
      BY <2>3, ChildrenAreNodes
    <3>2. plan[n] = "Stage"
      BY <2>1, <2>3
    <3>3. ASSUME NEW i \in DOMAIN children[n]
          PROVE  pc[children[n][i]] \in {"idle", "some", "none"}
      <4>1. i \in Nat /\ j \in Nat
        BY ChildrenAreNodes
      <4>2. i < j => pc[children[n][i]] = "some"
        BY <3>1, <3>2 DEF EngineInv, BranchInv
      <4>3. j < i => pc[children[n][i]] = "idle"
        BY <3>1, <3>2 DEF EngineInv, BranchInv
      <4>4. QED
        BY <3>1, <4>1, <4>2, <4>3
    <3>4. QED
      BY <2>1, <3>3, ChildrenAreNodes DEF Quiet
  <2>4. QED
    BY <1>3, <2>2, <2>3 DEF ChildrenDone
<1>4. QED
  BY <1>2, <1>3

\* The group of n is done: it is combined, or n is blocked by it.
LEMMA GroupDoneInv ==
  ASSUME EngineInv, NEW n \in Node, StartCombine(n) \/ Blocked(n)
  PROVE  EngineInv'
<1>1. Active(n) /\ pc[n] = "children" /\ ChildrenDone(n)
  BY DEF StartCombine, Blocked, Active, Ended
<1>2. Quiet(n) /\ status[n] # "Committed" /\ accepted[n] = NoArtifact
  BY <1>1, DoneIsQuiet DEF EngineInv, NodeInv, NodeOK, Early
<1>3. CASE StartCombine(n)
  <2>1. /\ Complete(n) /\ CallAgent(n, "combine")
        /\ UNCHANGED <<treeVars, workVars, engineVars, cancelled, report, approved>>
    BY <1>3 DEF StartCombine, GroupSucceeded, AllChildrenAccepted, Complete
  <2>2. PICK x \in {"combine", "error"} : Goto(n, x)
    BY <2>1 DEF CallAgent
  <2>3. StatusStep(n) /\ status' = status
    BY <2>1 DEF StatusStep, workVars, EngineInv, TypeOK
  <2>4. QED
    BY <1>1, <1>2, <2>1, <2>2, <2>3, StatusStepInv DEF Ended, AgentOp, Early
<1>4. CASE Blocked(n)
  <2>1. /\ status' = [status EXCEPT ![n] = BlockedStatus(n)] /\ Goto(n, "none")
        /\ UNCHANGED <<treeVars, size, plan, candidate, accepted, attempts, engineVars,
                       cancelled, report, approved>>
    BY <1>4 DEF Blocked
  <2>2. BlockedStatus(n) \in {"WaitingForInfo", "Pruned"}
    BY DEF BlockedStatus
  <2>3. StatusStep(n) /\ status'[n] = BlockedStatus(n)
    BY <2>1, <2>2 DEF StatusStep, NodeStatus, EngineInv, TypeOK
  <2>4. \A c \in ChildrenOf(n) : Asks(c) => status'[n] = "WaitingForInfo"
    BY <2>3 DEF BlockedStatus, Asks
  <2>5. QED
    BY <1>1, <1>2, <2>1, <2>2, <2>3, <2>4, StatusStepInv DEF Ended, AgentOp, Early
<1>5. QED
  BY <1>3, <1>4

\* The verdicts that accept nothing, and the start of verify.
LEMMA VerdictInv ==
  ASSUME EngineInv, NEW n \in Node, Check(n) \/ VerifyAsks(n) \/ VerifyRejects(n)
  PROVE  EngineInv'
<1>1. /\ Active(n) /\ pc[n] \in {"check", "verify"}
      /\ UNCHANGED <<treeVars, size, plan, candidate, accepted, attempts, engineVars,
                     cancelled, report, approved>>
  BY DEF Check, VerifyAsks, VerifyRejects, Answered, Active, Ended
<1>2. candidate[n] # NoArtifact
  BY <1>1 DEF EngineInv, NodeInv, NodeOK
<1>3. PICK x \in {"execute", "verify", "none", "error"} :
        /\ Goto(n, x)
        /\ x = "execute" => attempts[n] < MaxAttempts
        /\ x = "verify" => ~IsUnsafe(n, candidate[n])
        /\ IF x = "none"
           THEN \E s \in {"WaitingForInfo", "Rejected", "Pruned"} : status' = [status EXCEPT ![n] = s]
           ELSE status' = status
  <2>1. attempts[n] \in Nat /\ MaxAttempts \in Nat
    BY EngineAssumption DEF EngineInv, TypeOK, Attempted
  <2>2. ~BudgetSpent(n) => attempts[n] < MaxAttempts
    BY <2>1 DEF BudgetSpent
  <2>3. GiveUp(n) => /\ Goto(n, "none")
                     /\ \E s \in {"WaitingForInfo", "Rejected", "Pruned"} : status' = [status EXCEPT ![n] = s]
    BY DEF GiveUp
  <2>4. Retry(n) => status' = status /\ (Goto(n, "execute") \/ Goto(n, "error"))
    BY DEF Retry, CallAgent
  <2>5. CASE RejectUnsafe(n) \/ RejectBadOutput(n)
    BY <2>2, <2>3, <2>4, <2>5 DEF RejectUnsafe, RejectBadOutput
  <2>6. CASE VerifyAsks(n)
    BY <2>6 DEF VerifyAsks
  <2>7. CASE ~IsUnsafe(n, candidate[n]) /\ CallAgent(n, "verify") /\ UNCHANGED status
    BY <2>7 DEF CallAgent
  <2>8. QED
    BY <2>5, <2>6, <2>7 DEF Check, VerifyRejects
<1>4. StatusStep(n)
  BY <1>1, <1>3 DEF StatusStep, NodeStatus, EngineInv, TypeOK
<1>5. x = "none" => status'[n] \in {"WaitingForInfo", "Rejected", "Pruned"}
  BY <1>3 DEF EngineInv, TypeOK
<1>6. QED
  BY <1>1, <1>2, <1>3, <1>4, <1>5, StatusStepInv DEF Ended, AgentOp, Early

-----------------------------------------------------------------------------
(* The actions of a node that leave work or accept it.                     *)

LEMMA CommitType ==
  ASSUME EngineInv, NEW n \in Node, NEW a \in Artifact, Commit(n, a)
  PROVE  /\ status' \in [Node -> NodeStatus] /\ status'[n] = "Committed"
         /\ accepted' \in [Node -> Artifact \union {NoArtifact}] /\ accepted'[n] = a
         /\ memo' \in [Node -> [Key \union {RootKey} -> Artifact \union {NoArtifact}]]
         /\ \A m \in Node : m # n => status'[m] = status[m] /\ accepted'[m] = accepted[m]
BY DEF Commit, EngineInv, TypeOK, NodeStatus

\* resolve takes over what the memo has under the key of the node, or
\* begins with specify.
LEMMA ResolveInv ==
  ASSUME EngineInv, NEW n \in Node, Resolve(n)
  PROVE  EngineInv'
<1> DEFINE known == memo[engine[n]][key[n]]
<1>1. pc[n] = "resolve" /\ Active(n) /\ UNCHANGED <<treeVars, engine, cancelled, report, approved>>
  BY DEF Resolve, Active, Ended
<1>2. CASE CallAgent(n, "specify") /\ UNCHANGED <<workVars, memo>>
  <2>1. PICK x \in {"specify", "error"} : Goto(n, x)
    BY <1>2 DEF CallAgent
  <2>2. StatusStep(n) /\ status' = status
    BY <1>1, <1>2 DEF StatusStep, workVars, engineVars, EngineInv, TypeOK
  <2>3. status[n] # "Committed"
    BY <1>1 DEF EngineInv, NodeInv, NodeOK, Early
  <2>4. QED
    BY <1>1, <2>1, <2>2, <2>3, StatusStepInv DEF Ended, AgentOp, Early
<1>3. CASE /\ known # NoArtifact /\ Commit(n, known) /\ Goto(n, "some")
           /\ UNCHANGED <<size, plan, candidate, attempts>>
  <2>1. engine[n] \in Node /\ key[n] \in Key \union {RootKey}
    BY DEF EngineInv, TypeOK
  <2>2. PICK m \in Node : accepted[m] = known
    BY <1>3, <2>1 DEF EngineInv, MemoIsBacked
  <2>3. /\ known \in Artifact /\ known.node \in Node /\ pc[known.node] \notin Early
        /\ known \in approved \/ (known.paths = {} /\ known.nth > 0 /\ size[known.node] = "Tiny")
    BY <1>3, <2>2 DEF EngineInv, TypeOK, MakerInv, OnlyCheckedWorkIsAccepted, Artifact
  <2> HIDE DEF known
  <2>4. known.node # n
    BY <1>1, <2>3 DEF Early
  <2>5. pc' = [pc EXCEPT ![n] = "some"] /\ pc'[n] = "some"
    BY <1>3 DEF Goto, EngineInv, TypeOK
  <2>6. TypeOK' /\ Others(n) /\ accepted'[n] # NoArtifact /\ status'[n] = "Committed"
    <3>1. /\ status' \in [Node -> NodeStatus] /\ status'[n] = "Committed"
          /\ accepted' \in [Node -> Artifact \union {NoArtifact}] /\ accepted'[n] = known
          /\ memo' \in [Node -> [Key \union {RootKey} -> Artifact \union {NoArtifact}]]
          /\ \A l \in Node : l # n => status'[l] = status[l] /\ accepted'[l] = accepted[l]
      BY <1>3, <2>3, CommitType
    <3>2. Others(n)
      BY <1>3, <2>5, <3>1 DEF Others, EngineInv, TypeOK
    <3>3. TypeOK'
      BY <1>1, <1>3, <2>5, <3>1 DEF EngineInv, TypeOK, treeVars, Ended
    <3>4. QED
      BY <1>3, <3>1, <3>2, <3>3
  <2>7. MakerInv' /\ OnlyCheckedWorkIsAccepted' /\ MemoIsBacked'
    <3>1. pc'[known.node] \notin Early
      BY <2>3, <2>4, <2>6 DEF Others
    <3>2. pc'[n] \notin Early
      BY <2>5 DEF Early
    <3>3. QED
      BY <1>1, <1>3, <2>3, <2>4, <2>6, <3>1, <3>2, CheckedWorkAccepted
  <2>8. NodeOK(n)'
    <3>1. NodeOK(n)
      BY DEF EngineInv, NodeInv
    <3>2. QED
      BY <1>3, <2>5, <2>6, <3>1 DEF NodeOK, Early
  <2>9. QED
    BY <1>1, <1>3, <2>5, <2>6, <2>7, <2>8, NodeStep
<1>4. QED
  BY <1>2, <1>3 DEF Resolve

\* specify decides between plan and execute.
LEMMA SpecifiedInv ==
  ASSUME EngineInv, NEW n \in Node, Specified(n)
  PROVE  EngineInv'
<1>1. /\ pc[n] = "specify" /\ Active(n)
      /\ UNCHANGED <<treeVars, candidate, accepted, attempts, engineVars, cancelled, report, approved>>
      /\ status' = [status EXCEPT ![n] = "Specified"]
  BY DEF Specified, Answered, Active, Ended
<1>2. PICK s \in {"Tiny", "Small", "Large"}, q \in {"NeedsPlanning", "Execute"},
           x \in {"plan", "execute", "error"} :
        size' = [size EXCEPT ![n] = s] /\ plan' = [plan EXCEPT ![n] = q] /\ Goto(n, x)
  BY DEF Specified, PlanFromScope, CallAgent
<1>3. pc' = [pc EXCEPT ![n] = x] /\ pc'[n] = x /\ status'[n] = "Specified"
  BY <1>1, <1>2 DEF Goto, EngineInv, TypeOK
<1>4. Others(n)
  BY <1>1, <1>2, <1>3 DEF Others, EngineInv, TypeOK
<1>5. TypeOK'
  BY <1>1, <1>2, <1>3 DEF EngineInv, TypeOK, treeVars, engineVars, NodeStatus, AgentOp, Ended
<1>6. /\ accepted[n] = NoArtifact /\ candidate[n] = NoArtifact /\ attempts[n] = 0
      /\ children[n] = <<>> /\ pc[n] \in Early
  BY <1>1 DEF EngineInv, NodeInv, NodeOK, TreeInv, Early
<1>7. NodeOK(n)'
  BY <1>1, <1>3, <1>6 DEF NodeOK
<1>8. MakerInv' /\ OnlyCheckedWorkIsAccepted' /\ MemoIsBacked'
  BY <1>1, <1>4, <1>6, NothingAccepted DEF engineVars
<1>9. QED
  BY <1>1, <1>3, <1>4, <1>5, <1>6, <1>7, <1>8, NodeStep DEF engineVars

LEMMA OutputIsArtifact ==
  ASSUME NEW n \in Node, NEW k \in Nat, NEW o \in Output
  PROVE  LET a == MakeArtifact(n, k, o) IN a \in Artifact /\ a # NoArtifact /\ a.node = n /\ a.nth = k
BY EngineAssumption, NoArtifactAssumption DEF MakeArtifact, Artifact

\* execute leaves a candidate for verify, or Tiny work that changed nothing.
LEMMA ExecutedInv ==
  ASSUME EngineInv, NEW n \in Node, Executed(n)
  PROVE  EngineInv'
<1>1. /\ pc[n] = "execute" /\ Active(n)
      /\ UNCHANGED <<treeVars, size, plan, engine, cancelled, report, approved>>
      /\ attempts' = [attempts EXCEPT ![n] = @ + 1]
  BY DEF Executed, Answered, Active, Ended
<1>2. attempts[n] \in Nat /\ attempts[n] + 1 \in Attempted
  <2>1. attempts[n] \in Nat /\ MaxAttempts \in Nat
    BY EngineAssumption DEF EngineInv, TypeOK, Attempted
  <2>2. attempts[n] = 0 \/ attempts[n] < MaxAttempts
    BY <1>1 DEF EngineInv, NodeInv, NodeOK
  <2>3. QED
    BY <2>1, <2>2 DEF Attempted
<1>3. PICK o \in Output, a \in Artifact :
        /\ a = MakeArtifact(n, attempts[n] + 1, o)
        /\ \/ /\ SkipsVerify(n, a) /\ Commit(n, a)
              /\ Goto(n, IF candidate[n] = NoArtifact THEN "some" ELSE "check")
              /\ UNCHANGED candidate
           \/ /\ candidate' = [candidate EXCEPT ![n] = a]
              /\ status' = [status EXCEPT ![n] = "Verifying"]
              /\ Goto(n, "check")
              /\ UNCHANGED <<accepted, memo>>
  BY <1>2, OutputIsArtifact DEF Executed
<1>4. a # NoArtifact /\ a.node = n /\ a.nth > 0
  <2>1. attempts[n] + 1 \in Nat /\ attempts[n] + 1 > 0
    BY <1>2
  <2>2. a # NoArtifact /\ a.node = n /\ a.nth = attempts[n] + 1
    BY <1>3, <2>1, OutputIsArtifact
  <2>3. QED
    BY <2>1, <2>2
<1>5. PICK x \in {"some", "check"} : Goto(n, x)
  BY <1>3
<1>6. pc' = [pc EXCEPT ![n] = x] /\ pc'[n] = x
  BY <1>5 DEF Goto, EngineInv, TypeOK
<1>7. NodeOK(n)
  BY DEF EngineInv, NodeInv
<1>8. CASE /\ SkipsVerify(n, a) /\ Commit(n, a) /\ UNCHANGED candidate
           /\ Goto(n, IF candidate[n] = NoArtifact THEN "some" ELSE "check")
  <2>1. /\ status' \in [Node -> NodeStatus] /\ status'[n] = "Committed"
        /\ accepted' \in [Node -> Artifact \union {NoArtifact}] /\ accepted'[n] = a
        /\ memo' \in [Node -> [Key \union {RootKey} -> Artifact \union {NoArtifact}]]
        /\ \A l \in Node : l # n => status'[l] = status[l] /\ accepted'[l] = accepted[l]
    BY <1>8, CommitType
  <2>2. x = "check" => candidate[n] # NoArtifact
    BY <1>6, <1>8 DEF Goto, EngineInv, TypeOK
  <2>3. Others(n)
    BY <1>1, <1>6, <1>8, <2>1 DEF Others, EngineInv, TypeOK
  <2>4. TypeOK'
    BY <1>1, <1>2, <1>6, <1>8, <2>1 DEF EngineInv, TypeOK, treeVars, Ended
  <2>5. MakerInv' /\ OnlyCheckedWorkIsAccepted' /\ MemoIsBacked'
    <3>1. pc'[n] \notin Early
      BY <1>6 DEF Early
    <3>2. a.paths = {} /\ size[a.node] = "Tiny"
      BY <1>4, <1>8 DEF SkipsVerify
    <3>3. QED
      BY <1>1, <1>4, <1>8, <2>3, <3>1, <3>2, CheckedWorkAccepted
  <2>6. NodeOK(n)'
    BY <1>6, <1>7, <1>8, <2>1, <2>2 DEF NodeOK, Early
  <2>7. QED
    BY <1>1, <1>6, <2>3, <2>4, <2>5, <2>6, NodeStep
<1>9. CASE /\ candidate' = [candidate EXCEPT ![n] = a] /\ Goto(n, "check")
           /\ status' = [status EXCEPT ![n] = "Verifying"] /\ UNCHANGED <<accepted, memo>>
  <2>1. pc'[n] = "check" /\ pc' = [pc EXCEPT ![n] = "check"]
    BY <1>9 DEF Goto, EngineInv, TypeOK
  <2>2. candidate'[n] = a /\ status'[n] = "Verifying"
    BY <1>9 DEF EngineInv, TypeOK
  <2>3. Others(n)
    BY <1>1, <1>9, <2>1 DEF Others, EngineInv, TypeOK
  <2>4. TypeOK'
    BY <1>1, <1>2, <1>9, <2>1 DEF EngineInv, TypeOK, treeVars, NodeStatus
  <2>5. MakerInv' /\ OnlyCheckedWorkIsAccepted' /\ MemoIsBacked'
    BY <1>1, <1>9, <2>1, <2>3, NothingAccepted DEF Early
  <2>6. NodeOK(n)'
    BY <1>4, <2>1, <2>2 DEF NodeOK, Early
  <2>7. QED
    BY <1>1, <2>1, <2>3, <2>4, <2>5, <2>6, NodeStep
<1>10. QED
  BY <1>3, <1>8, <1>9

\* combine leaves a candidate made of the work of the children.
LEMMA CombinedInv ==
  ASSUME EngineInv, NEW n \in Node, Combined(n)
  PROVE  EngineInv'
<1>1. /\ pc[n] = "combine" /\ Active(n) /\ Goto(n, "check")
      /\ status' = [status EXCEPT ![n] = "Verifying"]
      /\ UNCHANGED <<treeVars, size, plan, accepted, attempts, engineVars, cancelled, report, approved>>
  BY DEF Combined, Answered, Active, Ended
<1>2. PICK o \in Output : candidate' = [candidate EXCEPT ![n] = MakeArtifact(n, 0, o)]
  BY DEF Combined
<1>3. /\ candidate'[n] = MakeArtifact(n, 0, o) /\ candidate'[n] \in Artifact
      /\ candidate'[n] # NoArtifact /\ candidate'[n].node = n
  BY <1>2, OutputIsArtifact DEF EngineInv, TypeOK
<1>4. pc' = [pc EXCEPT ![n] = "check"] /\ pc'[n] = "check" /\ status'[n] = "Verifying"
  BY <1>1 DEF Goto, EngineInv, TypeOK
<1>5. Others(n)
  BY <1>1, <1>2, <1>4 DEF Others, EngineInv, TypeOK
<1>6. TypeOK'
  BY <1>1, <1>2, <1>3, <1>4 DEF EngineInv, TypeOK, treeVars, engineVars, NodeStatus
<1>7. MakerInv' /\ OnlyCheckedWorkIsAccepted' /\ MemoIsBacked'
  BY <1>1, <1>4, <1>5, NothingAccepted DEF Early, engineVars
<1>8. NodeOK(n)'
  BY <1>3, <1>4 DEF NodeOK, Early
<1>9. QED
  BY <1>1, <1>4, <1>5, <1>6, <1>7, <1>8, NodeStep DEF engineVars

\* Work is accepted by verify only after the deterministic verdict passed it.
LEMMA AcceptInv ==
  ASSUME EngineInv, NEW n \in Node, VerifyAccepts(n)
  PROVE  EngineInv'
<1> DEFINE a == candidate[n]
<1>1. /\ pc[n] = "verify" /\ Active(n) /\ Commit(n, a) /\ Goto(n, "some")
      /\ approved' = approved \union {a}
      /\ UNCHANGED <<treeVars, size, plan, candidate, attempts, engine, cancelled, report>>
  BY DEF VerifyAccepts, Answered, Active, Ended
<1>2. a \in Artifact /\ a # NoArtifact /\ a.node = n /\ ~IsUnsafe(n, a)
  BY <1>1 DEF EngineInv, TypeOK, NodeInv, NodeOK
<1> HIDE DEF a
<1>3. a.paths \subseteq (IF AllowWrite THEN scope[n] ELSE {})
  BY <1>2 DEF IsUnsafe
<1>4. pc' = [pc EXCEPT ![n] = "some"] /\ pc'[n] = "some"
  BY <1>1 DEF Goto, EngineInv, TypeOK
<1>5. /\ status' \in [Node -> NodeStatus] /\ status'[n] = "Committed"
      /\ accepted' \in [Node -> Artifact \union {NoArtifact}] /\ accepted'[n] = a
      /\ memo' \in [Node -> [Key \union {RootKey} -> Artifact \union {NoArtifact}]]
      /\ \A l \in Node : l # n => status'[l] = status[l] /\ accepted'[l] = accepted[l]
  BY <1>1, <1>2, CommitType
<1>6. Others(n)
  BY <1>1, <1>4, <1>5 DEF Others, EngineInv, TypeOK
<1>7. TypeOK'
  BY <1>1, <1>2, <1>4, <1>5 DEF EngineInv, TypeOK, treeVars, Ended
<1>8. MakerInv' /\ OnlyCheckedWorkIsAccepted' /\ MemoIsBacked'
  BY <1>1, <1>2, <1>3, <1>4, <1>6, CheckedWorkAccepted DEF Early
<1>9. NodeOK(n)'
  BY <1>1, <1>2, <1>4, <1>5 DEF NodeOK, Early, a
<1>10. QED
  BY <1>1, <1>4, <1>6, <1>7, <1>8, <1>9, NodeStep

-----------------------------------------------------------------------------
(* The actions on several nodes: groups, branches.                         *)

\* The next child of a stage starts when the one before has succeeded.
LEMMA StageNextInv ==
  ASSUME EngineInv, NEW n \in Node, StageNext(n)
  PROVE  EngineInv'
<1>1. /\ pc[n] = "children" /\ plan[n] = "Stage"
      /\ UNCHANGED <<treeVars, workVars, engineVars, cancelled, report, approved>>
  BY DEF StageNext
<1>2. PICK i \in 1..(Len(children[n]) - 1) :
        /\ pc[children[n][i]] = "some" /\ pc[children[n][i + 1]] = "idle"
        /\ Goto(children[n][i + 1], "resolve")
  BY DEF StageNext
<1> DEFINE c == children[n][i + 1]
<1>3. /\ i \in DOMAIN children[n] /\ i + 1 \in DOMAIN children[n] /\ i \in Nat
      /\ c \in ChildrenOf(n) /\ c \in Node /\ c > n /\ c <= created /\ parent[c] = n
  BY <1>2, ChildrenAreNodes
<1>4. Goto(c, "resolve") /\ pc[c] = "idle"
  BY <1>2
<1>5. \A j \in DOMAIN children[n] : children[n][j] = c => j = i + 1
  BY <1>3 DEF EngineInv, TreeInv
<1> HIDE DEF c
<1>6. pc' = [pc EXCEPT ![c] = "resolve"] /\ pc'[c] = "resolve"
      /\ \A m \in Node : m # c => pc'[m] = pc[m]
  BY <1>3, <1>4 DEF Goto, EngineInv, TypeOK
<1>7. UNCHANGED <<created, parent, children, depth, key, scope, status, size, plan, candidate,
                  accepted, attempts, engine, memo, cancelled, report, approved>>
  BY <1>1 DEF treeVars, workVars, engineVars
<1>8. TypeOK'
  BY <1>3, <1>6, <1>7 DEF EngineInv, TypeOK
<1>9. \A m \in Node : ChildrenOf(m)' = ChildrenOf(m) /\ (c \in ChildrenOf(m) => m = n)
  BY <1>3, <1>7, ChildrenAreNodes DEF ChildrenOf
<1>10. TreeInv'
  <2>1. children[c] = <<>>
    BY <1>3, <1>4 DEF EngineInv, TreeInv
  <2>2. \A m \in Node : m > created => m # c
    BY <1>3 DEF EngineInv, TypeOK, Node
  <2>3. QED
    BY <1>6, <1>7, <1>9, <2>1, <2>2 DEF EngineInv, TreeInv
<1>11. BranchInv'
  <2>1. ASSUME NEW m \in Node, NEW j \in DOMAIN children[m], NEW k \in DOMAIN children[m],
               plan[m] = "Stage", j < k, pc'[children[m][k]] # "idle"
        PROVE  pc'[children[m][j]] = "some"
    <3>1. /\ children[m][j] \in ChildrenOf(m) /\ children[m][k] \in ChildrenOf(m)
          /\ children[m][j] \in Node /\ children[m][k] \in Node /\ j \in Nat /\ k \in Nat
      BY <2>1, ChildrenAreNodes
    <3>2. pc[children[m][j]] = "some"
      <4>1. CASE children[m][k] = c
        <5>1. m = n /\ k = i + 1
          BY <1>5, <1>9, <3>1, <4>1
        <5>2. j = i \/ j < i
          BY <1>3, <2>1, <3>1, <5>1
        <5>3. QED
          BY <1>1, <1>2, <1>3, <5>1, <5>2 DEF EngineInv, BranchInv
      <4>2. CASE children[m][k] # c
        <5>1. pc[children[m][k]] # "idle"
          BY <1>6, <2>1, <3>1, <4>2
        <5>2. QED
          BY <2>1, <5>1 DEF EngineInv, BranchInv
      <4>3. QED
        BY <4>1, <4>2
    <3>3. QED
      BY <1>4, <1>6, <3>1, <3>2
  <2>2. ASSUME NEW m \in Node, NEW d \in ChildrenOf(m), plan[m] = "Parallel"
        PROVE  engine[d] = d \/ (engine[d] = engine[m] /\ pc'[d] \in {"some", "none"})
    <3>1. m # n /\ d # c /\ d \in Node
      BY <1>1, <1>9, <2>2, ChildrenAreNodes
    <3>2. QED
      BY <1>6, <2>2, <3>1 DEF EngineInv, BranchInv
  <2>3. QED
    BY <1>7, <1>9, <2>1, <2>2 DEF EngineInv, BranchInv
<1>12. GroupInv'
  <2>1. ASSUME NEW m \in Node
        PROVE  /\ pc'[m] \in Past \/ status[m] = "Committed" => Quiet(m)'
               /\ pc'[m] \in Past \ {"none"} \/ status[m] = "Committed" => Complete(m)'
               /\ pc'[m] \in {"some", "none"} => Told(m)'
    <3>1. Complete(m) => Complete(m)'
      BY <1>7, <1>9 DEF Complete
    <3>2. Told(m) => Told(m)'
      BY <1>7, <1>9 DEF Told, Asks
    <3>3. m # n /\ Quiet(m) => Quiet(m)'
      <4> SUFFICES ASSUME m # n, Quiet(m), NEW d \in ChildrenOf(m)
                   PROVE  pc'[d] \in {"idle", "some", "none"} /\ engine[d] = engine[m]
        BY <1>7, <1>9 DEF Quiet
      <4>1. d # c /\ d \in Node
        BY <1>9, ChildrenAreNodes
      <4>2. QED
        BY <1>6, <4>1 DEF Quiet
    <3>4. pc[n] \notin Past /\ status[n] # "Committed"
      BY <1>1 DEF EngineInv, NodeInv, NodeOK, Early, Past
    <3>5. pc'[m] \in Past => pc[m] \in Past /\ pc'[m] = pc[m]
      BY <1>6 DEF Past
    <3>6. QED
      BY <3>1, <3>2, <3>3, <3>4, <3>5 DEF EngineInv, GroupInv, Past
  <2>2. QED
    BY <1>7, <2>1 DEF GroupInv
<1>13. NodeInv'
  <2>1. ASSUME NEW m \in Node PROVE NodeOK(m)'
    <3>1. NodeOK(m) /\ IsUnsafe(m, candidate[m])' = IsUnsafe(m, candidate[m])
      BY <1>7 DEF EngineInv, NodeInv, IsUnsafe
    <3>2. pc'[m] = pc[m] \/ (pc[m] = "idle" /\ pc'[m] = "resolve")
      BY <1>4, <1>6
    <3>3. QED
      BY <1>7, <3>1, <3>2 DEF NodeOK, Early
  <2>2. QED
    BY <2>1 DEF NodeInv
<1>14. MakerInv'
  <2>1. \A m \in Node : pc[m] \notin Early => pc'[m] \notin Early
    BY <1>4, <1>6 DEF Early
  <2>2. \A m \in Node : accepted[m] # NoArtifact => accepted[m].node \in Node
    BY DEF EngineInv, TypeOK, Artifact
  <2>3. QED
    BY <1>7, <2>1, <2>2 DEF EngineInv, MakerInv
<1>15. ReportInv'
  <2>1. Root \in Node /\ Root # c
    BY <1>3, EngineAssumption DEF Root, Node
  <2>2. QED
    BY <1>6, <1>7, <2>1 DEF EngineInv, ReportInv
<1>16. OnlyCheckedWorkIsAccepted' /\ MemoIsBacked'
  BY <1>7 DEF EngineInv, OnlyCheckedWorkIsAccepted, MemoIsBacked
<1>17. QED
  BY <1>8, <1>10, <1>11, <1>12, <1>13, <1>14, <1>15, <1>16 DEF EngineInv

\* An aborted branch stops where it is; nobody counts on it any more.
LEMMA DropBranchInv ==
  ASSUME EngineInv, NEW e \in Node, DropBranch(e)
  PROVE  EngineInv'
<1>1. /\ pc' = [m \in Node |-> IF engine[m] = e /\ Active(m) THEN "aborted" ELSE pc[m]]
      /\ UNCHANGED <<treeVars, workVars, engineVars, cancelled, report, approved>>
  BY DEF DropBranch
<1>2. \A m \in Node : pc'[m] = pc[m] \/ (pc'[m] = "aborted" /\ Active(m))
  BY <1>1
<1>3. UNCHANGED <<created, parent, children, depth, key, scope, status, size, plan, candidate,
                  accepted, attempts, engine, memo, cancelled, report, approved>>
  BY <1>1 DEF treeVars, workVars, engineVars
<1>4. TypeOK'
  BY <1>1, <1>3 DEF EngineInv, TypeOK, Ended
<1>5. \A m \in Node : pc[m] \in {"idle", "some", "none"} => pc'[m] = pc[m]
  BY <1>2 DEF Active, Ended
<1>6. \A m \in Node : /\ ChildrenOf(m)' = ChildrenOf(m) /\ \A c \in ChildrenOf(m) : c \in Node
                      /\ \A i \in DOMAIN children[m] : children[m][i] \in Node
  BY <1>3, ChildrenAreNodes DEF ChildrenOf
<1>7. TreeInv'
  BY <1>2, <1>3, <1>5, <1>6 DEF EngineInv, TreeInv
<1>8. BranchInv'
  <2>1. \A m \in Node : pc[m] = "idle" => pc'[m] = "idle"
    BY <1>5
  <2>2. \A m \in Node : pc[m] = "some" => pc'[m] = "some"
    BY <1>5
  <2>3. ASSUME NEW m \in Node, NEW j \in DOMAIN children[m], NEW k \in DOMAIN children[m],
               plan[m] = "Stage", j < k, pc'[children[m][k]] # "idle"
        PROVE  pc'[children[m][j]] = "some"
    <3>1. pc[children[m][k]] # "idle"
      BY <1>6, <2>1, <2>3
    <3>2. pc[children[m][j]] = "some"
      BY <2>3, <3>1 DEF EngineInv, BranchInv
    <3>3. QED
      BY <1>6, <2>2, <3>2
  <2>4. ASSUME NEW m \in Node, NEW d \in ChildrenOf(m), plan[m] = "Parallel"
        PROVE  engine[d] = d \/ (engine[d] = engine[m] /\ pc'[d] \in {"some", "none"})
    BY <1>5, <1>6, <2>4 DEF EngineInv, BranchInv
  <2>5. QED
    BY <1>3, <1>6, <2>3, <2>4 DEF EngineInv, BranchInv
<1>9. GroupInv'
  <2>1. ASSUME NEW m \in Node
        PROVE  /\ pc'[m] \in Past \/ status[m] = "Committed" => Quiet(m)'
               /\ pc'[m] \in Past \ {"none"} \/ status[m] = "Committed" => Complete(m)'
               /\ pc'[m] \in {"some", "none"} => Told(m)'
    <3>1. Quiet(m) => Quiet(m)'
      BY <1>3, <1>5, <1>6 DEF Quiet
    <3>2. (Complete(m) => Complete(m)') /\ (Told(m) => Told(m)')
      BY <1>3, <1>6 DEF Complete, Told, Asks
    <3>3. pc'[m] \in Past => pc[m] = pc'[m]
      BY <1>2 DEF Past
    <3>4. QED
      BY <3>1, <3>2, <3>3 DEF EngineInv, GroupInv, Past
  <2>2. QED
    BY <1>3, <2>1 DEF GroupInv
<1>10. NodeInv'
  <2>1. ASSUME NEW m \in Node PROVE NodeOK(m)'
    <3>1. NodeOK(m) /\ IsUnsafe(m, candidate[m])' = IsUnsafe(m, candidate[m])
      BY <1>3 DEF EngineInv, NodeInv, IsUnsafe
    <3>2. QED
      BY <1>2, <1>3, <3>1 DEF NodeOK, Early
  <2>2. QED
    BY <2>1 DEF NodeInv
<1>11. MakerInv'
  <2>1. \A m \in Node : accepted[m] # NoArtifact => accepted[m].node \in Node
    BY DEF EngineInv, TypeOK, Artifact
  <2>2. \A m \in Node : pc[m] \notin Early => pc'[m] \notin Early
    BY <1>2 DEF Early
  <2>3. QED
    BY <1>3, <2>1, <2>2 DEF EngineInv, MakerInv
<1>12. ReportInv'
  BY <1>3, <1>5, EngineAssumption DEF EngineInv, ReportInv, Root, Node
<1>13. OnlyCheckedWorkIsAccepted' /\ MemoIsBacked'
  BY <1>3 DEF EngineInv, OnlyCheckedWorkIsAccepted, MemoIsBacked
<1>14. QED
  BY <1>4, <1>7, <1>8, <1>9, <1>10, <1>11, <1>12, <1>13 DEF EngineInv

\* A joined branch brings its nodes and its memo into the engine of n.
LEMMA JoinInv ==
  ASSUME EngineInv, NEW n \in Node, Join(n)
  PROVE  EngineInv'
<1>1. /\ pc[n] = "children" /\ plan[n] = "Parallel"
      /\ UNCHANGED <<treeVars, workVars, pc, cancelled, report, approved>>
  BY DEF Join
<1>2. PICK c \in ChildrenOf(n) :
        /\ pc[c] \in {"some", "none"} /\ engine[c] # engine[n]
        /\ engine' = [m \in Node |-> IF engine[m] = c THEN engine[n] ELSE engine[m]]
        /\ memo' = [memo EXCEPT ![engine[n]] = MergedMemo(@, memo[c]), ![c] = EmptyMemo]
  BY DEF Join, Joined
<1>3. /\ c \in Node /\ c > n /\ engine[c] = c /\ engine[n] \in Node /\ engine[n] <= n
      /\ engine[n] # c /\ c \in Nat /\ n \in Nat
  <2>1. c \in Node /\ c > n
    BY <1>2, ChildrenAreNodes
  <2>2. engine[c] = c
    BY <1>1, <1>2 DEF EngineInv, BranchInv
  <2>3. engine[n] \in Node /\ engine[n] <= n
    BY DEF EngineInv, BranchInv, TypeOK
  <2>4. c \in Nat /\ n \in Nat /\ engine[n] \in Nat
    BY <2>1, <2>3 DEF Node
  <2>5. QED
    BY <1>2, <2>1, <2>2, <2>3, <2>4
<1>4. UNCHANGED <<created, parent, children, depth, key, scope, status, size, plan, candidate,
                  accepted, attempts, pc, cancelled, report, approved>>
  BY <1>1 DEF treeVars, workVars
<1>5. \A m \in Node : ChildrenOf(m)' = ChildrenOf(m) /\ \A d \in ChildrenOf(m) : d \in Node
  BY <1>4, ChildrenAreNodes DEF ChildrenOf
<1>6. /\ memo' \in [Node -> [Key \union {RootKey} -> Artifact \union {NoArtifact}]]
      /\ \A e \in Node, k \in Key \union {RootKey} :
           memo'[e][k] = IF e = c THEN NoArtifact
                         ELSE IF e = engine[n] /\ memo[c][k] # NoArtifact THEN memo[c][k]
                         ELSE memo[e][k]
  <2>1. MergedMemo(memo[engine[n]], memo[c]) \in [Key \union {RootKey} -> Artifact \union {NoArtifact}]
    <3>1. /\ memo[c] \in [Key \union {RootKey} -> Artifact \union {NoArtifact}]
          /\ memo[engine[n]] \in [Key \union {RootKey} -> Artifact \union {NoArtifact}]
      BY <1>3 DEF EngineInv, TypeOK
    <3>2. QED
      BY <3>1 DEF MergedMemo
  <2>2. EmptyMemo \in [Key \union {RootKey} -> Artifact \union {NoArtifact}]
    BY DEF EmptyMemo
  <2>3. memo \in [Node -> [Key \union {RootKey} -> Artifact \union {NoArtifact}]]
    BY DEF EngineInv, TypeOK
  <2>4. memo' = [e \in Node |-> IF e = c THEN EmptyMemo
                                ELSE IF e = engine[n] THEN MergedMemo(memo[engine[n]], memo[c])
                                ELSE memo[e]]
    BY <1>2, <1>3, <2>3
  <2>5. QED
    BY <1>3, <2>1, <2>2, <2>3, <2>4 DEF MergedMemo, EmptyMemo
<1>7. TypeOK'
  <2>1. engine' \in [Node -> Node]
    BY <1>2, <1>3 DEF EngineInv, TypeOK
  <2>2. QED
    BY <1>4, <1>6, <2>1 DEF EngineInv, TypeOK
<1>8. TreeInv'
  BY <1>4, <1>5 DEF EngineInv, TreeInv
<1>9. BranchInv'
  <2>1. engine'[Root] = Root
    BY <1>2, <1>3, EngineAssumption DEF EngineInv, BranchInv, Root, Node
  <2>2. ASSUME NEW m \in Node PROVE engine'[m] <= m
    <3>1. engine[m] <= m /\ engine[m] \in Node
      BY DEF EngineInv, BranchInv, TypeOK
    <3>2. engine[m] \in Nat /\ engine[n] \in Nat /\ m \in Nat
      BY <1>3, <3>1 DEF Node
    <3>3. QED
      BY <1>2, <1>3, <3>1, <3>2
  <2>3. ASSUME NEW m \in Node, NEW d \in ChildrenOf(m)
        PROVE  /\ plan[m] = "Stage" => engine'[d] = engine'[m]
               /\ plan[m] = "Parallel" =>
                    engine'[d] = d \/ (engine'[d] = engine'[m] /\ pc[d] \in {"some", "none"})
    <3>1. d \in Node /\ (d = c => m = n)
      BY <1>2, ChildrenAreNodes
    <3>2. /\ plan[m] = "Stage" => engine[d] = engine[m]
          /\ plan[m] = "Parallel" =>
               engine[d] = d \/ (engine[d] = engine[m] /\ pc[d] \in {"some", "none"})
      BY DEF EngineInv, BranchInv
    <3>3. CASE d = c
      BY <1>1, <1>2, <1>3, <3>1, <3>3
    <3>4. CASE d # c
      BY <1>2, <3>1, <3>2, <3>4
    <3>5. QED
      BY <3>3, <3>4
  <2>4. QED
    BY <1>4, <1>5, <2>1, <2>2, <2>3 DEF EngineInv, BranchInv
<1>10. GroupInv'
  <2>1. ASSUME NEW m \in Node, Quiet(m) PROVE Quiet(m)'
    BY <1>2, <1>4, <1>5, <2>1 DEF Quiet
  <2>2. ASSUME NEW m \in Node PROVE (Complete(m) => Complete(m)') /\ (Told(m) => Told(m)')
    BY <1>4, <1>5 DEF Complete, Told, Asks
  <2>3. QED
    BY <1>4, <2>1, <2>2 DEF EngineInv, GroupInv
<1>11. NodeInv' /\ MakerInv' /\ ReportInv' /\ OnlyCheckedWorkIsAccepted'
  BY <1>4 DEF EngineInv, NodeInv, NodeOK, IsUnsafe, MakerInv, ReportInv, OnlyCheckedWorkIsAccepted
<1>12. MemoIsBacked'
  <2> SUFFICES ASSUME NEW e \in Node, NEW k \in Key \union {RootKey}, memo'[e][k] # NoArtifact
               PROVE  \E m \in Node : engine'[m] = e /\ key[m] = k /\ accepted[m] = memo'[e][k]
    BY <1>4 DEF MemoIsBacked
  <2>1. e # c
    BY <1>6
  <2>2. CASE e = engine[n] /\ memo[c][k] # NoArtifact
    <3>1. PICK m \in Node : engine[m] = c /\ key[m] = k /\ accepted[m] = memo[c][k]
      BY <1>3, <2>2 DEF EngineInv, MemoIsBacked
    <3>2. QED
      BY <1>2, <1>6, <2>1, <2>2, <3>1
  <2>3. CASE ~(e = engine[n] /\ memo[c][k] # NoArtifact)
    <3>1. memo'[e][k] = memo[e][k]
      BY <1>6, <2>1, <2>3
    <3>2. PICK m \in Node : engine[m] = e /\ key[m] = k /\ accepted[m] = memo[e][k]
      BY <3>1 DEF EngineInv, MemoIsBacked
    <3>3. QED
      BY <1>2, <2>1, <3>1, <3>2
  <2>4. QED
    BY <2>2, <2>3
<1>13. QED
  BY <1>7, <1>8, <1>9, <1>10, <1>11, <1>12 DEF EngineInv

\* A plan group: the new nodes take the next ids, and none of them has been
\* touched before.
LEMMA PlannedInv ==
  ASSUME EngineInv, NEW n \in Node, Planned(n)
  PROVE  EngineInv'
<1>1. /\ pc[n] = "plan" /\ status' = [status EXCEPT ![n] = "Planned"]
      /\ UNCHANGED <<size, candidate, accepted, attempts, memo, cancelled, report, approved>>
  BY DEF Planned, Answered
<1>2. PICK count \in 1..MaxItems :
        /\ created + count \in Node /\ created' = created + count
        /\ children' = [children EXCEPT ![n] = [i \in 1..count |-> created + i]]
        /\ parent' = [c \in Node |-> IF c \in NewNodes(count) THEN n ELSE parent[c]]
        /\ depth' = [c \in Node |-> IF c \in NewNodes(count) THEN depth[n] + 1 ELSE depth[c]]
        /\ \E k \in [NewNodes(count) -> Key], s \in [NewNodes(count) -> SUBSET scope[n]] :
             /\ key' = [c \in Node |-> IF c \in NewNodes(count) THEN k[c] ELSE key[c]]
             /\ scope' = [c \in Node |->
                  IF c \notin NewNodes(count) THEN scope[c]
                  ELSE IF s[c] = {} THEN scope[n] ELSE s[c]]
        /\ \E mode \in {"Stage", "Parallel"} :
             /\ plan' = [plan EXCEPT ![n] = mode]
             /\ engine' = [c \in Node |->
                  IF c \notin NewNodes(count) THEN engine[c]
                  ELSE IF mode = "Parallel" THEN c ELSE engine[n]]
             /\ pc' = [c \in Node |->
                  IF c = n THEN "children"
                  ELSE IF c = created + 1 \/ (mode = "Parallel" /\ c \in NewNodes(count))
                  THEN "resolve" ELSE pc[c]]
  BY DEF Planned
<1>3. PICK mode \in {"Stage", "Parallel"} :
        /\ plan' = [plan EXCEPT ![n] = mode]
        /\ engine' = [c \in Node |->
             IF c \notin NewNodes(count) THEN engine[c]
             ELSE IF mode = "Parallel" THEN c ELSE engine[n]]
        /\ pc' = [c \in Node |->
             IF c = n THEN "children"
             ELSE IF c = created + 1 \/ (mode = "Parallel" /\ c \in NewNodes(count))
             THEN "resolve" ELSE pc[c]]
  BY <1>2
<1> DEFINE new == NewNodes(count)
<1>4. /\ created \in Nat /\ count \in Nat /\ count >= 1 /\ MaxNodes \in Nat /\ created >= 1
      /\ \A i \in 1..count : created + i \in new /\ created + i \in Node /\ created + i > created
      /\ \A m \in Node : m \in new <=> created < m /\ m <= created + count
      /\ \A m \in new : m \in Node /\ m \in Nat /\ \E i \in 1..count : m = created + i
  <2>1. /\ created \in 1..MaxNodes /\ MaxNodes \in Nat /\ count \in Nat /\ count >= 1
        /\ created + count \in 1..MaxNodes
    BY <1>2, EngineAssumption DEF EngineInv, TypeOK, Node
  <2>2. \A m \in new : m - created \in 1..count /\ m = created + (m - created)
    BY <2>1 DEF NewNodes
  <2>3. \A m \in new : \E i \in 1..count : m = created + i
    BY <2>2
  <2>4. QED
    BY <2>1, <2>3 DEF NewNodes, Node
<1>5. /\ n <= created /\ n \notin new /\ n \in Nat /\ children[n] = <<>>
      /\ \A m \in new : /\ pc[m] = "idle" /\ children[m] = <<>> /\ status[m] = "New"
                        /\ accepted[m] = NoArtifact /\ m # n /\ m > n
  <2>1. n \in Nat /\ n <= created /\ children[n] = <<>>
    BY <1>1, <1>4 DEF EngineInv, TreeInv, Node
  <2>2. \A m \in new : pc[m] = "idle" /\ children[m] = <<>> /\ status[m] = "New"
    BY <1>4 DEF EngineInv, TreeInv
  <2>3. \A m \in new : accepted[m] = NoArtifact
    BY <1>4, <2>2 DEF EngineInv, NodeInv, NodeOK, Early
  <2>4. n \notin new
    BY <1>1, <2>2
  <2>5. QED
    BY <1>4, <2>1, <2>2, <2>3, <2>4
<1> HIDE DEF new
<1>6. /\ engine' = [c \in Node |->
           IF c \notin new THEN engine[c] ELSE IF mode = "Parallel" THEN c ELSE engine[n]]
      /\ parent' = [c \in Node |-> IF c \in new THEN n ELSE parent[c]]
      /\ depth' = [c \in Node |-> IF c \in new THEN depth[n] + 1 ELSE depth[c]]
      /\ pc' = [c \in Node |->
           IF c = n THEN "children"
           ELSE IF c = created + 1 \/ (mode = "Parallel" /\ c \in new)
           THEN "resolve" ELSE pc[c]]
      /\ key' \in [Node -> Key \union {RootKey}] /\ \A c \in Node : c \notin new => key'[c] = key[c]
      /\ scope' \in [Node -> SUBSET Path] /\ \A c \in Node : c \notin new => scope'[c] = scope[c]
  <2>1. /\ key \in [Node -> Key \union {RootKey}] /\ scope \in [Node -> SUBSET Path]
        /\ scope[n] \in SUBSET Path
    BY DEF EngineInv, TypeOK
  <2>2. PICK k \in [new -> Key], s \in [new -> SUBSET scope[n]] :
             /\ key' = [c \in Node |-> IF c \in new THEN k[c] ELSE key[c]]
             /\ scope' = [c \in Node |->
                  IF c \notin new THEN scope[c] ELSE IF s[c] = {} THEN scope[n] ELSE s[c]]
    BY <1>2 DEF new
  <2>3. key' \in [Node -> Key \union {RootKey}] /\ \A c \in Node : c \notin new => key'[c] = key[c]
    BY <2>1, <2>2
  <2>4. scope' \in [Node -> SUBSET Path] /\ \A c \in Node : c \notin new => scope'[c] = scope[c]
    BY <2>1, <2>2
  <2>5. QED
    BY <1>2, <1>3, <2>3, <2>4 DEF new
<1>7. /\ pc'[n] = "children"
      /\ \A m \in new : pc'[m] \in {"idle", "resolve"}
      /\ \A m \in new : m # created + 1 /\ mode = "Stage" => pc'[m] = "idle"
      /\ \A m \in Node : m # n /\ m \notin new => pc'[m] = pc[m]
  <2>1. created + 1 \in new
    BY <1>4
  <2>2. QED
    BY <1>4, <1>5, <1>6, <2>1
<1>8. /\ children'[n] = [i \in 1..count |-> created + i]
      /\ \A m \in Node : m # n => children'[m] = children[m]
  BY <1>2 DEF EngineInv, TypeOK
<1>9. /\ ChildrenOf(n)' = new
      /\ \A m \in Node : m # n => ChildrenOf(m)' = ChildrenOf(m)
      /\ \A m \in Node : \A d \in ChildrenOf(m) : d \in Node /\ d \notin new /\ d # m
  <2>1. DOMAIN children'[n] = 1..count /\ \A i \in 1..count : children'[n][i] = created + i
    BY <1>8
  <2>2. ChildrenOf(n)' = {children'[n][i] : i \in DOMAIN children'[n]}
    BY DEF ChildrenOf, ToSet
  <2>3. ChildrenOf(n)' = new
    <3>1. ChildrenOf(n)' = {created + i : i \in 1..count}
      BY <2>1, <2>2
    <3>2. \A i \in 1..count : created + i \in new
      BY <1>4
    <3>3. \A m \in new : \E i \in 1..count : m = created + i
      BY <1>4
    <3>4. QED
      BY <3>1, <3>2, <3>3
  <2>4. ASSUME NEW m \in Node, NEW d \in ChildrenOf(m)
        PROVE  d \in Node /\ d \notin new /\ d # m
    <3>1. d \in Node /\ d <= created /\ d > m
      BY ChildrenAreNodes
    <3>2. d \in Nat /\ m \in Nat
      BY <3>1 DEF Node
    <3>3. QED
      BY <1>4, <3>1, <3>2
  <2>5. QED
    BY <1>8, <2>3, <2>4 DEF ChildrenOf
<1>10. TypeOK'
  <2>1. children' \in [Node -> Seq(Node)]
    <3>1. [i \in 1..count |-> created + i] \in Seq(Node)
      BY <1>4
    <3>2. QED
      BY <1>2, <3>1 DEF EngineInv, TypeOK
  <2>2. parent' \in [Node -> Node \union {0}] /\ depth' \in [Node -> Nat] /\ engine' \in [Node -> Node]
    BY <1>6 DEF EngineInv, TypeOK
  <2>3. status' \in [Node -> NodeStatus]
    BY <1>1 DEF EngineInv, TypeOK, NodeStatus
  <2>4. plan' \in [Node -> {"Execute", "NeedsPlanning", "Stage", "Parallel"}]
    BY <1>3 DEF EngineInv, TypeOK
  <2>5. pc' \in [Node -> {"idle", "resolve", "children", "check"} \union AgentOp \union Ended]
    BY <1>6 DEF EngineInv, TypeOK
  <2>6. QED
    BY <1>1, <1>2, <1>6, <2>1, <2>2, <2>3, <2>4, <2>5 DEF EngineInv, TypeOK
<1>11. TreeInv'
  <2>1. ASSUME NEW m \in Node, m > created'
        PROVE  pc'[m] = "idle" /\ children'[m] = <<>> /\ status'[m] = "New"
    <3>1. m \in Nat /\ m > created /\ m \notin new /\ m # n
      BY <1>2, <1>4, <1>5, <2>1 DEF Node
    <3>2. QED
      BY <1>1, <1>7, <1>8, <3>1 DEF EngineInv, TreeInv, TypeOK
  <2>2. parent'[Root] = 0
    <3>1. Root \in Node /\ Root \notin new
      BY <1>4, EngineAssumption DEF Root, Node
    <3>2. QED
      BY <1>6, <3>1 DEF EngineInv, TreeInv
  <2>3. ASSUME NEW m \in Node, 1 < m, m <= created'
        PROVE  \E q \in Node : parent'[m] = q /\ \E i \in DOMAIN children'[q] : children'[q][i] = m
    <3>1. CASE m \in new
      <4>1. PICK i \in 1..count : m = created + i
        BY <1>4, <3>1
      <4>2. i \in DOMAIN children'[n] /\ children'[n][i] = m
        BY <1>8, <4>1
      <4>3. QED
        BY <1>6, <3>1, <4>2
    <3>2. CASE m \notin new
      <4>1. m <= created
        BY <1>2, <1>4, <2>3, <3>2 DEF Node
      <4>2. PICK q \in Node : q = parent[m] /\ m \in ChildrenOf(q)
        BY <2>3, <4>1 DEF EngineInv, TreeInv
      <4>3. q # n /\ parent'[m] = q
        BY <1>5, <1>6, <3>2, <4>2, ChildrenAreNodes
      <4>4. PICK i \in DOMAIN children[q] : children[q][i] = m
        BY <4>2, ChildrenAreNodes
      <4>5. QED
        BY <1>8, <4>3, <4>4
    <3>3. QED
      BY <3>1, <3>2
  <2>4. ASSUME NEW m \in Node, NEW i \in DOMAIN children'[m]
        PROVE  /\ children'[m][i] > m /\ children'[m][i] <= created'
               /\ parent'[children'[m][i]] = m
    <3>1. CASE m = n
      <4>1. i \in 1..count /\ children'[m][i] = created + i
        BY <1>8, <2>4, <3>1
      <4>2. created + i \in new /\ created + i \in Node /\ created + i <= created + count
        BY <1>4, <4>1
      <4>3. created + i > n /\ parent'[created + i] = n
        BY <1>5, <1>6, <4>2
      <4>4. QED
        BY <1>2, <3>1, <4>1, <4>2, <4>3
    <3>2. CASE m # n
      <4>1. i \in DOMAIN children[m] /\ children'[m][i] = children[m][i]
        BY <1>8, <3>2
      <4>2. /\ children[m][i] > m /\ children[m][i] <= created /\ parent[children[m][i]] = m
            /\ children[m][i] \in ChildrenOf(m)
        BY <4>1, ChildrenAreNodes
      <4>3. children[m][i] \in Node /\ children[m][i] \notin new
        BY <1>9, <4>2
      <4>4. children[m][i] \in Nat
        BY <4>3 DEF Node
      <4>5. QED
        BY <1>2, <1>4, <1>6, <4>1, <4>2, <4>3, <4>4
    <3>3. QED
      BY <3>1, <3>2
  <2>5. ASSUME NEW m \in Node, NEW i \in DOMAIN children'[m], NEW j \in DOMAIN children'[m],
               children'[m][i] = children'[m][j]
        PROVE  i = j
    <3>1. CASE m = n
      BY <1>4, <1>8, <2>5, <3>1
    <3>2. CASE m # n
      BY <1>8, <2>5, <3>2 DEF EngineInv, TreeInv
    <3>3. QED
      BY <3>1, <3>2
  <2>6. ASSUME NEW m \in Node, pc'[m] \in {"idle", "resolve", "specify", "plan"}
        PROVE  children'[m] = <<>>
    <3>1. m # n
      BY <1>7, <2>6
    <3>2. QED
      BY <1>5, <1>7, <1>8, <2>6, <3>1 DEF EngineInv, TreeInv
  <2>7. ASSUME NEW m \in Node, children'[m] # <<>>
        PROVE  plan'[m] \in {"Stage", "Parallel"}
    BY <1>3, <1>8, <2>7 DEF EngineInv, TypeOK, TreeInv
  <2>8. QED
    <3>1. \A m \in Node : 1 < m /\ m <= created' =>
            parent'[m] \in Node /\ (m \in ChildrenOf(parent[m]))'
      BY <2>3 DEF ChildrenOf, ToSet
    <3>2. QED
      BY <2>1, <2>2, <2>4, <2>5, <2>6, <2>7, <3>1 DEF TreeInv
<1>12. BranchInv'
  <2>1. engine'[Root] = Root
    <3>1. Root \in Node /\ Root \notin new
      BY <1>4, EngineAssumption DEF Root, Node
    <3>2. QED
      BY <1>6, <3>1 DEF EngineInv, BranchInv
  <2>2. ASSUME NEW m \in Node PROVE engine'[m] <= m
    <3>1. engine[n] <= n /\ engine[m] <= m /\ engine[n] \in Nat /\ m \in Nat
      BY DEF EngineInv, BranchInv, TypeOK, Node
    <3>2. CASE m \in new
      BY <1>5, <1>6, <3>1, <3>2
    <3>3. CASE m \notin new
      BY <1>6, <3>1, <3>3
    <3>4. QED
      BY <3>2, <3>3
  <2>3. ASSUME NEW m \in Node, NEW i \in DOMAIN children'[m], NEW j \in DOMAIN children'[m],
               plan'[m] = "Stage", i < j, pc'[children'[m][j]] # "idle"
        PROVE  pc'[children'[m][i]] = "some"
    <3>1. CASE m = n
      <4>1. mode = "Stage"
        BY <1>3, <2>3, <3>1 DEF EngineInv, TypeOK
      <4>2. i \in 1..count /\ j \in 1..count /\ children'[m][j] = created + j
        BY <1>8, <2>3, <3>1
      <4>3. created + j \in new /\ created + j # created + 1
        BY <1>4, <2>3, <4>2
      <4>4. pc'[created + j] = "idle"
        BY <1>7, <4>1, <4>3
      <4>5. QED
        BY <2>3, <4>2, <4>4
    <3>2. CASE m # n
      <4>1. /\ i \in DOMAIN children[m] /\ j \in DOMAIN children[m]
            /\ children'[m] = children[m] /\ plan[m] = "Stage"
        BY <1>3, <1>8, <2>3, <3>2 DEF EngineInv, TypeOK
      <4>2. /\ children[m][i] \in Node /\ children[m][i] \notin new
            /\ children[m][j] \in Node /\ children[m][j] \notin new
        BY <1>9, <4>1, ChildrenAreNodes
      <4>3. pc[children[m][j]] # "idle"
        BY <1>1, <1>7, <2>3, <4>1, <4>2
      <4>4. pc[children[m][i]] = "some"
        BY <2>3, <4>1, <4>3 DEF EngineInv, BranchInv
      <4>5. QED
        BY <1>1, <1>7, <4>1, <4>2, <4>4
    <3>3. QED
      BY <3>1, <3>2
  <2>4. ASSUME NEW m \in Node, NEW d \in ChildrenOf(m)'
        PROVE  /\ plan'[m] = "Stage" => engine'[d] = engine'[m]
               /\ plan'[m] = "Parallel" =>
                    engine'[d] = d \/ (engine'[d] = engine'[m] /\ pc'[d] \in {"some", "none"})
    <3>1. CASE m = n
      <4>1. d \in new /\ d \in Node /\ plan'[n] = mode
        BY <1>3, <1>4, <1>9, <2>4, <3>1 DEF EngineInv, TypeOK
      <4>2. QED
        BY <1>5, <1>6, <3>1, <4>1
    <3>2. CASE m # n
      <4>1. d \in ChildrenOf(m) /\ d \in Node /\ d \notin new /\ plan'[m] = plan[m]
        BY <1>3, <1>9, <2>4, <3>2 DEF EngineInv, TypeOK
      <4>2. m \notin new
        BY <1>5, <4>1, ChildrenAreNodes
      <4>3. engine'[d] = engine[d] /\ engine'[m] = engine[m]
        BY <1>6, <4>1, <4>2
      <4>4. pc[d] \in {"some", "none"} => pc'[d] = pc[d]
        BY <1>1, <1>7, <4>1
      <4>5. QED
        BY <4>1, <4>3, <4>4 DEF EngineInv, BranchInv
    <3>3. QED
      BY <3>1, <3>2
  <2>5. QED
    BY <2>1, <2>2, <2>3, <2>4 DEF BranchInv
<1>13. /\ status'[n] = "Planned" /\ \A m \in Node : m # n => status'[m] = status[m]
  BY <1>1 DEF EngineInv, TypeOK
<1>14. GroupInv'
  <2>1. ASSUME NEW m \in Node, pc'[m] \in Past \/ status'[m] = "Committed"
        PROVE  /\ m # n /\ m \notin new /\ pc'[m] = pc[m] /\ status'[m] = status[m]
               /\ Quiet(m) /\ ChildrenOf(m)' = ChildrenOf(m)
    <3>1. m # n /\ m \notin new
      BY <1>5, <1>7, <1>13, <2>1 DEF Past
    <3>2. QED
      BY <1>7, <1>9, <1>13, <2>1, <3>1 DEF EngineInv, GroupInv
  <2>2. ASSUME NEW m \in Node, pc'[m] \in Past \/ status'[m] = "Committed",
               NEW d \in ChildrenOf(m)
        PROVE  /\ d \in Node /\ d # n /\ d \notin new /\ pc'[d] = pc[d] /\ status'[d] = status[d]
               /\ engine'[d] = engine'[m] /\ pc[d] \in {"idle", "some", "none"}
    <3>1. d \in Node /\ d \notin new /\ pc[d] \in {"idle", "some", "none"} /\ engine[d] = engine[m]
      BY <1>9, <2>1, <2>2 DEF Quiet
    <3>2. d # n
      BY <1>1, <3>1
    <3>3. m \notin new
      BY <2>1, <2>2
    <3>4. QED
      BY <1>6, <1>7, <1>13, <3>1, <3>2, <3>3
  <2>3. ASSUME NEW m \in Node
        PROVE  /\ pc'[m] \in Past \/ status'[m] = "Committed" => Quiet(m)'
               /\ pc'[m] \in Past \ {"none"} \/ status'[m] = "Committed" => Complete(m)'
               /\ pc'[m] \in {"some", "none"} => Told(m)'
    <3>1. pc'[m] \in Past \/ status'[m] = "Committed" => Quiet(m)'
      BY <2>1, <2>2 DEF Quiet
    <3>2. pc'[m] \in Past \ {"none"} \/ status'[m] = "Committed" => Complete(m)'
      BY <1>1, <2>1 DEF EngineInv, GroupInv, Complete
    <3>3. pc'[m] \in {"some", "none"} => Told(m)'
      <4> SUFFICES ASSUME pc'[m] \in {"some", "none"} PROVE Told(m)'
        OBVIOUS
      <4>1. pc[m] = pc'[m] /\ status'[m] = status[m] /\ Told(m) /\ ChildrenOf(m)' = ChildrenOf(m)
        BY <2>1 DEF EngineInv, GroupInv, Past
      <4>2. \A d \in ChildrenOf(m) : status'[d] = status[d]
        BY <2>2 DEF Past
      <4>3. QED
        BY <1>1, <4>1, <4>2 DEF Told, Asks
    <3>4. QED
      BY <3>1, <3>2, <3>3
  <2>4. QED
    BY <2>3 DEF GroupInv
<1>15. NodeInv'
  <2>1. ASSUME NEW m \in Node PROVE NodeOK(m)'
    <3>1. NodeOK(m)
      BY DEF EngineInv, NodeInv
    <3>2. CASE m = n
      BY <1>1, <1>7, <1>13, <3>1, <3>2 DEF NodeOK, Early
    <3>3. CASE m \in new
      <4>1. pc[m] = "idle" /\ m # n
        BY <1>5, <3>3
      <4>2. pc'[m] \in {"idle", "resolve"} /\ status'[m] = status[m]
        BY <1>7, <1>13, <3>3, <4>1
      <4>3. QED
        BY <1>1, <3>1, <4>1, <4>2 DEF NodeOK, Early
    <3>4. CASE m # n /\ m \notin new
      <4>1. pc'[m] = pc[m] /\ status'[m] = status[m] /\ scope'[m] = scope[m]
        BY <1>6, <1>7, <1>13, <3>4
      <4>2. QED
        BY <1>1, <3>1, <4>1 DEF NodeOK, IsUnsafe
    <3>5. QED
      BY <3>2, <3>3, <3>4
  <2>2. QED
    BY <2>1 DEF NodeInv
<1>16. MakerInv' /\ OnlyCheckedWorkIsAccepted'
  <2>1. ASSUME NEW m \in Node, accepted[m] # NoArtifact
        PROVE  /\ m \notin new /\ scope'[m] = scope[m]
               /\ accepted[m].node \in Node /\ pc'[accepted[m].node] \notin Early
    <3>1. m \notin new
      BY <1>5, <2>1
    <3>2. accepted[m].node \in Node /\ pc[accepted[m].node] \notin Early
      BY <2>1 DEF EngineInv, TypeOK, MakerInv, Artifact
    <3>3. accepted[m].node # n /\ accepted[m].node \notin new
      BY <1>1, <1>5, <3>2 DEF Early
    <3>4. QED
      BY <1>6, <1>7, <3>1, <3>2, <3>3
  <2>2. QED
    BY <1>1, <2>1 DEF EngineInv, MakerInv, OnlyCheckedWorkIsAccepted
<1>17. MemoIsBacked'
  <2> SUFFICES ASSUME NEW e \in Node, NEW k \in Key \union {RootKey}, memo[e][k] # NoArtifact
               PROVE  \E m \in Node : engine'[m] = e /\ key'[m] = k /\ accepted[m] = memo[e][k]
    BY <1>1 DEF MemoIsBacked
  <2>1. PICK m \in Node : engine[m] = e /\ key[m] = k /\ accepted[m] = memo[e][k]
    BY DEF EngineInv, MemoIsBacked
  <2>2. m \notin new
    BY <1>5, <2>1
  <2>3. QED
    BY <1>6, <2>1, <2>2
<1>18. ReportInv'
  <2>1. Root \in Node /\ Root \notin new
    BY <1>4, EngineAssumption DEF Root, Node
  <2>2. n = Root => report \notin ReportStatus
    BY <1>1 DEF EngineInv, ReportInv
  <2>3. QED
    BY <1>1, <1>7, <1>13, <2>1, <2>2 DEF EngineInv, ReportInv
<1>19. QED
  BY <1>10, <1>11, <1>12, <1>14, <1>15, <1>16, <1>17, <1>18 DEF EngineInv

-----------------------------------------------------------------------------
(* The invariant, and what follows from it.                                *)

LEMMA InitInv == Init => EngineInv
<1> SUFFICES ASSUME Init PROVE EngineInv
  OBVIOUS
<1>1. Root \in Node /\ Root = 1 /\ MaxNodes \in Nat /\ \A n \in Node : n >= Root /\ n \in Nat
  BY EngineAssumption DEF Root, Node
<1>2. /\ \A n \in Node : pc[n] \in {"idle", "resolve"} /\ status[n] = "New" /\ children[n] = <<>>
      /\ \A n \in Node : n # Root => pc[n] = "idle"
      /\ \A n \in Node : accepted[n] = NoArtifact /\ candidate[n] = NoArtifact /\ attempts[n] = 0
      /\ \A n \in Node : engine[n] = Root /\ parent[n] = 0 /\ ChildrenOf(n) = {}
      /\ created = Root /\ report = "none"
  BY DEF Init, ChildrenOf, ToSet
<1>3. \A e \in Node, k \in Key \union {RootKey} : memo[e][k] = NoArtifact
  BY DEF Init, EmptyMemo
<1>4. TypeOK
  <2>1. children \in [Node -> Seq(Node)]
    BY DEF Init
  <2>2. memo \in [Node -> [Key \union {RootKey} -> Artifact \union {NoArtifact}]]
    BY DEF Init, EmptyMemo
  <2>3. attempts \in [Node -> Attempted]
    <3>1. 0 \in Attempted
      BY EngineAssumption DEF Attempted
    <3>2. QED
      BY <3>1 DEF Init
  <2>4. /\ status \in [Node -> NodeStatus] /\ size \in [Node -> {"Tiny", "Small", "Large"}]
        /\ plan \in [Node -> {"Execute", "NeedsPlanning", "Stage", "Parallel"}]
    BY DEF Init, NodeStatus
  <2>5. /\ candidate \in [Node -> Artifact \union {NoArtifact}]
        /\ accepted \in [Node -> Artifact \union {NoArtifact}]
    BY DEF Init
  <2>6. pc \in [Node -> {"idle", "resolve", "children", "check"} \union AgentOp \union Ended]
    BY DEF Init
  <2>7. scope \in [Node -> SUBSET Path] /\ key \in [Node -> Key \union {RootKey}]
    BY EngineAssumption DEF Init
  <2>8. /\ parent \in [Node -> Node \union {0}] /\ depth \in [Node -> Nat] /\ engine \in [Node -> Node]
    BY <1>1 DEF Init
  <2>9. created \in Node /\ cancelled \in BOOLEAN /\ report = "none" /\ approved \in SUBSET Artifact
    BY <1>1 DEF Init
  <2>10. QED
    BY <2>1, <2>2, <2>3, <2>4, <2>5, <2>6, <2>7, <2>8, <2>9 DEF TypeOK
<1>5. TreeInv
  BY <1>1, <1>2 DEF TreeInv
<1>6. BranchInv
  <2>1. \A n \in Node : engine[n] <= n
    BY <1>1, <1>2
  <2>2. \A n \in Node : DOMAIN children[n] = {}
    BY <1>2
  <2>3. QED
    BY <1>1, <1>2, <2>1, <2>2 DEF BranchInv
<1>7. GroupInv
  BY <1>2 DEF GroupInv, Past, Quiet, Complete, Told
<1>8. NodeInv
  BY <1>2 DEF NodeInv, NodeOK
<1>9. MakerInv /\ OnlyCheckedWorkIsAccepted
  BY <1>2 DEF MakerInv, OnlyCheckedWorkIsAccepted
<1>10. MemoIsBacked /\ ReportInv
  BY <1>2, <1>3 DEF MemoIsBacked, ReportInv, ReportStatus
<1>11. QED
  BY <1>4, <1>5, <1>6, <1>7, <1>8, <1>9, <1>10 DEF EngineInv

\* The run reports the status of its root, or is cancelled.
LEMMA RunInv ==
  ASSUME EngineInv, Finish \/ Cancel
  PROVE  EngineInv'
<1>1. UNCHANGED <<treeVars, workVars, pc, engineVars, approved>>
  BY DEF Finish, Cancel
<1>2. UNCHANGED <<created, parent, children, depth, key, scope, status, size, plan, candidate,
                  accepted, attempts, pc, engine, memo, approved>>
  BY <1>1 DEF treeVars, workVars, engineVars
<1>3. TreeInv' /\ BranchInv' /\ GroupInv' /\ NodeInv' /\ MakerInv'
  BY <1>2 DEF EngineInv, TreeInv, BranchInv, GroupInv, NodeInv, MakerInv, ChildrenOf, ToSet,
              Quiet, Complete, Told, Asks, NodeOK, IsUnsafe
<1>4. OnlyCheckedWorkIsAccepted' /\ MemoIsBacked'
  BY <1>2 DEF EngineInv, OnlyCheckedWorkIsAccepted, MemoIsBacked
<1>5. Root \in Node
  BY EngineAssumption DEF Root, Node
<1>6. /\ cancelled' \in BOOLEAN /\ report' \in ReportStatus \union {"none", "Failed", "Cancelled"}
      /\ ReportInv'
  <2>1. CASE Cancel
    BY <1>2, <2>1 DEF Cancel, EngineInv, TypeOK, ReportInv
  <2>2. CASE Finish
    <3>1. pc[Root] \in {"some", "none"} => status[Root] \in ReportStatus
      BY <1>5 DEF EngineInv, NodeInv, NodeOK, ReportStatus
    <3>2. cancelled' = cancelled /\ \/ pc[Root] \in {"some", "none"} /\ report' \in {status[Root], "Failed"}
                                    \/ report' \in {"Failed", "Cancelled"}
      BY <2>2 DEF Finish
    <3>3. QED
      BY <1>2, <3>1, <3>2 DEF EngineInv, TypeOK, ReportInv, ReportStatus
  <2>3. QED
    BY <2>1, <2>2
<1>7. TypeOK'
  BY <1>2, <1>6 DEF EngineInv, TypeOK
<1>8. QED
  BY <1>3, <1>4, <1>6, <1>7 DEF EngineInv

LEMMA NextInv ==
  ASSUME EngineInv, [Next]_vars
  PROVE  EngineInv'
<1>1. ASSUME NEW n \in Node, Local(n) PROVE EngineInv'
  BY <1>1, ResolveInv, StageNextInv, JoinInv, FailInv, GroupDoneInv, VerdictInv DEF Local
<1>2. ASSUME NEW n \in Node, Answer(n) PROVE EngineInv'
  BY <1>2, SpecifiedInv, PlannedInv, ExecutedInv, CombinedInv, AcceptInv, VerdictInv, FailInv
  DEF Answer
<1>3. ASSUME NEW n \in Node, AgentCancelled(n) \/ DropBranch(n) PROVE EngineInv'
  BY <1>3, FailInv, DropBranchInv
<1>4. CASE Finish \/ Cancel
  BY <1>4, RunInv
<1>5. CASE UNCHANGED vars
  <2>1. UNCHANGED <<created, parent, children, depth, key, scope, status, size, plan, candidate,
                    accepted, attempts, pc, engine, memo, cancelled, report, approved>>
    BY <1>5 DEF vars, treeVars, workVars, engineVars
  <2>2. TreeInv' /\ BranchInv' /\ GroupInv' /\ NodeInv' /\ MakerInv'
    BY <2>1 DEF EngineInv, TreeInv, BranchInv, GroupInv, NodeInv, MakerInv, ChildrenOf, ToSet,
                Quiet, Complete, Told, Asks, NodeOK, IsUnsafe
  <2>3. OnlyCheckedWorkIsAccepted' /\ MemoIsBacked'
    BY <2>1 DEF EngineInv, OnlyCheckedWorkIsAccepted, MemoIsBacked
  <2>4. ReportInv' /\ TypeOK'
    BY <2>1 DEF EngineInv, ReportInv, TypeOK
  <2>5. QED
    BY <2>2, <2>3, <2>4 DEF EngineInv
<1>6. QED
  BY <1>1, <1>2, <1>3, <1>4, <1>5 DEF Next

THEOREM Invariance == Spec => []EngineInv
<1>1. Init => EngineInv
  BY InitInv
<1>2. EngineInv /\ [Next]_vars => EngineInv'
  BY NextInv
<1>3. QED
  BY <1>1, <1>2, PTL DEF Spec

\* Every variable of the engine keeps its type; in particular a run that
\* ends well reports a status the task board can map, and no node is
\* executed more often than its budget of attempts allows.
THEOREM TypeCorrect == Spec => []TypeOK
BY Invariance, PTL DEF EngineInv

\* Whatever path it took, an accepted artifact was accepted by a verifier or
\* is Tiny work without changes, and it stays within the write scope.
THEOREM OnlyCheckedWork == Spec => []OnlyCheckedWorkIsAccepted
BY Invariance, PTL DEF EngineInv

\* The memo of an engine holds only work accepted in that engine.
THEOREM MemoBacked == Spec => []MemoIsBacked
BY Invariance, PTL DEF EngineInv

\* combine and commit see the accepted work of every child of a group, and
\* none of the children is still at work.
THEOREM GroupsComplete == Spec => []CombinesCompleteGroups
<1>1. EngineInv => CombinesCompleteGroups
  BY DEF EngineInv, GroupInv, CombinesCompleteGroups, Past, Quiet, Complete, Active, Ended
<1>2. QED
  BY <1>1, Invariance, PTL

LEMMA ParentStopped ==
  ASSUME EngineInv, pc[Root] \in {"some", "none"}
  PROVE  \A n \in Node : n <= created =>
           pc[n] \in {"idle", "some", "none"} /\ engine[n] = Root
<1> DEFINE Bad == {n \in Node : n <= created /\ ~(pc[n] \in {"idle", "some", "none"} /\ engine[n] = Root)}
<1>1. SUFFICES ASSUME Bad # {} PROVE FALSE
  OBVIOUS
<1>2. Bad \in SUBSET Nat
  BY DEF Node
<1>3. PICK n \in Bad : \A m \in Bad : n <= m
  <2> HIDE DEF Bad
  <2>1. QED
    BY <1>1, <1>2, LeastElement
<1>4. n # Root
  BY <1>3 DEF EngineInv, BranchInv
<1>5. 1 < n /\ n \in Nat /\ n <= created
  BY <1>3, <1>4 DEF Node, Root
<1>6. PICK p \in Node : p = parent[n] /\ n \in ChildrenOf(p)
  BY <1>3, <1>5 DEF EngineInv, TreeInv
<1>7. p < n /\ p <= created
  <2>1. n > p
    BY <1>6, ChildrenAreNodes
  <2>2. created \in Nat /\ p \in Nat
    BY DEF EngineInv, TypeOK, Node
  <2>3. QED
    BY <1>5, <2>1, <2>2
<1>8. p \notin Bad
  BY <1>3, <1>5, <1>7 DEF Node
<1>9. pc[p] \in {"some", "none"} /\ engine[p] = Root
  BY <1>6, <1>7, <1>8, ChildrenAreNodes DEF EngineInv, TreeInv
<1>10. Quiet(p)
  BY <1>9 DEF EngineInv, GroupInv, Past
<1>11. QED
  BY <1>3, <1>6, <1>9, <1>10 DEF Quiet

\* When the run returned a status nothing of it is still running, and every
\* branch was joined into the engine of the root.
THEOREM NothingOutlives == Spec => []NothingOutlivesTheReport
<1>1. EngineInv => NothingOutlivesTheReport
  <2> SUFFICES ASSUME EngineInv, report \in ReportStatus, NEW n \in Node, n <= created
               PROVE  ~Active(n) /\ engine[n] = Root
    BY DEF NothingOutlivesTheReport
  <2>1. pc[Root] \in {"some", "none"}
    BY DEF EngineInv, ReportInv
  <2>2. pc[n] \in {"idle", "some", "none"} /\ engine[n] = Root
    BY <2>1, ParentStopped
  <2>3. QED
    BY <2>2 DEF Active, Ended
<1>2. QED
  BY <1>1, Invariance, PTL

\* A question of any node, however deep and in whatever branch, makes the
\* whole task wait for information.
THEOREM QuestionsReach == Spec => []QuestionsReachTheReport
<1>1. EngineInv => QuestionsReachTheReport
  <2> SUFFICES ASSUME EngineInv, report \in ReportStatus, NEW q \in Node, Asks(q)
               PROVE  report = "WaitingForInfo"
    BY DEF QuestionsReachTheReport, Asks
  <2> DEFINE Asking == {n \in Node : Asks(n)}
  <2>1. pc[Root] \in {"some", "none"} /\ report = status[Root]
    BY DEF EngineInv, ReportInv
  <2>2. PICK n \in Asking : \A m \in Asking : n <= m
    <3>1. Asking \in SUBSET Nat /\ Asking # {}
      BY DEF Node
    <3> HIDE DEF Asking
    <3>2. QED
      BY <3>1, LeastElement
  <2>3. CASE n = Root
    BY <2>1, <2>2, <2>3 DEF Asks
  <2>4. CASE n # Root
    <3>1. n <= created /\ 1 < n /\ n \in Nat
      <4>1. created \in Nat /\ n \in Nat /\ n >= 1
        BY <2>2 DEF EngineInv, TypeOK, Node
      <4>2. ~(n > created)
        BY <2>2 DEF EngineInv, TreeInv, Asks
      <4>3. QED
        BY <2>4, <4>1, <4>2 DEF Root
    <3>2. PICK p \in Node : p = parent[n] /\ n \in ChildrenOf(p)
      BY <2>2, <3>1 DEF EngineInv, TreeInv
    <3>3. p < n /\ p <= created
      <4>1. n > p
        BY <3>2, ChildrenAreNodes
      <4>2. created \in Nat /\ p \in Nat
        BY DEF EngineInv, TypeOK, Node
      <4>3. QED
        BY <3>1, <4>1, <4>2
    <3>4. pc[p] \in {"some", "none"}
      BY <2>1, <3>2, <3>3, ParentStopped, ChildrenAreNodes DEF EngineInv, TreeInv
    <3>5. Asks(p)
      BY <2>2, <3>2, <3>4 DEF EngineInv, GroupInv, Told
    <3>6. QED
      BY <2>2, <3>1, <3>3, <3>5 DEF Node
  <2>5. QED
    BY <2>3, <2>4
<1>2. QED
  BY <1>1, Invariance, PTL

\* run_agent_with_context checks the token before it starts a run and before
\* it uses an answer: no step of a cancelled engine starts an agent run.
THEOREM NoAgentAfterCancel == Spec => NoAgentStartsAfterCancel
<1> DEFINE Started == cancelled => \A n \in Node : pc'[n] \in AgentOp => pc'[n] = pc[n]
<1>1. ASSUME EngineInv, [Next]_vars, cancelled, NEW m \in Node, pc'[m] \in AgentOp
      PROVE  pc'[m] = pc[m]
  <2>1. pc \in [Node -> {"idle", "resolve", "children", "check"} \union AgentOp \union Ended]
    BY <1>1 DEF EngineInv, TypeOK
  <2>2. ASSUME NEW n \in Node, NEW x \in {"resolve", "error", "some", "none", "check"}, Goto(n, x)
        PROVE  pc'[m] = pc[m]
    BY <1>1, <2>1, <2>2 DEF Goto, AgentOp
  <2>3. ASSUME NEW n \in Node, NEW op, CallAgent(n, op) PROVE pc'[m] = pc[m]
    BY <1>1, <2>2, <2>3 DEF CallAgent
  <2>4. ASSUME NEW n \in Node, Local(n) PROVE pc'[m] = pc[m]
    <3>1. CASE Resolve(n)
      BY <2>2, <2>3, <3>1 DEF Resolve
    <3>2. CASE StageNext(n)
      <4>1. PICK i \in 1..(Len(children[n]) - 1) : Goto(children[n][i + 1], "resolve")
        BY <3>2 DEF StageNext
      <4>2. children[n][i + 1] \in Node
        BY <1>1, ChildrenAreNodes
      <4>3. QED
        BY <2>2, <4>1, <4>2
    <3>3. CASE Join(n)
      BY <3>3 DEF Join
    <3>4. CASE ChildFails(n) \/ Blocked(n)
      BY <2>2, <3>4 DEF ChildFails, Blocked
    <3>5. CASE StartCombine(n)
      BY <2>3, <3>5 DEF StartCombine
    <3>6. CASE Check(n)
      BY <2>2, <2>3, <3>6 DEF Check, RejectBadOutput, RejectUnsafe, GiveUp, Retry
    <3>7. QED
      BY <2>4, <3>1, <3>2, <3>3, <3>4, <3>5, <3>6 DEF Local
  <2>5. ASSUME NEW n \in Node, Answer(n) PROVE pc'[m] = pc[m]
    BY <1>1, <2>2, <2>5 DEF Answer, Specified, Planned, Executed, Combined, VerifyAccepts,
                            VerifyAsks, VerifyRejects, AgentFails, Answered
  <2>6. ASSUME NEW n \in Node, AgentCancelled(n) \/ DropBranch(n) PROVE pc'[m] = pc[m]
    BY <1>1, <2>2, <2>6 DEF AgentCancelled, DropBranch, AgentOp
  <2>7. CASE Finish \/ Cancel \/ UNCHANGED vars
    BY <2>7 DEF Finish, Cancel, vars
  <2>8. QED
    BY <1>1, <2>4, <2>5, <2>6, <2>7 DEF Next
<1>2. EngineInv /\ [Next]_vars => [Started]_vars
  BY <1>1
<1>3. QED
  BY <1>2, Invariance, PTL DEF Spec, NoAgentStartsAfterCancel

=============================================================================

-------------------------- MODULE WorkspacesProofs --------------------------
(***************************************************************************)
(* Proofs about Workspaces for every tree of nodes, any number of attempts *)
(* and of failing git commands, when one task uses the repository          *)
(* (OneTask; two tasks collide, as Workspaces_names.cfg shows).            *)
(***************************************************************************)
EXTENDS Workspaces, Integers, SequenceTheorems, FiniteSetTheorems,
        WellFoundedInduction, TLAPS

-----------------------------------------------------------------------------
(* The node nearest to the root that would break a claim.                  *)

\* A set of natural numbers has a least element.
LEMMA LeastElement ==
  ASSUME NEW T \in SUBSET Nat, T # {}
  PROVE  \E x \in T : \A y \in T : x <= y
<1> DEFINE R == OpToRel(<, Nat)
<1>1. \A x, y \in Nat : y < x => <<y, x>> \in R
  BY DEF OpToRel
<1>2. IsWellFoundedOn(R, Nat)
  BY NatLessThanWellFounded
<1> HIDE DEF R
<1>3. PICK x \in T : \A y \in T : ~(<<y, x>> \in R)
  BY <1>2, WFMin
<1>4. \A y \in T : y \in Nat /\ x \in Nat /\ ~(y < x)
  BY <1>1, <1>3
<1>5. QED
  BY <1>3, <1>4

-----------------------------------------------------------------------------

Top == CHOOSE r \in Root : TRUE

OneTask == Root = {Top}

Fail == {"error", "dropping", "aborted"}

\* A node whose children may still be at work, or that failed over them.
Open == {"children"} \union Fail

-----------------------------------------------------------------------------
(* The invariant.                                                          *)

\* Work is under nodes that wait for it, and engines nest like the tree.
TreeInv ==
  /\ home[Top] = Top /\ pc[Top] \notin {"idle", "dropping", "aborted"}
  /\ \A n \in Node :
       /\ home[n] <= n /\ home[home[n]] = home[n] /\ pc[home[n]] # "idle"
       /\ pc[n] = "idle" => home[n] = Top
  /\ \A n \in Node : \A i \in DOMAIN Tree[n] :
       /\ pc[n] \in {"idle", "specify"} => pc[Tree[n][i]] = "idle"
       /\ pc[Tree[n][i]] \notin {"idle", "done", "none"} => pc[n] \in Open
       /\ home[Tree[n][i]] = Tree[n][i] => pc[n] \in Open /\ n \in Parallel
  /\ \A n \in Node \ Parallel : \A i, j \in DOMAIN Tree[n] :
       i < j /\ pc[Tree[n][j]] # "idle" => pc[Tree[n][i]] = "done"

\* A node opens one surface for each attempt, and one to combine.
CountInv ==
  \A n \in Node :
    /\ pc[n] \in {"idle", "specify", "children"} => opened[n] = 0 /\ attempts[n] = 0
    /\ pc[n] = "agent" => attempts[n] + 1 <= opened[n] /\ opened[n] <= attempts[n] + 2
    /\ pc[n] = "verify" =>
         1 <= opened[n] /\ attempts[n] <= opened[n] /\ opened[n] <= attempts[n] + 1

IsOpen(s) == s[2] <= opened[s[1]]

\* The next name is new to the task and to git.
NameInv ==
  /\ \A s \in Surface : IsOpen(s) => name[s] # <<>> /\ name[s][3] <= ids[Top].resource
  /\ \A s, t \in Surface : IsOpen(s) /\ IsOpen(t) /\ name[s] = name[t] => s = t
  /\ \A i \in git : i.name # <<>> /\ i.name[3] <= ids[Top].resource
  /\ ~IsGit => git = {}

RegistryInv ==
  /\ \A r \in Resource : state[r] # "none" => IsOpen(r[1]) /\ r[2] \in KindsOpened
  /\ \A r \in Resource : r[2] # "plain" =>
       /\ state[r] = "Active" => Item(r) \in git
       /\ state[r] = "Released" => Item(r) \notin git

\* The guard of the engine that holds n has run.
Dropped(n) == home[n] # Top /\ pc[home[n]] \in {"error", "aborted"}

Keeps(r) == state[r] = "Active" /\ refs[r] # {}

\* Only the guard takes what a candidate needs.
CandidateInv ==
  result[Top] = "none" =>
    /\ \A n \in Node : \A s \in {candidate[n], accepted[n]} \ {NoSurface} :
         /\ s[1] = n /\ IsOpen(s)
         /\ \A r \in ChangeOf(s) : "candidate" \in refs[r] /\ (state[r] = "Active" \/ Dropped(n))
    /\ \A n \in Node : pc[n] = "agent" =>
         \A r \in OpenedBy(Current(n)) : refs[r] # {} /\ (state[r] = "Active" \/ Dropped(n))

\* As long as the task runs, a cause shows in a failed node.
CauseInv ==
  /\ \A n \in Node : pc[n] \in Fail => excused[Top]
  /\ result[Top] = "none" /\ excused[Top] => \E n \in Node : pc[n] \in Fail
  /\ result[Top] = "error" => excused[Top]

Working(s) == s[2] = opened[s[1]] /\ pc[s[1]] = "agent"

\* Without a cause for failure every surface is as its operation left it,
\* and git has nothing else.
CleanInv ==
  ~excused[Top] /\ result[Top] = "none" =>
    /\ \A s \in Surface : IsOpen(s) =>
         /\ \A r \in ChangeOf(s) : Keeps(r)
         /\ Working(s) => \A r \in OpenedBy(s) : Keeps(r)
         /\ ~Working(s) => \A r \in OpenedBy(s) \ ChangeOf(s) : state[r] = "Released"
    /\ \A i \in git : \E r \in Resource : state[r] = "Active" /\ i = Item(r)

EndInv ==
  result[Top] = "ok" => git = {} /\ \A n \in Node : pc[n] \in {"idle", "done", "none"}

WorkspacesInv ==
  /\ TypeOK /\ OneTask /\ TreeInv /\ CountInv /\ NameInv /\ RegistryInv
  /\ CandidateInv /\ CauseInv /\ CleanInv /\ EndInv

-----------------------------------------------------------------------------
(* The tree.                                                               *)

LEMMA TopFacts ==
  ASSUME OneTask
  PROVE  /\ Root = {Top} /\ Top \in Node /\ Node \subseteq Nat
         /\ \A n \in Node : RootOf(n) = Top /\ Top <= n
<1>1. Root = {Top} /\ Top \in Node /\ Node \subseteq Nat
  BY WorkspacesAssumption DEF OneTask
<1>2. \A n \in Node : Top <= n
  BY <1>1, WorkspacesAssumption
<1>3. ASSUME NEW n \in Node
      PROVE  RootOf(n) = Top
  <2> DEFINE P(r) == r <= n /\ \A q \in Root : q <= n => q <= r
  <2>1. Top \in Root /\ P(Top)
    BY <1>1, <1>2
  <2>2. \A r \in Root : r = Top
    BY <1>1
  <2>3. (CHOOSE r \in Root : P(r)) \in Root
    BY <2>1
  <2>4. QED
    BY <2>2, <2>3 DEF RootOf
<1>4. QED
  BY <1>1, <1>2, <1>3

LEMMA ChildFacts ==
  ASSUME OneTask, NEW n \in Node
  PROVE  /\ ToSet(Tree[n]) = {Tree[n][i] : i \in DOMAIN Tree[n]}
         /\ Len(Tree[n]) \in Nat /\ DOMAIN Tree[n] = 1..Len(Tree[n])
         /\ Tree[n] # <<>> => Head(Tree[n]) = Tree[n][1] /\ 1 \in DOMAIN Tree[n]
         /\ Tree[n] = <<>> <=> DOMAIN Tree[n] = {}
         /\ \A i \in DOMAIN Tree[n] :
              /\ Tree[n][i] \in Node /\ Tree[n][i] > n /\ Tree[n][i] # Top
              /\ ParentOf(Tree[n][i]) = n
              /\ \A m \in Node : \A j \in DOMAIN Tree[m] :
                   Tree[m][j] = Tree[n][i] => m = n /\ j = i
<1>1. Tree[n] \in Seq(Node)
  BY WorkspacesAssumption
<1>2. /\ Len(Tree[n]) \in Nat /\ DOMAIN Tree[n] = 1..Len(Tree[n])
      /\ \A i \in DOMAIN Tree[n] : Tree[n][i] \in Node
      /\ Tree[n] # <<>> => Len(Tree[n]) # 0
      /\ Tree[n] = <<>> => Len(Tree[n]) = 0
  BY <1>1
<1>3. ToSet(Tree[n]) = {Tree[n][i] : i \in DOMAIN Tree[n]}
  BY DEF ToSet
<1>4. Tree[n] # <<>> => Head(Tree[n]) = Tree[n][1] /\ 1 \in DOMAIN Tree[n]
  BY <1>1, <1>2
<1>5. ASSUME NEW i \in DOMAIN Tree[n]
      PROVE  /\ Tree[n][i] > n /\ Tree[n][i] # Top
             /\ ParentOf(Tree[n][i]) = n
             /\ \A m \in Node : \A j \in DOMAIN Tree[m] :
                  Tree[m][j] = Tree[n][i] => m = n /\ j = i
  <2> DEFINE c == Tree[n][i]
             IsParent(p) == \E j \in DOMAIN Tree[p] : Tree[p][j] = c
  <2>1. c > n /\ c # Top
    BY WorkspacesAssumption, TopFacts
  <2>2. IsParent(n)
    OBVIOUS
  <2>3. \A p \in Node : IsParent(p) => p = n
    BY WorkspacesAssumption
  <2>4. (CHOOSE p \in Node : IsParent(p)) = n
    <3> HIDE DEF IsParent
    <3>1. QED
      BY <2>2, <2>3
  <2>5. \A m \in Node : \A j \in DOMAIN Tree[m] : Tree[m][j] = c => m = n /\ j = i
    BY WorkspacesAssumption
  <2>6. QED
    BY <2>1, <2>4, <2>5 DEF ParentOf
<1>6. QED
  BY <1>2, <1>3, <1>4, <1>5

LEMMA ParentFacts ==
  ASSUME OneTask, NEW n \in Node, n # Top
  PROVE  /\ ParentOf(n) \in Node /\ ParentOf(n) < n
         /\ \E i \in DOMAIN Tree[ParentOf(n)] : Tree[ParentOf(n)][i] = n
<1>1. n \notin Root
  BY TopFacts
<1>2. PICK m \in Node : \E i \in DOMAIN Tree[m] : Tree[m][i] = n
  BY <1>1, WorkspacesAssumption
<1>3. ParentOf(n) = m
  BY <1>2, ChildFacts
<1>4. m < n
  BY <1>2, WorkspacesAssumption, TopFacts
<1>5. QED
  BY <1>2, <1>3, <1>4

\* Once the task's node has ended, all of its nodes have, in its own engine.
LEMMA AllEnded ==
  ASSUME WorkspacesInv, pc[Top] \in {"done", "none"}
  PROVE  \A n \in Node : pc[n] \in {"idle", "done", "none"} /\ home[n] = Top
<1> USE DEF WorkspacesInv
<1> DEFINE Bad == {n \in Node : pc[n] \notin {"idle", "done", "none"}}
<1>1. Bad = {}
  <2> SUFFICES ASSUME Bad # {} PROVE FALSE
    OBVIOUS
  <2>1. Bad \in SUBSET Nat
    BY TopFacts
  <2>2. PICK n \in Bad : \A m \in Bad : n <= m
    <3> HIDE DEF Bad
    <3>1. QED
      BY <2>1, LeastElement
  <2>3. n \in Node /\ n # Top /\ pc[n] \notin {"idle", "done", "none"}
    OBVIOUS
  <2>4. PICK i \in DOMAIN Tree[ParentOf(n)] : Tree[ParentOf(n)][i] = n
    BY <2>3, ParentFacts
  <2>5. ParentOf(n) \in Node /\ ParentOf(n) < n
    BY <2>3, ParentFacts
  <2>6. ParentOf(n) \in Bad
    BY <2>3, <2>4, <2>5 DEF TreeInv, Open, Fail
  <2>7. n \in Nat /\ ParentOf(n) \in Nat
    BY <2>3, <2>5, TopFacts
  <2>8. QED
    BY <2>2, <2>5, <2>6, <2>7
<1>2. ASSUME NEW n \in Node, home[n] # Top
      PROVE  FALSE
  <2> DEFINE e == home[n]
  <2>1. e \in Node /\ e # Top /\ home[e] = e
    BY <1>2 DEF TypeOK, TreeInv
  <2>2. PICK i \in DOMAIN Tree[ParentOf(e)] : Tree[ParentOf(e)][i] = e
    BY <2>1, ParentFacts
  <2>3. ParentOf(e) \in Node
    BY <2>1, ParentFacts
  <2>4. pc[ParentOf(e)] \in Open
    BY <2>1, <2>2, <2>3 DEF TreeInv
  <2>5. QED
    BY <1>1, <2>3, <2>4 DEF Open, Fail
<1>3. QED
  BY <1>1, <1>2

-----------------------------------------------------------------------------
(* Surfaces and resources.                                                 *)

Tags == {"running", "merge", "candidate", "input"}

LEMMA SurfaceFacts ==
         /\ \A s \in Surface : s[1] \in Node /\ s[2] \in 1..(MaxAttempts + 1) /\ s = <<s[1], s[2]>>
         /\ \A n \in Node, k \in 1..(MaxAttempts + 1) :
              <<n, k>> \in Surface /\ <<n, k>>[1] = n /\ <<n, k>>[2] = k
         /\ NoSurface \notin Surface
         /\ \A r \in Resource : r[1] \in Surface /\ r[2] \in Kind /\ r = <<r[1], r[2]>>
         /\ \A s \in Surface, k \in Kind :
              <<s, k>> \in Resource /\ <<s, k>>[1] = s /\ <<s, k>>[2] = k
BY DEF Surface, NoSurface, Resource

LEMMA KindFacts ==
         /\ KindsOpened \subseteq Kind
         /\ IsGit => KindsOpened = {"worktree", "branch"}
         /\ ~IsGit => KindsOpened = {"plain"}
         /\ Cardinality(KindsOpened) \in Nat \ {0}
<1>1. Cardinality({"plain"}) = 1
  BY FS_Singleton
<1>2. Cardinality({"worktree", "branch"}) = 2
  <2>1. IsFiniteSet({"branch"}) /\ Cardinality({"branch"}) = 1
    BY FS_Singleton
  <2>2. Cardinality({"branch"} \union {"worktree"}) = 2
    BY <2>1, FS_AddElement
  <2>3. {"branch"} \union {"worktree"} = {"worktree", "branch"}
    OBVIOUS
  <2>4. QED
    BY <2>2, <2>3
<1>3. QED
  BY <1>1, <1>2 DEF KindsOpened, PlainKinds, Kind

LEMMA OpenedFacts ==
  ASSUME NEW s \in Surface
  PROVE  /\ OpenedBy(s) \subseteq Resource /\ ChangeOf(s) \subseteq OpenedBy(s)
         /\ \A r \in Resource :
              /\ r \in OpenedBy(s) <=> r[1] = s /\ r[2] \in KindsOpened
              /\ r \in ChangeOf(s) <=> r[1] = s /\ r[2] \in KindsOpened \ {"worktree"}
<1>1. \A k \in KindsOpened : <<s, k>> \in Resource /\ <<s, k>>[1] = s /\ <<s, k>>[2] = k
  BY KindFacts, SurfaceFacts
<1>2. \A r \in Resource : r = <<r[1], r[2]>>
  BY SurfaceFacts
<1>3. QED
  BY <1>1, <1>2 DEF OpenedBy, ChangeOf

LEMMA SameKinds ==
  ASSUME provider' = provider
  PROVE  /\ IsGit' = IsGit /\ KindsOpened' = KindsOpened
         /\ \A s : OpenedBy(s)' = OpenedBy(s) /\ ChangeOf(s)' = ChangeOf(s)
BY DEF IsGit, KindsOpened, OpenedBy, ChangeOf

LEMMA ItemFacts ==
  ASSUME NEW r \in Resource
  PROVE  /\ Item(r).name = name[r[1]] /\ Item(r).kind = r[2]
         /\ name' = name => Item(r)' = Item(r)
BY DEF Item

\* Different tracked resources are different things in git.
LEMMA ItemsDiffer ==
  ASSUME WorkspacesInv, NEW r \in Resource, NEW x \in Resource,
         state[r] # "none", state[x] # "none", Item(r) = Item(x)
  PROVE  r = x
<1>1. name[r[1]] = name[x[1]] /\ r[2] = x[2]
  BY ItemFacts
<1>2. r[1] \in Surface /\ x[1] \in Surface /\ r = <<r[1], r[2]>> /\ x = <<x[1], x[2]>>
  BY SurfaceFacts
<1>3. IsOpen(r[1]) /\ IsOpen(x[1])
  BY DEF WorkspacesInv, RegistryInv
<1>4. r[1] = x[1]
  BY <1>1, <1>2, <1>3 DEF WorkspacesInv, NameInv
<1>5. QED
  BY <1>1, <1>2, <1>4

\* What a cleanup may have done.
LEMMA CleanupFacts ==
  ASSUME NEW e, NEW homes, NEW held, NEW c \in CleanupResults(e, homes, held)
  PROVE  /\ c.gone \subseteq Releasable(e, homes, held)
         /\ c.failed \subseteq Releasable(e, homes, held) \ c.gone
         /\ c.failed = {} => c.gone = Releasable(e, homes, held) /\ ~c.fault
         /\ c.fault => IsGit /\ faults < MaxFaults
         /\ c.failed # {} /\ ~c.fault =>
              \E r \in Releasable(e, homes, held) \ c.gone : Refused(r, c.gone)
         /\ c.fault \in BOOLEAN
<1> DEFINE todo == Releasable(e, homes, held)
           Stop(gone, r, fault) == [gone |-> gone, failed |-> {r}, fault |-> fault]
<1> HIDE DEF todo
<1>1. PICK gone \in SUBSET todo :
        \/ gone = todo /\ c = [gone |-> gone, failed |-> {}, fault |-> FALSE]
        \/ \E r \in todo \ gone :
             \/ Refused(r, gone) /\ c = Stop(gone, r, FALSE)
             \/ IsGit /\ faults < MaxFaults /\ c = Stop(gone, r, TRUE)
  BY DEF CleanupResults, todo
<1>2. CASE gone = todo /\ c = [gone |-> gone, failed |-> {}, fault |-> FALSE]
  BY <1>2 DEF todo
<1>3. ASSUME NEW r \in todo \ gone, Refused(r, gone), c = Stop(gone, r, FALSE)
      PROVE  /\ c.gone \subseteq todo /\ c.failed \subseteq todo \ c.gone /\ c.failed # {}
             /\ c.fault = FALSE /\ \E x \in todo \ c.gone : Refused(x, c.gone)
  BY <1>3
<1>4. ASSUME NEW r \in todo \ gone, IsGit, faults < MaxFaults, c = Stop(gone, r, TRUE)
      PROVE  /\ c.gone \subseteq todo /\ c.failed \subseteq todo \ c.gone /\ c.failed # {}
             /\ c.fault = TRUE
  BY <1>4
<1>5. QED
  BY <1>1, <1>2, <1>3, <1>4 DEF todo

\* Active resources are cleaned up, or given up by a guard.
LEMMA Removal ==
  ASSUME WorkspacesInv, NEW gone \in SUBSET Resource,
         \A r \in gone : state[r] = "Active",
         git' = git \ {Item(r) : r \in gone},
         state' \in [Resource -> {"none", "Active", "Released", "FailedCleanup"}],
         \A r \in gone : state'[r] \in {"none", "Released"},
         \A r \in Resource \ gone : state'[r] \in {state[r], "none"}
                                    \/ (state[r] = "Active" /\ state'[r] = "FailedCleanup"),
         UNCHANGED <<provider, opened, name>>, Root = {Top},
         ids'[Top].resource >= ids[Top].resource, ids'[Top].resource \in Nat
  PROVE  NameInv' /\ RegistryInv'
<1> USE DEF WorkspacesInv
<1>1. \A s \in Surface : IsOpen(s)' = IsOpen(s)
  BY DEF IsOpen
<1>2. KindsOpened' = KindsOpened /\ IsGit' = IsGit
  BY SameKinds
<1>3. \A r \in Resource : Item(r)' = Item(r)
  BY ItemFacts
<1>4. ids[Top].resource \in Nat
  BY TopFacts DEF TypeOK
<1>5. NameInv'
  <2>1. \A s \in Surface : IsOpen(s) => name[s][3] <= ids'[Top].resource
    <3> SUFFICES ASSUME NEW s \in Surface, IsOpen(s)
                 PROVE  name[s][3] <= ids'[Top].resource
      OBVIOUS
    <3>1. name[s][3] \in Nat /\ name[s][3] <= ids[Top].resource
      BY DEF NameInv, TypeOK, Name
    <3>2. QED
      BY <1>4, <3>1
  <2>2. \A i \in git' : i.name # <<>> /\ i.name[3] <= ids'[Top].resource
    <3> SUFFICES ASSUME NEW i \in git
                 PROVE  i.name # <<>> /\ i.name[3] <= ids'[Top].resource
      OBVIOUS
    <3>1. i.name # <<>> /\ i.name[3] \in Nat /\ i.name[3] <= ids[Top].resource
      BY DEF NameInv, TypeOK, Name
    <3>2. QED
      BY <1>4, <3>1
  <2>3. QED
    BY <1>1, <1>2, <2>1, <2>2 DEF NameInv
<1>6. ASSUME NEW r \in Resource
      PROVE  /\ state'[r] # "none" => IsOpen(r[1])' /\ r[2] \in KindsOpened'
             /\ r[2] # "plain" /\ state'[r] = "Active" => Item(r)' \in git'
             /\ r[2] # "plain" /\ state'[r] = "Released" => Item(r)' \notin git'
  <2>1. state'[r] # "none" => state[r] # "none"
    OBVIOUS
  <2>2. ASSUME r[2] # "plain", state'[r] = "Active"
        PROVE  Item(r)' \in git'
    <3>1. state[r] = "Active" /\ r \notin gone /\ Item(r) \in git
      BY <2>2 DEF RegistryInv
    <3>2. \A x \in gone : Item(x) # Item(r)
      BY <3>1, ItemsDiffer
    <3>3. QED
      BY <1>3, <3>1, <3>2
  <2>3. ASSUME r[2] # "plain", state'[r] = "Released"
        PROVE  Item(r)' \notin git'
    <3>1. CASE r \in gone
      BY <1>3, <3>1
    <3>2. CASE r \notin gone
      BY <1>3, <2>3, <3>2 DEF RegistryInv
    <3>3. QED
      BY <3>1, <3>2
  <2>4. r[1] \in Surface
    BY SurfaceFacts
  <2>5. QED
    BY <1>1, <1>2, <2>1, <2>2, <2>3, <2>4 DEF RegistryInv
<1>7. RegistryInv'
  BY <1>6 DEF RegistryInv
<1>8. QED
  BY <1>5, <1>7


-----------------------------------------------------------------------------
(* A node moves on.                                                        *)

Busy == {"specify", "agent", "verify", "children", "dropping"}

\* No child is at work, or waits to be joined.
Settled(n) ==
  \A i \in DOMAIN Tree[n] :
    pc[Tree[n][i]] \in {"idle", "done", "none"} /\ home[Tree[n][i]] # Tree[n][i]

LEMMA TreeMove ==
  ASSUME WorkspacesInv, NEW n \in Node, NEW v, pc[n] \in Busy,
         pc' = [pc EXCEPT ![n] = v], home' = home,
         v \in {"agent", "verify", "children", "done", "none", "error", "dropping"},
         v = "dropping" => n # Top,
         pc[n] \in Open /\ v \notin Open => Settled(n)
  PROVE  TreeInv'
<1> USE DEF WorkspacesInv
<1>1. /\ Top \in Node /\ pc \in [Node -> {"idle", "specify", "agent", "verify", "children", "dropping"}
                                         \union Finished]
      /\ home \in [Node -> Node]
  BY TopFacts DEF TypeOK
<1>2. /\ \A m \in Node : pc'[m] = IF m = n THEN v ELSE pc[m]
      /\ pc[n] \notin {"idle", "done", "none"} /\ v \notin {"idle", "specify", "aborted"}
  BY <1>1 DEF Busy
<1>3. \A m \in Node : \A i \in DOMAIN Tree[m] : Tree[m][i] \in Node /\ Tree[m][i] # m
  <2> SUFFICES ASSUME NEW m \in Node, NEW i \in DOMAIN Tree[m]
               PROVE  Tree[m][i] \in Node /\ Tree[m][i] # m
    OBVIOUS
  <2>1. Tree[m][i] \in Node /\ Tree[m][i] > m /\ m \in Nat
    BY ChildFacts, TopFacts
  <2>2. Tree[m][i] \in Nat
    BY <2>1, TopFacts
  <2>3. QED
    BY <2>1, <2>2
<1>4. home'[Top] = Top /\ pc'[Top] \notin {"idle", "dropping", "aborted"}
  BY <1>1, <1>2 DEF TreeInv
<1>5. \A m \in Node :
        /\ home'[m] <= m /\ home'[home'[m]] = home'[m] /\ pc'[home'[m]] # "idle"
        /\ pc'[m] = "idle" => home'[m] = Top
  BY <1>1, <1>2 DEF TreeInv
<1>6. ASSUME NEW m \in Node, NEW i \in DOMAIN Tree[m]
      PROVE  /\ pc'[m] \in {"idle", "specify"} => pc'[Tree[m][i]] = "idle"
             /\ pc'[Tree[m][i]] \notin {"idle", "done", "none"} => pc'[m] \in Open
             /\ home'[Tree[m][i]] = Tree[m][i] => pc'[m] \in Open /\ m \in Parallel
  <2> DEFINE c == Tree[m][i]
  <2>1. c \in Node /\ c # m
    BY <1>3
  <2>2. /\ pc[m] \in {"idle", "specify"} => pc[c] = "idle"
        /\ pc[c] \notin {"idle", "done", "none"} => pc[m] \in Open
        /\ home[c] = c => pc[m] \in Open /\ m \in Parallel
    BY DEF TreeInv
  <2>3. m = n /\ pc[n] \in Open /\ v \notin Open
          => pc[c] \in {"idle", "done", "none"} /\ home[c] # c
    BY DEF Settled
  <2>4. CASE m = n
    <3>1. pc'[c] = pc[c] /\ pc'[m] = v /\ home'[c] = home[c]
      BY <1>2, <2>1, <2>4
    <3>2. QED
      BY <1>2, <2>2, <2>3, <2>4, <3>1
  <2>5. CASE m # n
    <3>1. pc'[m] = pc[m] /\ home'[c] = home[c] /\ (pc'[c] = pc[c] \/ (c = n /\ pc'[c] = v))
      BY <1>2, <2>1, <2>5
    <3>2. QED
      BY <1>2, <2>2, <3>1
  <2>6. QED
    BY <2>4, <2>5
<1>7. ASSUME NEW m \in Node \ Parallel, NEW i \in DOMAIN Tree[m], NEW j \in DOMAIN Tree[m],
             i < j, pc'[Tree[m][j]] # "idle"
      PROVE  pc'[Tree[m][i]] = "done"
  <2>1. pc[Tree[m][j]] # "idle"
    BY <1>2, <1>3, <1>7
  <2>2. pc[Tree[m][i]] = "done"
    BY <1>7, <2>1 DEF TreeInv
  <2>3. QED
    BY <1>2, <1>3, <2>2
<1>8. QED
  BY <1>4, <1>5, <1>6, <1>7 DEF TreeInv

\* The pc of one node changes and nothing of the surfaces.
LEMMA Moves ==
  ASSUME WorkspacesInv, NEW n \in Node, NEW v, pc[n] \in Busy \ {"dropping"}, result[Top] = "none",
         pc' = [pc EXCEPT ![n] = v], v \in {"done", "none", "error", "dropping"},
         v = "dropping" => n # Top,
         pc[n] \in Open /\ v \notin Open => Settled(n),
         pc[n] = "agent" => v \in Fail,
         UNCHANGED <<provider, opened, attempts, candidate, home, ids, name,
                     registryVars, git, changeVars, result>>,
         \/ accepted' = accepted
         \/ accepted' = [accepted EXCEPT ![n] = candidate[n]],
         faults' \in 0..MaxFaults, excused' \in [Root -> BOOLEAN],
         v \in Fail => excused'[Top], v \notin Fail => excused' = excused
  PROVE  WorkspacesInv'
<1> USE DEF WorkspacesInv
<1>1. /\ provider' = provider /\ opened' = opened /\ attempts' = attempts /\ candidate' = candidate
      /\ home' = home /\ ids' = ids /\ name' = name /\ state' = state /\ refs' = refs /\ git' = git
      /\ holds' = holds /\ sha' = sha /\ listed' = listed /\ result' = result
  BY DEF registryVars, changeVars
<1>2. /\ pc \in [Node -> {"idle", "specify", "agent", "verify", "children", "dropping"} \union Finished]
      /\ candidate \in [Node -> Surface \union {NoSurface}]
      /\ accepted \in [Node -> Surface \union {NoSurface}]
      /\ Root = {Top} /\ Top \in Node
  BY TopFacts DEF TypeOK
<1>3. \A m \in Node : /\ pc'[m] = IF m = n THEN v ELSE pc[m]
                      /\ accepted'[m] \in {candidate[m], accepted[m]}
  BY <1>2
<1>4. TypeOK'
  <2>1. pc' \in [Node -> {"idle", "specify", "agent", "verify", "children", "dropping"} \union Finished]
    BY <1>2 DEF Finished
  <2>2. accepted' \in [Node -> Surface \union {NoSurface}]
    BY <1>2
  <2>3. QED
    BY <1>1, <2>1, <2>2 DEF TypeOK
<1>5. TreeInv'
  BY <1>1, TreeMove
<1>6. CountInv'
  BY <1>1, <1>3 DEF CountInv
<1>7. NameInv' /\ RegistryInv'
  <2>1. KindsOpened' = KindsOpened /\ IsGit' = IsGit
    BY <1>1, SameKinds
  <2>2. \A s : IsOpen(s)' = IsOpen(s)
    BY <1>1 DEF IsOpen
  <2>3. \A r : Item(r)' = Item(r)
    BY <1>1 DEF Item
  <2>4. QED
    BY <1>1, <2>1, <2>2, <2>3 DEF NameInv, RegistryInv
<1>8. \A m \in Node : Dropped(m) => Dropped(m)'
  BY <1>1, <1>2, <1>3 DEF Dropped, TypeOK, Busy
<1>9. CandidateInv'
  <2>1. ASSUME NEW m \in Node, NEW s \in {candidate'[m], accepted'[m]} \ {NoSurface}
        PROVE  /\ s[1] = m /\ IsOpen(s)'
               /\ \A r \in ChangeOf(s)' :
                    "candidate" \in refs'[r] /\ (state'[r] = "Active" \/ Dropped(m)')
    <3>1. s \in {candidate[m], accepted[m]} \ {NoSurface}
      BY <1>1, <1>3
    <3>2. ChangeOf(s)' = ChangeOf(s) /\ IsOpen(s)' = IsOpen(s)
      BY <1>1, SameKinds DEF IsOpen
    <3>3. QED
      BY <1>1, <1>8, <3>1, <3>2 DEF CandidateInv
  <2>2. ASSUME NEW m \in Node, pc'[m] = "agent", NEW r \in OpenedBy(Current(m))'
        PROVE  refs'[r] # {} /\ (state'[r] = "Active" \/ Dropped(m)')
    <3>1. pc[m] = "agent" /\ Current(m)' = Current(m)
      BY <1>1, <1>3, <2>2 DEF Current
    <3>2. OpenedBy(Current(m))' = OpenedBy(Current(m))
      BY <1>1, <3>1, SameKinds DEF OpenedBy
    <3>3. QED
      BY <1>1, <1>8, <2>2, <3>1, <3>2 DEF CandidateInv
  <2>3. QED
    BY <2>1, <2>2 DEF CandidateInv
<1>10. CauseInv'
  <2>1. CASE v \in Fail
    BY <1>1, <1>2, <1>3, <2>1 DEF CauseInv
  <2>2. CASE v \notin Fail
    <3>1. excused' = excused /\ pc[n] \notin Fail
      BY <2>2 DEF Busy, Fail
    <3>2. QED
      BY <1>1, <1>2, <1>3, <2>2, <3>1 DEF CauseInv
  <2>3. QED
    BY <2>1, <2>2
<1>11. CleanInv'
  <2>1. CASE v \in Fail
    BY <2>1 DEF CleanInv
  <2>2. CASE v \notin Fail
    <3>1. pc[n] # "agent" /\ v # "agent" /\ excused' = excused
      BY <2>2
    <3>2. \A s \in Surface : Working(s)' = Working(s) /\ IsOpen(s)' = IsOpen(s)
      BY <1>1, <1>3, <3>1, SurfaceFacts DEF Working, IsOpen
    <3>3. \A s : OpenedBy(s)' = OpenedBy(s) /\ ChangeOf(s)' = ChangeOf(s)
      BY <1>1, SameKinds
    <3>4. \A r : Item(r)' = Item(r) /\ Keeps(r)' = Keeps(r)
      BY <1>1 DEF Item, Keeps
    <3>5. QED
      BY <1>1, <3>1, <3>2, <3>3, <3>4 DEF CleanInv
  <2>3. QED
    BY <2>1, <2>2
<1>12. EndInv'
  BY <1>1 DEF EndInv
<1>13. QED
  BY <1>4, <1>5, <1>6, <1>7, <1>9, <1>10, <1>11, <1>12 DEF OneTask


LEMMA CurrentFacts ==
  ASSUME WorkspacesInv, NEW n \in Node, pc[n] = "agent"
  PROVE  /\ Current(n) \in Surface /\ Current(n)[1] = n /\ Current(n)[2] = opened[n]
         /\ IsOpen(Current(n)) /\ OpenedBy(Current(n)) \subseteq Resource
         /\ opened[n] \in 1..MaxAttempts + 1 /\ attempts[n] \in 0..MaxAttempts
         /\ attempts[n] + 1 <= opened[n] /\ opened[n] <= attempts[n] + 2
<1>1. /\ opened[n] \in 0..MaxAttempts + 1 /\ attempts[n] \in 0..MaxAttempts + 1
      /\ attempts[n] + 1 <= opened[n] /\ opened[n] <= attempts[n] + 2 /\ MaxAttempts \in Nat
  BY WorkspacesAssumption DEF WorkspacesInv, TypeOK, CountInv
<1>2. opened[n] \in 1..MaxAttempts + 1 /\ attempts[n] \in 0..MaxAttempts /\ opened[n] <= opened[n]
  BY <1>1
<1>3. Current(n) \in Surface /\ Current(n)[1] = n /\ Current(n)[2] = opened[n]
  BY <1>2, SurfaceFacts DEF Current
<1>4. QED
  BY <1>1, <1>2, <1>3, OpenedFacts DEF IsOpen

LEMMA RunningFacts ==
  ASSUME WorkspacesInv, NEW n \in Node, NEW place, Running(n, place)
  PROVE  pc[n] = place /\ result[Top] = "none"
BY TopFacts DEF Running, WorkspacesInv

LEMMA FailureFacts ==
  ASSUME WorkspacesInv, NEW n \in Node
  PROVE  /\ Failure(n) \in {"error", "dropping"} /\ Failure(n) \in Fail
         /\ Failure(n) = "dropping" => n # Top
BY TopFacts DEF Failure, IsBranch, Fail, WorkspacesInv

LEMMA ExcuseFacts ==
  ASSUME WorkspacesInv, NEW n \in Node, Excuse(n)
  PROVE  excused'[Top] /\ excused' \in [Root -> BOOLEAN]
<1>1. excused \in [Root -> BOOLEAN] /\ RootOf(n) = Top /\ Top \in Root
  BY TopFacts DEF WorkspacesInv, TypeOK
<1>2. excused' = [excused EXCEPT ![Top] = TRUE]
  BY <1>1 DEF Excuse
<1>3. QED
  BY <1>1, <1>2

LEMMA JoinedSettled ==
  ASSUME WorkspacesInv, NEW n \in Node, AllJoined(n)
  PROVE  Settled(n)
<1>1. ASSUME NEW i \in DOMAIN Tree[n]
      PROVE  pc[Tree[n][i]] \in {"done", "none"} /\ home[Tree[n][i]] # Tree[n][i]
  <2>1. Tree[n][i] \in ToSet(Tree[n])
    <3>1. ToSet(Tree[n]) = {Tree[n][k] : k \in DOMAIN Tree[n]}
      BY ChildFacts DEF WorkspacesInv
    <3>2. QED
      BY <3>1
  <2>2. pc[Tree[n][i]] \in {"done", "none"} /\ Joined(n, Tree[n][i])
    BY <2>1 DEF AllJoined
  <2>3. n \notin Parallel => home[Tree[n][i]] # Tree[n][i]
    BY DEF WorkspacesInv, TreeInv
  <2>4. QED
    BY <2>2, <2>3 DEF Joined
<1>2. QED
  BY <1>1 DEF Settled

LEMMA AgentFailsKeeps ==
  ASSUME WorkspacesInv, NEW n \in Node, AgentFails(n)
  PROVE  WorkspacesInv'
<1>1. PICK place \in {"specify", "agent", "verify"} : Running(n, place)
  BY DEF AgentFails
<1>2. pc[n] \in {"specify", "agent", "verify"} /\ result[Top] = "none"
  BY <1>1, RunningFacts
<1>3. /\ pc' = [pc EXCEPT ![n] = Failure(n)] /\ accepted' = accepted /\ Excuse(n)
      /\ faults' = faults
      /\ UNCHANGED <<provider, opened, attempts, candidate, home, ids, name,
                     registryVars, git, changeVars, result>>
  BY DEF AgentFails
<1>4. faults \in 0..MaxFaults
  BY DEF WorkspacesInv, TypeOK
<1>5. QED
  BY <1>2, <1>3, <1>4, FailureFacts, ExcuseFacts, Moves DEF Busy, Open, Fail

LEMMA VerifiedKeeps ==
  ASSUME WorkspacesInv, NEW n \in Node, Verified(n)
  PROVE  WorkspacesInv'
<1>1. pc[n] = "verify" /\ result[Top] = "none"
  BY RunningFacts DEF Verified
<1>2. /\ pc' = [pc EXCEPT ![n] = "done"] /\ accepted' = [accepted EXCEPT ![n] = candidate[n]]
      /\ faults' = faults /\ excused' = excused
      /\ UNCHANGED <<provider, opened, attempts, candidate, home, ids, name,
                     registryVars, git, changeVars, result>>
  BY DEF Verified
<1>3. faults \in 0..MaxFaults /\ excused \in [Root -> BOOLEAN]
  BY DEF WorkspacesInv, TypeOK
<1>4. QED
  BY <1>1, <1>2, <1>3, Moves DEF Busy, Open, Fail

LEMMA RejectedKeeps ==
  ASSUME WorkspacesInv, NEW n \in Node, Rejected(n)
  PROVE  WorkspacesInv'
<1>1. pc[n] = "verify" /\ result[Top] = "none"
  BY RunningFacts DEF Rejected
<1>2. /\ pc' = [pc EXCEPT ![n] = "none"] /\ accepted' = accepted
      /\ faults' = faults /\ excused' = excused
      /\ UNCHANGED <<provider, opened, attempts, candidate, home, ids, name,
                     registryVars, git, changeVars, result>>
  BY DEF Rejected
<1>3. faults \in 0..MaxFaults /\ excused \in [Root -> BOOLEAN]
  BY DEF WorkspacesInv, TypeOK
<1>4. QED
  BY <1>1, <1>2, <1>3, Moves DEF Busy, Open, Fail

\* In a stage nothing after a child that was not accepted has begun.
LEMMA BlockedSettled ==
  ASSUME WorkspacesInv, NEW n \in Node, GroupBlocked(n)
  PROVE  Settled(n)
<1>1. CASE n \in Parallel
  BY <1>1, JoinedSettled DEF GroupBlocked
<1>2. CASE n \notin Parallel
  <2>1. PICK i \in DOMAIN Tree[n] : pc[Tree[n][i]] = "none"
    <3>1. ToSet(Tree[n]) = {Tree[n][i] : i \in DOMAIN Tree[n]}
      BY ChildFacts DEF WorkspacesInv
    <3>2. QED
      BY <3>1 DEF GroupBlocked
  <2>2. ASSUME NEW j \in DOMAIN Tree[n]
        PROVE  pc[Tree[n][j]] \in {"idle", "done", "none"} /\ home[Tree[n][j]] # Tree[n][j]
    <3>1. i \in Nat /\ j \in Nat
      BY ChildFacts DEF WorkspacesInv
    <3>2. home[Tree[n][j]] # Tree[n][j]
      BY <1>2 DEF WorkspacesInv, TreeInv
    <3>3. CASE j = i
      BY <2>1, <3>2, <3>3
    <3>4. CASE j < i
      BY <1>2, <2>1, <3>2, <3>4 DEF WorkspacesInv, TreeInv
    <3>5. CASE i < j
      BY <1>2, <2>1, <3>2, <3>5 DEF WorkspacesInv, TreeInv
    <3>6. QED
      BY <3>1, <3>3, <3>4, <3>5
  <2>3. QED
    BY <2>2 DEF Settled
<1>3. QED
  BY <1>1, <1>2

LEMMA GroupBlockedKeeps ==
  ASSUME WorkspacesInv, NEW n \in Node, GroupBlocked(n)
  PROVE  WorkspacesInv'
<1>1. pc[n] = "children" /\ result[Top] = "none"
  BY RunningFacts DEF GroupBlocked
<1>2. /\ pc' = [pc EXCEPT ![n] = "none"] /\ accepted' = accepted
      /\ faults' = faults /\ excused' = excused
      /\ UNCHANGED <<provider, opened, attempts, candidate, home, ids, name,
                     registryVars, git, changeVars, result>>
  BY DEF GroupBlocked
<1>3. faults \in 0..MaxFaults /\ excused \in [Root -> BOOLEAN]
  BY DEF WorkspacesInv, TypeOK
<1>4. Settled(n)
  BY BlockedSettled
<1>5. QED
  BY <1>1, <1>2, <1>3, <1>4, Moves DEF Busy, Fail

LEMMA GroupFailsKeeps ==
  ASSUME WorkspacesInv, NEW n \in Node, GroupFails(n)
  PROVE  WorkspacesInv'
<1>1. pc[n] = "children" /\ result[Top] = "none"
  BY RunningFacts DEF GroupFails
<1>2. /\ pc' = [pc EXCEPT ![n] = Failure(n)] /\ accepted' = accepted
      /\ faults' = faults /\ excused' = excused
      /\ UNCHANGED <<provider, opened, attempts, candidate, home, ids, name,
                     registryVars, git, changeVars, result>>
  BY DEF GroupFails
<1>3. faults \in 0..MaxFaults /\ excused \in [Root -> BOOLEAN]
  BY DEF WorkspacesInv, TypeOK
<1>4. excused[Top]
  <2>1. PICK i \in DOMAIN Tree[n] : pc[Tree[n][i]] = "error"
    <3>1. ToSet(Tree[n]) = {Tree[n][i] : i \in DOMAIN Tree[n]}
      BY ChildFacts DEF WorkspacesInv
    <3>2. QED
      BY <3>1 DEF GroupFails
  <2>2. Tree[n][i] \in Node
    BY ChildFacts DEF WorkspacesInv
  <2>3. QED
    BY <2>1, <2>2 DEF WorkspacesInv, CauseInv, Fail
<1>5. Failure(n) \in Open
  BY FailureFacts DEF Open
<1>6. QED
  BY <1>1, <1>2, <1>3, <1>4, <1>5, FailureFacts, Moves DEF Busy

-----------------------------------------------------------------------------
(* A group starts, and a stage goes on.                                    *)

\* Children begin: their pc and home change, and nothing of the surfaces.
LEMMA Begins ==
  ASSUME WorkspacesInv, NEW n \in Node, NEW new \in SUBSET DOMAIN Tree[n],
         pc[n] \in {"specify", "children"}, result[Top] = "none",
         \A i \in new : pc[Tree[n][i]] = "idle",
         pc' = [m \in Node |-> IF m = n THEN "children"
                               ELSE IF \E i \in new : m = Tree[n][i] THEN "specify" ELSE pc[m]],
         home' = [m \in Node |-> IF \E i \in new : m = Tree[n][i]
                                 THEN IF n \in Parallel THEN m ELSE home[n] ELSE home[m]],
         n \notin Parallel => \A i \in new : \A j \in DOMAIN Tree[n] : j < i => pc[Tree[n][j]] = "done",
         UNCHANGED <<provider, opened, attempts, candidate, accepted, ids, name,
                     registryVars, git, changeVars, faults, excused, result>>
  PROVE  WorkspacesInv'
<1> USE DEF WorkspacesInv
<1> DEFINE New == {Tree[n][i] : i \in new}
<1>1. /\ provider' = provider /\ opened' = opened /\ attempts' = attempts /\ candidate' = candidate
      /\ accepted' = accepted /\ ids' = ids /\ name' = name /\ state' = state /\ refs' = refs
      /\ git' = git /\ holds' = holds /\ sha' = sha /\ listed' = listed /\ result' = result
      /\ faults' = faults /\ excused' = excused
  BY DEF registryVars, changeVars
<1>2. /\ pc \in [Node -> {"idle", "specify", "agent", "verify", "children", "dropping"} \union Finished]
      /\ home \in [Node -> Node]
      /\ Root = {Top} /\ Top \in Node /\ Node \subseteq Nat
  BY TopFacts DEF TypeOK
<1>3. /\ New \subseteq Node /\ n \notin New /\ Top \notin New
      /\ \A m \in New : pc[m] = "idle" /\ m > n /\ home[m] = Top
  <2>1. ASSUME NEW i \in new
        PROVE  /\ Tree[n][i] \in Node /\ Tree[n][i] > n /\ Tree[n][i] # Top /\ Tree[n][i] # n
               /\ pc[Tree[n][i]] = "idle" /\ home[Tree[n][i]] = Top
    <3>1. Tree[n][i] \in Node /\ Tree[n][i] > n /\ Tree[n][i] # Top /\ pc[Tree[n][i]] = "idle"
      BY ChildFacts
    <3>2. n \in Nat /\ Tree[n][i] \in Nat
      BY <1>2, <3>1
    <3>3. home[Tree[n][i]] = Top
      BY <3>1 DEF TreeInv
    <3>4. QED
      BY <3>1, <3>2, <3>3
  <2>2. QED
    BY <2>1
<1>4. /\ \A m \in Node : pc'[m] = IF m = n THEN "children" ELSE IF m \in New THEN "specify" ELSE pc[m]
      /\ \A m \in Node : home'[m] = IF m \in New THEN (IF n \in Parallel THEN m ELSE home[n])
                                    ELSE home[m]
  OBVIOUS
<1>5. \A i \in DOMAIN Tree[n] : Tree[n][i] \in New <=> i \in new
  BY ChildFacts
<1>6. \A m \in Node : m # n => \A i \in DOMAIN Tree[m] : Tree[m][i] \notin New
  BY ChildFacts
<1>7. \A m \in Node : \A i \in DOMAIN Tree[m] :
        Tree[m][i] \in Node /\ Tree[m][i] > m /\ Tree[m][i] # m
  <2>1. \A m \in Node : \A i \in DOMAIN Tree[m] : Tree[m][i] \in Node /\ Tree[m][i] > m
    BY ChildFacts
  <2>2. QED
    BY <1>2, <2>1
<1> HIDE DEF New
<1>8. TypeOK'
  <2>1. pc' \in [Node -> {"idle", "specify", "agent", "verify", "children", "dropping"} \union Finished]
    BY <1>2
  <2>2. home' \in [Node -> Node]
    BY <1>2
  <2>3. QED
    BY <1>1, <2>1, <2>2 DEF TypeOK
<1>9. TreeInv'
  <2>1. home'[Top] = Top /\ pc'[Top] \notin {"idle", "dropping", "aborted"}
    BY <1>2, <1>3, <1>4 DEF TreeInv
  <2>2. \A m \in Node : home[m] \notin New
    BY <1>2, <1>3 DEF TreeInv
  <2>3. ASSUME NEW m \in Node
        PROVE  /\ home'[m] <= m /\ home'[home'[m]] = home'[m] /\ pc'[home'[m]] # "idle"
               /\ pc'[m] = "idle" => home'[m] = Top
    <3>1. home[m] <= m /\ home[home[m]] = home[m] /\ pc[home[m]] # "idle" /\ home[m] \in Node
      BY <1>2 DEF TreeInv
    <3>2. home[n] <= n /\ home[home[n]] = home[n] /\ pc[home[n]] # "idle" /\ home[n] \in Node
      BY <1>2 DEF TreeInv
    <3>3. CASE m \notin New
      <4>1. home'[m] = home[m] /\ home[m] \notin New
        BY <1>4, <2>2, <3>3
      <4>2. home'[home[m]] = home[m] /\ pc'[home[m]] # "idle"
        BY <1>4, <3>1, <4>1
      <4>3. pc'[m] = "idle" => pc[m] = "idle"
        BY <1>4, <3>3
      <4>4. QED
        BY <3>1, <4>1, <4>2, <4>3 DEF TreeInv
    <3>4. CASE m \in New /\ n \in Parallel
      <4>1. home'[m] = m /\ pc'[m] = "specify" /\ m \in Nat
        BY <1>2, <1>3, <1>4, <3>4
      <4>2. QED
        BY <4>1
    <3>5. CASE m \in New /\ n \notin Parallel
      <4>1. home'[m] = home[n] /\ pc'[m] = "specify" /\ m > n /\ home[n] \notin New
        BY <1>3, <1>4, <2>2, <3>5
      <4>2. home'[home[n]] = home[n] /\ pc'[home[n]] # "idle"
        BY <1>4, <3>2, <4>1
      <4>3. m \in Nat /\ n \in Nat /\ home[n] \in Nat
        BY <1>2, <3>2
      <4>4. home[n] <= m
        BY <3>2, <4>1, <4>3
      <4>5. QED
        BY <4>1, <4>2, <4>4
    <3>6. QED
      BY <3>3, <3>4, <3>5
  <2>4. ASSUME NEW m \in Node, NEW i \in DOMAIN Tree[m]
        PROVE  /\ pc'[m] \in {"idle", "specify"} => pc'[Tree[m][i]] = "idle"
               /\ pc'[Tree[m][i]] \notin {"idle", "done", "none"} => pc'[m] \in Open
               /\ home'[Tree[m][i]] = Tree[m][i] => pc'[m] \in Open /\ m \in Parallel
    <3> DEFINE d == Tree[m][i]
    <3>1. /\ pc[m] \in {"idle", "specify"} => pc[d] = "idle"
          /\ pc[d] \notin {"idle", "done", "none"} => pc[m] \in Open
          /\ home[d] = d => pc[m] \in Open /\ m \in Parallel
      BY DEF TreeInv
    <3>2. d \in Node /\ d # m
      BY <1>7
    <3>3. CASE m = n
      <4>1. pc'[m] = "children" /\ (home'[d] = d => home[d] = d \/ n \in Parallel \/ home[n] = d)
        BY <1>4, <3>2, <3>3
      <4>2. home[n] <= n /\ d > n /\ home[n] \in Nat /\ n \in Nat /\ d \in Nat
        BY <1>2, <1>7, <3>3 DEF TreeInv
      <4>3. home[n] # d
        BY <4>2
      <4>4. QED
        BY <3>1, <3>3, <4>1, <4>3 DEF Open
    <3>4. CASE m # n /\ m \notin New
      <4>1. d \notin New /\ pc'[m] = pc[m] /\ home'[d] = home[d]
        BY <1>4, <1>6, <3>2, <3>4
      <4>2. pc'[d] = pc[d] \/ (d = n /\ pc'[d] = "children")
        BY <1>4, <3>2, <4>1
      <4>3. d = n => pc[m] \in Open
        BY <3>1, <3>4 DEF TreeInv
      <4>4. QED
        BY <3>1, <4>1, <4>2, <4>3 DEF Open, Fail
    <3>5. CASE m \in New
      <4>1. d \notin New /\ pc[m] = "idle" /\ pc'[m] = "specify" /\ m # n
        BY <1>3, <1>4, <1>6, <3>5
      <4>2. pc[d] = "idle" /\ d # n
        BY <3>1, <4>1
      <4>3. pc'[d] = "idle" /\ home'[d] = home[d]
        BY <1>4, <3>2, <4>1, <4>2
      <4>4. home[d] # d
        BY <3>1, <4>1 DEF Open, Fail
      <4>5. QED
        BY <4>3, <4>4
    <3>6. QED
      BY <3>3, <3>4, <3>5
  <2>5. ASSUME NEW m \in Node \ Parallel, NEW i \in DOMAIN Tree[m], NEW j \in DOMAIN Tree[m],
               i < j, pc'[Tree[m][j]] # "idle"
        PROVE  pc'[Tree[m][i]] = "done"
    <3>1. pc[Tree[m][i]] = "done" => pc'[Tree[m][i]] = "done"
      BY <1>3, <1>4, <1>7
    <3>2. CASE pc[Tree[m][j]] # "idle"
      BY <2>5, <3>1, <3>2 DEF TreeInv
    <3>3. CASE pc[Tree[m][j]] = "idle"
      <4>1. Tree[m][j] \in New
        BY <1>4, <1>7, <2>5, <3>3
      <4>2. m = n /\ j \in new
        BY <1>5, <1>6, <4>1
      <4>3. QED
        BY <2>5, <3>1, <4>2
    <3>4. QED
      BY <3>2, <3>3
  <2>6. \A m \in Node \ Parallel : \A i, j \in DOMAIN Tree[m] :
          i < j /\ pc'[Tree[m][j]] # "idle" => pc'[Tree[m][i]] = "done"
    BY <2>5
  <2>7. QED
    BY <2>1, <2>3, <2>4, <2>6 DEF TreeInv
<1>10. CountInv'
  BY <1>1, <1>3, <1>4 DEF CountInv
<1>11. NameInv' /\ RegistryInv'
  <2>1. KindsOpened' = KindsOpened /\ IsGit' = IsGit
    BY <1>1, SameKinds
  <2>2. \A s : IsOpen(s)' = IsOpen(s)
    BY <1>1 DEF IsOpen
  <2>3. \A r : Item(r)' = Item(r)
    BY <1>1 DEF Item
  <2>4. QED
    BY <1>1, <2>1, <2>2, <2>3 DEF NameInv, RegistryInv
<1>12. \A m \in Node \ New : Dropped(m) => Dropped(m)'
  <2>1. \A m \in Node : home[m] \in Node /\ pc[home[m]] # "idle"
    BY <1>2 DEF TreeInv
  <2>2. QED
    BY <1>3, <1>4, <2>1 DEF Dropped
<1>13. \A m \in New : candidate[m] = NoSurface /\ accepted[m] = NoSurface
  <2>1. \A m \in Node : opened[m] = 0 => candidate[m] = NoSurface /\ accepted[m] = NoSurface
    <3> SUFFICES ASSUME NEW m \in Node, opened[m] = 0,
                        NEW s \in {candidate[m], accepted[m]} \ {NoSurface}
                 PROVE  FALSE
      OBVIOUS
    <3>1. s \in Surface /\ s[1] = m /\ IsOpen(s)
      BY DEF CandidateInv, TypeOK
    <3>2. s[2] <= 0 /\ s[2] \in 1..(MaxAttempts + 1) /\ MaxAttempts \in Nat
      BY <3>1, SurfaceFacts, WorkspacesAssumption DEF IsOpen
    <3>3. QED
      BY <3>2
  <2>2. QED
    BY <1>3, <2>1 DEF CountInv
<1>14. CandidateInv'
  <2>1. ASSUME NEW m \in Node, NEW s \in {candidate'[m], accepted'[m]} \ {NoSurface}
        PROVE  /\ s[1] = m /\ IsOpen(s)'
               /\ \A r \in ChangeOf(s)' :
                    "candidate" \in refs'[r] /\ (state'[r] = "Active" \/ Dropped(m)')
    <3>1. s \in {candidate[m], accepted[m]} \ {NoSurface} /\ m \notin New
      BY <1>1, <1>13, <2>1
    <3>2. ChangeOf(s)' = ChangeOf(s) /\ IsOpen(s)' = IsOpen(s)
      BY <1>1, SameKinds DEF IsOpen
    <3>3. QED
      BY <1>1, <1>12, <3>1, <3>2 DEF CandidateInv
  <2>2. ASSUME NEW m \in Node, pc'[m] = "agent", NEW r \in OpenedBy(Current(m))'
        PROVE  refs'[r] # {} /\ (state'[r] = "Active" \/ Dropped(m)')
    <3>1. pc[m] = "agent" /\ Current(m)' = Current(m) /\ m \notin New
      BY <1>1, <1>3, <1>4, <2>2 DEF Current
    <3>2. OpenedBy(Current(m))' = OpenedBy(Current(m))
      BY <1>1, <3>1, SameKinds DEF OpenedBy
    <3>3. QED
      BY <1>1, <1>12, <2>2, <3>1, <3>2 DEF CandidateInv
  <2>3. QED
    BY <2>1, <2>2 DEF CandidateInv
<1>15. CauseInv'
  <2>1. \A m \in Node : pc'[m] \in Fail <=> pc[m] \in Fail
    BY <1>3, <1>4 DEF Fail
  <2>2. QED
    BY <1>1, <2>1 DEF CauseInv
<1>16. CleanInv'
  <2>1. \A s \in Surface : Working(s)' = Working(s) /\ IsOpen(s)' = IsOpen(s)
    BY <1>1, <1>3, <1>4, SurfaceFacts DEF Working, IsOpen
  <2>2. \A s : OpenedBy(s)' = OpenedBy(s) /\ ChangeOf(s)' = ChangeOf(s)
    BY <1>1, SameKinds
  <2>3. \A r : Item(r)' = Item(r) /\ Keeps(r)' = Keeps(r)
    BY <1>1 DEF Item, Keeps
  <2>4. QED
    BY <1>1, <2>1, <2>2, <2>3 DEF CleanInv
<1>17. EndInv'
  BY <1>1 DEF EndInv
<1>18. QED
  BY <1>8, <1>9, <1>10, <1>11, <1>14, <1>15, <1>16, <1>17 DEF OneTask

LEMMA StageNextKeeps ==
  ASSUME WorkspacesInv, NEW n \in Node, StageNext(n)
  PROVE  WorkspacesInv'
<1>1. pc[n] = "children" /\ result[Top] = "none" /\ n \notin Parallel
  BY RunningFacts DEF StageNext
<1>2. PICK i \in 1..Len(Tree[n]) - 1 :
        /\ pc[Tree[n][i]] = "done" /\ pc[Tree[n][i + 1]] = "idle"
        /\ pc' = [pc EXCEPT ![Tree[n][i + 1]] = "specify"]
        /\ home' = [home EXCEPT ![Tree[n][i + 1]] = home[n]]
  BY DEF StageNext
<1>3. i \in DOMAIN Tree[n] /\ i + 1 \in DOMAIN Tree[n] /\ i \in Nat
  BY ChildFacts DEF WorkspacesInv
<1> DEFINE new == {i + 1}
           c == Tree[n][i + 1]
<1>4. c \in Node /\ c # n
  <2>1. c \in Node /\ c > n
    BY <1>3, ChildFacts DEF WorkspacesInv
  <2>2. c \in Nat /\ n \in Nat
    BY <2>1, TopFacts DEF WorkspacesInv
  <2>3. QED
    BY <2>1, <2>2
<1>5. pc' = [m \in Node |-> IF m = n THEN "children"
                            ELSE IF \E k \in new : m = Tree[n][k] THEN "specify" ELSE pc[m]]
  <2>1. \A m \in Node : (\E k \in new : m = Tree[n][k]) <=> m = c
    OBVIOUS
  <2>2. DOMAIN pc = Node
    BY DEF WorkspacesInv, TypeOK
  <2> HIDE DEF new, c
  <2>3. pc' = [pc EXCEPT ![c] = "specify"]
    BY <1>2 DEF c
  <2>4. pc' = [m \in Node |-> IF m = c THEN "specify" ELSE pc[m]]
    BY <2>2, <2>3
  <2>5. QED
    BY <1>1, <1>4, <2>1, <2>4
<1>6. home' = [m \in Node |-> IF \E k \in new : m = Tree[n][k]
                              THEN IF n \in Parallel THEN m ELSE home[n] ELSE home[m]]
  <2>1. \A m \in Node : (\E k \in new : m = Tree[n][k]) <=> m = c
    OBVIOUS
  <2>2. DOMAIN home = Node
    BY DEF WorkspacesInv, TypeOK
  <2> HIDE DEF new, c
  <2>3. home' = [home EXCEPT ![c] = home[n]]
    BY <1>2 DEF c
  <2>4. home' = [m \in Node |-> IF m = c THEN home[n] ELSE home[m]]
    BY <2>2, <2>3
  <2>5. QED
    BY <1>1, <2>1, <2>4
<1>7. ASSUME NEW j \in DOMAIN Tree[n], j < i + 1
      PROVE  pc[Tree[n][j]] = "done"
  <2>1. j \in Nat
    BY ChildFacts DEF WorkspacesInv
  <2>2. j = i \/ j < i
    BY <1>3, <1>7, <2>1
  <2>3. CASE j < i
    BY <1>1, <1>2, <1>3, <2>3 DEF WorkspacesInv, TreeInv
  <2>4. QED
    BY <1>2, <2>2, <2>3
<1>8. UNCHANGED <<provider, opened, attempts, candidate, accepted, ids, name,
                  registryVars, git, changeVars, faults, excused, result>>
  BY DEF StageNext
<1>9. new \in SUBSET DOMAIN Tree[n] /\ \A k \in new : pc[Tree[n][k]] = "idle"
  BY <1>2, <1>3
<1>10. \A k \in new : \A j \in DOMAIN Tree[n] : j < k => pc[Tree[n][j]] = "done"
  BY <1>7
<1> HIDE DEF new
<1>11. QED
  BY <1>1, <1>5, <1>6, <1>8, <1>9, <1>10, Begins

LEMMA GroupStarts ==
  ASSUME WorkspacesInv, NEW n \in Node, Specified(n), Tree[n] # <<>>
  PROVE  WorkspacesInv'
<1>1. pc[n] = "specify" /\ result[Top] = "none"
  BY RunningFacts DEF Specified
<1> DEFINE new == IF n \in Parallel THEN DOMAIN Tree[n] ELSE {1}
           spawned == IF n \in Parallel THEN ToSet(Tree[n]) ELSE {Head(Tree[n])}
<1>2. /\ pc' = [m \in Node |-> CASE m = n -> "children"
                                 [] m \in spawned -> "specify"
                                 [] OTHER -> pc[m]]
      /\ home' = [m \in Node |->
                    IF m \in spawned /\ n \in Parallel THEN m
                    ELSE IF m \in spawned THEN home[n] ELSE home[m]]
      /\ UNCHANGED <<provider, opened, attempts, candidate, accepted, ids, name,
                     registryVars, git, changeVars, faults, excused, result>>
  BY DEF Specified
<1>3. /\ ToSet(Tree[n]) = {Tree[n][i] : i \in DOMAIN Tree[n]}
      /\ Head(Tree[n]) = Tree[n][1] /\ 1 \in DOMAIN Tree[n]
  BY ChildFacts DEF WorkspacesInv
<1>4. \A m : m \in spawned <=> \E i \in new : m = Tree[n][i]
  BY <1>3
<1>5. new \in SUBSET DOMAIN Tree[n]
  BY <1>3
<1>6. n \notin Parallel => \A i \in new : \A j \in DOMAIN Tree[n] : j < i => pc[Tree[n][j]] = "done"
  <2>1. \A j \in DOMAIN Tree[n] : ~(j < 1)
    BY ChildFacts DEF WorkspacesInv
  <2>2. QED
    BY <2>1
<1> HIDE DEF new, spawned
<1>7. \A i \in new : pc[Tree[n][i]] = "idle"
  BY <1>1, <1>5 DEF WorkspacesInv, TreeInv
<1>8. pc' = [m \in Node |-> IF m = n THEN "children"
                            ELSE IF \E i \in new : m = Tree[n][i] THEN "specify" ELSE pc[m]]
  <2>1. \A m \in Node : m = n => pc'[m] = "children"
    <3>1. \A i \in new : Tree[n][i] \in Node /\ Tree[n][i] > n
      BY <1>5, ChildFacts DEF WorkspacesInv
    <3>2. n \in Nat /\ \A i \in new : Tree[n][i] \in Nat
      BY <3>1, TopFacts DEF WorkspacesInv
    <3>3. n \notin spawned
      BY <1>4, <3>1, <3>2
    <3>4. QED
      BY <1>2, <3>3
  <2>2. \A m \in Node : m # n /\ m \in spawned => pc'[m] = "specify"
    BY <1>2
  <2>3. \A m \in Node : m # n /\ m \notin spawned => pc'[m] = pc[m]
    BY <1>2
  <2>4. pc' = [m \in Node |-> pc'[m]]
    BY <1>2
  <2>5. QED
    BY <1>4, <2>1, <2>2, <2>3, <2>4
<1>9. home' = [m \in Node |-> IF \E i \in new : m = Tree[n][i]
                              THEN IF n \in Parallel THEN m ELSE home[n] ELSE home[m]]
  <2>1. CASE n \in Parallel
    BY <1>2, <1>4, <2>1
  <2>2. CASE n \notin Parallel
    BY <1>2, <1>4, <2>2
  <2>3. QED
    BY <2>1, <2>2
<1>10. QED
  BY <1>1, <1>2, <1>5, <1>6, <1>7, <1>8, <1>9, Begins

-----------------------------------------------------------------------------
(* Surfaces are opened.                                                    *)

LEMMA IdsFacts ==
  ASSUME WorkspacesInv, NEW n \in Node, NEW snapshots \in {0, 1}, NextIds(n, snapshots)
  PROVE  /\ ids' \in [Root -> [snapshot : Nat, resource : Nat]]
         /\ ids[Top].resource \in Nat /\ ids'[Top].resource \in Nat
         /\ ids'[Top].resource >= ids[Top].resource + 1
         /\ NameOf(n, snapshots) \in Name \ {<<>>}
         /\ NameOf(n, snapshots)[3] = ids[Top].resource + 1
<1>1. ids \in [Root -> [snapshot : Nat, resource : Nat]] /\ RootOf(n) = Top /\ Top \in Root
  BY TopFacts DEF WorkspacesInv, TypeOK
<1> DEFINE card == Cardinality(KindsOpened)
<1>2. card \in Nat /\ card >= 1
  <2>1. card \in Nat \ {0}
    BY KindFacts
  <2>2. QED
    BY <2>1
<1> HIDE DEF card
<1>3. ids' = [ids EXCEPT ![Top] = [snapshot |-> ids[Top].snapshot + snapshots,
                                   resource |-> ids[Top].resource + card]]
  BY <1>1 DEF NextIds, card
<1>4. ids[Top].resource \in Nat /\ ids[Top].snapshot \in Nat
  BY <1>1
<1>5. ids'[Top].resource = ids[Top].resource + card
  BY <1>1, <1>3
<1>6. ids' \in [Root -> [snapshot : Nat, resource : Nat]]
  <2>1. [snapshot |-> ids[Top].snapshot + snapshots, resource |-> ids[Top].resource + card]
          \in [snapshot : Nat, resource : Nat]
    BY <1>2, <1>4
  <2>2. QED
    BY <1>1, <1>3, <2>1
<1>7. CASE snapshots = 1
  <2>1. NameOf(n, snapshots) = <<"node", ids[Top].snapshot + 1, ids[Top].resource + 1>>
    BY <1>1, <1>7 DEF NameOf
  <2>2. ids[Top].snapshot + 1 \in Nat /\ ids[Top].resource + 1 \in Nat
    BY <1>4
  <2>3. QED
    BY <1>2, <1>4, <1>5, <1>6, <2>1, <2>2 DEF Name
<1>8. CASE snapshots = 0
  <2>1. NameOf(n, snapshots) = <<"merge", 0, ids[Top].resource + 1>>
    BY <1>1, <1>8 DEF NameOf
  <2>2. ids[Top].resource + 1 \in Nat
    BY <1>4
  <2>3. QED
    BY <1>2, <1>4, <1>5, <1>6, <2>1, <2>2 DEF Name
<1>9. QED
  BY <1>7, <1>8

\* A git command fails; what the operation had created is not tracked.
LEMMA GitFailure ==
  ASSUME WorkspacesInv, NEW n \in Node,
         NEW extra \in SUBSET [name : Name, kind : {"worktree", "branch"}],
         pc[n] \in Busy \ {"dropping"}, result[Top] = "none", GitFails(n),
         ids' \in [Root -> [snapshot : Nat, resource : Nat]],
         ids'[Top].resource >= ids[Top].resource,
         refs' \in [Resource -> SUBSET Tags], \A r \in Resource : refs[r] \subseteq refs'[r],
         git' = git \union extra,
         \A i \in extra : i.name # <<>> /\ ids[Top].resource < i.name[3]
                          /\ i.name[3] <= ids'[Top].resource,
         UNCHANGED <<provider, opened, attempts, candidate, accepted, home, name, state,
                     changeVars, result>>
  PROVE  WorkspacesInv'
<1> USE DEF WorkspacesInv
<1>1. /\ provider' = provider /\ opened' = opened /\ attempts' = attempts /\ candidate' = candidate
      /\ accepted' = accepted /\ home' = home /\ name' = name /\ state' = state
      /\ holds' = holds /\ sha' = sha /\ listed' = listed /\ result' = result
  BY DEF changeVars
<1>2. /\ pc \in [Node -> {"idle", "specify", "agent", "verify", "children", "dropping"} \union Finished]
      /\ Root = {Top} /\ Top \in Node /\ faults \in 0..MaxFaults /\ MaxFaults \in Nat
      /\ ids[Top].resource \in Nat /\ ids'[Top].resource \in Nat
  BY TopFacts, WorkspacesAssumption DEF TypeOK
<1>3. PICK v \in {"error", "dropping"} : v = Failure(n) /\ (v = "dropping" => n # Top)
  BY FailureFacts
<1>4. IsGit /\ faults' = faults + 1 /\ faults < MaxFaults /\ Excuse(n)
      /\ pc' = [pc EXCEPT ![n] = v]
  BY <1>3 DEF GitFails
<1>5. excused'[Top] /\ excused' \in [Root -> BOOLEAN]
  BY <1>4, ExcuseFacts
<1>6. \A m \in Node : pc'[m] = IF m = n THEN v ELSE pc[m]
  BY <1>2, <1>4
<1>7. KindsOpened' = KindsOpened /\ IsGit' = IsGit
      /\ \A s : OpenedBy(s)' = OpenedBy(s) /\ ChangeOf(s)' = ChangeOf(s)
  BY <1>1, SameKinds
<1>8. (\A s : IsOpen(s)' = IsOpen(s)) /\ \A r : Item(r)' = Item(r)
  BY <1>1 DEF IsOpen, Item
<1>9. TypeOK'
  <2>1. pc' \in [Node -> {"idle", "specify", "agent", "verify", "children", "dropping"} \union Finished]
    BY <1>2, <1>3, <1>4 DEF Finished
  <2>2. faults' \in 0..MaxFaults
    BY <1>2, <1>4
  <2>3. git' \subseteq [name : Name, kind : {"worktree", "branch"}]
    BY DEF TypeOK
  <2>4. QED
    BY <1>1, <1>5, <2>1, <2>2, <2>3 DEF TypeOK, Tags
<1>10. TreeInv'
  BY <1>1, <1>3, <1>4, TreeMove DEF Open, Fail
<1>11. CountInv'
  BY <1>1, <1>3, <1>6 DEF CountInv
<1>12. \A s \in Surface : IsOpen(s) =>
         name[s] # <<>> /\ name[s][3] \in Nat /\ name[s][3] <= ids[Top].resource
  BY DEF NameInv, TypeOK, Name
<1>13. \A i \in git : i.name # <<>> /\ i.name[3] \in Nat /\ i.name[3] <= ids[Top].resource
  BY DEF NameInv, TypeOK, Name
<1>14. NameInv'
  <2>1. \A s \in Surface : IsOpen(s) => name[s] # <<>> /\ name[s][3] <= ids'[Top].resource
    BY <1>2, <1>12
  <2>2. \A i \in git : i.name # <<>> /\ i.name[3] <= ids'[Top].resource
    BY <1>2, <1>13
  <2>3. QED
    BY <1>1, <1>4, <1>7, <1>8, <2>1, <2>2 DEF NameInv
<1>15. \A r \in Resource : state[r] # "none" => Item(r) \notin extra
  <2> SUFFICES ASSUME NEW r \in Resource, state[r] # "none", Item(r) \in extra
               PROVE  FALSE
    OBVIOUS
  <2>1. IsOpen(r[1]) /\ r[1] \in Surface
    BY SurfaceFacts DEF RegistryInv
  <2>2. name[r[1]][3] \in Nat /\ name[r[1]][3] <= ids[Top].resource
    BY <1>12, <2>1
  <2>3. ids[Top].resource < name[r[1]][3]
    BY ItemFacts
  <2>4. QED
    BY <1>2, <2>2, <2>3
<1>16. RegistryInv'
  BY <1>1, <1>7, <1>8, <1>15 DEF RegistryInv
<1>17. \A m \in Node : Dropped(m) => Dropped(m)'
  BY <1>1, <1>2, <1>6 DEF Dropped, TypeOK, Busy
<1>18. CandidateInv'
  <2>1. ASSUME NEW m \in Node, NEW s \in {candidate'[m], accepted'[m]} \ {NoSurface}
        PROVE  /\ s[1] = m /\ IsOpen(s)'
               /\ \A r \in ChangeOf(s)' :
                    "candidate" \in refs'[r] /\ (state'[r] = "Active" \/ Dropped(m)')
    <3>1. s \in {candidate[m], accepted[m]} \ {NoSurface} /\ s \in Surface
      BY <1>1 DEF TypeOK
    <3>2. ChangeOf(s) \subseteq Resource
      BY <3>1, OpenedFacts
    <3>3. QED
      BY <1>1, <1>7, <1>8, <1>17, <3>1, <3>2 DEF CandidateInv
  <2>2. ASSUME NEW m \in Node, pc'[m] = "agent", NEW r \in OpenedBy(Current(m))'
        PROVE  refs'[r] # {} /\ (state'[r] = "Active" \/ Dropped(m)')
    <3>1. pc[m] = "agent" /\ Current(m)' = Current(m)
      BY <1>1, <1>3, <1>6, <2>2 DEF Current
    <3>2. OpenedBy(Current(m))' = OpenedBy(Current(m))
      BY <1>1, <3>1, SameKinds DEF OpenedBy
    <3>3. refs[r] # {} /\ (state[r] = "Active" \/ Dropped(m))
      BY <2>2, <3>1, <3>2 DEF CandidateInv
    <3>4. r \in Resource
      BY <2>2, <3>1, <3>2, CurrentFacts
    <3>5. QED
      BY <1>1, <1>17, <3>3, <3>4
  <2>3. QED
    BY <2>1, <2>2 DEF CandidateInv
<1>19. CauseInv'
  <2>1. pc'[n] \in Fail
    BY <1>3, <1>6 DEF Fail
  <2>2. QED
    BY <1>1, <1>5, <2>1 DEF CauseInv
<1>20. CleanInv' /\ EndInv'
  BY <1>1, <1>5 DEF CleanInv, EndInv
<1>21. QED
  BY <1>9, <1>10, <1>11, <1>14, <1>16, <1>18, <1>19, <1>20 DEF OneTask

\* What opening the surface s under a new name does.
OpenedAs(n, s, new, held, tag) ==
  /\ opened' = [opened EXCEPT ![n] = @ + 1]
  /\ name' = [name EXCEPT ![s] = new]
  /\ git' = IF IsGit THEN git \union {[name |-> new, kind |-> k] : k \in {"worktree", "branch"}}
                     ELSE git
  /\ state' = [r \in Resource |-> IF r \in OpenedBy(s) THEN "Active" ELSE state[r]]
  /\ refs' = [r \in Resource |-> IF r \in OpenedBy(s) THEN {tag} ELSE held[r]]
  /\ pc' = [pc EXCEPT ![n] = "agent"]
  /\ UNCHANGED <<faults, excused>>

\* The surface that is opened is new, and its name is too.
LEMMA Opened ==
  ASSUME WorkspacesInv, NEW n \in Node, NEW snapshots \in {0, 1},
         NEW held \in [Resource -> SUBSET Tags], NEW tag \in Tags,
         pc[n] \in {"specify", "verify", "children"}, result[Top] = "none",
         pc[n] = "verify" => attempts[n] < MaxAttempts,
         pc[n] = "children" => Settled(n),
         \A r \in Resource : refs[r] \subseteq held[r],
         NEW s, s = <<n, opened[n] + 1>>, NEW new, new = NameOf(n, snapshots),
         NextIds(n, snapshots),
         OpenedAs(n, s, new, held, tag),
         holds' \in [Surface -> SUBSET (Node \X Path)],
         UNCHANGED <<provider, attempts, candidate, accepted, home, sha, listed, result>>
  PROVE  WorkspacesInv'
<1> USE DEF WorkspacesInv, OpenedAs
<1>1. /\ provider' = provider /\ attempts' = attempts /\ candidate' = candidate
      /\ accepted' = accepted /\ home' = home /\ sha' = sha /\ listed' = listed
      /\ result' = result /\ faults' = faults /\ excused' = excused
  OBVIOUS
<1>2. /\ pc \in [Node -> {"idle", "specify", "agent", "verify", "children", "dropping"} \union Finished]
      /\ opened \in [Node -> 0..MaxAttempts + 1] /\ attempts \in [Node -> 0..MaxAttempts + 1]
      /\ name \in [Surface -> Name] /\ Root = {Top} /\ Top \in Node /\ MaxAttempts \in Nat
      /\ opened[n] \in Nat /\ attempts[n] \in Nat
  BY TopFacts, WorkspacesAssumption DEF TypeOK
<1>3. /\ ids' \in [Root -> [snapshot : Nat, resource : Nat]]
      /\ ids[Top].resource \in Nat /\ ids'[Top].resource \in Nat
      /\ ids'[Top].resource >= ids[Top].resource + 1
      /\ new \in Name \ {<<>>} /\ new[3] = ids[Top].resource + 1
  BY IdsFacts
<1>4. opened[n] + 1 \in 1..MaxAttempts + 1 /\ attempts[n] + 1 <= opened[n] + 1
      /\ opened[n] + 1 <= attempts[n] + 2
  <2>1. CASE pc[n] = "verify"
    <3>1. 1 <= opened[n] /\ attempts[n] <= opened[n] /\ opened[n] <= attempts[n] + 1
      BY <2>1 DEF CountInv
    <3>2. QED
      BY <1>2, <2>1, <3>1
  <2>2. CASE pc[n] \in {"specify", "children"}
    <3>1. opened[n] = 0 /\ attempts[n] = 0
      BY <2>2 DEF CountInv
    <3>2. QED
      BY <1>2, <3>1
  <2>3. QED
    BY <2>1, <2>2
<1>5. s \in Surface /\ s[1] = n /\ s[2] = opened[n] + 1
  BY <1>4, SurfaceFacts
<1>6. \A m \in Node : /\ pc'[m] = IF m = n THEN "agent" ELSE pc[m]
                      /\ opened'[m] = IF m = n THEN opened[n] + 1 ELSE opened[m]
  BY <1>2
<1>7. \A t \in Surface : name'[t] = IF t = s THEN new ELSE name[t]
  BY <1>2, <1>5
<1>8. KindsOpened' = KindsOpened /\ IsGit' = IsGit
      /\ \A t : OpenedBy(t)' = OpenedBy(t) /\ ChangeOf(t)' = ChangeOf(t)
  BY <1>1, SameKinds
<1>9. \A t \in Surface : IsOpen(t)' <=> IsOpen(t) \/ t = s
  <2> SUFFICES ASSUME NEW t \in Surface
               PROVE  IsOpen(t)' <=> IsOpen(t) \/ t = s
    OBVIOUS
  <2>1. t[1] \in Node /\ t[2] \in Nat /\ t = <<t[1], t[2]>> /\ s = <<s[1], s[2]>>
    BY <1>2, <1>5, SurfaceFacts
  <2>2. opened[t[1]] \in Nat
    BY <1>2, <2>1
  <2>3. CASE t[1] = n
    <3>1. IsOpen(t)' <=> t[2] <= opened[n] + 1
      BY <1>6, <2>1, <2>3 DEF IsOpen
    <3>2. IsOpen(t) <=> t[2] <= opened[n]
      BY <2>3 DEF IsOpen
    <3>3. t = s <=> t[2] = opened[n] + 1
      BY <1>5, <2>1, <2>3
    <3>4. t[2] <= opened[n] + 1 <=> t[2] <= opened[n] \/ t[2] = opened[n] + 1
      BY <1>2, <2>1
    <3>5. QED
      BY <3>1, <3>2, <3>3, <3>4
  <2>4. CASE t[1] # n
    BY <1>5, <1>6, <2>1, <2>4 DEF IsOpen
  <2>5. QED
    BY <2>3, <2>4
<1>10. ~IsOpen(s)
  BY <1>2, <1>5 DEF IsOpen
<1>11. \A r \in Resource : r \in OpenedBy(s) <=> r[1] = s /\ r[2] \in KindsOpened
  BY <1>5, OpenedFacts
<1>12. \A r \in Resource : state[r] # "none" => IsOpen(r[1]) /\ r[1] # s /\ r \notin OpenedBy(s)
  BY <1>10, <1>11 DEF RegistryInv
<1>13. \A r \in Resource : r[1] # s => Item(r)' = Item(r)
  BY <1>7, SurfaceFacts DEF Item
<1>14. \A t \in Surface : IsOpen(t) =>
         name[t] # <<>> /\ name[t][3] \in Nat /\ name[t][3] <= ids[Top].resource
  BY DEF NameInv, TypeOK, Name
<1>15. \A i \in git : i.name # <<>> /\ i.name[3] \in Nat /\ i.name[3] <= ids[Top].resource
  BY DEF NameInv, TypeOK, Name
<1>16. \A i \in git' : i \in git \/ i.name = new
  BY <1>3
<1>17. git \subseteq git' /\ (~IsGit => git' = {})
  BY DEF NameInv
<1>18. \A r \in Resource : r \in OpenedBy(s) => state'[r] = "Active" /\ refs'[r] = {tag}
  OBVIOUS
<1>19. \A r \in Resource : r \notin OpenedBy(s) =>
         state'[r] = state[r] /\ refs'[r] = held[r] /\ refs[r] \subseteq refs'[r]
  OBVIOUS
<1>20. TypeOK'
  <2>1. pc' \in [Node -> {"idle", "specify", "agent", "verify", "children", "dropping"} \union Finished]
    BY <1>2
  <2>2. opened' \in [Node -> 0..MaxAttempts + 1]
    BY <1>2, <1>4
  <2>3. name' \in [Surface -> Name]
    BY <1>2, <1>3
  <2>4. git' \subseteq [name : Name, kind : {"worktree", "branch"}]
    BY <1>3 DEF TypeOK
  <2>5. state' \in [Resource -> {"none", "Active", "Released", "FailedCleanup"}]
    BY DEF TypeOK
  <2>6. refs' \in [Resource -> SUBSET Tags]
    OBVIOUS
  <2>7. QED
    BY <1>1, <1>3, <2>1, <2>2, <2>3, <2>4, <2>5, <2>6 DEF TypeOK, Tags
<1>21. TreeInv'
  BY <1>1, TreeMove DEF Busy, Open, Fail
<1>22. CountInv'
  <2>1. pc'[n] = "agent" /\ opened'[n] = opened[n] + 1 /\ attempts'[n] = attempts[n]
    BY <1>1, <1>6
  <2>2. \A m \in Node : m # n => pc'[m] = pc[m] /\ opened'[m] = opened[m] /\ attempts'[m] = attempts[m]
    BY <1>1, <1>6
  <2>3. QED
    BY <1>4, <2>1, <2>2 DEF CountInv
<1>23. NameInv'
  <2>1. ASSUME NEW t \in Surface, IsOpen(t)'
        PROVE  name'[t] # <<>> /\ name'[t][3] <= ids'[Top].resource
    <3>1. CASE t = s
      BY <1>3, <1>7, <3>1
    <3>2. CASE t # s
      <4>1. name'[t] = name[t] /\ IsOpen(t)
        BY <1>7, <1>9, <2>1, <3>2
      <4>2. QED
        BY <1>3, <1>14, <4>1
    <3>3. QED
      BY <3>1, <3>2
  <2>2. ASSUME NEW t \in Surface, NEW u \in Surface, IsOpen(t)', IsOpen(u)', name'[t] = name'[u]
        PROVE  t = u
    <3>1. ASSUME NEW x \in Surface, IsOpen(x) PROVE name[x] # new
      BY <1>3, <1>14, <3>1
    <3>2. CASE t = s \/ u = s
      BY <1>7, <1>9, <2>2, <3>1, <3>2
    <3>3. CASE t # s /\ u # s
      BY <1>7, <1>9, <2>2, <3>3 DEF NameInv
    <3>4. QED
      BY <3>2, <3>3
  <2>3. \A i \in git' : i.name # <<>> /\ i.name[3] <= ids'[Top].resource
    <3> SUFFICES ASSUME NEW i \in git'
                 PROVE  i.name # <<>> /\ i.name[3] <= ids'[Top].resource
      OBVIOUS
    <3>1. CASE i \in git
      BY <1>3, <1>15, <3>1
    <3>2. CASE i.name = new
      BY <1>3, <3>2
    <3>3. QED
      BY <1>16, <3>1, <3>2
  <2>4. QED
    BY <1>8, <1>17, <2>1, <2>2, <2>3 DEF NameInv
<1>24. \A r \in OpenedBy(s) : r[2] # "plain" => IsGit /\ Item(r)' \in git'
  <2> SUFFICES ASSUME NEW r \in OpenedBy(s), r[2] # "plain"
               PROVE  IsGit /\ Item(r)' \in git'
    OBVIOUS
  <2>1. r \in Resource /\ r[1] = s /\ r[2] \in KindsOpened
    BY <1>5, OpenedFacts
  <2>2. IsGit /\ r[2] \in {"worktree", "branch"}
    BY <2>1, KindFacts
  <2>3. Item(r)' = [name |-> new, kind |-> r[2]]
    BY <1>5, <1>7, <2>1 DEF Item
  <2>4. QED
    BY <2>2, <2>3
<1>25. RegistryInv'
  <2> SUFFICES ASSUME NEW r \in Resource
               PROVE  /\ state'[r] # "none" => IsOpen(r[1])' /\ r[2] \in KindsOpened'
                      /\ r[2] # "plain" /\ state'[r] = "Active" => Item(r)' \in git'
                      /\ r[2] # "plain" /\ state'[r] = "Released" => Item(r)' \notin git'
    BY DEF RegistryInv
  <2>1. r[1] \in Surface
    BY SurfaceFacts
  <2>2. CASE r \in OpenedBy(s)
    BY <1>8, <1>9, <1>11, <1>18, <1>24, <2>1, <2>2
  <2>3. CASE r \notin OpenedBy(s) /\ state[r] = "none"
    BY <1>19, <2>3
  <2>4. CASE r \notin OpenedBy(s) /\ state[r] # "none"
    <3>1. state'[r] = state[r] /\ IsOpen(r[1]) /\ r[1] # s /\ Item(r)' = Item(r)
      BY <1>12, <1>13, <1>19, <2>4
    <3>2. r[2] \in KindsOpened /\ IsOpen(r[1])'
      BY <1>9, <2>1, <2>4, <3>1 DEF RegistryInv
    <3>3. Item(r).name # new
      <4>1. Item(r).name = name[r[1]]
        BY ItemFacts
      <4>2. name[r[1]][3] \in Nat /\ name[r[1]][3] <= ids[Top].resource
        BY <1>14, <2>1, <3>1
      <4>3. name[r[1]][3] # new[3]
        BY <1>3, <4>2
      <4>4. QED
        BY <4>1, <4>3
    <3>4. Item(r) \in git' => Item(r) \in git
      BY <1>16, <3>3
    <3>5. QED
      BY <1>8, <1>17, <3>1, <3>2, <3>4 DEF RegistryInv
  <2>5. QED
    BY <2>2, <2>3, <2>4
<1>26. \A m \in Node : Dropped(m) => Dropped(m)'
  BY <1>1, <1>2, <1>6 DEF Dropped, TypeOK
<1>27. CandidateInv'
  <2>1. ASSUME NEW m \in Node, NEW t \in {candidate'[m], accepted'[m]} \ {NoSurface}
        PROVE  /\ t[1] = m /\ IsOpen(t)'
               /\ \A r \in ChangeOf(t)' :
                    "candidate" \in refs'[r] /\ (state'[r] = "Active" \/ Dropped(m)')
    <3>1. t \in {candidate[m], accepted[m]} \ {NoSurface} /\ t \in Surface
      BY <1>1 DEF TypeOK
    <3>2. t[1] = m /\ IsOpen(t) /\ t # s
      BY <1>1, <1>10, <3>1 DEF CandidateInv
    <3>3. IsOpen(t)'
      BY <1>9, <3>1, <3>2
    <3>4. ASSUME NEW r \in ChangeOf(t)
          PROVE  "candidate" \in refs'[r] /\ (state'[r] = "Active" \/ Dropped(m)')
      <4>1. r \in Resource /\ r[1] = t
        BY <3>1, OpenedFacts
      <4>2. r \notin OpenedBy(s)
        BY <1>11, <3>2, <4>1
      <4>3. "candidate" \in refs[r] /\ (state[r] = "Active" \/ Dropped(m))
        BY <3>1 DEF CandidateInv
      <4>4. QED
        BY <1>19, <1>26, <4>1, <4>2, <4>3
    <3>5. QED
      BY <1>8, <3>2, <3>3, <3>4
  <2>2. ASSUME NEW m \in Node, pc'[m] = "agent", NEW r \in OpenedBy(Current(m))'
        PROVE  refs'[r] # {} /\ (state'[r] = "Active" \/ Dropped(m)')
    <3>1. CASE m = n
      <4>1. Current(m)' = s
        BY <1>6, <3>1 DEF Current
      <4>2. OpenedBy(Current(m))' = OpenedBy(s)
        BY <1>1, <4>1, SameKinds DEF OpenedBy
      <4>3. OpenedBy(s) \subseteq Resource
        BY <1>5, OpenedFacts
      <4>4. QED
        BY <1>18, <2>2, <4>2, <4>3
    <3>2. CASE m # n
      <4>1. pc[m] = "agent" /\ Current(m)' = Current(m)
        BY <1>6, <2>2, <3>2 DEF Current
      <4>2. OpenedBy(Current(m))' = OpenedBy(Current(m))
        BY <1>1, <4>1, SameKinds DEF OpenedBy
      <4>3. Current(m) \in Surface /\ Current(m)[1] = m
        BY <4>1, CurrentFacts
      <4>4. r \in Resource /\ r[1] = Current(m)
        BY <2>2, <4>2, <4>3, OpenedFacts
      <4>5. r \notin OpenedBy(s)
        BY <1>5, <1>11, <3>2, <4>3, <4>4
      <4>6. refs[r] # {} /\ (state[r] = "Active" \/ Dropped(m))
        BY <2>2, <4>1, <4>2 DEF CandidateInv
      <4>7. QED
        BY <1>19, <1>26, <4>4, <4>5, <4>6
    <3>3. QED
      BY <3>1, <3>2
  <2>3. QED
    BY <2>1, <2>2 DEF CandidateInv
<1>28. CauseInv'
  <2>1. \A m \in Node : pc'[m] \in Fail <=> pc[m] \in Fail
    BY <1>6 DEF Fail
  <2>2. QED
    BY <1>1, <2>1 DEF CauseInv
<1>29. CleanInv'
  <2> SUFFICES ASSUME ~excused[Top]
               PROVE  /\ \A t \in Surface : IsOpen(t)' =>
                           /\ \A r \in ChangeOf(t) : Keeps(r)'
                           /\ Working(t)' => \A r \in OpenedBy(t) : Keeps(r)'
                           /\ ~Working(t)' => \A r \in OpenedBy(t) \ ChangeOf(t) : state'[r] = "Released"
                      /\ \A i \in git' : \E r \in Resource : state'[r] = "Active" /\ i = Item(r)'
    BY <1>1, <1>8 DEF CleanInv
  <2>1. ASSUME NEW t \in Surface, IsOpen(t)'
        PROVE  /\ \A r \in ChangeOf(t) : Keeps(r)'
               /\ Working(t)' => \A r \in OpenedBy(t) : Keeps(r)'
               /\ ~Working(t)' => \A r \in OpenedBy(t) \ ChangeOf(t) : state'[r] = "Released"
    <3>1. CASE t = s
      <4>1. Working(s)'
        BY <1>5, <1>6 DEF Working
      <4>2. \A r \in OpenedBy(s) : Keeps(r)'
        <5>1. OpenedBy(s) \subseteq Resource
          BY <1>5, OpenedFacts
        <5>2. QED
          BY <1>18, <5>1 DEF Keeps
      <4>3. ChangeOf(s) \subseteq OpenedBy(s)
        BY <1>5, OpenedFacts
      <4>4. QED
        BY <3>1, <4>1, <4>2, <4>3
    <3>2. CASE t # s
      <4>1. IsOpen(t)
        BY <1>9, <2>1, <3>2
      <4>2. Working(t)' <=> Working(t)
        <5>1. t[1] \in Node /\ t[2] \in Nat /\ t = <<t[1], t[2]>> /\ s = <<s[1], s[2]>>
          BY <1>2, <1>5, SurfaceFacts
        <5>2. CASE t[1] = n
          <6>1. t[2] # opened[n] + 1
            BY <1>5, <3>2, <5>1, <5>2
          <6>2. ~Working(t)'
            BY <1>6, <5>1, <5>2, <6>1 DEF Working
          <6>3. ~Working(t)
            BY <5>2 DEF Working
          <6>4. QED
            BY <6>2, <6>3
        <5>3. CASE t[1] # n
          BY <1>6, <5>1, <5>3 DEF Working
        <5>4. QED
          BY <5>2, <5>3
      <4>3. \A r \in OpenedBy(t) : r \in Resource /\ r \notin OpenedBy(s)
        BY <1>11, <3>2, OpenedFacts
      <4>4. \A r \in OpenedBy(t) : (Keeps(r) => Keeps(r)') /\ state'[r] = state[r]
        BY <1>19, <4>3 DEF Keeps
      <4>5. ChangeOf(t) \subseteq OpenedBy(t)
        BY OpenedFacts
      <4>6. QED
        BY <4>1, <4>2, <4>4, <4>5 DEF CleanInv
    <3>3. QED
      BY <3>1, <3>2
  <2>2. ASSUME NEW i \in git'
        PROVE  \E r \in Resource : state'[r] = "Active" /\ i = Item(r)'
    <3>1. CASE i \in git
      <4>1. PICK r \in Resource : state[r] = "Active" /\ i = Item(r)
        BY <3>1 DEF CleanInv
      <4>2. QED
        BY <1>12, <1>13, <1>19, <4>1
    <3>2. CASE i \notin git
      <4>1. IsGit
        BY <3>2
      <4>2. PICK k \in {"worktree", "branch"} : i = [name |-> new, kind |-> k]
        BY <3>2, <4>1
      <4>3. k \in KindsOpened /\ k \in Kind
        BY <4>1, KindFacts DEF Kind
      <4>4. <<s, k>> \in Resource /\ <<s, k>>[1] = s /\ <<s, k>>[2] = k
        BY <1>5, <4>3, SurfaceFacts
      <4>5. <<s, k>> \in OpenedBy(s)
        BY <1>11, <4>3, <4>4
      <4>6. Item(<<s, k>>)' = i
        BY <1>5, <1>7, <4>2, <4>4 DEF Item
      <4>7. QED
        BY <1>18, <4>4, <4>5, <4>6
    <3>3. QED
      BY <3>1, <3>2
  <2>3. QED
    BY <2>1, <2>2
<1>30. EndInv'
  BY <1>1 DEF EndInv
<1>31. QED
  BY <1>20, <1>21, <1>22, <1>23, <1>25, <1>27, <1>28, <1>29, <1>30 DEF OneTask

LEMMA Opens ==
  ASSUME WorkspacesInv, NEW n \in Node, NEW snapshots \in {0, 1},
         NEW held \in [Resource -> SUBSET Tags], NEW tag \in Tags,
         pc[n] \in {"specify", "verify", "children"}, result[Top] = "none",
         pc[n] = "verify" => attempts[n] < MaxAttempts,
         pc[n] = "children" => Settled(n),
         \A r \in Resource : refs[r] \subseteq held[r],
         OpenSurface(n, snapshots, held, tag),
         \/ holds' = holds
         \/ (opened' # opened /\ holds' \in [Surface -> SUBSET (Node \X Path)]),
         UNCHANGED <<provider, attempts, candidate, accepted, home, sha, listed, result>>
  PROVE  WorkspacesInv'
<1> DEFINE s == <<n, opened[n] + 1>>
           new == NameOf(n, snapshots)
           items == {[name |-> new, kind |-> k] : k \in {"worktree", "branch"}}
<1>1. NextIds(n, snapshots)
  BY DEF OpenSurface
<1>2. /\ ids' \in [Root -> [snapshot : Nat, resource : Nat]]
      /\ ids[Top].resource \in Nat /\ ids'[Top].resource \in Nat
      /\ ids'[Top].resource >= ids[Top].resource + 1
      /\ new \in Name \ {<<>>} /\ new[3] = ids[Top].resource + 1
  BY <1>1, IdsFacts
<1>3. items \intersect git = {}
  <2> SUFFICES ASSUME NEW i \in items, i \in git PROVE FALSE
    OBVIOUS
  <2>1. i.name = new
    OBVIOUS
  <2>2. i.name[3] <= ids[Top].resource
    BY DEF WorkspacesInv, NameInv
  <2>3. QED
    BY <1>2, <2>1, <2>2
<1>4. \/ /\ opened' = [opened EXCEPT ![n] = @ + 1]
         /\ name' = [name EXCEPT ![s] = new]
         /\ git' = IF IsGit THEN git \union items ELSE git
         /\ state' = [r \in Resource |-> IF r \in OpenedBy(s) THEN "Active" ELSE state[r]]
         /\ refs' = [r \in Resource |-> IF r \in OpenedBy(s) THEN {tag} ELSE held[r]]
         /\ pc' = [pc EXCEPT ![n] = "agent"]
         /\ UNCHANGED <<faults, excused>>
      \/ /\ GitFails(n)
         /\ refs' = held
         /\ UNCHANGED <<opened, name, state, git>>
  BY <1>3 DEF OpenSurface
<1>5. holds \in [Surface -> SUBSET (Node \X Path)]
  BY DEF WorkspacesInv, TypeOK
<1>6. CASE /\ opened' = [opened EXCEPT ![n] = @ + 1]
           /\ name' = [name EXCEPT ![s] = new]
           /\ git' = IF IsGit THEN git \union items ELSE git
           /\ state' = [r \in Resource |-> IF r \in OpenedBy(s) THEN "Active" ELSE state[r]]
           /\ refs' = [r \in Resource |-> IF r \in OpenedBy(s) THEN {tag} ELSE held[r]]
           /\ pc' = [pc EXCEPT ![n] = "agent"]
           /\ UNCHANGED <<faults, excused>>
  <2>1. holds' \in [Surface -> SUBSET (Node \X Path)]
    BY <1>5
  <2>2. PICK s0 : s0 = s
    OBVIOUS
  <2>3. PICK new0 : new0 = new
    OBVIOUS
  <2>4. OpenedAs(n, s0, new0, held, tag)
    BY <1>6, <2>2, <2>3 DEF OpenedAs
  <2>5. s0 = <<n, opened[n] + 1>> /\ new0 = NameOf(n, snapshots)
    BY <2>2, <2>3
  <2> HIDE DEF s, new, items
  <2>6. QED
    BY <1>1, <2>1, <2>4, <2>5, Opened
<1>7. CASE /\ GitFails(n)
           /\ refs' = held
           /\ UNCHANGED <<opened, name, state, git>>
  <2>1. holds' = holds
    BY <1>7
  <2>2. ids'[Top].resource >= ids[Top].resource
    BY <1>2
  <2>3. pc[n] \in Busy \ {"dropping"}
    BY DEF Busy
  <2>4. PICK extra \in SUBSET [name : Name, kind : {"worktree", "branch"}] : extra = {}
    OBVIOUS
  <2>5. git' = git \union extra
    BY <1>7, <2>4
  <2>6. UNCHANGED <<provider, opened, attempts, candidate, accepted, home, name, state,
                    changeVars, result>>
    BY <1>7, <2>1 DEF changeVars
  <2>7. \A i \in extra : i.name # <<>> /\ ids[Top].resource < i.name[3]
                         /\ i.name[3] <= ids'[Top].resource
    BY <2>4
  <2>8. QED
    BY <1>2, <1>7, <2>2, <2>3, <2>5, <2>6, <2>7, GitFailure
<1>8. QED
  BY <1>4, <1>6, <1>7

LEMMA ExecuteKeeps ==
  ASSUME WorkspacesInv, NEW n \in Node, Execute(n), result[Top] = "none",
         pc[n] \in {"specify", "verify"}, pc[n] = "verify" => attempts[n] < MaxAttempts
  PROVE  WorkspacesInv'
<1>1. refs \in [Resource -> SUBSET Tags] /\ "running" \in Tags
  BY DEF WorkspacesInv, TypeOK, Tags
<1>2. /\ OpenSurface(n, 1, refs, "running") /\ holds' = holds
      /\ UNCHANGED <<provider, attempts, candidate, accepted, home, sha, listed, result>>
  BY DEF Execute, changeVars
<1>3. \A r \in Resource : refs[r] \subseteq refs[r]
  OBVIOUS
<1>4. QED
  BY <1>1, <1>2, <1>3, Opens

LEMMA SpecifiedKeeps ==
  ASSUME WorkspacesInv, NEW n \in Node, Specified(n)
  PROVE  WorkspacesInv'
<1>1. pc[n] = "specify" /\ result[Top] = "none"
  BY RunningFacts DEF Specified
<1>2. CASE Tree[n] = <<>>
  <2>1. Execute(n)
    BY <1>2 DEF Specified
  <2>2. QED
    BY <1>1, <2>1, ExecuteKeeps
<1>3. CASE Tree[n] # <<>>
  BY <1>3, GroupStarts
<1>4. QED
  BY <1>2, <1>3

LEMMA RetriedKeeps ==
  ASSUME WorkspacesInv, NEW n \in Node, Retried(n)
  PROVE  WorkspacesInv'
<1>1. pc[n] = "verify" /\ result[Top] = "none"
  BY RunningFacts DEF Retried
<1>2. QED
  BY <1>1, ExecuteKeeps DEF Retried

LEMMA CombineKeeps ==
  ASSUME WorkspacesInv, NEW n \in Node, pc[n] = "children", result[Top] = "none",
         Settled(n), \A c \in ToSet(Tree[n]) : accepted[c] # NoSurface, Combine(n)
  PROVE  WorkspacesInv'
<1> DEFINE inputs == UNION {ChangeOf(accepted[c]) : c \in ToSet(Tree[n])}
           held == [r \in Resource |-> IF r \in inputs THEN refs[r] \union {"input"} ELSE refs[r]]
           s == <<n, opened[n] + 1>>
           commits == {i \in DOMAIN Tree[n] : sha[accepted[Tree[n][i]]]}
           work(m) == UNION {holds[accepted[Tree[n][i]]] : i \in m}
<1>1. /\ OpenSurface(n, 0, held, "merge")
      /\ \E last \in DOMAIN Tree[n] :
           holds' = IF ~IsGit \/ opened' = opened THEN holds
                    ELSE [holds EXCEPT ![s] = work({i \in commits : i <= last})]
      /\ UNCHANGED <<provider, attempts, candidate, accepted, home, sha, listed, result>>
  BY DEF Combine
<1>2. refs \in [Resource -> SUBSET Tags] /\ "merge" \in Tags /\ "input" \in Tags
  BY DEF WorkspacesInv, TypeOK, Tags
<1>3. held \in [Resource -> SUBSET Tags] /\ \A r \in Resource : refs[r] \subseteq held[r]
  BY <1>2
<1>4. \A i \in DOMAIN Tree[n] : accepted[Tree[n][i]] \in Surface
  <2>1. ToSet(Tree[n]) = {Tree[n][i] : i \in DOMAIN Tree[n]}
    BY ChildFacts DEF WorkspacesInv
  <2>2. \A i \in DOMAIN Tree[n] : Tree[n][i] \in Node /\ accepted[Tree[n][i]] # NoSurface
    BY <2>1, ChildFacts DEF WorkspacesInv
  <2>3. QED
    BY <2>2 DEF WorkspacesInv, TypeOK
<1>5. \A m \in SUBSET DOMAIN Tree[n] : work(m) \in SUBSET (Node \X Path)
  BY <1>4 DEF WorkspacesInv, TypeOK
<1>6. \A last : {i \in commits : i <= last} \in SUBSET DOMAIN Tree[n]
  OBVIOUS
<1>7. holds \in [Surface -> SUBSET (Node \X Path)]
  BY DEF WorkspacesInv, TypeOK
<1> HIDE DEF held, commits, work
<1>8. holds' = holds \/ (opened' # opened /\ holds' \in [Surface -> SUBSET (Node \X Path)])
  BY <1>1, <1>5, <1>6, <1>7
<1>9. QED
  BY <1>1, <1>2, <1>3, <1>8, Opens

LEMMA MergeFailsKeeps ==
  ASSUME WorkspacesInv, NEW n \in Node, pc[n] = "children", result[Top] = "none", MergeFails(n)
  PROVE  WorkspacesInv'
<1> DEFINE new == NameOf(n, 0)
           extra == {[name |-> new, kind |-> k] : k \in {"worktree", "branch"}}
<1>1. /\ git' = git \union extra /\ GitFails(n) /\ NextIds(n, 0)
      /\ UNCHANGED <<provider, opened, attempts, candidate, accepted, home, name,
                     registryVars, changeVars, result>>
  BY DEF MergeFails
<1>2. /\ ids' \in [Root -> [snapshot : Nat, resource : Nat]]
      /\ ids[Top].resource \in Nat /\ ids'[Top].resource \in Nat
      /\ ids'[Top].resource >= ids[Top].resource + 1
      /\ new \in Name \ {<<>>} /\ new[3] = ids[Top].resource + 1
  BY <1>1, IdsFacts
<1>3. extra \in SUBSET [name : Name, kind : {"worktree", "branch"}]
  BY <1>2
<1>4. \A i \in extra : i.name # <<>> /\ ids[Top].resource < i.name[3]
                       /\ i.name[3] <= ids'[Top].resource
  <2>1. \A i \in extra : i.name = new
    OBVIOUS
  <2>2. QED
    BY <1>2, <2>1
<1>5. /\ refs' = refs /\ state' = state /\ refs \in [Resource -> SUBSET Tags]
      /\ ids'[Top].resource >= ids[Top].resource
  BY <1>1, <1>2 DEF registryVars, WorkspacesInv, TypeOK, Tags
<1>6. UNCHANGED <<provider, opened, attempts, candidate, accepted, home, name, state,
                  changeVars, result>>
  BY <1>1, <1>5
<1> HIDE DEF extra
<1>7. QED
  BY <1>1, <1>2, <1>3, <1>4, <1>5, <1>6, GitFailure DEF Busy

LEMMA GroupDoneKeeps ==
  ASSUME WorkspacesInv, NEW n \in Node, GroupDone(n)
  PROVE  WorkspacesInv'
<1>1. pc[n] = "children" /\ result[Top] = "none"
  BY RunningFacts DEF GroupDone
<1>2. Settled(n)
  BY JoinedSettled DEF GroupDone
<1>3. QED
  BY <1>1, <1>2, CombineKeeps, MergeFailsKeeps DEF GroupDone

-----------------------------------------------------------------------------
(* Cleanups.                                                               *)

\* What refers to something, or is not Active, is left alone; the registry
\* and git agree afterwards.
LEMMA CleanedFacts ==
  ASSUME WorkspacesInv, NEW e, NEW homes, NEW held,
         NEW c \in CleanupResults(e, homes, held), Cleaned(c),
         UNCHANGED <<provider, opened, name>>,
         ids' \in [Root -> [snapshot : Nat, resource : Nat]],
         ids'[Top].resource >= ids[Top].resource
  PROVE  /\ NameInv' /\ RegistryInv'
         /\ state' \in [Resource -> {"none", "Active", "Released", "FailedCleanup"}]
         /\ git' \subseteq git /\ faults' \in 0..MaxFaults
         /\ \A r \in Resource : state[r] # "Active" \/ held[r] # {} => state'[r] = state[r]
         /\ \A r \in c.gone : state'[r] = "Released"
         /\ git' = git \ {Item(r) : r \in c.gone}
<1> USE DEF WorkspacesInv
<1>1. Root = {Top} /\ Top \in Node /\ MaxFaults \in Nat /\ faults \in 0..MaxFaults
      /\ state \in [Resource -> {"none", "Active", "Released", "FailedCleanup"}]
  BY TopFacts, WorkspacesAssumption DEF TypeOK
<1>2. /\ c.gone \subseteq Releasable(e, homes, held)
      /\ c.failed \subseteq Releasable(e, homes, held) \ c.gone
      /\ c.fault => faults < MaxFaults
  BY CleanupFacts
<1>3. \A r \in Releasable(e, homes, held) :
        r \in Resource /\ state[r] = "Active" /\ held[r] = {}
  BY DEF Releasable, Owned
<1>4. /\ \A r \in Resource : state'[r] = CASE r \in c.gone -> "Released"
                                          [] r \in c.failed -> "FailedCleanup"
                                          [] OTHER -> state[r]
      /\ state' = [r \in Resource |-> state'[r]]
      /\ git' = git \ {Item(r) : r \in c.gone}
      /\ faults' = faults + (IF c.fault THEN 1 ELSE 0)
  BY DEF Cleaned
<1>5. /\ \A r \in c.gone : r \in Resource /\ state[r] = "Active" /\ held[r] = {} /\ state'[r] = "Released"
      /\ \A r \in c.failed : r \in Resource /\ state[r] = "Active" /\ held[r] = {}
                             /\ state'[r] = "FailedCleanup"
      /\ \A r \in Resource : r \notin c.gone /\ r \notin c.failed => state'[r] = state[r]
  BY <1>2, <1>3, <1>4
<1>6. \A r \in Resource : state'[r] \in {"none", "Active", "Released", "FailedCleanup"}
  BY <1>1, <1>5
<1>7. state' \in [Resource -> {"none", "Active", "Released", "FailedCleanup"}]
  BY <1>4, <1>6
<1>8. faults' \in 0..MaxFaults
  BY <1>1, <1>2, <1>4
<1>9. ids'[Top].resource \in Nat
  BY <1>1
<1>10. NameInv' /\ RegistryInv'
  <2>1. c.gone \in SUBSET Resource /\ \A r \in c.gone : state[r] = "Active"
    BY <1>5
  <2>2. \A r \in c.gone : state'[r] \in {"none", "Released"}
    BY <1>5
  <2>3. \A r \in Resource \ c.gone : state'[r] \in {state[r], "none"}
                                     \/ (state[r] = "Active" /\ state'[r] = "FailedCleanup")
    BY <1>5
  <2>4. QED
    BY <1>1, <1>4, <1>7, <1>9, <2>1, <2>2, <2>3, Removal
<1>11. QED
  BY <1>4, <1>5, <1>7, <1>8, <1>10

\* Without a cause for failure an Active resource is referred to, and is
\* that of a change or of a surface an agent works on.
LEMMA NothingToClean ==
  ASSUME WorkspacesInv, ~excused[Top], result[Top] = "none",
         NEW r \in Resource, state[r] = "Active"
  PROVE  /\ refs[r] # {} /\ r[1] \in Surface
         /\ r \in ChangeOf(r[1]) \/ (r[2] = "worktree" /\ Working(r[1]))
<1> USE DEF WorkspacesInv
<1>1. r[1] \in Surface /\ IsOpen(r[1]) /\ r[2] \in KindsOpened
  BY SurfaceFacts DEF RegistryInv
<1>2. r \in OpenedBy(r[1]) /\ (r[2] # "worktree" => r \in ChangeOf(r[1]))
  BY <1>1, OpenedFacts
<1>3. CASE r \in ChangeOf(r[1])
  BY <1>1, <1>3 DEF CleanInv, Keeps
<1>4. CASE r \notin ChangeOf(r[1])
  <2>1. Working(r[1])
    BY <1>1, <1>2, <1>4 DEF CleanInv
  <2>2. QED
    BY <1>1, <1>2, <1>4, <2>1 DEF CleanInv, Keeps
<1>5. QED
  BY <1>3, <1>4

\* A cleanup that fails has a cause unless git refuses a branch.
LEMMA CleanupFails ==
  ASSUME WorkspacesInv, NEW e, NEW homes, NEW held,
         NEW c \in CleanupResults(e, homes, held), c.failed # {}, ~c.fault
  PROVE  \E r \in Releasable(e, homes, held) \ c.gone :
           /\ r[2] = "branch" /\ Item(r) \in git
           /\ [name |-> name[r[1]], kind |-> "worktree"] \in git
           /\ <<r[1], "worktree">> \notin c.gone
<1>1. PICK r \in Releasable(e, homes, held) \ c.gone : Refused(r, c.gone)
  BY CleanupFacts
<1>2. r \in Resource /\ state[r] = "Active"
  BY DEF Releasable, Owned
<1>3. r[2] # "plain" => Item(r) \in git
  BY <1>2 DEF WorkspacesInv, RegistryInv
<1>4. QED
  BY <1>1, <1>3 DEF Refused, CheckedOut

-----------------------------------------------------------------------------
(* The agent of a surface has ended.                                       *)

LEMMA CapturedFacts ==
  ASSUME WorkspacesInv, NEW n \in Node, pc[n] = "agent", result[Top] = "none",
         NEW s, s = Current(n), NEW held, held = Captured(n, s)
  PROVE  /\ held \in [Resource -> SUBSET Tags]
         /\ \A r \in ChangeOf(s) : held[r] = {"candidate"}
         /\ \A r \in OpenedBy(s) \ ChangeOf(s) : held[r] = {}
         /\ \A r \in Resource : r[1] # s =>
              /\ "candidate" \in refs[r] => "candidate" \in held[r]
              /\ refs[r] # {} => held[r] # {}
<1> USE DEF WorkspacesInv
<1> DEFINE inputs == UNION {ChangeOf(accepted[c]) : c \in ToSet(Tree[n])}
<1>1. s \in Surface /\ s[1] = n
  BY CurrentFacts
<1>2. ChangeOf(s) \subseteq OpenedBy(s) /\ OpenedBy(s) \subseteq Resource
      /\ \A r \in OpenedBy(s) : r[1] = s
  BY <1>1, OpenedFacts
<1>3. ASSUME NEW r \in Resource, r \in inputs
      PROVE  "candidate" \in refs[r] /\ r[1] # s
  <2>1. ToSet(Tree[n]) = {Tree[n][i] : i \in DOMAIN Tree[n]}
    BY ChildFacts
  <2>2. PICK i \in DOMAIN Tree[n] : r \in ChangeOf(accepted[Tree[n][i]])
    BY <1>3, <2>1
  <2> DEFINE d == Tree[n][i]
  <2>3. d \in Node /\ d > n
    BY ChildFacts
  <2>4. d # n
    <3>1. d \in Nat /\ n \in Nat
      BY <2>3, TopFacts
    <3>2. QED
      BY <2>3, <3>1
  <2>5. r[1] = accepted[d]
    BY <2>2 DEF ChangeOf
  <2>6. accepted[d] \in Surface /\ accepted[d] # NoSurface
    BY <2>5, SurfaceFacts
  <2>7. accepted[d][1] = d /\ "candidate" \in refs[r]
    BY <2>2, <2>3, <2>6 DEF CandidateInv
  <2>8. QED
    BY <1>1, <2>4, <2>5, <2>7
<1>4. refs \in [Resource -> SUBSET Tags] /\ {"candidate"} \in SUBSET Tags
  BY DEF TypeOK, Tags
<1>5. held = [r \in Resource |->
                CASE r \in ChangeOf(s) -> {"candidate"}
                  [] r \in OpenedBy(s) \ ChangeOf(s) -> {}
                  [] IsCombine(n) /\ r \in inputs -> refs[r] \ {"input"}
                  [] OTHER -> refs[r]]
  BY DEF Captured
<1> HIDE DEF inputs
<1>6. \A r \in ChangeOf(s) : r \in Resource /\ r \notin inputs
  BY <1>2, <1>3
<1>7. \A r \in OpenedBy(s) \ ChangeOf(s) : r \in Resource /\ r \notin inputs
  BY <1>2, <1>3
<1>8. \A r \in ChangeOf(s) : held[r] = {"candidate"}
  BY <1>5, <1>6
<1>9. \A r \in OpenedBy(s) \ ChangeOf(s) : held[r] = {}
  BY <1>5, <1>7
<1>10. ASSUME NEW r \in Resource, r \notin OpenedBy(s)
       PROVE  held[r] = refs[r] \/ (r \in inputs /\ held[r] = refs[r] \ {"input"})
  BY <1>2, <1>5, <1>10
<1>11. \A r \in Resource : held[r] \in SUBSET Tags
  BY <1>4, <1>8, <1>9, <1>10
<1>12. held \in [Resource -> SUBSET Tags]
  BY <1>5, <1>11
<1>13. ASSUME NEW r \in Resource, r[1] # s
       PROVE  /\ "candidate" \in refs[r] => "candidate" \in held[r]
              /\ refs[r] # {} => held[r] # {}
  <2>1. r \notin OpenedBy(s)
    BY <1>2, <1>13
  <2>2. CASE held[r] = refs[r]
    BY <2>2
  <2>3. CASE r \in inputs /\ held[r] = refs[r] \ {"input"}
    <3>1. "candidate" \in refs[r]
      BY <1>3, <2>3
    <3>2. QED
      BY <2>3, <3>1
  <2>4. QED
    BY <1>10, <2>1, <2>2, <2>3
<1>14. QED
  BY <1>8, <1>9, <1>12, <1>13

LEMMA CapturedKeeps ==
  ASSUME WorkspacesInv, NEW n \in Node, pc[n] = "agent", result[Top] = "none",
         NEW s, s = Current(n), NEW held, held = Captured(n, s),
         ThenCleanup(n, home, held, [pc EXCEPT ![n] = "verify"]),
         holds' \in [Surface -> SUBSET (Node \X Path)], sha' \in [Surface -> BOOLEAN],
         listed' \in [Surface -> SUBSET Path],
         ids' \in [Root -> [snapshot : Nat, resource : Nat]],
         ids'[Top].resource >= ids[Top].resource,
         candidate' = [candidate EXCEPT ![n] = s],
         attempts' = IF IsCombine(n) THEN attempts ELSE [attempts EXCEPT ![n] = @ + 1],
         UNCHANGED <<provider, opened, accepted, home, name, result>>
  PROVE  WorkspacesInv'
<1> USE DEF WorkspacesInv
<1> DEFINE todo == Releasable(home[n], home, held)
<1>1. PICK c \in CleanupResults(home[n], home, held) :
        /\ Cleaned(c)
        /\ refs' = held
        /\ pc' = IF c.failed = {} THEN [pc EXCEPT ![n] = "verify"] ELSE [pc EXCEPT ![n] = Failure(n)]
        /\ IF c.fault THEN Excuse(n) ELSE excused' = excused
  BY DEF ThenCleanup
<1>2. /\ NameInv' /\ RegistryInv'
      /\ state' \in [Resource -> {"none", "Active", "Released", "FailedCleanup"}]
      /\ git' \subseteq git /\ faults' \in 0..MaxFaults
      /\ \A r \in Resource : state[r] # "Active" \/ held[r] # {} => state'[r] = state[r]
      /\ \A r \in c.gone : state'[r] = "Released"
      /\ git' = git \ {Item(r) : r \in c.gone}
  BY <1>1, CleanedFacts
<1>3. /\ provider' = provider /\ opened' = opened /\ accepted' = accepted /\ home' = home
      /\ name' = name /\ result' = result
  OBVIOUS
<1>4. /\ held \in [Resource -> SUBSET Tags]
      /\ \A r \in ChangeOf(s) : held[r] = {"candidate"}
      /\ \A r \in OpenedBy(s) \ ChangeOf(s) : held[r] = {}
      /\ \A r \in Resource : r[1] # s =>
           /\ "candidate" \in refs[r] => "candidate" \in held[r]
           /\ refs[r] # {} => held[r] # {}
  BY CapturedFacts
<1>5. /\ s \in Surface /\ s[1] = n /\ s[2] = opened[n] /\ IsOpen(s)
      /\ opened[n] \in 1..MaxAttempts + 1 /\ attempts[n] \in 0..MaxAttempts
      /\ attempts[n] + 1 <= opened[n] /\ opened[n] <= attempts[n] + 2
  BY CurrentFacts
<1>6. ChangeOf(s) \subseteq OpenedBy(s) /\ OpenedBy(s) \subseteq Resource
      /\ \A r \in OpenedBy(s) : r[1] = s
  BY <1>5, OpenedFacts
<1>7. /\ pc \in [Node -> {"idle", "specify", "agent", "verify", "children", "dropping"} \union Finished]
      /\ candidate \in [Node -> Surface \union {NoSurface}]
      /\ accepted \in [Node -> Surface \union {NoSurface}]
      /\ attempts \in [Node -> 0..MaxAttempts + 1] /\ MaxAttempts \in Nat
      /\ excused \in [Root -> BOOLEAN] /\ Root = {Top} /\ Top \in Node
  BY TopFacts, WorkspacesAssumption DEF TypeOK
<1>8. PICK v \in {"verify", "error", "dropping"} :
        /\ pc' = [pc EXCEPT ![n] = v]
        /\ v = "verify" => c.failed = {}
        /\ v # "verify" => c.failed # {} /\ (v = "dropping" => n # Top)
  BY <1>1, FailureFacts
<1>9. \A m \in Node : pc'[m] = IF m = n THEN v ELSE pc[m]
  BY <1>7, <1>8
<1>10. KindsOpened' = KindsOpened /\ IsGit' = IsGit
       /\ \A t : OpenedBy(t)' = OpenedBy(t) /\ ChangeOf(t)' = ChangeOf(t)
  BY <1>3, SameKinds
<1>11. (\A t : IsOpen(t)' = IsOpen(t)) /\ \A r : Item(r)' = Item(r)
  BY <1>3 DEF IsOpen, Item
<1>12. ASSUME NEW r \in Resource, r \in ChangeOf(s) \/ (r[1] # s /\ refs[r] # {})
       PROVE  held[r] # {} /\ state'[r] = state[r]
  <2>1. held[r] # {}
    <3>1. CASE r \in ChangeOf(s)
      BY <1>4, <3>1
    <3>2. CASE r[1] # s /\ refs[r] # {}
      BY <1>4, <3>2
    <3>3. QED
      BY <1>12, <3>1, <3>2
  <2>2. QED
    BY <1>2, <2>1
<1>13. ~excused[Top] => \A r \in todo : r = <<s, "worktree">>
  <2> SUFFICES ASSUME ~excused[Top], NEW r \in todo
               PROVE  r = <<s, "worktree">>
    OBVIOUS
  <2>1. r \in Resource /\ state[r] = "Active" /\ held[r] = {}
    BY DEF Releasable, Owned
  <2>2. refs[r] # {} /\ (r \in ChangeOf(r[1]) \/ r[2] = "worktree")
    BY <2>1, NothingToClean
  <2>3. r[1] = s /\ r \notin ChangeOf(s)
    BY <1>12, <2>1, <2>2
  <2>4. r = <<r[1], r[2]>>
    BY <2>1, SurfaceFacts
  <2>5. QED
    BY <2>2, <2>3, <2>4
<1>14. c.failed # {} => excused'[Top]
  <2> SUFFICES ASSUME c.failed # {} PROVE excused'[Top]
    OBVIOUS
  <2>1. CASE c.fault
    BY <1>1, <2>1, ExcuseFacts
  <2>2. CASE ~c.fault
    <3>1. \E r \in Releasable(home[n], home, held) \ c.gone :
            /\ r[2] = "branch" /\ Item(r) \in git
            /\ [name |-> name[r[1]], kind |-> "worktree"] \in git
            /\ <<r[1], "worktree">> \notin c.gone
      BY <2>2, CleanupFails
    <3>2. PICK r \in todo : r[2] = "branch"
      BY <3>1
    <3>3. excused[Top]
      BY <1>13, <3>2
    <3>4. QED
      BY <1>1, <2>2, <3>3
  <2>3. QED
    BY <2>1, <2>2
<1>15. excused' \in [Root -> BOOLEAN] /\ (excused[Top] => excused'[Top])
       /\ (c.failed = {} => excused' = excused)
  <2>1. c.failed = {} => ~c.fault
    BY CleanupFacts
  <2>2. CASE c.fault
    BY <2>1, <2>2, <1>1, ExcuseFacts
  <2>3. CASE ~c.fault
    BY <1>1, <1>7, <2>3
  <2>4. QED
    BY <2>2, <2>3
<1> HIDE DEF todo
<1>16. attempts' \in [Node -> 0..MaxAttempts + 1] /\ opened[n] <= attempts'[n] + 1
       /\ attempts'[n] <= opened[n] /\ \A m \in Node : m # n => attempts'[m] = attempts[m]
  <2>1. CASE IsCombine(n)
    <3>1. opened[n] = 1 /\ attempts' = attempts
      BY <2>1 DEF IsCombine
    <3>2. attempts[n] = 0
      BY <1>5, <3>1
    <3>3. QED
      BY <1>7, <3>1, <3>2
  <2>2. CASE ~IsCombine(n)
    <3>1. attempts' = [attempts EXCEPT ![n] = attempts[n] + 1]
      BY <2>2
    <3>2. attempts[n] + 1 \in 0..MaxAttempts + 1 /\ opened[n] <= attempts[n] + 1 + 1
      BY <1>5, <1>7
    <3>3. attempts'[n] = attempts[n] + 1
      BY <1>7, <3>1
    <3>4. QED
      BY <1>5, <1>7, <3>1, <3>2, <3>3
  <2>3. QED
    BY <2>1, <2>2
<1>17. TypeOK'
  <2>1. pc' \in [Node -> {"idle", "specify", "agent", "verify", "children", "dropping"} \union Finished]
    BY <1>7, <1>8 DEF Finished
  <2>2. candidate' \in [Node -> Surface \union {NoSurface}]
    BY <1>5, <1>7
  <2>3. refs' \in [Resource -> SUBSET Tags]
    BY <1>1, <1>4
  <2>4. git' \subseteq [name : Name, kind : {"worktree", "branch"}]
    BY <1>2 DEF TypeOK
  <2>5. QED
    BY <1>2, <1>3, <1>15, <1>16, <2>1, <2>2, <2>3, <2>4 DEF TypeOK, Tags
<1>18. TreeInv'
  <2>1. pc[n] \in Busy /\ pc[n] \notin Open
    BY DEF Busy, Open, Fail
  <2>2. v \in {"agent", "verify", "children", "done", "none", "error", "dropping"}
        /\ (v = "dropping" => n # Top)
    BY <1>8
  <2>3. QED
    BY <1>3, <1>8, <2>1, <2>2, TreeMove
<1>19. CountInv'
  <2>1. 1 <= opened[n]
    BY <1>5
  <2>2. QED
    BY <1>3, <1>9, <1>16, <2>1 DEF CountInv
<1>20. \A m \in Node : Dropped(m) => Dropped(m)'
  BY <1>3, <1>7, <1>9 DEF Dropped, TypeOK
<1>21. CandidateInv'
  <2>1. ASSUME NEW m \in Node, NEW t \in {candidate'[m], accepted'[m]} \ {NoSurface}
        PROVE  /\ t[1] = m /\ IsOpen(t)'
               /\ \A r \in ChangeOf(t)' :
                    "candidate" \in refs'[r] /\ (state'[r] = "Active" \/ Dropped(m)')
    <3>1. t \in {candidate[m], accepted[m]} \ {NoSurface} \/ (t = s /\ m = n)
      BY <1>3, <1>7
    <3>2. CASE t = s
      <4>1. t[1] = m
        BY <1>5, <3>1, <3>2 DEF CandidateInv
      <4>2. ASSUME NEW r \in ChangeOf(s)
            PROVE  "candidate" \in refs'[r] /\ (state'[r] = "Active" \/ Dropped(n)')
        <5>1. r \in OpenedBy(Current(n)) /\ r \in Resource
          BY <1>6
        <5>2. state[r] = "Active" \/ Dropped(n)
          BY <5>1 DEF CandidateInv
        <5>3. state'[r] = state[r]
          BY <1>12, <5>1
        <5>4. "candidate" \in refs'[r]
          BY <1>1, <1>4
        <5>5. QED
          BY <1>20, <5>2, <5>3, <5>4
      <4>3. m = n
        BY <1>5, <3>2, <4>1
      <4>4. QED
        BY <1>5, <1>10, <1>11, <3>2, <4>1, <4>2, <4>3
    <3>3. CASE t # s
      <4>1. t \in {candidate[m], accepted[m]} \ {NoSurface} /\ t \in Surface
        BY <1>7, <3>1, <3>3
      <4>2. t[1] = m /\ IsOpen(t)
        BY <4>1 DEF CandidateInv
      <4>3. ASSUME NEW r \in ChangeOf(t)
            PROVE  "candidate" \in refs'[r] /\ (state'[r] = "Active" \/ Dropped(m)')
        <5>1. r \in Resource /\ r[1] = t
          BY <4>1, OpenedFacts
        <5>2. "candidate" \in refs[r] /\ (state[r] = "Active" \/ Dropped(m))
          BY <4>1 DEF CandidateInv
        <5>3. state'[r] = state[r]
          BY <1>12, <3>3, <5>1, <5>2
        <5>4. "candidate" \in refs'[r]
          BY <1>1, <1>4, <3>3, <5>1, <5>2
        <5>5. QED
          BY <1>20, <5>2, <5>3, <5>4
      <4>4. QED
        BY <1>10, <1>11, <4>2, <4>3
    <3>4. QED
      BY <3>2, <3>3
  <2>2. ASSUME NEW m \in Node, pc'[m] = "agent", NEW r \in OpenedBy(Current(m))'
        PROVE  refs'[r] # {} /\ (state'[r] = "Active" \/ Dropped(m)')
    <3>1. pc[m] = "agent" /\ Current(m)' = Current(m) /\ m # n
      BY <1>3, <1>9, <2>2 DEF Current
    <3>2. OpenedBy(Current(m))' = OpenedBy(Current(m))
      BY <1>3, <3>1, SameKinds DEF OpenedBy
    <3>3. r \in Resource /\ r[1] = Current(m) /\ Current(m)[1] = m
      BY <2>2, <3>1, <3>2, CurrentFacts, OpenedFacts
    <3>4. r[1] # s
      BY <1>5, <3>1, <3>3
    <3>5. refs[r] # {} /\ (state[r] = "Active" \/ Dropped(m))
      BY <2>2, <3>1, <3>2 DEF CandidateInv
    <3>6. QED
      BY <1>1, <1>12, <1>20, <3>3, <3>4, <3>5
  <2>3. QED
    BY <2>1, <2>2 DEF CandidateInv
<1>22. CauseInv'
  <2>1. CASE v = "verify"
    <3>1. excused' = excused /\ \A m \in Node : pc'[m] \in Fail <=> pc[m] \in Fail
      BY <1>8, <1>9, <1>15, <2>1 DEF Fail
    <3>2. QED
      BY <1>3, <3>1 DEF CauseInv
  <2>2. CASE v # "verify"
    <3>1. excused'[Top] /\ pc'[n] \in Fail
      BY <1>8, <1>9, <1>14, <2>2 DEF Fail
    <3>2. QED
      BY <1>3, <3>1 DEF CauseInv
  <2>3. QED
    BY <2>1, <2>2
<1>23. CleanInv'
  <2> SUFFICES ASSUME ~excused'[Top]
               PROVE  /\ \A t \in Surface : IsOpen(t) =>
                           /\ \A r \in ChangeOf(t) : Keeps(r)'
                           /\ Working(t)' => \A r \in OpenedBy(t) : Keeps(r)'
                           /\ ~Working(t)' => \A r \in OpenedBy(t) \ ChangeOf(t) : state'[r] = "Released"
                      /\ \A i \in git' : \E r \in Resource : state'[r] = "Active" /\ i = Item(r)
    BY <1>10, <1>11 DEF CleanInv
  <2>1. ~excused[Top] /\ c.failed = {} /\ c.gone = todo /\ v = "verify"
    BY <1>8, <1>14, <1>15, CleanupFacts DEF todo
  <2>2. ASSUME NEW t \in Surface, IsOpen(t)
        PROVE  /\ \A r \in ChangeOf(t) : Keeps(r)'
               /\ Working(t)' => \A r \in OpenedBy(t) : Keeps(r)'
               /\ ~Working(t)' => \A r \in OpenedBy(t) \ ChangeOf(t) : state'[r] = "Released"
    <3>1. OpenedBy(t) \subseteq Resource /\ ChangeOf(t) \subseteq OpenedBy(t)
          /\ \A r \in OpenedBy(t) : r[1] = t
      BY OpenedFacts
    <3>2. CASE t = s
      <4>1. Working(t) /\ ~Working(t)'
        BY <1>3, <1>5, <1>9, <2>1, <3>2 DEF Working
      <4>2. \A r \in OpenedBy(t) : state[r] = "Active"
        BY <2>1, <2>2, <4>1 DEF CleanInv, Keeps
      <4>3. \A r \in ChangeOf(t) : Keeps(r)'
        BY <1>1, <1>4, <1>12, <3>1, <3>2, <4>2 DEF Keeps
      <4>4. ASSUME NEW r \in OpenedBy(t) \ ChangeOf(t)
            PROVE  state'[r] = "Released"
        <5>1. r \in Resource /\ r[1][1] = n /\ held[r] = {} /\ state[r] = "Active"
          BY <1>4, <1>5, <3>1, <3>2, <4>2
        <5>2. r \in todo
          BY <5>1 DEF todo, Releasable, Owned
        <5>3. QED
          BY <1>2, <2>1, <5>2
      <4>5. QED
        BY <4>1, <4>3, <4>4
    <3>3. CASE t # s
      <4>1. Working(t)' <=> Working(t)
        <5>1. t[1] \in Node /\ t = <<t[1], t[2]>> /\ s = <<s[1], s[2]>>
          BY <1>5, SurfaceFacts
        <5>2. CASE t[1] = n
          <6>1. t[2] # opened[n]
            BY <1>5, <3>3, <5>1, <5>2
          <6>2. QED
            BY <1>3, <5>2, <6>1 DEF Working
        <5>3. CASE t[1] # n
          BY <1>3, <1>9, <5>1, <5>3 DEF Working
        <5>4. QED
          BY <5>2, <5>3
      <4>2. \A r \in OpenedBy(t) : Keeps(r) => Keeps(r)'
        BY <1>1, <1>4, <1>12, <3>1, <3>3 DEF Keeps
      <4>3. \A r \in OpenedBy(t) : state[r] = "Released" => state'[r] = "Released"
        BY <1>2, <3>1
      <4>4. QED
        BY <2>1, <2>2, <3>1, <4>1, <4>2, <4>3 DEF CleanInv
    <3>4. QED
      BY <3>2, <3>3
  <2>3. ASSUME NEW i \in git'
        PROVE  \E r \in Resource : state'[r] = "Active" /\ i = Item(r)
    <3>1. PICK r \in Resource : state[r] = "Active" /\ i = Item(r)
      BY <1>2, <2>1 DEF CleanInv
    <3>2. r \notin c.gone
      BY <1>2, <3>1
    <3>3. home[r[1][1]] # home[n] \/ held[r] # {}
      BY <2>1, <3>1, <3>2 DEF todo, Releasable, Owned
    <3>4. CASE held[r] # {}
      BY <1>2, <3>1, <3>4
    <3>5. CASE held[r] = {}
      <4>1. refs[r] # {} /\ (r \in ChangeOf(r[1]) \/ r[2] = "worktree")
        BY <2>1, <3>1, NothingToClean
      <4>2. r[1] = s
        BY <1>12, <3>5, <4>1
      <4>3. QED
        BY <1>5, <3>3, <3>5, <4>2
    <3>6. QED
      BY <3>4, <3>5
  <2>4. QED
    BY <2>2, <2>3
<1>24. EndInv'
  BY <1>3 DEF EndInv
<1>25. QED
  BY <1>2, <1>7, <1>17, <1>18, <1>19, <1>21, <1>22, <1>23, <1>24 DEF OneTask

LEMMA ProducedKeeps ==
  ASSUME WorkspacesInv, NEW n \in Node, Produced(n)
  PROVE  WorkspacesInv'
<1> USE DEF WorkspacesInv
<1>1. pc[n] = "agent" /\ result[Top] = "none"
  BY RunningFacts DEF Produced
<1>2. PICK s : s = Current(n)
  OBVIOUS
<1>3. s \in Surface /\ s[1] = n
  BY <1>1, <1>2, CurrentFacts
<1>4. PICK held : held = Captured(n, s)
  OBVIOUS
<1>5. /\ ids \in [Root -> [snapshot : Nat, resource : Nat]] /\ RootOf(n) = Top /\ Top \in Root
      /\ holds \in [Surface -> SUBSET (Node \X Path)] /\ sha \in [Surface -> BOOLEAN]
      /\ listed \in [Surface -> SUBSET Path] /\ ids[Top].resource \in Nat
      /\ refs \in [Resource -> SUBSET Tags]
  BY TopFacts DEF TypeOK, Tags
<1>6. UNCHANGED <<provider, opened, accepted, home, name, result>>
  BY DEF Produced
<1>7. \/ /\ \E paths \in PathsSeen :
              /\ holds' = [holds EXCEPT ![s] =
                             PostCompletionCommit(CommitAll([history |-> holds[s],
                                                             dirty |-> {n} \X paths])).history]
              /\ sha' = [sha EXCEPT ![s] = paths # {}]
              /\ listed' = [listed EXCEPT ![s] = paths]
         /\ ids' = [ids EXCEPT ![Top].resource = IF IsGit THEN @ + 1 ELSE @]
         /\ candidate' = [candidate EXCEPT ![n] = s]
         /\ attempts' = IF IsCombine(n) THEN attempts ELSE [attempts EXCEPT ![n] = @ + 1]
         /\ ThenCleanup(n, home, held, [pc EXCEPT ![n] = "verify"])
      \/ /\ GitFails(n)
         /\ UNCHANGED <<attempts, candidate, ids, registryVars, git, changeVars>>
  BY <1>2, <1>4, <1>5 DEF Produced
<1>8. CASE /\ \E paths \in PathsSeen :
                /\ holds' = [holds EXCEPT ![s] =
                               PostCompletionCommit(CommitAll([history |-> holds[s],
                                                               dirty |-> {n} \X paths])).history]
                /\ sha' = [sha EXCEPT ![s] = paths # {}]
                /\ listed' = [listed EXCEPT ![s] = paths]
           /\ ids' = [ids EXCEPT ![Top].resource = IF IsGit THEN @ + 1 ELSE @]
           /\ candidate' = [candidate EXCEPT ![n] = s]
           /\ attempts' = IF IsCombine(n) THEN attempts ELSE [attempts EXCEPT ![n] = @ + 1]
           /\ ThenCleanup(n, home, held, [pc EXCEPT ![n] = "verify"])
  <2>1. PICK paths \in PathsSeen :
          /\ holds' = [holds EXCEPT ![s] =
                         PostCompletionCommit(CommitAll([history |-> holds[s],
                                                         dirty |-> {n} \X paths])).history]
          /\ sha' = [sha EXCEPT ![s] = paths # {}]
          /\ listed' = [listed EXCEPT ![s] = paths]
    BY <1>8
  <2>2. paths \in SUBSET Path
    BY WorkspacesAssumption DEF PathsSeen, Path
  <2>3. PostCompletionCommit(CommitAll([history |-> holds[s], dirty |-> {n} \X paths])).history
          \in SUBSET (Node \X Path)
    <3>1. holds[s] \in SUBSET (Node \X Path) /\ {n} \X paths \in SUBSET (Node \X Path)
      BY <1>3, <1>5, <2>2
    <3>2. CommitAll([history |-> holds[s], dirty |-> {n} \X paths])
            = [history |-> holds[s] \union ({n} \X paths), dirty |-> {}]
      BY DEF CommitAll
    <3>3. PICK work : work = holds[s] \union ({n} \X paths)
      OBVIOUS
    <3>4. PICK tree : tree = [history |-> work, dirty |-> {}]
      OBVIOUS
    <3>5. tree.history = work /\ tree.dirty = {}
      BY <3>4
    <3>6. CommitWriteScope(tree).history = work
      BY <3>5 DEF CommitWriteScope
    <3>7. PostCompletionCommit(tree).history = work
      BY <3>5, <3>6 DEF PostCompletionCommit
    <3>8. QED
      BY <3>1, <3>2, <3>3, <3>4, <3>7
  <2>4. holds' \in [Surface -> SUBSET (Node \X Path)]
    BY <1>3, <1>5, <2>1, <2>3
  <2>5. sha' \in [Surface -> BOOLEAN] /\ listed' \in [Surface -> SUBSET Path]
    BY <1>3, <1>5, <2>1, <2>2
  <2>6. PICK new : new = [ids[Top] EXCEPT !.resource = IF IsGit THEN @ + 1 ELSE @]
    OBVIOUS
  <2>7. new \in [snapshot : Nat, resource : Nat] /\ new.resource >= ids[Top].resource
    <3>1. CASE IsGit
      BY <1>5, <2>6, <3>1
    <3>2. CASE ~IsGit
      BY <1>5, <2>6, <3>2
    <3>3. QED
      BY <3>1, <3>2
  <2>8. ids' = [ids EXCEPT ![Top] = new]
    BY <1>8, <2>6
  <2>9. ids' \in [Root -> [snapshot : Nat, resource : Nat]]
        /\ ids'[Top].resource >= ids[Top].resource
    BY <1>5, <2>7, <2>8
  <2>10. /\ candidate' = [candidate EXCEPT ![n] = s]
         /\ attempts' = IF IsCombine(n) THEN attempts ELSE [attempts EXCEPT ![n] = @ + 1]
         /\ ThenCleanup(n, home, held, [pc EXCEPT ![n] = "verify"])
    BY <1>8
  <2> HIDE DEF WorkspacesInv
  <2>11. QED
    BY <1>1, <1>2, <1>4, <1>6, <2>4, <2>5, <2>9, <2>10, CapturedKeeps
<1>9. CASE /\ GitFails(n)
           /\ UNCHANGED <<attempts, candidate, ids, registryVars, git, changeVars>>
  <2>1. /\ state' = state /\ refs' = refs /\ ids' = ids
        /\ ids[Top].resource >= ids[Top].resource
    BY <1>5, <1>9 DEF registryVars
  <2>2. PICK extra \in SUBSET [name : Name, kind : {"worktree", "branch"}] : extra = {}
    OBVIOUS
  <2>3. git' = git \union extra
    BY <1>9, <2>2
  <2>4. UNCHANGED <<provider, opened, attempts, candidate, accepted, home, name, state,
                    changeVars, result>>
    BY <1>6, <1>9, <2>1
  <2>5. \A i \in extra : i.name # <<>> /\ ids[Top].resource < i.name[3]
                         /\ i.name[3] <= ids'[Top].resource
    BY <2>2
  <2>6. pc[n] \in Busy \ {"dropping"} /\ \A r \in Resource : refs[r] \subseteq refs'[r]
    BY <1>1, <2>1 DEF Busy
  <2> HIDE DEF WorkspacesInv
  <2>7. QED
    BY <1>1, <1>5, <1>9, <2>1, <2>3, <2>4, <2>5, <2>6, GitFailure
<1>10. QED
  BY <1>7, <1>8, <1>9

-----------------------------------------------------------------------------
(* A branch is joined: its node and its resources get a new engine.        *)

LEMMA JoinTree ==
  ASSUME WorkspacesInv, NEW n \in Node, NEW c \in Node, NEW v,
         pc[n] = "children", c \in ToSet(Tree[n]), home[c] = c, pc[c] \in {"done", "none"},
         home' = [m \in Node |-> IF home[m] = c THEN home[n] ELSE home[m]],
         v \in {"children"} \union Fail, v \in {"dropping", "aborted"} => n # Top,
         pc' = [pc EXCEPT ![n] = v]
  PROVE  /\ TreeInv' /\ home' \in [Node -> Node] /\ home'[n] = home[n]
         /\ \A m \in Node : Dropped(m) => Dropped(m)'
<1> USE DEF WorkspacesInv
<1>1. /\ Node \subseteq Nat /\ Top \in Node /\ home \in [Node -> Node]
      /\ pc \in [Node -> {"idle", "specify", "agent", "verify", "children", "dropping"} \union Finished]
  BY TopFacts DEF TypeOK
<1>2. n < c /\ c # Top
  <2>1. ToSet(Tree[n]) = {Tree[n][i] : i \in DOMAIN Tree[n]}
    BY ChildFacts
  <2>2. PICK i \in DOMAIN Tree[n] : Tree[n][i] = c
    BY <2>1
  <2>3. c > n /\ c # Top
    BY <2>2, ChildFacts
  <2>4. QED
    BY <1>1, <2>3
<1>3. \A m \in Node :
        /\ home[m] \in Node /\ home[m] <= m /\ home[home[m]] = home[m] /\ pc[home[m]] # "idle"
        /\ pc[m] = "idle" => home[m] = Top
  BY <1>1 DEF TreeInv
<1>4. home[n] \in Node /\ home[n] < c /\ home[n] # c /\ home[home[n]] = home[n]
  <2>1. home[n] \in Node /\ home[n] <= n /\ home[home[n]] = home[n]
    BY <1>3
  <2>2. home[n] \in Nat /\ n \in Nat /\ c \in Nat
    BY <1>1, <2>1
  <2>3. QED
    BY <1>2, <2>1, <2>2
<1>5. /\ \A m \in Node : home'[m] = IF home[m] = c THEN home[n] ELSE home[m]
      /\ \A m \in Node : pc'[m] = IF m = n THEN v ELSE pc[m]
      /\ v \notin {"idle", "specify", "done", "none"} /\ v \in Open
  BY <1>1 DEF Fail, Open
<1>6. home' \in [Node -> Node] /\ home'[n] = home[n]
  BY <1>1, <1>4, <1>5
<1>7. home'[Top] = Top /\ pc'[Top] \notin {"idle", "dropping", "aborted"}
  BY <1>1, <1>2, <1>5 DEF TreeInv
<1>8. ASSUME NEW m \in Node
      PROVE  /\ home'[m] <= m /\ home'[home'[m]] = home'[m] /\ pc'[home'[m]] # "idle"
             /\ pc'[m] = "idle" => home'[m] = Top
  <2>1. pc'[m] = "idle" => pc[m] = "idle"
    BY <1>5
  <2>2. \A e \in Node : pc[e] # "idle" => pc'[e] # "idle"
    BY <1>5
  <2>3. CASE home[m] = c
    <3>1. home'[m] = home[n] /\ home'[home[n]] = home[n]
      BY <1>4, <1>5, <2>3
    <3>2. home[n] <= m
      <4>1. home[n] \in Nat /\ m \in Nat /\ c \in Nat /\ c <= m
        BY <1>1, <1>3, <1>4, <2>3
      <4>2. QED
        BY <1>4, <4>1
    <3>3. pc'[home[n]] # "idle"
      BY <1>3, <1>4, <2>2
    <3>4. pc[m] # "idle"
      BY <1>2, <1>3, <2>3
    <3>5. QED
      BY <2>1, <3>1, <3>2, <3>3, <3>4
  <2>4. CASE home[m] # c
    <3>1. home'[m] = home[m] /\ home'[home[m]] = home[m]
      BY <1>3, <1>5, <2>4
    <3>2. QED
      BY <1>3, <2>1, <2>2, <3>1
  <2>5. QED
    BY <2>3, <2>4
<1>9. ASSUME NEW m \in Node, NEW i \in DOMAIN Tree[m]
      PROVE  /\ pc'[m] \in {"idle", "specify"} => pc'[Tree[m][i]] = "idle"
             /\ pc'[Tree[m][i]] \notin {"idle", "done", "none"} => pc'[m] \in Open
             /\ home'[Tree[m][i]] = Tree[m][i] => pc'[m] \in Open /\ m \in Parallel
  <2> DEFINE d == Tree[m][i]
  <2>1. d \in Node
    BY ChildFacts
  <2>2. /\ pc[m] \in {"idle", "specify"} => pc[d] = "idle"
        /\ pc[d] \notin {"idle", "done", "none"} => pc[m] \in Open
        /\ home[d] = d => pc[m] \in Open /\ m \in Parallel
    BY DEF TreeInv
  <2>3. home'[d] = d => home[d] = d
    <3>1. CASE home[d] = c
      <4>1. c <= d /\ home'[d] = home[n] /\ d \in Nat /\ c \in Nat /\ home[n] \in Nat
        BY <1>1, <1>3, <1>4, <1>5, <2>1, <3>1
      <4>2. home[n] # d
        BY <1>4, <4>1
      <4>3. QED
        BY <4>1, <4>2
    <3>2. CASE home[d] # c
      BY <1>5, <2>1, <3>2
    <3>3. QED
      BY <3>1, <3>2
  <2>4. pc'[m] \in {"idle", "specify"} => pc'[m] = pc[m] /\ pc[d] = "idle"
    BY <1>5, <2>2
  <2>5. pc[d] = "idle" => pc'[d] = "idle"
    BY <1>5, <2>1
  <2>6. pc'[d] \notin {"idle", "done", "none"} => pc[d] \notin {"idle", "done", "none"}
    BY <1>5, <2>1
  <2>7. pc[m] \in Open => pc'[m] \in Open
    BY <1>5
  <2>8. QED
    BY <2>2, <2>3, <2>4, <2>5, <2>6, <2>7
<1>10. ASSUME NEW m \in Node \ Parallel, NEW i \in DOMAIN Tree[m], NEW j \in DOMAIN Tree[m],
              i < j, pc'[Tree[m][j]] # "idle"
       PROVE  pc'[Tree[m][i]] = "done"
  <2>1. Tree[m][i] \in Node /\ Tree[m][j] \in Node
    BY ChildFacts
  <2>2. pc[Tree[m][j]] # "idle"
    BY <1>5, <1>10, <2>1
  <2>3. pc[Tree[m][i]] = "done"
    BY <1>10, <2>2 DEF TreeInv
  <2>4. QED
    BY <1>5, <2>1, <2>3
<1>11. \A m \in Node \ Parallel : \A i, j \in DOMAIN Tree[m] :
         i < j /\ pc'[Tree[m][j]] # "idle" => pc'[Tree[m][i]] = "done"
  BY <1>10
<1>12. TreeInv'
  BY <1>7, <1>8, <1>9, <1>11 DEF TreeInv
<1>13. ASSUME NEW m \in Node, Dropped(m)
       PROVE  Dropped(m)'
  <2>1. home[m] \in Node /\ home[m] # Top /\ pc[home[m]] \in {"error", "aborted"}
    BY <1>3, <1>13 DEF Dropped
  <2>2. home[m] # c /\ home[m] # n
    BY <2>1
  <2>3. home'[m] = home[m] /\ pc'[home[m]] = pc[home[m]]
    BY <1>5, <2>1, <2>2
  <2>4. QED
    BY <2>1, <2>3 DEF Dropped
<1>14. QED
  BY <1>6, <1>12, <1>13

LEMMA JoinKeeps ==
  ASSUME WorkspacesInv, NEW n \in Node, NEW d \in Node, Join(n, d)
  PROVE  WorkspacesInv'
<1> USE DEF WorkspacesInv
<1>1. /\ pc[n] = "children" /\ result[Top] = "none" /\ d \in ToSet(Tree[n])
      /\ home[d] = d /\ pc[d] \in {"done", "none"}
      /\ home' = [m \in Node |-> IF home[m] = d THEN home[n] ELSE home[m]]
      /\ UNCHANGED <<provider, opened, attempts, candidate, accepted, ids, name,
                     changeVars, result>>
  BY RunningFacts DEF Join
<1>2. PICK homes : homes = home'
  OBVIOUS
<1>3. PICK c \in CleanupResults(homes[n], homes, refs) :
        /\ Cleaned(c)
        /\ refs' = refs
        /\ pc' = IF c.failed = {} THEN pc ELSE [pc EXCEPT ![n] = Failure(n)]
        /\ IF c.fault THEN Excuse(n) ELSE excused' = excused
  BY <1>2 DEF Join, ThenCleanup, Handover
<1>4. /\ provider' = provider /\ opened' = opened /\ attempts' = attempts
      /\ candidate' = candidate /\ accepted' = accepted /\ ids' = ids /\ name' = name
      /\ holds' = holds /\ sha' = sha /\ listed' = listed /\ result' = result
  BY <1>1 DEF changeVars
<1>5. /\ pc \in [Node -> {"idle", "specify", "agent", "verify", "children", "dropping"} \union Finished]
      /\ excused \in [Root -> BOOLEAN] /\ Root = {Top} /\ Top \in Node
      /\ ids \in [Root -> [snapshot : Nat, resource : Nat]] /\ ids[Top].resource \in Nat
      /\ ids[Top].resource >= ids[Top].resource
  BY TopFacts DEF TypeOK
<1>6. /\ NameInv' /\ RegistryInv'
      /\ state' \in [Resource -> {"none", "Active", "Released", "FailedCleanup"}]
      /\ git' \subseteq git /\ faults' \in 0..MaxFaults
      /\ \A r \in Resource : state[r] # "Active" \/ refs[r] # {} => state'[r] = state[r]
      /\ git' = git \ {Item(r) : r \in c.gone}
  BY <1>3, <1>4, <1>5, CleanedFacts
<1>7. PICK v \in {"children", "error", "dropping"} :
        /\ pc' = [pc EXCEPT ![n] = v]
        /\ v = "children" => c.failed = {}
        /\ v # "children" => c.failed # {} /\ (v = "dropping" => n # Top)
  <2>1. CASE c.failed = {}
    <3>1. pc' = [pc EXCEPT ![n] = "children"]
      BY <1>1, <1>3, <1>5, <2>1
    <3>2. QED
      BY <2>1, <3>1
  <2>2. CASE c.failed # {}
    BY <1>3, <2>2, FailureFacts
  <2>3. QED
    BY <2>1, <2>2
<1>8. \A m \in Node : pc'[m] = IF m = n THEN v ELSE pc[m]
  BY <1>5, <1>7
<1>9. /\ TreeInv' /\ home' \in [Node -> Node]
      /\ \A m \in Node : Dropped(m) => Dropped(m)'
  <2>1. v \in {"children"} \union Fail /\ (v \in {"dropping", "aborted"} => n # Top)
    BY <1>7 DEF Fail
  <2> HIDE DEF WorkspacesInv
  <2>2. QED
    BY <1>1, <1>7, <2>1, JoinTree
<1>10. KindsOpened' = KindsOpened /\ IsGit' = IsGit
       /\ \A t : OpenedBy(t)' = OpenedBy(t) /\ ChangeOf(t)' = ChangeOf(t)
  BY <1>4, SameKinds
<1>11. (\A t : IsOpen(t)' = IsOpen(t)) /\ \A r : Item(r)' = Item(r)
  BY <1>4 DEF IsOpen, Item
<1>12. \A r \in Releasable(homes[n], homes, refs) :
         r \in Resource /\ state[r] = "Active" /\ refs[r] = {}
  BY DEF Releasable, Owned
<1>13. ~excused[Top] => Releasable(homes[n], homes, refs) = {}
  BY <1>1, <1>12, NothingToClean
<1>14. c.failed # {} => excused'[Top]
  <2> SUFFICES ASSUME c.failed # {} PROVE excused'[Top]
    OBVIOUS
  <2>1. CASE c.fault
    BY <1>3, <2>1, ExcuseFacts
  <2>2. CASE ~c.fault
    <3>1. c.failed \subseteq Releasable(homes[n], homes, refs)
      BY CleanupFacts
    <3>2. excused[Top]
      BY <1>13, <3>1
    <3>3. QED
      BY <1>3, <2>2, <3>2
  <2>3. QED
    BY <2>1, <2>2
<1>15. excused' \in [Root -> BOOLEAN] /\ (excused[Top] => excused'[Top])
       /\ (c.failed = {} => excused' = excused)
  <2>1. c.failed = {} => ~c.fault
    BY CleanupFacts
  <2>2. CASE c.fault
    BY <2>1, <2>2, <1>3, ExcuseFacts
  <2>3. CASE ~c.fault
    BY <1>3, <1>5, <2>3
  <2>4. QED
    BY <2>2, <2>3
<1>16. TypeOK'
  <2>1. pc' \in [Node -> {"idle", "specify", "agent", "verify", "children", "dropping"} \union Finished]
    BY <1>5, <1>7 DEF Finished
  <2>2. git' \subseteq [name : Name, kind : {"worktree", "branch"}]
    BY <1>6 DEF TypeOK
  <2>3. QED
    BY <1>3, <1>4, <1>6, <1>9, <1>15, <2>1, <2>2 DEF TypeOK
<1>17. CountInv'
  BY <1>1, <1>4, <1>7, <1>8 DEF CountInv
<1>18. CandidateInv'
  <2>1. ASSUME NEW m \in Node, NEW t \in {candidate'[m], accepted'[m]} \ {NoSurface}
        PROVE  /\ t[1] = m /\ IsOpen(t)'
               /\ \A r \in ChangeOf(t)' :
                    "candidate" \in refs'[r] /\ (state'[r] = "Active" \/ Dropped(m)')
    <3>1. t \in {candidate[m], accepted[m]} \ {NoSurface} /\ t \in Surface
      BY <1>4 DEF TypeOK
    <3>2. t[1] = m /\ IsOpen(t) /\ ChangeOf(t) \subseteq Resource
      BY <1>1, <3>1, OpenedFacts DEF CandidateInv
    <3>3. ASSUME NEW r \in ChangeOf(t)
          PROVE  "candidate" \in refs'[r] /\ (state'[r] = "Active" \/ Dropped(m)')
      <4>1. "candidate" \in refs[r] /\ (state[r] = "Active" \/ Dropped(m))
        BY <1>1, <3>1 DEF CandidateInv
      <4>2. state'[r] = state[r]
        BY <1>6, <3>2, <4>1
      <4>3. QED
        BY <1>3, <1>9, <4>1, <4>2
    <3>4. QED
      BY <1>10, <1>11, <3>2, <3>3
  <2>2. ASSUME NEW m \in Node, pc'[m] = "agent", NEW r \in OpenedBy(Current(m))'
        PROVE  refs'[r] # {} /\ (state'[r] = "Active" \/ Dropped(m)')
    <3>1. pc[m] = "agent" /\ Current(m)' = Current(m)
      BY <1>4, <1>7, <1>8, <2>2 DEF Current
    <3>2. OpenedBy(Current(m))' = OpenedBy(Current(m))
      BY <1>4, <3>1, SameKinds DEF OpenedBy
    <3>3. r \in Resource
      BY <2>2, <3>1, <3>2, CurrentFacts
    <3>4. refs[r] # {} /\ (state[r] = "Active" \/ Dropped(m))
      BY <1>1, <2>2, <3>1, <3>2 DEF CandidateInv
    <3>5. QED
      BY <1>3, <1>6, <1>9, <3>3, <3>4
  <2>3. QED
    BY <2>1, <2>2 DEF CandidateInv
<1>19. CauseInv'
  <2>1. CASE v = "children"
    <3>1. excused' = excused /\ \A m \in Node : pc'[m] \in Fail <=> pc[m] \in Fail
      BY <1>1, <1>7, <1>8, <1>15, <2>1 DEF Fail
    <3>2. QED
      BY <1>4, <3>1 DEF CauseInv
  <2>2. CASE v # "children"
    <3>1. excused'[Top] /\ pc'[n] \in Fail
      BY <1>7, <1>8, <1>14, <2>2 DEF Fail
    <3>2. QED
      BY <1>1, <1>4, <3>1 DEF CauseInv
  <2>3. QED
    BY <2>1, <2>2
<1>20. CleanInv'
  <2> SUFFICES ASSUME ~excused'[Top] PROVE CleanInv'
    BY DEF CleanInv
  <2>1. ~excused[Top] /\ c.failed = {} /\ v = "children" /\ pc' = pc
    BY <1>3, <1>7, <1>14, <1>15
  <2>2. c.gone = {}
    BY <1>13, <2>1, CleanupFacts
  <2>3. git' = git /\ \A r \in Resource : state'[r] = state[r]
    <3>1. git' = git
      BY <1>6, <2>2
    <3>2. \A r \in Resource : state[r] = "Active" => refs[r] # {}
      BY <1>1, <2>1, NothingToClean
    <3>3. QED
      BY <1>6, <3>1, <3>2
  <2>4. \A t \in Surface : Working(t)' = Working(t) /\ OpenedBy(t) \subseteq Resource
                           /\ ChangeOf(t) \subseteq Resource
    BY <1>4, <2>1, OpenedFacts DEF Working
  <2>5. \A r \in Resource : Keeps(r)' = Keeps(r)
    BY <1>3, <2>3 DEF Keeps
  <2>6. /\ \A t \in Surface : IsOpen(t) =>
             /\ \A r \in ChangeOf(t) : Keeps(r)
             /\ Working(t) => \A r \in OpenedBy(t) : Keeps(r)
             /\ ~Working(t) => \A r \in OpenedBy(t) \ ChangeOf(t) : state[r] = "Released"
        /\ \A i \in git : \E r \in Resource : state[r] = "Active" /\ i = Item(r)
    BY <1>1, <2>1 DEF CleanInv
  <2>7. \A t \in Surface : IsOpen(t) =>
          /\ \A r \in ChangeOf(t) : Keeps(r)'
          /\ Working(t)' => \A r \in OpenedBy(t) : Keeps(r)'
          /\ ~Working(t)' => \A r \in OpenedBy(t) \ ChangeOf(t) : state'[r] = "Released"
    BY <2>3, <2>4, <2>5, <2>6
  <2>8. \A i \in git' : \E r \in Resource : state'[r] = "Active" /\ i = Item(r)
    BY <2>3, <2>6
  <2>9. QED
    BY <1>10, <1>11, <2>7, <2>8 DEF CleanInv
<1>21. EndInv'
  BY <1>1, <1>4 DEF EndInv
<1>22. QED
  BY <1>5, <1>6, <1>9, <1>16, <1>17, <1>18, <1>19, <1>20, <1>21 DEF OneTask

-----------------------------------------------------------------------------
(* The guard of a branch that fails.                                       *)

LEMMA GuardKeeps ==
  ASSUME WorkspacesInv, NEW c \in Node, c # Top, excused[Top], GuardCleans(c),
         result[Top] # "ok",
         pc' \in [Node -> {"idle", "specify", "agent", "verify", "children", "dropping"} \union Finished],
         pc'[c] \in {"error", "aborted"},
         \A m \in Node : \/ pc'[m] = pc[m]
                         \/ pc[m] \notin Finished /\ pc'[m] \in {"error", "aborted"},
         TreeInv',
         UNCHANGED <<provider, opened, attempts, candidate, accepted, home, ids, name, refs,
                     changeVars, faults, excused, result>>
  PROVE  WorkspacesInv'
<1> USE DEF WorkspacesInv
<1> DEFINE active == {r \in Owned(c, home) : state[r] = "Active"}
<1>1. PICK gone \in SUBSET active :
        /\ git' = git \ {Item(r) : r \in gone}
        /\ state' = [r \in Resource |-> IF r \in Owned(c, home) THEN "none" ELSE state[r]]
  BY DEF GuardCleans
<1>2. /\ provider' = provider /\ opened' = opened /\ attempts' = attempts
      /\ candidate' = candidate /\ accepted' = accepted /\ home' = home /\ ids' = ids
      /\ name' = name /\ refs' = refs /\ holds' = holds /\ sha' = sha /\ listed' = listed
      /\ faults' = faults /\ excused' = excused /\ result' = result
  BY DEF changeVars
<1>3. /\ Root = {Top} /\ Top \in Node /\ ids[Top].resource \in Nat
      /\ state \in [Resource -> {"none", "Active", "Released", "FailedCleanup"}]
      /\ home \in [Node -> Node]
      /\ ids'[Top].resource >= ids[Top].resource /\ ids'[Top].resource \in Nat
  <2>1. /\ Root = {Top} /\ Top \in Node /\ ids[Top].resource \in Nat
        /\ state \in [Resource -> {"none", "Active", "Released", "FailedCleanup"}]
        /\ home \in [Node -> Node]
    BY TopFacts DEF TypeOK
  <2>2. QED
    BY <1>2, <2>1
<1>4. \A r \in gone : r \in Resource /\ r \in Owned(c, home) /\ state[r] = "Active"
  BY DEF Owned
<1>5. /\ state' \in [Resource -> {"none", "Active", "Released", "FailedCleanup"}]
      /\ \A r \in Resource : state'[r] \in {state[r], "none"}
      /\ \A r \in gone : state'[r] = "none"
      /\ \A r \in Resource : home[r[1][1]] # c => state'[r] = state[r]
  BY <1>1, <1>3, <1>4 DEF Owned
<1>6. NameInv' /\ RegistryInv'
  <2>1. gone \in SUBSET Resource /\ \A r \in gone : state[r] = "Active"
    BY <1>4
  <2>2. /\ \A r \in gone : state'[r] \in {"none", "Released"}
        /\ \A r \in Resource \ gone : state'[r] \in {state[r], "none"}
    BY <1>5
  <2>3. UNCHANGED <<provider, opened, name>>
    BY <1>2
  <2> HIDE DEF WorkspacesInv
  <2>4. QED
    BY <1>1, <1>3, <1>5, <2>1, <2>2, <2>3, Removal
<1>7. TypeOK'
  <2>1. git' \subseteq [name : Name, kind : {"worktree", "branch"}]
    BY <1>1 DEF TypeOK
  <2>2. QED
    BY <1>2, <1>5, <2>1 DEF TypeOK
<1>8. CountInv'
  BY <1>2 DEF CountInv
<1>9. \A m \in Node : (Dropped(m) => Dropped(m)') /\ (home[m] = c => Dropped(m)')
  BY <1>2, <1>3 DEF Dropped, Finished
<1>10. CandidateInv'
  <2>1. ASSUME NEW m \in Node, NEW t \in {candidate'[m], accepted'[m]} \ {NoSurface},
               result[Top] = "none"
        PROVE  /\ t[1] = m /\ IsOpen(t)'
               /\ \A r \in ChangeOf(t)' :
                    "candidate" \in refs'[r] /\ (state'[r] = "Active" \/ Dropped(m)')
    <3>1. t \in {candidate[m], accepted[m]} \ {NoSurface} /\ t \in Surface
      BY <1>2 DEF TypeOK
    <3>2. t[1] = m /\ IsOpen(t)
      BY <2>1, <3>1 DEF CandidateInv
    <3>3. ChangeOf(t)' = ChangeOf(t) /\ IsOpen(t)' = IsOpen(t)
      BY <1>2, SameKinds DEF IsOpen
    <3>4. ASSUME NEW r \in ChangeOf(t)
          PROVE  "candidate" \in refs'[r] /\ (state'[r] = "Active" \/ Dropped(m)')
      <4>1. "candidate" \in refs[r] /\ (state[r] = "Active" \/ Dropped(m))
        BY <2>1, <3>1 DEF CandidateInv
      <4>2. r \in Resource /\ r[1] = t
        BY <3>1, OpenedFacts
      <4>3. QED
        BY <1>2, <1>5, <1>9, <3>2, <4>1, <4>2
    <3>5. QED
      BY <3>2, <3>3, <3>4
  <2>2. ASSUME NEW m \in Node, pc'[m] = "agent", NEW r \in OpenedBy(Current(m))',
               result[Top] = "none"
        PROVE  refs'[r] # {} /\ (state'[r] = "Active" \/ Dropped(m)')
    <3>1. pc[m] = "agent" /\ Current(m)' = Current(m)
      BY <1>2, <2>2 DEF Current
    <3>2. OpenedBy(Current(m))' = OpenedBy(Current(m))
      BY <1>2, <3>1, SameKinds DEF OpenedBy
    <3>3. r \in Resource /\ r[1] = Current(m) /\ Current(m)[1] = m
      BY <2>2, <3>1, <3>2, CurrentFacts, OpenedFacts
    <3>4. refs[r] # {} /\ (state[r] = "Active" \/ Dropped(m))
      BY <2>2, <3>1, <3>2 DEF CandidateInv
    <3>5. QED
      BY <1>2, <1>5, <1>9, <3>3, <3>4
  <2>3. QED
    BY <1>2, <2>1, <2>2 DEF CandidateInv
<1>11. CauseInv'
  BY <1>2 DEF CauseInv, Fail
<1>12. CleanInv' /\ EndInv'
  BY <1>2 DEF CleanInv, EndInv
<1>13. QED
  BY <1>3, <1>6, <1>7, <1>8, <1>10, <1>11, <1>12 DEF OneTask

LEMMA DropFailedKeeps ==
  ASSUME WorkspacesInv, NEW c \in Node, DropFailed(c)
  PROVE  WorkspacesInv'
<1>1. /\ pc[c] = "dropping" /\ GuardCleans(c) /\ pc' = [pc EXCEPT ![c] = "error"]
      /\ UNCHANGED <<provider, opened, attempts, candidate, accepted, home, ids, name, refs,
                     changeVars, faults, excused, result>>
  BY DEF DropFailed
<1>2. pc \in [Node -> {"idle", "specify", "agent", "verify", "children", "dropping"} \union Finished]
  BY DEF WorkspacesInv, TypeOK
<1>3. c # Top /\ excused[Top] /\ result[Top] # "ok"
  BY <1>1 DEF WorkspacesInv, TreeInv, CauseInv, EndInv, Fail
<1>4. TreeInv'
  <2>1. pc[c] \in Busy /\ home' = home /\ "error" \in Open
    BY <1>1 DEF Busy, Open, Fail
  <2>2. QED
    BY <1>1, <2>1, TreeMove
<1>5. /\ pc' \in [Node -> {"idle", "specify", "agent", "verify", "children", "dropping"} \union Finished]
      /\ pc'[c] = "error" /\ \A m \in Node : m # c => pc'[m] = pc[m]
      /\ pc[c] \notin Finished
  BY <1>1, <1>2 DEF Finished
<1>6. \A m \in Node : \/ pc'[m] = pc[m]
                      \/ pc[m] \notin Finished /\ pc'[m] \in {"error", "aborted"}
  BY <1>5
<1>7. QED
  BY <1>1, <1>3, <1>4, <1>5, <1>6, GuardKeeps

LEMMA DropAbortedKeeps ==
  ASSUME WorkspacesInv, NEW c \in Node, DropAborted(c)
  PROVE  WorkspacesInv'
<1> USE DEF WorkspacesInv
<1>1. /\ IsBranch(c) /\ Aborted(c) /\ pc[c] \notin Finished \union {"dropping"} /\ GuardCleans(c)
      /\ pc' = [m \in Node |-> IF home[m] = c /\ pc[m] \notin Finished THEN "aborted" ELSE pc[m]]
      /\ UNCHANGED <<provider, opened, attempts, candidate, accepted, home, ids, name, refs,
                     changeVars, faults, excused, result>>
  BY DEF DropAborted
<1>2. /\ pc \in [Node -> {"idle", "specify", "agent", "verify", "children", "dropping"} \union Finished]
      /\ home \in [Node -> Node] /\ Root = {Top} /\ Top \in Node
  BY TopFacts DEF TypeOK
<1>3. c # Top /\ home[c] = c /\ pc[ParentOf(c)] \in Fail
  BY <1>1, <1>2 DEF IsBranch, Aborted, Fail
<1>4. excused[Top]
  BY <1>3, ParentFacts DEF CauseInv
<1>5. result[Top] # "ok"
  <2>1. ParentOf(c) \in Node
    BY <1>3, ParentFacts
  <2>2. QED
    BY <1>3, <2>1 DEF EndInv, Fail
<1>6. \A m \in Node : pc'[m] = IF home[m] = c /\ pc[m] \notin Finished THEN "aborted" ELSE pc[m]
  BY <1>1
<1>7. \A m \in Node : (pc'[m] = "idle" => pc[m] = "idle") /\ (pc[m] = "idle" => pc'[m] = "idle")
  BY <1>2, <1>3, <1>6 DEF TreeInv
<1>8. TreeInv'
  <2>1. home' = home
    BY <1>1
  <2>2. home[Top] = Top /\ pc'[Top] \notin {"idle", "dropping", "aborted"}
    BY <1>2, <1>3, <1>6 DEF TreeInv
  <2>3. \A m \in Node : /\ home[m] <= m /\ home[home[m]] = home[m] /\ pc'[home[m]] # "idle"
                        /\ pc'[m] = "idle" => home[m] = Top
    BY <1>2, <1>7 DEF TreeInv
  <2>4. ASSUME NEW m \in Node, NEW i \in DOMAIN Tree[m]
        PROVE  /\ pc'[m] \in {"idle", "specify"} => pc'[Tree[m][i]] = "idle"
               /\ pc'[Tree[m][i]] \notin {"idle", "done", "none"} => pc'[m] \in Open
               /\ home[Tree[m][i]] = Tree[m][i] => pc'[m] \in Open /\ m \in Parallel
    <3> DEFINE d == Tree[m][i]
    <3>1. d \in Node
      BY ChildFacts
    <3>2. /\ pc[m] \in {"idle", "specify"} => pc[d] = "idle"
          /\ pc[d] \notin {"idle", "done", "none"} => pc[m] \in Open
          /\ home[d] = d => pc[m] \in Open /\ m \in Parallel
      BY DEF TreeInv
    <3>3. pc'[m] \in {"idle", "specify"} => pc[m] = pc'[m]
      BY <1>6
    <3>4. pc'[d] \notin {"idle", "done", "none"} => pc[d] \notin {"idle", "done", "none"}
      BY <1>6, <1>7, <3>1 DEF Finished
    <3>5. pc[m] \in Open => pc'[m] \in Open
      BY <1>6 DEF Open, Fail
    <3>6. QED
      BY <1>7, <3>1, <3>2, <3>3, <3>4, <3>5
  <2>5. ASSUME NEW m \in Node \ Parallel, NEW i \in DOMAIN Tree[m], NEW j \in DOMAIN Tree[m],
               i < j, pc'[Tree[m][j]] # "idle"
        PROVE  pc'[Tree[m][i]] = "done"
    <3>1. Tree[m][i] \in Node /\ Tree[m][j] \in Node
      BY ChildFacts
    <3>2. pc[Tree[m][j]] # "idle"
      BY <1>7, <2>5, <3>1
    <3>3. pc[Tree[m][i]] = "done"
      BY <2>5, <3>2 DEF TreeInv
    <3>4. QED
      BY <1>6, <3>1, <3>3 DEF Finished
  <2>6. \A m \in Node \ Parallel : \A i, j \in DOMAIN Tree[m] :
          i < j /\ pc'[Tree[m][j]] # "idle" => pc'[Tree[m][i]] = "done"
    BY <2>5
  <2>7. QED
    BY <2>1, <2>2, <2>3, <2>4, <2>6 DEF TreeInv
<1>9. /\ pc' \in [Node -> {"idle", "specify", "agent", "verify", "children", "dropping"} \union Finished]
      /\ pc'[c] = "aborted"
      /\ \A m \in Node : \/ pc'[m] = pc[m]
                         \/ pc[m] \notin Finished /\ pc'[m] \in {"error", "aborted"}
  <2>1. pc' = [m \in Node |-> pc'[m]]
    BY <1>1
  <2>2. \A m \in Node : pc'[m] \in {"idle", "specify", "agent", "verify", "children", "dropping"}
                                    \union Finished
    BY <1>2, <1>6 DEF Finished
  <2>3. QED
    BY <1>1, <1>3, <1>6, <2>1, <2>2
<1> HIDE DEF WorkspacesInv
<1>10. QED
  BY <1>1, <1>3, <1>4, <1>5, <1>8, <1>9, GuardKeeps

-----------------------------------------------------------------------------
(* The end of the run.                                                     *)

\* Once the task has ended without a cause for failure, only branches of
\* changes are left, and they are all in the registry of the run.
LEMMA EndFacts ==
  ASSUME WorkspacesInv, pc[Top] \in {"done", "none"}, result[Top] = "none"
  PROVE  /\ ~excused[Top]
         /\ \A n \in Node : pc[n] \in {"idle", "done", "none"} /\ home[n] = Top
         /\ \A r \in Resource : state[r] = "Active" => r[2] # "worktree" /\ home[r[1][1]] = Top
         /\ \A i \in git : \E r \in Resource : state[r] = "Active" /\ i = Item(r)
<1> USE DEF WorkspacesInv
<1>1. \A n \in Node : pc[n] \in {"idle", "done", "none"} /\ home[n] = Top
  BY AllEnded
<1>2. ~excused[Top]
  BY <1>1 DEF CauseInv, Fail
<1>3. ASSUME NEW r \in Resource, state[r] = "Active"
      PROVE  r[2] # "worktree" /\ home[r[1][1]] = Top
  <2>1. r[1] \in Surface /\ r[1][1] \in Node
    BY SurfaceFacts
  <2>2. ~Working(r[1])
    BY <1>1, <2>1 DEF Working
  <2>3. r \in ChangeOf(r[1])
    BY <1>2, <1>3, <2>2, NothingToClean
  <2>4. QED
    BY <1>1, <2>1, <2>3, OpenedFacts
<1>4. QED
  BY <1>1, <1>2, <1>3 DEF CleanInv

LEMMA EndRunKeeps ==
  ASSUME WorkspacesInv, EndRun(Top)
  PROVE  WorkspacesInv'
<1> USE DEF WorkspacesInv
<1> DEFINE held == AllLetGo(Top)
           todo == Releasable(Top, home, held)
<1>1. /\ pc[Top] \in {"done", "none", "error"} /\ result[Top] = "none"
      /\ UNCHANGED <<provider, nodeVars, home, ids, name, changeVars>>
  BY DEF EndRun
<1>2. PICK c \in CleanupResults(Top, home, held) :
        /\ Cleaned(c)
        /\ refs' = held
        /\ result' = [result EXCEPT ![Top] =
                        IF pc[Top] = "error" \/ c.failed # {} THEN "error" ELSE "ok"]
        /\ IF c.fault THEN Excuse(Top) ELSE excused' = excused
  BY DEF EndRun
<1>3. /\ provider' = provider /\ opened' = opened /\ attempts' = attempts
      /\ candidate' = candidate /\ accepted' = accepted /\ pc' = pc /\ home' = home
      /\ ids' = ids /\ name' = name /\ holds' = holds /\ sha' = sha /\ listed' = listed
  BY <1>1 DEF nodeVars, changeVars
<1>4. /\ excused \in [Root -> BOOLEAN] /\ Root = {Top} /\ Top \in Node
      /\ ids \in [Root -> [snapshot : Nat, resource : Nat]]
      /\ ids[Top].resource >= ids[Top].resource
      /\ result \in [Root -> {"none", "ok", "error"}]
      /\ refs \in [Resource -> SUBSET Tags]
  <2>1. /\ excused \in [Root -> BOOLEAN] /\ Root = {Top} /\ Top \in Node
        /\ ids \in [Root -> [snapshot : Nat, resource : Nat]]
        /\ result \in [Root -> {"none", "ok", "error"}]
        /\ refs \in [Resource -> SUBSET Tags]
    BY TopFacts DEF TypeOK, Tags
  <2>2. ids[Top].resource \in Nat
    BY <2>1
  <2>3. QED
    BY <2>1, <2>2
<1>5. /\ NameInv' /\ RegistryInv'
      /\ state' \in [Resource -> {"none", "Active", "Released", "FailedCleanup"}]
      /\ git' \subseteq git /\ faults' \in 0..MaxFaults
      /\ git' = git \ {Item(r) : r \in c.gone}
  BY <1>2, <1>3, <1>4, CleanedFacts
<1>6. (\A t : IsOpen(t)' = IsOpen(t)) /\ \A r : Item(r)' = Item(r)
  BY <1>3 DEF IsOpen, Item
<1>7. excused' \in [Root -> BOOLEAN] /\ (excused[Top] => excused'[Top])
      /\ (c.fault => excused'[Top])
  <2>1. CASE c.fault
    BY <1>2, <1>4, <2>1, ExcuseFacts
  <2>2. CASE ~c.fault
    BY <1>2, <1>4, <2>2
  <2>3. QED
    BY <2>1, <2>2
<1>8. result'[Top] \in {"ok", "error"} /\ result' \in [Root -> {"none", "ok", "error"}]
      /\ (result'[Top] = "error" => pc[Top] = "error" \/ c.failed # {})
      /\ (result'[Top] = "ok" => pc[Top] # "error" /\ c.failed = {})
  BY <1>2, <1>4
<1>9. TypeOK'
  <2>1. held \in [Resource -> SUBSET Tags]
    BY <1>4 DEF AllLetGo
  <2>2. git' \subseteq [name : Name, kind : {"worktree", "branch"}]
    BY <1>5 DEF TypeOK
  <2>3. QED
    BY <1>2, <1>3, <1>5, <1>7, <1>8, <2>1, <2>2 DEF TypeOK, Tags
<1>10. TreeInv' /\ CountInv'
  BY <1>3 DEF TreeInv, CountInv
<1>11. CandidateInv' /\ CleanInv'
  BY <1>8 DEF CandidateInv, CleanInv
<1>12. c.failed # {} => excused'[Top]
  <2> SUFFICES ASSUME c.failed # {}, ~c.fault, pc[Top] # "error"
               PROVE  FALSE
    <3>1. pc[Top] = "error" => excused'[Top]
      BY <1>4, <1>7 DEF CauseInv, Fail
    <3>2. QED
      BY <1>7, <3>1
  <2>1. PICK r \in Releasable(Top, home, held) \ c.gone :
          /\ r[2] = "branch" /\ Item(r) \in git
          /\ [name |-> name[r[1]], kind |-> "worktree"] \in git
          /\ <<r[1], "worktree">> \notin c.gone
    BY CleanupFails
  <2>2. PICK x \in Resource :
          state[x] = "Active" /\ Item(x) = [name |-> name[r[1]], kind |-> "worktree"]
    BY <1>1, <2>1, EndFacts
  <2>3. x[2] = "worktree"
    BY <2>2, ItemFacts
  <2>4. QED
    BY <1>1, <2>2, <2>3, EndFacts
<1>13. CauseInv'
  <2>1. \A n \in Node : pc[n] \in Fail => excused'[Top]
    BY <1>7 DEF CauseInv
  <2>2. pc[Top] = "error" => excused'[Top]
    BY <1>4, <2>1 DEF Fail
  <2>3. QED
    BY <1>3, <1>8, <1>12, <2>1, <2>2 DEF CauseInv
<1>14. EndInv'
  <2> SUFFICES ASSUME result'[Top] = "ok"
               PROVE  git' = {} /\ \A n \in Node : pc[n] \in {"idle", "done", "none"}
    BY <1>3 DEF EndInv
  <2>1. pc[Top] \in {"done", "none"} /\ c.failed = {}
    BY <1>1, <1>8
  <2>2. c.gone = todo
    BY <2>1, CleanupFacts
  <2>3. \A r \in Resource : state[r] = "Active" => r \in todo
    <3> SUFFICES ASSUME NEW r \in Resource, state[r] = "Active"
                 PROVE  r \in todo
      OBVIOUS
    <3>1. home[r[1][1]] = Top
      BY <1>1, <2>1, EndFacts
    <3>2. r \in Owned(Top, home)
      BY <3>1 DEF Owned
    <3>3. held[r] = {}
      BY <3>2 DEF AllLetGo
    <3>4. QED
      BY <3>2, <3>3 DEF Releasable
  <2> HIDE DEF todo
  <2>4. ASSUME NEW i \in git'
        PROVE  FALSE
    <3>1. i \in git /\ \A r \in c.gone : i # Item(r)
      BY <1>5
    <3>2. PICK r \in Resource : state[r] = "Active" /\ i = Item(r)
      BY <1>1, <2>1, <3>1, EndFacts
    <3>3. QED
      BY <2>2, <2>3, <3>1, <3>2
  <2>5. QED
    BY <1>1, <2>1, <2>4, EndFacts
<1>15. QED
  BY <1>4, <1>5, <1>9, <1>10, <1>11, <1>13, <1>14 DEF OneTask

-----------------------------------------------------------------------------
(* The theorems.                                                           *)

LEMMA InitKeeps ==
  ASSUME OneTask, Init
  PROVE  WorkspacesInv
<1>1. /\ Root = {Top} /\ Top \in Node /\ Node \subseteq Nat
      /\ \A n \in Node : RootOf(n) = Top /\ Top <= n
      /\ MaxAttempts \in Nat /\ MaxFaults \in Nat
  BY TopFacts, WorkspacesAssumption
<1>2. /\ pc = [n \in Node |-> IF n \in Root THEN "specify" ELSE "idle"]
      /\ home = [n \in Node |-> RootOf(n)]
      /\ opened = [n \in Node |-> 0] /\ attempts = [n \in Node |-> 0]
      /\ candidate = [n \in Node |-> NoSurface] /\ accepted = [n \in Node |-> NoSurface]
      /\ ids = [r \in Root |-> [snapshot |-> 0, resource |-> 0]]
      /\ name = [s \in Surface |-> <<>>]
      /\ state = [r \in Resource |-> "none"] /\ refs = [r \in Resource |-> {}] /\ git = {}
      /\ holds = [s \in Surface |-> {}] /\ sha = [s \in Surface |-> FALSE]
      /\ listed = [s \in Surface |-> {}] /\ faults = 0 /\ provider \in Providers
      /\ excused = [r \in Root |-> FALSE] /\ result = [r \in Root |-> "none"]
  BY DEF Init
<1>3. \A n \in Node : /\ pc[n] = IF n = Top THEN "specify" ELSE "idle"
                      /\ home[n] = Top /\ opened[n] = 0 /\ attempts[n] = 0
                      /\ candidate[n] = NoSurface /\ accepted[n] = NoSurface
  BY <1>1, <1>2
<1>4. TypeOK
  <2>1. /\ pc \in [Node -> {"idle", "specify", "agent", "verify", "children", "dropping"} \union Finished]
        /\ home \in [Node -> Node]
    BY <1>1, <1>2
  <2>2. /\ opened \in [Node -> 0..MaxAttempts + 1] /\ attempts \in [Node -> 0..MaxAttempts + 1]
        /\ faults \in 0..MaxFaults
    BY <1>1, <1>2
  <2>3. /\ candidate \in [Node -> Surface \union {NoSurface}]
        /\ accepted \in [Node -> Surface \union {NoSurface}]
    BY <1>2
  <2>4. ids \in [Root -> [snapshot : Nat, resource : Nat]] /\ name \in [Surface -> Name]
    BY <1>2 DEF Name
  <2>5. /\ state \in [Resource -> {"none", "Active", "Released", "FailedCleanup"}]
        /\ refs \in [Resource -> SUBSET {"running", "merge", "candidate", "input"}]
        /\ git \subseteq [name : Name, kind : {"worktree", "branch"}]
        /\ holds \in [Surface -> SUBSET (Node \X Path)]
        /\ sha \in [Surface -> BOOLEAN] /\ listed \in [Surface -> SUBSET Path]
        /\ excused \in [Root -> BOOLEAN] /\ result \in [Root -> {"none", "ok", "error"}]
    BY <1>2
  <2>6. QED
    BY <1>2, <2>1, <2>2, <2>3, <2>4, <2>5 DEF TypeOK
<1>5. TreeInv
  <2>1. home[Top] = Top /\ pc[Top] \notin {"idle", "dropping", "aborted"}
    BY <1>1, <1>3
  <2>2. \A n \in Node : /\ home[n] <= n /\ home[home[n]] = home[n] /\ pc[home[n]] # "idle"
                        /\ pc[n] = "idle" => home[n] = Top
    BY <1>1, <1>3
  <2>3. \A n \in Node : \A i \in DOMAIN Tree[n] :
          pc[Tree[n][i]] = "idle" /\ home[Tree[n][i]] # Tree[n][i]
    BY <1>3, ChildFacts
  <2>4. QED
    BY <2>1, <2>2, <2>3 DEF TreeInv
<1>6. CountInv
  BY <1>3 DEF CountInv
<1>7. \A s \in Surface : ~IsOpen(s)
  <2> SUFFICES ASSUME NEW s \in Surface PROVE ~IsOpen(s)
    OBVIOUS
  <2>1. s[1] \in Node /\ s[2] \in 1..(MaxAttempts + 1)
    BY SurfaceFacts
  <2>2. opened[s[1]] = 0
    BY <1>3, <2>1
  <2>3. s[2] \in Nat /\ ~(s[2] <= 0)
    BY <1>1, <2>1
  <2>4. QED
    BY <2>2, <2>3 DEF IsOpen
<1>8. NameInv /\ RegistryInv
  <2>1. \A r \in Resource : state[r] = "none"
    BY <1>2
  <2>2. QED
    BY <1>2, <1>7, <2>1 DEF NameInv, RegistryInv
<1>9. CandidateInv
  BY <1>3 DEF CandidateInv
<1>10. CauseInv /\ EndInv
  BY <1>1, <1>2, <1>3 DEF CauseInv, EndInv, Fail
<1>11. CleanInv
  BY <1>2, <1>7 DEF CleanInv
<1>12. QED
  BY <1>4, <1>5, <1>6, <1>8, <1>9, <1>10, <1>11 DEF WorkspacesInv

\* The invariant holds in every state of a run of one task, whatever its
\* tree, its budget and the git commands that fail.
THEOREM Invariance == OneTask /\ Spec => []WorkspacesInv
<1>1. OneTask /\ Init => WorkspacesInv
  BY InitKeeps
<1>2. WorkspacesInv /\ [Next]_vars => WorkspacesInv'
  <2> SUFFICES ASSUME WorkspacesInv, [Next]_vars
               PROVE  WorkspacesInv'
    OBVIOUS
  <2>1. ASSUME NEW n \in Node,
               \/ Specified(n) \/ AgentFails(n) \/ Produced(n)
               \/ Verified(n) \/ Rejected(n) \/ Retried(n)
               \/ GroupDone(n) \/ GroupBlocked(n) \/ StageNext(n) \/ GroupFails(n)
               \/ DropFailed(n) \/ DropAborted(n)
        PROVE  WorkspacesInv'
    BY <2>1, SpecifiedKeeps, AgentFailsKeeps, ProducedKeeps, VerifiedKeeps, RejectedKeeps,
       RetriedKeeps, GroupDoneKeeps, GroupBlockedKeeps, StageNextKeeps, GroupFailsKeeps,
       DropFailedKeeps, DropAbortedKeeps
  <2>2. ASSUME NEW n \in Node, NEW c \in Node, Join(n, c)
        PROVE  WorkspacesInv'
    BY <2>2, JoinKeeps
  <2>3. ASSUME NEW r \in Root, EndRun(r)
        PROVE  WorkspacesInv'
    <3>1. r = Top
      BY TopFacts DEF WorkspacesInv
    <3>2. QED
      BY <2>3, <3>1, EndRunKeeps
  <2>4. CASE UNCHANGED vars
    <3>1. /\ provider' = provider /\ opened' = opened /\ attempts' = attempts
          /\ candidate' = candidate /\ accepted' = accepted /\ pc' = pc /\ home' = home
          /\ ids' = ids /\ name' = name /\ state' = state /\ refs' = refs /\ git' = git
          /\ holds' = holds /\ sha' = sha /\ listed' = listed /\ faults' = faults
          /\ excused' = excused /\ result' = result
      BY <2>4 DEF vars, nodeVars, registryVars, changeVars
    <3>2. KindsOpened' = KindsOpened /\ IsGit' = IsGit
          /\ \A t : OpenedBy(t)' = OpenedBy(t) /\ ChangeOf(t)' = ChangeOf(t)
      BY <3>1, SameKinds
    <3>3. /\ \A t : IsOpen(t)' = IsOpen(t) /\ Working(t)' = Working(t)
          /\ \A r : Item(r)' = Item(r) /\ Keeps(r)' = Keeps(r)
          /\ \A n : Dropped(n)' = Dropped(n) /\ Current(n)' = Current(n)
      BY <3>1 DEF IsOpen, Working, Item, Keeps, Dropped, Current
    <3>4. TypeOK' /\ TreeInv' /\ CountInv' /\ CauseInv' /\ EndInv'
      BY <3>1 DEF WorkspacesInv, TypeOK, TreeInv, CountInv, CauseInv, EndInv
    <3>5. NameInv' /\ RegistryInv'
      BY <3>1, <3>2, <3>3 DEF WorkspacesInv, NameInv, RegistryInv
    <3>6. CandidateInv'
      <4>1. \A n : OpenedBy(Current(n))' = OpenedBy(Current(n))
        BY <3>1, <3>3, SameKinds DEF OpenedBy
      <4>2. QED
        BY <3>1, <3>2, <3>3, <4>1 DEF WorkspacesInv, CandidateInv
    <3>7. CleanInv'
      BY <3>1, <3>2, <3>3 DEF WorkspacesInv, CleanInv
    <3>8. QED
      BY <3>4, <3>5, <3>6, <3>7 DEF WorkspacesInv, OneTask
  <2>5. QED
    BY <2>1, <2>2, <2>3, <2>4 DEF Next
<1>3. QED
  BY <1>1, <1>2, PTL DEF Spec

\* Every variable keeps its type: a node opens at most one surface more than
\* it may make attempts, and names are numbers of the task's own counters.
THEOREM TypeCorrect == OneTask /\ Spec => []TypeOK
<1>1. WorkspacesInv => TypeOK
  BY DEF WorkspacesInv
<1>2. QED
  BY <1>1, Invariance, PTL

\* What the registries say of git is true: no operation, join, cleanup or
\* guard leaves an Active resource without its worktree or branch, or a
\* Released one with it.
THEOREM RegistryTells == OneTask /\ Spec => []RegistryAgreesWithGit
<1>1. WorkspacesInv => RegistryAgreesWithGit
  BY DEF WorkspacesInv, RegistryInv, RegistryAgreesWithGit
<1>2. QED
  BY <1>1, Invariance, PTL

\* The branch of a candidate or accepted artifact stays in the repository
\* while its engine goes on: retries, joins and cleanups do not take it.
THEOREM BranchesAreKept == OneTask /\ Spec => []CandidatesKeepTheirBranch
<1>1. WorkspacesInv => CandidatesKeepTheirBranch
  <2> SUFFICES ASSUME WorkspacesInv, IsGit, NEW n \in Node, Alive(n),
                      NEW s \in {candidate[n], accepted[n]} \ {NoSurface}
               PROVE  [name |-> name[s], kind |-> "branch"] \in git
    BY DEF CandidatesKeepTheirBranch
  <2>1. result[Top] = "none" /\ ~Dropped(n)
    BY TopFacts DEF WorkspacesInv, Alive, Dropped
  <2>2. s \in Surface
    BY DEF WorkspacesInv, TypeOK
  <2> DEFINE r == <<s, "branch">>
  <2>3. r \in Resource /\ r[1] = s /\ r[2] = "branch" /\ "branch" \in KindsOpened
    BY <2>2, KindFacts, SurfaceFacts DEF Kind
  <2>4. r \in ChangeOf(s)
    BY <2>2, <2>3, OpenedFacts
  <2>5. state[r] = "Active"
    BY <2>1, <2>4 DEF WorkspacesInv, CandidateInv
  <2>6. Item(r) \in git
    BY <2>3, <2>5 DEF WorkspacesInv, RegistryInv
  <2>7. QED
    BY <2>3, <2>6 DEF Item
<1>2. QED
  BY <1>1, Invariance, PTL

\* A run that returns a report has removed every worktree and branch it made.
THEOREM NothingIsLeft == OneTask /\ Spec => []ReportLeavesNothing
<1>1. WorkspacesInv => ReportLeavesNothing
  BY TopFacts DEF WorkspacesInv, EndInv, ReportLeavesNothing
<1>2. QED
  BY <1>1, Invariance, PTL

\* A run fails only after an agent, a cancel or a git command of its own
\* failed: no cleanup is tried twice, too early, or in an order git refuses.
THEOREM FailuresAreCaused == OneTask /\ Spec => []FailuresHaveCause
<1>1. WorkspacesInv => FailuresHaveCause
  BY TopFacts DEF WorkspacesInv, CauseInv, FailuresHaveCause
<1>2. QED
  BY <1>1, Invariance, PTL

=============================================================================

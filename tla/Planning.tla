------------------------------ MODULE Planning ------------------------------
(***************************************************************************)
(* The data of one engine run (src/task_run/engine.rs): the nodes and      *)
(* artifacts of every engine under their ids, what agents are shown of     *)
(* them, how a terminal call becomes a change of the tree, and how the     *)
(* engine of a parallel branch, which numbers on its own, is renumbered    *)
(* into the engine that spawned it.  Engine models the control of a run,   *)
(* cancels and failing branches under ids that never change.               *)
(*                                                                         *)
(* A node's task, the sequence of positions that leads to it from the      *)
(* root, stands for its intent, which no renumbering changes; an           *)
(* artifact's text says who wrote it, at which attempt, for which key,     *)
(* from which texts and whether files were changed with it.                *)
(*                                                                         *)
(* An error anywhere ends the run here: what other branches do until they  *)
(* are aborted reaches no report.  Agents submit text, inside their scope; *)
(* Engine has the verdicts reached without an agent.                       *)
(***************************************************************************)
EXTENDS WriteScope, Harness

CONSTANTS
  Provider,         \* workspace provider of the task
  RootKey,          \* the task id
  RootScope,        \* read and write scope of the task
  MaxAttempts,      \* budget.max_attempts
  MaxDecompositionDepth,
  SpecifyArgs,      \* what agents call submit_specification with,
  PlanArgs,         \* ... submit_plan_group,
  WorkArgs,         \* ... submit_work and
  VerdictArgs,      \* ... submit_verdict
  Universe,         \* the paths on which scopes are compared
  Width,            \* bound: how many items a group has at depth 0, 1, ...
  MaxSetbacks       \* bound on the verdicts of a run that are no accept

ASSUME PlanningAssumption ==
  /\ MaxAttempts \in Nat
  /\ MaxDecompositionDepth \in Nat
  /\ Width \in Seq(Nat)
  /\ MaxSetbacks \in Nat
  /\ None \notin Nat
  /\ SpecifyArgs \subseteq [size : ToSet(WorkSize)]
  /\ RootScope \subseteq Segmented /\ Universe \subseteq Segmented
  /\ \A p \in PlanArgs :
       /\ p.mode \in {"Stage", "Parallel"} /\ p.items \in Seq(ToSet(p.items))
       /\ \A i \in DOMAIN p.items :
            p.items[i].readScope \union p.items[i].writeScope \subseteq Segmented
  /\ \A v \in VerdictArgs : v.verdict \in {"accept", "reject", "need_information"}

VARIABLES
  engines,    \* every Engine value, under the ids of the nodes it branched off at
  outcome,    \* "running", "error" or the status of the report
  setbacks,   \* counts verdicts that are no accept, for the bound
  approved    \* history: the texts an agent accepted listing no hard violation

vars == <<engines, outcome, setbacks, approved>>

Root == <<>>

EmptyMap == [x \in {} |-> x]

\* HashMap::extend.
Updated(map, by) ==
  [x \in DOMAIN map \union DOMAIN by |-> IF x \in DOMAIN by THEN by[x] ELSE map[x]]

Final == {"Committed", "WaitingForInfo", "Rejected", "Pruned"}

\* insert_node.
NewNode(task, parent, template) ==
  [task |-> task, parent |-> parent, key |-> template.key, size |-> template.size,
   plan |-> template.plan, policy |-> template.policy, taskType |-> template.taskType,
   readScope |-> template.readScope, writeScope |-> template.writeScope,
   children |-> <<>>, status |-> "New", candidate |-> None, accepted |-> None,
   attempts |-> 0]

\* Engine::new with one node: a branch goes on from the id of its child.
NewEngine(id, node) ==
  [root |-> id, nextNode |-> id, nextArtifact |-> 0,
   nodes |-> [i \in {id} |-> node], artifacts |-> EmptyMap, memo |-> EmptyMap,
   log |-> {}, asked |-> None]

RootTemplate ==
  [key |-> RootKey, size |-> "Small", plan |-> "Execute", policy |-> "Explore",
   taskType |-> "Explore", readScope |-> RootScope, writeScope |-> RootScope]

Init ==
  /\ engines = [e \in {Root} |-> NewEngine(1, NewNode(<<>>, None, RootTemplate))]
  /\ outcome = "running"
  /\ setbacks = 0
  /\ approved = {}

-----------------------------------------------------------------------------
(* Asking agents.                                                          *)

Text(g, a) == g.artifacts[a].text

\* The accepted artifacts of the children, in their order.
ChildArtifacts(g, n) ==
  LET children == g.nodes[n].children
      upTo[i \in 0..Len(children)] ==
        IF i = 0 THEN <<>>
        ELSE IF g.nodes[children[i]].accepted = None THEN upTo[i - 1]
        ELSE Append(upTo[i - 1], g.nodes[children[i]].accepted)
  IN  upTo[Len(children)]

\* What node_packet tells of the node besides its id.
NodePacket(node) ==
  [task |-> node.task, key |-> node.key, size |-> node.size, plan |-> node.plan,
   taskType |-> node.taskType, policy |-> node.policy, attempts |-> node.attempts,
   readScope |-> node.readScope, writeScope |-> node.writeScope]

\* agent_context, as the context packet shows it.
Packet(g, n) ==
  [node |-> NodePacket(g.nodes[n]),
   candidate |-> IF g.nodes[n].candidate = None THEN None
                 ELSE Text(g, g.nodes[n].candidate),
   children |-> [i \in DOMAIN ChildArtifacts(g, n) |-> Text(g, ChildArtifacts(g, n)[i])]]

\* What the agent of op gets as its workspace; the one of a verdict is made
\* from the change of the candidate, which execute and combine always record.
HasSurface(op) == op \in {"Execute", "Combine", "Verify"}

\* build_agent_run, with the ids that combine and verify read before the
\* await and go on with after it.
Request(g, n, op) ==
  [node |-> n, op |-> op, candidate |-> g.nodes[n].candidate,
   children |-> ChildArtifacts(g, n), packet |-> Packet(g, n), tools |-> ToolsForOperation(op),
   layer |-> GovernanceLayerFor(op), gates |-> ActiveHardGatesFor[op],
   effort |-> Effort(op),
   profile |-> RuntimeProfile(op, HasSurface(op), Provider)]

Ask(g, n, op) == [g EXCEPT !.asked = Request(g, n, op)]

Recorded(g, n, what) ==
  [g EXCEPT !.log = @ \union {[node |-> n, task |-> g.nodes[n].task, what |-> what]}]

Response ==
  [call : {None}, failed : BOOLEAN, args : {Garbled}]
    \union [call : EngineTool, failed : {FALSE}, args : {Garbled}]
    \union [call : {"submit_specification"}, failed : {FALSE}, args : SpecifyArgs]
    \union [call : {"submit_plan_group"}, failed : {FALSE}, args : PlanArgs]
    \union [call : {"submit_work"}, failed : {FALSE}, args : WorkArgs]
    \union [call : {"submit_combination"}, failed : {FALSE}, args : {[output |-> "text"]}]
    \union [call : {"submit_verdict"}, failed : {FALSE}, args : VerdictArgs]

Running(e) == outcome = "running" /\ e \in DOMAIN engines

Asked(e, op) ==
  Running(e) /\ engines[e].asked # None /\ engines[e].asked.op = op

Outputs == [op \in Operation |-> {DecodeResult(op, r) : r \in Response}]

Usable(out) == out.kind \notin {"DecodeError", "InvalidPlan"}

\* The engine once its agent run is over and on record.
Answered(e) ==
  LET g == engines[e] IN [Recorded(g, g.asked.node, g.asked.op) EXCEPT !.asked = None]

Becomes(e, g) == engines' = [engines EXCEPT ![e] = g]

\* The run fails, its call does not decode, or the plan is invalid.
Failed == outcome' = "error" /\ engines' = EmptyMap

AgentFails(e) ==
  /\ Running(e) /\ engines[e].asked # None
  /\ \E out \in Outputs[engines[e].asked.op] : ~Usable(out)
  /\ Failed
  /\ UNCHANGED <<setbacks, approved>>

-----------------------------------------------------------------------------
(* Resolve, specify, plan.                                                 *)

Commit(g, n, a) ==
  [Recorded(g, n, "Commit") EXCEPT
     !.nodes[n].status = "Committed", !.nodes[n].accepted = a,
     !.memo = [k \in DOMAIN @ \union {g.nodes[n].key} |->
                 IF k = g.nodes[n].key THEN a ELSE @[k]]]

\* The node resolve is called for next: the first of an engine, or the
\* next of a stage.
IsNext(g, n) ==
  /\ g.asked = None
  /\ g.nodes[n].status = "New"
  /\ n # g.root =>
       LET parent == g.nodes[g.nodes[n].parent] IN
         /\ parent.plan = "Stage"
         /\ parent.status = "Planned"
         /\ \A i \in DOMAIN parent.children :
              (\E j \in DOMAIN parent.children : i < j /\ parent.children[j] = n)
                => g.nodes[parent.children[i]].status = "Committed"

Resolve(e) ==
  /\ Running(e)
  /\ LET g == engines[e] IN
       \E n \in DOMAIN g.nodes :
         /\ IsNext(g, n)
         /\ Becomes(e, IF g.nodes[n].key \in DOMAIN g.memo
                       THEN Commit(g, n, g.memo[g.nodes[n].key])
                       ELSE Ask(g, n, "Specify"))
  /\ UNCHANGED <<outcome, setbacks, approved>>

\* specify: the size decides the route; anything but a specification
\* leaves the plan as it was.
Specified(e) ==
  /\ Asked(e, "Specify")
  /\ LET g == Answered(e)
         n == engines[e].asked.node
         node == g.nodes[n]
     IN \E out \in Outputs["Specify"] :
          /\ Usable(out)
          /\ LET size == IF out.kind = "Specified" THEN out.size ELSE node.size
                 plan == IF out.kind # "Specified" THEN node.plan
                         ELSE PlanFromScopeAssessment(size, node.plan,
                                DefaultPolicyPack[node.taskType],
                                Len(node.task) < MaxDecompositionDepth)
                 h == [g EXCEPT !.nodes[n].size = size, !.nodes[n].plan = plan,
                                !.nodes[n].status = "Specified"]
             IN /\ plan # "Execute" => Len(node.task) < Len(Width)
                /\ Becomes(e, Ask(h, n, IF plan = "Execute" THEN "Execute" ELSE "Plan"))
  /\ UNCHANGED <<outcome, setbacks, approved>>

ItemFits(parent, item) ==
  /\ WithinParent(item.readScope, parent.readScope)
  /\ WithinParent(item.writeScope, parent.writeScope)

\* inherit_child_defaults; the default policy stands for the parent's.
Inherit(parent, item) ==
  [item EXCEPT
     !.readScope = InheritScope(@, parent.readScope),
     !.writeScope = InheritScope(@, parent.writeScope),
     !.policy = IF @ = "Explore" THEN parent.policy ELSE @,
     !.taskType = IF item.policy = "Explore" THEN parent.taskType ELSE @]

\* plan_group's inserts: the children get the next ids.
Group(g, n, mode, items) ==
  LET child(i) == g.nextNode + i IN
    [g EXCEPT
       !.nextNode = @ + Len(items),
       !.nodes = [id \in DOMAIN @ \union {child(i) : i \in DOMAIN items} |->
         IF id \in DOMAIN @ THEN @[id]
         ELSE NewNode(Append(@[n].task, id - g.nextNode), n,
                      Inherit(@[n], items[id - g.nextNode]))],
       !.nodes[n].children = [i \in DOMAIN items |-> child(i)],
       !.nodes[n].plan = mode,
       !.nodes[n].status = "Planned"]

\* A parallel group starts an engine for each child, with a copy of it.
Branches(e, g, n) ==
  [b \in {Append(e, c) : c \in ToSet(g.nodes[n].children)} |->
     NewEngine(Last(b), g.nodes[Last(b)])]

\* plan_group, and the spawns of resolve_parallel_children.  An output that
\* is no plan would leave a node without children.
Planned(e) ==
  /\ Asked(e, "Plan")
  /\ LET g == Answered(e)
         n == engines[e].asked.node
     IN \E out \in Outputs["Plan"] :
          /\ Usable(out)
          /\ LET mode == IF out.kind = "Planned" THEN out.mode ELSE "Stage"
                 items == IF out.kind = "Planned" THEN out.items ELSE <<>>
                 h == Group(g, n, mode, items)
             IN /\ Len(items) <= Width[Len(g.nodes[n].task) + 1]
                /\ IF \A i \in DOMAIN items : ItemFits(g.nodes[n], items[i])
                   THEN /\ engines' = Updated([engines EXCEPT ![e] = h],
                              IF mode = "Parallel" THEN Branches(e, h, n) ELSE EmptyMap)
                        /\ UNCHANGED outcome
                   ELSE Failed
  /\ UNCHANGED <<setbacks, approved>>

-----------------------------------------------------------------------------
(* Execute, combine, verify.                                               *)

\* push_artifact.
Push(g, n, children, text) ==
  [g EXCEPT
     !.nextArtifact = @ + 1,
     !.artifacts = [a \in DOMAIN @ \union {g.nextArtifact + 1} |->
       IF a \in DOMAIN @ THEN @[a] ELSE [node |-> n, children |-> children, text |-> text]]]

\* changed is about work (nth > 0); a combination always counts as a change.
Written(node, nth, from, changed) ==
  [by |-> node.task, nth |-> nth, key |-> node.key, from |-> from, changed |-> changed]

Judge(g, n, a) ==
  Ask([g EXCEPT !.nodes[n].candidate = a, !.nodes[n].status = "Verifying"], n, "Verify")

SkipsVerify_AnyTiny(node, changed) == node.size = "Tiny"

SkipsVerify(node, changed) == node.size = "Tiny" /\ ~changed

\* The work of n is on record and is judged or, if it is Tiny and changed
\* nothing, committed; after a retry the candidate is judged all the same.
WorkDone(q, n, changed) ==
  LET node == q.nodes[n]
      g == Push([q EXCEPT !.nodes[n].attempts = @ + 1], n, <<>>,
                Written(node, node.attempts + 1, <<>>, changed))
  IN IF ~SkipsVerify(node, changed) THEN Judge(g, n, g.nextArtifact)
     ELSE IF node.candidate = None THEN Commit(g, n, g.nextArtifact)
     ELSE Ask(Commit(g, n, g.nextArtifact), n, "Verify")

\* Without work there is no candidate, an error.
Executed(e) ==
  /\ Asked(e, "Execute")
  /\ \E out \in Outputs["Execute"] :
       /\ Usable(out)
       /\ IF out.kind # "Executed" THEN Failed
          ELSE /\ Becomes(e, WorkDone(Answered(e), engines[e].asked.node, out.changed))
               /\ UNCHANGED outcome
  /\ UNCHANGED <<setbacks, approved>>

\* Every branch was joined, or the stage is over.
GroupOver(e, n) ==
  LET g == engines[e]
      children == ToSet(g.nodes[n].children)
  IN IF g.nodes[n].plan = "Parallel"
     THEN \A c \in children : Append(e, c) \notin DOMAIN engines
     ELSE \/ \A c \in children : g.nodes[c].status = "Committed"
          \/ \E c \in children : g.nodes[c].status \in Final \ {"Committed"}

\* A stage ends at a child that gave nothing, even if it has accepted work.
GroupSucceeded(g, n) ==
  \A c \in ToSet(g.nodes[n].children) :
    /\ g.nodes[c].accepted # None
    /\ g.nodes[n].plan = "Stage" => g.nodes[c].status = "Committed"

BlockedStatus(g, n) ==
  IF \E c \in ToSet(g.nodes[n].children) : g.nodes[c].status = "WaitingForInfo"
  THEN "WaitingForInfo" ELSE "Pruned"

\* The parent resumes: combine, or mark_parent_blocked_by_children.
Resume(e) ==
  /\ Running(e) /\ engines[e].asked = None
  /\ LET g == engines[e] IN
       \E n \in DOMAIN g.nodes :
         /\ g.nodes[n].status = "Planned" /\ GroupOver(e, n)
         /\ Becomes(e, IF GroupSucceeded(g, n) THEN Ask(g, n, "Combine")
                       ELSE [Recorded(g, n, "Combine") EXCEPT
                               !.nodes[n].status = BlockedStatus(g, n)])
  /\ UNCHANGED <<outcome, setbacks, approved>>

Combined(e) ==
  /\ Asked(e, "Combine")
  /\ LET n == engines[e].asked.node
         g == Push(Answered(e), n, engines[e].asked.children,
                   Written(engines[e].nodes[n], 0, engines[e].asked.packet.children, TRUE))
     IN \E out \in Outputs["Combine"] :
          /\ Usable(out)
          /\ IF out.kind # "Combined" THEN Failed
             ELSE Becomes(e, Judge(g, n, g.nextArtifact)) /\ UNCHANGED outcome
  /\ UNCHANGED <<setbacks, approved>>

\* What is no verdict counts as an accept.
Verdict(out) == IF out.kind = "Verified" THEN out.verdict ELSE [verdict |-> "Accept"]

VerifyAccepts(e) ==
  /\ Asked(e, "Verify")
  /\ \E r \in Response :
       LET out == DecodeResult("Verify", r)
           n == engines[e].asked.node
           a == engines[e].asked.candidate
       IN /\ Usable(out) /\ Verdict(out).verdict = "Accept"
          /\ Becomes(e, Commit(Answered(e), n, a))
          /\ approved' = IF /\ r.call = "submit_verdict" /\ r.args.verdict = "accept"
                            /\ r.args.hardViolations = {}
                         THEN approved \union {Text(engines[e], a)} ELSE approved
  /\ UNCHANGED <<outcome, setbacks>>

Asks(verdict) ==
  \/ verdict.verdict = "Uncertain"
  \/ verdict.verdict = "Reject" /\ verdict.class \in {"missing_info", "spec_ambiguity"}

\* verify_and_maybe_commit and handle_reject for what is no accept.
Refused(g, n, verdict) ==
  LET spent == g.nodes[n].attempts >= MaxAttempts IN
    IF Asks(verdict) THEN [g EXCEPT !.nodes[n].status = "WaitingForInfo"]
    ELSE IF spent THEN [g EXCEPT !.nodes[n].status = "Rejected"]
    ELSE IF verdict.class \in {"unsafe_side_effect", "merge_conflict"}
    THEN [g EXCEPT !.nodes[n].status = "Pruned"]
    ELSE Ask(g, n, "Execute")

VerifyRefuses(e) ==
  /\ Asked(e, "Verify") /\ setbacks < MaxSetbacks
  /\ setbacks' = setbacks + 1
  /\ \E out \in Outputs["Verify"] :
       /\ Usable(out) /\ Verdict(out).verdict # "Accept"
       /\ Becomes(e, Refused(Answered(e), engines[e].asked.node, Verdict(out)))
  /\ UNCHANGED <<outcome, approved>>

-----------------------------------------------------------------------------
(* Joining a branch.                                                       *)

NodeMap_Keeps(g, branch) == [id \in DOMAIN branch.nodes |-> id]

\* The child keeps its id, the nodes the branch made get the next ones.
NodeMap(g, branch) ==
  [id \in DOMAIN branch.nodes |->
     IF id = branch.root THEN id
     ELSE g.nextNode + Cardinality({m \in DOMAIN branch.nodes \ {branch.root} : m <= id})]

ArtifactMap(g, branch) ==
  [a \in DOMAIN branch.artifacts |->
     g.nextArtifact + Cardinality({b \in DOMAIN branch.artifacts : b <= a})]

Through(map, option) == IF option = None THEN None ELSE map[option]

AllThrough(map, ids) == [i \in DOMAIN ids |-> map[ids[i]]]

\* remap_node; the parent of the child itself is outside of the branch.
RemapNode(node, nodeMap, artifactMap) ==
  [node EXCEPT
     !.parent = IF @ \in DOMAIN nodeMap THEN nodeMap[@] ELSE @,
     !.children = AllThrough(nodeMap, @),
     !.candidate = Through(artifactMap, @),
     !.accepted = Through(artifactMap, @)]

RemapArtifact(artifact, nodeMap, artifactMap) ==
  [artifact EXCEPT !.node = nodeMap[@], !.children = AllThrough(artifactMap, @)]

\* Every value under its new id.
Moved(values, map) ==
  [new \in {map[old] : old \in DOMAIN values} |->
     values[CHOOSE old \in DOMAIN values : map[old] = new]]

Merge(g, branch) ==
  LET nodeMap == NodeMap(g, branch)
      artifactMap == ArtifactMap(g, branch)
      nodes == [id \in DOMAIN branch.nodes |->
                  RemapNode(branch.nodes[id], nodeMap, artifactMap)]
      artifacts == [a \in DOMAIN branch.artifacts |->
                      RemapArtifact(branch.artifacts[a], nodeMap, artifactMap)]
  IN [g EXCEPT
        !.nextNode = @ + Cardinality(DOMAIN branch.nodes \ {branch.root}),
        !.nextArtifact = @ + Cardinality(DOMAIN branch.artifacts),
        !.nodes = Updated(@, Moved(nodes, nodeMap)),
        !.artifacts = Updated(@, Moved(artifacts, artifactMap)),
        !.memo = Updated(@, [k \in DOMAIN branch.memo |-> artifactMap[branch.memo[k]]]),
        !.log = @ \union {[entry EXCEPT !.node = nodeMap[@]] : entry \in branch.log}]

Over(g) == g.asked = None /\ g.nodes[g.root].status \in Final

\* join_next and merge_parallel_branch: branches join in any order.
Join(e) ==
  /\ Running(e) /\ e # Root /\ Over(engines[e])
  /\ LET into == Front(e) IN
       engines' = [b \in DOMAIN engines \ {e} |->
         IF b = into THEN Merge(engines[into], engines[e]) ELSE engines[b]]
  /\ UNCHANGED <<outcome, setbacks, approved>>

Report ==
  /\ Running(Root) /\ Over(engines[Root])
  /\ outcome' = engines[Root].nodes[1].status
  /\ UNCHANGED <<engines, setbacks, approved>>

Step(e) ==
  \/ Resolve(e) \/ Specified(e) \/ Planned(e) \/ Executed(e) \/ Resume(e) \/ Combined(e)
  \/ VerifyAccepts(e) \/ VerifyRefuses(e) \/ AgentFails(e) \/ Join(e)

Next == Report \/ \E e \in DOMAIN engines : Step(e)

Spec == Init /\ [][Next]_vars

-----------------------------------------------------------------------------
(* Properties.                                                             *)

\* What a node is made from: the task or an item of a plan.
Templates ==
  {RootTemplate} \union
    UNION {{IntoNodeTemplate(p.items[i], i) : i \in DOMAIN p.items} : p \in PlanArgs}

Scopes == {t.readScope : t \in Templates} \union {t.writeScope : t \in Templates}

Status == {"New", "Specified", "Planned", "Verifying"} \union Final

NodeType ==
  [task : Seq(Nat), parent : Nat \union {None}, key : {t.key : t \in Templates},
   size : ToSet(WorkSize), plan : {"Execute", "NeedsPlanning", "Stage", "Parallel"},
   policy : {t.policy : t \in Templates}, taskType : {t.taskType : t \in Templates},
   readScope : Scopes, writeScope : Scopes, children : Seq(Nat), status : Status,
   candidate : Nat \union {None}, accepted : Nat \union {None}, attempts : Nat]

\* Ids are dense: nodes from the engine's first on, artifacts from 1 on.
EngineShape(g) ==
  /\ DOMAIN g = {"root", "nextNode", "nextArtifact", "nodes", "artifacts", "memo", "log", "asked"}
  /\ g.root \in Nat /\ g.nextNode \in Nat /\ g.nextArtifact \in Nat
  /\ g.root <= g.nextNode
  /\ g.nodes \in [g.root..g.nextNode -> NodeType]
  /\ DOMAIN g.artifacts = 1..g.nextArtifact
  /\ g.memo \in [DOMAIN g.memo -> 1..g.nextArtifact]
  /\ g.asked # None => g.asked.node \in DOMAIN g.nodes /\ g.asked.op \in Operation

TypeOK ==
  /\ \A e \in DOMAIN engines : e \in Seq(Nat) /\ EngineShape(engines[e])
  /\ outcome \in {"running", "error"} \union Final
  /\ setbacks \in 0..MaxSetbacks

Holds(g, id, task) == id \in DOMAIN g.nodes /\ g.nodes[id].task = task

HoldsText(g, a, text) == a \in DOMAIN g.artifacts /\ g.artifacts[a].text = text

\* An id in a node stands for the parent, the child or the work it stood for
\* when it was written.
NodeIdsAgree(g, id) ==
  LET node == g.nodes[id] IN
    /\ id # g.root => Holds(g, node.parent, Front(node.task))
    /\ \A i \in DOMAIN node.children : Holds(g, node.children[i], Append(node.task, i))
    /\ node.candidate # None =>
         node.candidate \in DOMAIN g.artifacts /\ Text(g, node.candidate).by = node.task
    /\ node.accepted # None =>
         node.accepted \in DOMAIN g.artifacts /\ Text(g, node.accepted).key = node.key

ArtifactIdsAgree(g, a) ==
  LET artifact == g.artifacts[a] IN
    /\ Holds(g, artifact.node, artifact.text.by)
    /\ Len(artifact.children) = Len(artifact.text.from)
    /\ \A i \in DOMAIN artifact.children :
         HoldsText(g, artifact.children[i], artifact.text.from[i])

\* Whatever ids a branch gave on its own, and in whatever order branches are
\* joined, every id of an engine - of nodes, artifacts, the memo table, the
\* log - means what it meant when it was given (merge_parallel_branch).
IdsKeepTheirMeaning ==
  \A e \in DOMAIN engines :
    LET g == engines[e] IN
      /\ \A id \in DOMAIN g.nodes : NodeIdsAgree(g, id)
      /\ \A a \in DOMAIN g.artifacts : ArtifactIdsAgree(g, a)
      /\ \A k \in DOMAIN g.memo :
           g.memo[k] \in DOMAIN g.artifacts /\ Text(g, g.memo[k]).key = k
      /\ \A entry \in g.log : Holds(g, entry.node, entry.task)

\* Whatever a node has accepted - its own work, a combination, or what the memo
\* had under its key, joined from any branch - was accepted by a submit_verdict
\* that lists no hard violation, or is work of a Tiny node that changed nothing:
\* no other tool, and no garbled or contradictory verdict, is ever taken for a
\* verdict, and no change goes unjudged (execute, decode_result, into_verdict).
AcceptedOnACleanVerdict ==
  \A e \in DOMAIN engines : \A id \in DOMAIN engines[e].nodes :
    LET g == engines[e]
        a == g.nodes[id].accepted
    IN a # None =>
         \/ Text(g, a) \in approved
         \/ /\ Text(g, a).nth > 0 /\ ~Text(g, a).changed
            /\ g.nodes[g.artifacts[a].node].size = "Tiny"

\* Without `*` and `?` inside a segment, or everything.
Plain(patterns) ==
  \A p \in patterns :
    p = Everything \/ \A i \in DOMAIN p : p[i] = AnyDepth \/ ToSet(p[i]) \cap {"*", "?"} = {}

\* The paths a scope allows, for the scopes of the instance.
AllowedBy == [scope \in Scopes |-> Allowed(scope, Universe)]

Narrows(child, parent) == Plain(parent) => AllowedBy[child] \subseteq AllowedBy[parent]

\* Along every edge of the tree the child's scopes allow no path its parent's
\* do not, as long as the parent's have no wildcard inside a segment
\* (inherit_child_defaults).
ScopesNarrow ==
  \A e \in DOMAIN engines : \A id \in DOMAIN engines[e].nodes :
    LET nodes == engines[e].nodes IN
      \A i \in DOMAIN nodes[id].children :
        LET child == nodes[nodes[id].children[i]] IN
          /\ Narrows(child.readScope, nodes[id].readScope)
          /\ Narrows(child.writeScope, nodes[id].writeScope)

-----------------------------------------------------------------------------
(* What the repository says and the code does not do.                      *)

\* prompt-guidance.md: child scopes "may narrow the parent, but they must not
\* widen it".  A pattern matched as a path passes `src/**` for `src/*`.
ScopesNeverWiden ==
  \A e \in DOMAIN engines : \A id \in DOMAIN engines[e].nodes :
    LET nodes == engines[e].nodes IN
      \A i \in DOMAIN nodes[id].children :
        AllowedBy[nodes[nodes[id].children[i]].writeScope]
          \subseteq AllowedBy[nodes[id].writeScope]
=============================================================================

------------------------------- MODULE Engine -------------------------------
(***************************************************************************)
(* One run of the recursive task engine (src/task_run/engine.rs): a root   *)
(* node is specified, planned into children or executed, combined,         *)
(* verified, retried and committed; parallel children run as tokio tasks   *)
(* with an engine of their own that is merged back when it is joined.      *)
(*                                                                         *)
(* Every node is a small process: pc[n] says where resolve(n) is.  What    *)
(* lies between two awaits is one or a few steps, so branches interleave   *)
(* at least as finely as in the program.  Agents and workspaces may answer *)
(* anything their tools allow, or fail, at every call.                     *)
(*                                                                         *)
(* Node ids are the ids after merge_parallel_branch's renumbering, which   *)
(* is a bijection, so a node keeps one id.  stop_after_route_depth is set  *)
(* by the evaluation harness only and is left out.                         *)
(*                                                                         *)
(* A definition named X_Y is X with the fault Y, kept to show that a       *)
(* property would notice it.                                               *)
(***************************************************************************)
EXTENDS Naturals, Sequences, FiniteSets, SequencesExt

CONSTANTS
  MaxNodes,               \* bound on the nodes of a run
  MaxItems,               \* bound on the items of a plan group
  DepthBound,             \* bound: agents call a node this deep small enough
  Key, RootKey,           \* problem keys an agent gives a plan item; the task id
  Path, RootScope,        \* paths; the task's write scope
  AllowWrite,             \* capabilities.allow_write of the task
  Output,                 \* what submit_work may leave: text present, paths changed
  NoArtifact,             \* Option::None of an ArtifactId
  MaxAttempts,            \* budget.max_attempts
  MaxDecompositionDepth   \* Engine::max_decomposition_depth

ASSUME EngineAssumption ==
  /\ MaxNodes \in Nat \ {0}
  /\ MaxItems \in Nat \ {0}
  /\ DepthBound \in Nat
  /\ RootKey \notin Key
  /\ RootScope \in SUBSET Path
  /\ AllowWrite \in BOOLEAN
  /\ Output \subseteq [ok : BOOLEAN, paths : SUBSET Path]
  /\ MaxAttempts \in Nat
  /\ MaxDecompositionDepth \in Nat

Node == 1..MaxNodes
Root == 1

\* The nth execution of a node; combine leaves number 0.
Artifact == [node : Node, nth : Nat, ok : BOOLEAN, paths : SUBSET Path]

ASSUME NoArtifactAssumption == NoArtifact \notin Artifact

VARIABLES
  created,    \* Engine::next_node_id
  parent,     \* ProblemNode::parent, 0 for the root
  children,   \* ProblemNode::children
  depth,      \* the depth argument of resolve
  key,        \* ProblemNode::key
  scope,      \* ProblemNode::workspace.write_scope
  status,     \* ProblemNode::status
  size,       \* ProblemNode::size; Large: at or above auto_plan_threshold
  plan,       \* ProblemNode::plan, for a group its mode
  candidate,  \* ProblemNode::candidate
  accepted,   \* ProblemNode::accepted_artifact
  attempts,   \* ProblemNode::execution_attempts
  pc,         \* where resolve of the node is
  engine,     \* the engine that holds the node, named by its first node
  memo,       \* Engine::memo_table of each engine
  cancelled,  \* the run's CancellationToken
  report,     \* what run_with_cancel returned
  approved    \* history: the artifacts a Verify agent accepted

treeVars == <<created, parent, children, depth, key, scope>>
workVars == <<status, size, plan, candidate, accepted, attempts>>
engineVars == <<engine, memo>>
vars == <<treeVars, workVars, pc, engineVars, cancelled, report, approved>>

-----------------------------------------------------------------------------

NodeStatus == {"New", "Specified", "Planned", "Verifying", "Committed",
               "WaitingForInfo", "Rejected", "Pruned"}

ReportStatus == {"Committed", "WaitingForInfo", "Rejected", "Pruned"}

AgentOp == {"specify", "plan", "execute", "combine", "verify"}

Ended == {"some", "none", "error", "aborted"}

Active(n) == pc[n] \notin Ended \union {"idle"}

ChildrenOf(n) == ToSet(children[n])

EmptyMemo == [k \in Key \union {RootKey} |-> NoArtifact]

Init ==
  /\ created = Root
  /\ parent = [n \in Node |-> 0]
  /\ children = [n \in Node |-> <<>>]
  /\ depth = [n \in Node |-> 0]
  /\ key = [n \in Node |-> RootKey]
  /\ scope = [n \in Node |-> RootScope]
  /\ status = [n \in Node |-> "New"]
  /\ size = [n \in Node |-> "Small"]
  /\ plan = [n \in Node |-> "Execute"]
  /\ candidate = [n \in Node |-> NoArtifact]
  /\ accepted = [n \in Node |-> NoArtifact]
  /\ attempts = [n \in Node |-> 0]
  /\ pc = [n \in Node |-> IF n = Root THEN "resolve" ELSE "idle"]
  /\ engine = [n \in Node |-> Root]
  /\ memo = [n \in Node |-> EmptyMemo]
  /\ cancelled = FALSE
  /\ report = "none"
  /\ approved = {}

-----------------------------------------------------------------------------
(* Control: agent calls, their answers, the end of resolve.                *)

Goto(n, place) == pc' = [pc EXCEPT ![n] = place]

CallAgent_WithoutCheck(n, op) == Goto(n, op)

\* run_agent_with_context checks for cancellation before it starts a run ...
CallAgent(n, op) == Goto(n, IF cancelled THEN "error" ELSE op)

\* The task that runs engine e was aborted: its JoinSet was dropped.
Aborted(e) == parent[e] # 0 /\ pc[parent[e]] \in {"error", "aborted"}

\* ... and again when it has its answer, before anything is made of it.
Answered(n, op) == pc[n] = op /\ ~cancelled /\ ~Aborted(engine[n])

AgentCancelled_ExecuteOnly(n) ==
  /\ pc[n] = "execute" /\ cancelled /\ ~Aborted(engine[n])
  /\ Goto(n, "error")
  /\ UNCHANGED <<treeVars, workVars, engineVars, cancelled, report, approved>>

\* A scheduler returns when it sees the token cancelled.
AgentCancelled(n) ==
  /\ pc[n] \in AgentOp /\ cancelled /\ ~Aborted(engine[n])
  /\ Goto(n, "error")
  /\ UNCHANGED <<treeVars, workVars, engineVars, cancelled, report, approved>>

\* The run fails, its answer does not decode or is an invalid plan, a plan
\* item widens the scope, or the workspace cannot be opened, captured, merged.
AgentFails(n) ==
  /\ pc[n] \in AgentOp /\ ~Aborted(engine[n])
  /\ Goto(n, "error")
  /\ UNCHANGED <<treeVars, workVars, engineVars, cancelled, report, approved>>

Commit_SharedMemo(n, a) ==
  /\ status' = [status EXCEPT ![n] = "Committed"]
  /\ accepted' = [accepted EXCEPT ![n] = a]
  /\ memo' = [memo EXCEPT ![Root][key[n]] = a]

Commit(n, a) ==
  /\ status' = [status EXCEPT ![n] = "Committed"]
  /\ accepted' = [accepted EXCEPT ![n] = a]
  /\ memo' = [memo EXCEPT ![engine[n]][key[n]] = a]

-----------------------------------------------------------------------------
(* Resolve, specify, plan.                                                 *)

Resolve(n) ==
  /\ pc[n] = "resolve"
  /\ LET known == memo[engine[n]][key[n]] IN
       \/ /\ cancelled \/ known = NoArtifact
          /\ CallAgent(n, "specify")
          /\ UNCHANGED <<workVars, memo>>
       \/ /\ ~cancelled /\ known # NoArtifact
          /\ Commit(n, known)
          /\ Goto(n, "some")
          /\ UNCHANGED <<size, plan, candidate, attempts>>
  /\ UNCHANGED <<treeVars, engine, cancelled, report, approved>>

\* Both routes of plan_from_scope_assessment, for a node with no group yet.
PlanFromScope(s, decompose, allowDecompose) ==
  IF (decompose /\ allowDecompose /\ s = "Large") \/ s = "Large"
  THEN "NeedsPlanning" ELSE "Execute"

Specified(n) ==
  /\ Answered(n, "specify")
  /\ \E s \in {"Tiny", "Small", "Large"}, decompose \in BOOLEAN :
       /\ s = "Large" => depth[n] < DepthBound
       /\ size' = [size EXCEPT ![n] = s]
       /\ LET p == PlanFromScope(s, decompose, depth[n] < MaxDecompositionDepth) IN
            /\ plan' = [plan EXCEPT ![n] = p]
            /\ CallAgent(n, IF p = "NeedsPlanning" THEN "plan" ELSE "execute")
  /\ status' = [status EXCEPT ![n] = "Specified"]
  /\ UNCHANGED <<treeVars, candidate, accepted, attempts, engineVars, cancelled, report, approved>>

\* The new nodes of a group get the ids after `created`.
NewNodes(count) == (created + 1)..(created + count)

\* A child's scope is the item's, if within the parent's, else the parent's.
Planned(n) ==
  /\ Answered(n, "plan")
  /\ \E count \in 1..MaxItems :
       /\ created + count \in Node
       /\ created' = created + count
       /\ children' = [children EXCEPT ![n] = [i \in 1..count |-> created + i]]
       /\ parent' = [c \in Node |-> IF c \in NewNodes(count) THEN n ELSE parent[c]]
       /\ depth' = [c \in Node |-> IF c \in NewNodes(count) THEN depth[n] + 1 ELSE depth[c]]
       /\ \E k \in [NewNodes(count) -> Key], s \in [NewNodes(count) -> SUBSET scope[n]] :
            /\ key' = [c \in Node |-> IF c \in NewNodes(count) THEN k[c] ELSE key[c]]
            /\ scope' = [c \in Node |->
                 IF c \notin NewNodes(count) THEN scope[c]
                 ELSE IF s[c] = {} THEN scope[n] ELSE s[c]]
       /\ \E mode \in {"Stage", "Parallel"} :
            /\ plan' = [plan EXCEPT ![n] = mode]
            /\ engine' = [c \in Node |->
                 IF c \notin NewNodes(count) THEN engine[c]
                 ELSE IF mode = "Parallel" THEN c ELSE engine[n]]
            /\ pc' = [c \in Node |->
                 IF c = n THEN "children"
                 ELSE IF c = created + 1 \/ (mode = "Parallel" /\ c \in NewNodes(count))
                 THEN "resolve" ELSE pc[c]]
  /\ status' = [status EXCEPT ![n] = "Planned"]
  /\ UNCHANGED <<size, candidate, accepted, attempts, memo, cancelled, report, approved>>

-----------------------------------------------------------------------------
(* The children of a group.                                                *)

StageNext(n) ==
  /\ pc[n] = "children" /\ plan[n] = "Stage"
  /\ \E i \in 1..(Len(children[n]) - 1) :
       /\ pc[children[n][i]] = "some"
       /\ pc[children[n][i + 1]] = "idle"
       /\ Goto(children[n][i + 1], "resolve")
  /\ UNCHANGED <<treeVars, workVars, engineVars, cancelled, report, approved>>

Joined(n, c) == engine[c] = engine[n]

MergedMemo(into, from) ==
  [k \in Key \union {RootKey} |-> IF from[k] # NoArtifact THEN from[k] ELSE into[k]]

\* join_next, then merge_parallel_branch.
Join(n) ==
  /\ pc[n] = "children" /\ plan[n] = "Parallel" /\ ~Aborted(engine[n])
  /\ \E c \in ChildrenOf(n) :
       /\ pc[c] \in {"some", "none"} /\ ~Joined(n, c)
       /\ engine' = [m \in Node |-> IF engine[m] = c THEN engine[n] ELSE engine[m]]
       /\ memo' = [memo EXCEPT ![engine[n]] = MergedMemo(@, memo[c]), ![c] = EmptyMemo]
  /\ UNCHANGED <<treeVars, workVars, pc, cancelled, report, approved>>

\* An error of a child, or of cleaning up after a joined branch, ends the
\* parent; the other branches are aborted with the JoinSet.
ChildFails_StageOnly(n) ==
  /\ pc[n] = "children" /\ plan[n] = "Stage"
  /\ \E c \in ChildrenOf(n) : pc[c] = "error"
  /\ Goto(n, "error")
  /\ UNCHANGED <<treeVars, workVars, engineVars, cancelled, report, approved>>

ChildFails(n) ==
  /\ pc[n] = "children" /\ ~Aborted(engine[n])
  /\ \E c \in ChildrenOf(n) : pc[c] = "error" \/ (plan[n] = "Parallel" /\ Joined(n, c))
  /\ Goto(n, "error")
  /\ UNCHANGED <<treeVars, workVars, engineVars, cancelled, report, approved>>

\* tokio drops the future of an aborted task at its next await: a branch
\* that is past an await may still run to the next one.
DropBranch(e) ==
  /\ Aborted(e) /\ engine[e] = e /\ Active(e)
  /\ pc' = [m \in Node |-> IF engine[m] = e /\ Active(m) THEN "aborted" ELSE pc[m]]
  /\ UNCHANGED <<treeVars, workVars, engineVars, cancelled, report, approved>>

ChildrenDone_Any(n) ==
  IF plan[n] = "Parallel"
  THEN \E c \in ChildrenOf(n) : Joined(n, c)
  ELSE \E c \in ChildrenOf(n) : pc[c] = "none" \/ \A d \in ChildrenOf(n) : pc[d] = "some"

\* Every branch was joined; in a stage, a child gave nothing or all gave.
ChildrenDone(n) ==
  IF plan[n] = "Parallel"
  THEN \A c \in ChildrenOf(n) : Joined(n, c)
  ELSE \/ \E c \in ChildrenOf(n) : pc[c] = "none"
       \/ \A c \in ChildrenOf(n) : pc[c] = "some"

AllChildrenAccepted_Last(n) == accepted[Last(children[n])] # NoArtifact

AllChildrenAccepted(n) == \A c \in ChildrenOf(n) : accepted[c] # NoArtifact

GroupSucceeded(n) ==
  /\ plan[n] = "Stage" => \A c \in ChildrenOf(n) : pc[c] = "some"
  /\ AllChildrenAccepted(n)

StartCombine(n) ==
  /\ pc[n] = "children" /\ ChildrenDone(n) /\ GroupSucceeded(n)
  /\ CallAgent(n, "combine")
  /\ UNCHANGED <<treeVars, workVars, engineVars, cancelled, report, approved>>

BlockedStatus_Pruned(n) == "Pruned"

BlockedStatus(n) ==
  IF \E c \in ChildrenOf(n) : status[c] = "WaitingForInfo" THEN "WaitingForInfo" ELSE "Pruned"

\* mark_parent_blocked_by_children.
Blocked(n) ==
  /\ pc[n] = "children" /\ ChildrenDone(n) /\ ~GroupSucceeded(n)
  /\ status' = [status EXCEPT ![n] = BlockedStatus(n)]
  /\ Goto(n, "none")
  /\ UNCHANGED <<treeVars, size, plan, candidate, accepted, attempts, engineVars,
                 cancelled, report, approved>>

-----------------------------------------------------------------------------
(* Execute, combine, verify, retry, commit.                                *)

MakeArtifact(n, count, o) == [node |-> n, nth |-> count, ok |-> o.ok, paths |-> o.paths]

SkipsVerify_AnyTiny(n, a) == size[n] = "Tiny"

\* Tiny work that changed nothing is committed without Verify.
SkipsVerify(n, a) == size[n] = "Tiny" /\ a.paths = {}

\* A retry returns to verify_and_maybe_commit in any case, which judges the
\* node's candidate.
Executed(n) ==
  /\ Answered(n, "execute")
  /\ attempts' = [attempts EXCEPT ![n] = @ + 1]
  /\ \E o \in Output :
       LET a == MakeArtifact(n, attempts[n] + 1, o) IN
         \/ /\ SkipsVerify(n, a)
            /\ Commit(n, a)
            /\ Goto(n, IF candidate[n] = NoArtifact THEN "some" ELSE "check")
            /\ UNCHANGED candidate
         \/ /\ ~SkipsVerify(n, a)
            /\ candidate' = [candidate EXCEPT ![n] = a]
            /\ status' = [status EXCEPT ![n] = "Verifying"]
            /\ Goto(n, "check")
            /\ UNCHANGED <<accepted, memo>>
  /\ UNCHANGED <<treeVars, size, plan, engine, cancelled, report, approved>>

Combined(n) ==
  /\ Answered(n, "combine")
  /\ \E o \in Output : candidate' = [candidate EXCEPT ![n] = MakeArtifact(n, 0, o)]
  /\ status' = [status EXCEPT ![n] = "Verifying"]
  /\ Goto(n, "check")
  /\ UNCHANGED <<treeVars, size, plan, accepted, attempts, engineVars, cancelled, report, approved>>

\* What deterministic_verification_verdict decides before any agent is asked.
IsEmpty(a) == ~a.ok

IsUnsafe(n, a) == IF AllowWrite THEN ~(a.paths \subseteq scope[n]) ELSE a.paths # {}

BudgetSpent(n) == attempts[n] >= MaxAttempts

\* handle_reject without a retry.
GiveUp(n) ==
  /\ status' = [status EXCEPT ![n] = IF BudgetSpent(n) THEN "Rejected" ELSE "Pruned"]
  /\ Goto(n, "none")

Retry(n) == CallAgent(n, "execute") /\ UNCHANGED status

RejectUnsafe(n) == GiveUp(n)

RejectBadOutput(n) == IF BudgetSpent(n) THEN GiveUp(n) ELSE Retry(n)

\* The start of verify: a deterministic verdict or a call of the agent.
Check(n) ==
  /\ pc[n] = "check"
  /\ LET a == candidate[n] IN
       \/ IsEmpty(a) /\ RejectBadOutput(n)
       \/ ~IsEmpty(a) /\ IsUnsafe(n, a) /\ RejectUnsafe(n)
       \/ ~IsEmpty(a) /\ ~IsUnsafe(n, a) /\ CallAgent(n, "verify") /\ UNCHANGED status
  /\ UNCHANGED <<treeVars, size, plan, candidate, accepted, attempts, engineVars,
                 cancelled, report, approved>>

VerifyAccepts(n) ==
  /\ Answered(n, "verify")
  /\ Commit(n, candidate[n])
  /\ approved' = approved \union {candidate[n]}
  /\ Goto(n, "some")
  /\ UNCHANGED <<treeVars, size, plan, candidate, attempts, engine, cancelled, report>>

\* Uncertain, or rejected for MissingInfo or SpecAmbiguity.
VerifyAsks(n) ==
  /\ Answered(n, "verify")
  /\ status' = [status EXCEPT ![n] = "WaitingForInfo"]
  /\ Goto(n, "none")
  /\ UNCHANGED <<treeVars, size, plan, candidate, accepted, attempts, engineVars,
                 cancelled, report, approved>>

VerifyRejects(n) ==
  /\ Answered(n, "verify")
  /\ RejectUnsafe(n) \/ RejectBadOutput(n)
  /\ UNCHANGED <<treeVars, size, plan, candidate, accepted, attempts, engineVars,
                 cancelled, report, approved>>

-----------------------------------------------------------------------------

\* run_with_cancel returns; cleaning up the workspaces may fail.
Finish ==
  /\ report = "none"
  /\ \/ pc[Root] \in {"some", "none"} /\ report' \in {status[Root], "Failed"}
     \/ pc[Root] = "error" /\ report' \in {"Failed"} \union (IF cancelled THEN {"Cancelled"} ELSE {})
  /\ UNCHANGED <<treeVars, workVars, pc, engineVars, cancelled, approved>>

Cancel ==
  /\ ~cancelled /\ report = "none"
  /\ cancelled' = TRUE
  /\ UNCHANGED <<treeVars, workVars, pc, engineVars, report, approved>>

\* What the engine does without an answer of an agent.
Local(n) ==
  \/ Resolve(n) \/ StageNext(n) \/ Join(n) \/ ChildFails(n) \/ StartCombine(n)
  \/ Blocked(n) \/ Check(n)

Answer(n) ==
  \/ Specified(n) \/ Planned(n) \/ Executed(n) \/ Combined(n)
  \/ VerifyAccepts(n) \/ VerifyAsks(n) \/ VerifyRejects(n) \/ AgentFails(n)

Next ==
  \/ \E n \in Node : Local(n) \/ Answer(n) \/ AgentCancelled(n) \/ DropBranch(n)
  \/ Finish
  \/ Cancel

Spec == Init /\ [][Next]_vars

\* tokio polls every woken task and drops every aborted one.
LocalFairness ==
  /\ \A n \in Node : WF_vars(Local(n)) /\ WF_vars(DropBranch(n))
  /\ WF_vars(Finish)

LocalSpec == Spec /\ LocalFairness

\* Every agent run ends, with an answer or an error.
AgentsAnswer == \A n \in Node : WF_vars(Answer(n))

\* Every agent run sees the token of its run.  A premise too: a run that
\* waits for a scheduler others use does not look (AgentRunScheduler).
CancelSeen == \A n \in Node : WF_vars(AgentCancelled(n))

-----------------------------------------------------------------------------
(* Properties.                                                             *)

Attempted == 0..(IF MaxAttempts = 0 THEN 1 ELSE MaxAttempts)

\* Types; a report that is not an error is a status the task board can map,
\* and a node is executed at most max(1, max_attempts) times.
TypeOK ==
  /\ created \in Node
  /\ parent \in [Node -> Node \union {0}]
  /\ children \in [Node -> Seq(Node)]
  /\ depth \in [Node -> Nat]
  /\ key \in [Node -> Key \union {RootKey}]
  /\ scope \in [Node -> SUBSET Path]
  /\ status \in [Node -> NodeStatus]
  /\ size \in [Node -> {"Tiny", "Small", "Large"}]
  /\ plan \in [Node -> {"Execute", "NeedsPlanning", "Stage", "Parallel"}]
  /\ candidate \in [Node -> Artifact \union {NoArtifact}]
  /\ accepted \in [Node -> Artifact \union {NoArtifact}]
  /\ attempts \in [Node -> Attempted]
  /\ pc \in [Node -> {"idle", "resolve", "children", "check"} \union AgentOp \union Ended]
  /\ engine \in [Node -> Node]
  /\ memo \in [Node -> [Key \union {RootKey} -> Artifact \union {NoArtifact}]]
  /\ cancelled \in BOOLEAN
  /\ report \in ReportStatus \union {"none", "Failed", "Cancelled"}
  /\ approved \in SUBSET Artifact

\* Whatever path it took - retry, memo, merge of a branch - an accepted
\* artifact was accepted by a verifier or is Tiny work without changes, and
\* what a node did itself stays within its write scope, nothing without
\* allow_write (execute, verify, deterministic_verification_verdict).
OnlyCheckedWorkIsAccepted ==
  \A n \in Node : LET a == accepted[n] IN a # NoArtifact =>
    /\ a \in approved \/ (a.paths = {} /\ a.nth > 0 /\ size[a.node] = "Tiny")
    /\ a.node = n => a.paths \subseteq (IF AllowWrite THEN scope[n] ELSE {})

\* A parent is combined, and committed, only when every child has an
\* accepted artifact, in whatever order the branches were joined.
CombinesCompleteGroups ==
  \A n \in Node : pc[n] = "combine" \/ (status[n] = "Committed" /\ children[n] # <<>>)
    => \A c \in ChildrenOf(n) : accepted[c] # NoArtifact /\ ~Active(c)

\* A node of a finished run that asks for information and was not accepted
\* makes the whole task wait for it, from any depth and any branch.
QuestionsReachTheReport ==
  report \in ReportStatus =>
    \A n \in Node : status[n] = "WaitingForInfo" /\ accepted[n] = NoArtifact
      => report = "WaitingForInfo"

\* When the run returned a status nothing of it is still running: every
\* branch was joined into the root's engine.
NothingOutlivesTheReport ==
  report \in ReportStatus =>
    \A n \in Node : n <= created => ~Active(n) /\ engine[n] = Root

\* The memo table of an engine holds only artifacts accepted, under that
\* key, for a node of that engine.
MemoIsBacked ==
  \A e \in Node, k \in Key \union {RootKey} : memo[e][k] # NoArtifact =>
    \E n \in Node : engine[n] = e /\ key[n] = k /\ accepted[n] = memo[e][k]

\* After a cancel no agent run is started, not even by a retry or a branch
\* that was already past its own check.
NoAgentStartsAfterCancel ==
  [][cancelled => \A n \in Node : pc'[n] \in AgentOp => pc'[n] = pc[n]]_vars

\* When agents answer every run ends, although they decide what is planned,
\* retried and asked (the depth of plans is bounded by DepthBound).
RunEnds == AgentsAnswer => <>(report # "none")

\* When the agent runs see the token a cancel ends the run, even if no agent
\* ever answers again.  The branches an error or a cancel leaves behind stop
\* without any answer.
CancelEndsRun ==
  /\ CancelSeen => (cancelled ~> report # "none")
  /\ []<>(report # "none" => \A n \in Node : ~Active(n))

-----------------------------------------------------------------------------
(* What the repository says and the code does not do.                      *)

\* engine.rs: "Tiny tasks with no workspace changes skip Verify and commit
\* directly": a committed node stays committed.
CommitIsFinal ==
  [][\A n \in Node : status[n] = "Committed" => status'[n] = "Committed"]_vars

\* engine.rs: "recursive task decomposition up to the configured depth".
DepthLimited == \A n \in Node : pc[n] = "plan" => depth[n] < MaxDecompositionDepth

-----------------------------------------------------------------------------
(* What the code does not rule out.                                        *)

\* What a node has accepted stays within its own write scope, also when the
\* memo had it: resolve commits a memo hit before it looks at the node.
ReuseStaysInScope == \A n \in Node : accepted[n] # NoArtifact => accepted[n].paths \subseteq scope[n]
=============================================================================

----------------------------- MODULE Workspaces -----------------------------
(***************************************************************************)
(* The workspaces of an engine run (src/task_run/resources.rs, the         *)
(* resource handling of src/task_run/engine.rs, src/workspace/): surfaces  *)
(* are opened, captured and merged, their resources tracked, retained and  *)
(* released by reference, cleaned up when nothing refers to them, handed   *)
(* over when a parallel branch is joined, and cleaned up by the guard of a *)
(* branch that fails.                                                      *)
(*                                                                         *)
(* The git repository is git, the set of worktrees and branches that       *)
(* exist; git's own rules are that a name is used once and that a branch   *)
(* cannot be deleted while a worktree has it checked out.  What a node     *)
(* decides (its tree, its verdicts) is module Engine; here the tree is a   *)
(* constant.  An action is what happens between two awaits.                *)
(***************************************************************************)
EXTENDS Naturals, Sequences, FiniteSets, SequencesExt

CONSTANTS
  Tree,          \* [Node -> Seq(Node)]: the children of each node
  Root,          \* the root nodes, one per task that uses the repository
  Parallel,      \* the nodes whose children form a parallel group
  Providers,     \* providers a task may use
  Changes,       \* what an operation may have changed when it is captured
  MaxAttempts,   \* budget.max_attempts
  MaxFaults      \* bound on git commands that fail for reasons of their own

Node == DOMAIN Tree

\* Nodes are numbered as they are inserted: a task after the other, children
\* after their parent.
ASSUME WorkspacesAssumption ==
  /\ Node \subseteq Nat /\ Root \subseteq Node /\ Parallel \subseteq Node
  /\ \A n \in Node : Tree[n] \in Seq(Node) /\ \E r \in Root : r <= n
  /\ \A n \in Node : \A i \in DOMAIN Tree[n] :
       /\ Tree[n][i] > n /\ Tree[n][i] \notin Root
       /\ \A r \in Root : r <= Tree[n][i] => r <= n
  /\ \A m, n \in Node : \A i \in DOMAIN Tree[m], j \in DOMAIN Tree[n] :
       Tree[m][i] = Tree[n][j] => m = n /\ i = j
  /\ \A n \in Node \ Root : \E m \in Node : \E i \in DOMAIN Tree[m] : Tree[m][i] = n
  /\ Providers \subseteq {"Memory", "FileSystem", "GitFileSystem"}
  /\ Changes \subseteq SUBSET {"in", "out"}
  /\ MaxAttempts \in Nat /\ MaxFaults \in Nat

\* The k-th surface a node opens.
Surface == Node \X (1..MaxAttempts + 1)
NoSurface == <<>>

\* A task's write scope allows "in".
Path == {"in", "out"}

VARIABLES
  provider,   \* WorkspaceRequirement::provider of the tasks
  pc,         \* where resolve of the node is
  home,       \* the engine that holds the node, named by its first node
  opened,     \* number of surfaces the node opened
  attempts,   \* ProblemNode::execution_attempts
  candidate,  \* the surface of ProblemNode::candidate
  accepted,   \* the surface of ProblemNode::accepted_artifact
  ids,        \* WorkspaceIds of each task
  name,       \* what the names of a surface's worktree and branch are made of
  state,      \* WorkspaceResource::state, "none" for what is not tracked
  refs,       \* WorkspaceResource::refs
  git,        \* worktrees and branches that exist in the repository
  holds,      \* per surface, the work its branch contains: node and path
  sha,        \* WorkspaceChange.git.commit_sha is Some
  listed,     \* WorkspaceChange::changed_paths
  faults,     \* git commands that failed
  excused,    \* history: the task had a failing agent, cancel or git command
  result      \* what run_with_cancel returned

nodeVars == <<pc, opened, attempts, candidate, accepted>>
changeVars == <<holds, sha, listed>>
registryVars == <<state, refs>>
vars == <<provider, nodeVars, home, ids, name, registryVars, git, changeVars,
          faults, excused, result>>

-----------------------------------------------------------------------------

Kind == {"worktree", "branch", "plain"}
Resource == Surface \X Kind

IsGit == provider = "GitFileSystem"

\* Memory and directory surfaces are one resource without anything to clean.
PlainKinds == {"plain"}

\* The resources of one surface.
KindsOpened == IF IsGit THEN {"worktree", "branch"} ELSE PlainKinds
OpenedBy(s) == {<<s, k>> : k \in KindsOpened}

\* WorkspaceChange::resource_ids: the branch outlives its worktree.
ChangeOf(s) == {<<s, k>> : k \in KindsOpened \ {"worktree"}}

Item(r) == [name |-> name[r[1]], kind |-> r[2]]

ParentOf(n) == CHOOSE p \in Node : \E i \in DOMAIN Tree[p] : Tree[p][i] = n

\* The task of n: the last one that began before n was inserted.
RootOf(n) == CHOOSE r \in Root : r <= n /\ \A q \in Root : q <= n => q <= r

IsBranch(n) == n \notin Root /\ home[n] = n

Finished == {"done", "none", "error", "aborted"}

\* The JoinSet this node's branch was spawned into is gone.
Aborted(n) ==
  home[n] \notin Root /\ pc[ParentOf(home[n])] \in {"error", "aborted", "dropping"}

Running(n, place) == pc[n] = place /\ ~Aborted(n) /\ result[RootOf(n)] = "none"

\* A branch whose future fails first drops its guard.
Failure(n) == IF IsBranch(n) THEN "dropping" ELSE "error"

Current(n) == <<n, opened[n]>>

IsCombine(n) == Tree[n] # <<>> /\ opened[n] = 1

Excuse(n) == excused' = [excused EXCEPT ![RootOf(n)] = TRUE]

Init ==
  /\ provider \in Providers
  /\ pc = [n \in Node |-> IF n \in Root THEN "specify" ELSE "idle"]
  /\ home = [n \in Node |-> RootOf(n)]
  /\ opened = [n \in Node |-> 0]
  /\ attempts = [n \in Node |-> 0]
  /\ candidate = [n \in Node |-> NoSurface]
  /\ accepted = [n \in Node |-> NoSurface]
  /\ ids = [r \in Root |-> [snapshot |-> 0, resource |-> 0]]
  /\ name = [s \in Surface |-> <<>>]
  /\ state = [r \in Resource |-> "none"]
  /\ refs = [r \in Resource |-> {}]
  /\ git = {}
  /\ holds = [s \in Surface |-> {}]
  /\ sha = [s \in Surface |-> FALSE]
  /\ listed = [s \in Surface |-> {}]
  /\ faults = 0
  /\ excused = [r \in Root |-> FALSE]
  /\ result = [r \in Root |-> "none"]

-----------------------------------------------------------------------------
(* The registry of an engine and its cleanup.                              *)

Owned(e, homes) == {r \in Resource : state[r] # "none" /\ homes[r[1][1]] = e}

Releasable_AnyState(e, homes, held) == {r \in Owned(e, homes) : held[r] = {}}

\* releasable_ids: no references, and Active.
Releasable(e, homes, held) ==
  {r \in Owned(e, homes) : state[r] = "Active" /\ held[r] = {}}

CheckedOut(s, gone) ==
  [name |-> name[s], kind |-> "worktree"] \in git /\ <<s, "worktree">> \notin gone

\* Cleaning up r after the resources in gone: what git refuses.
Refused(r, gone) ==
  /\ r[2] # "plain"
  /\ Item(r) \notin git \/ (r[2] = "branch" /\ CheckedOut(r[1], gone))

\* cleanup_releasable_resources goes through a hash map, in any order, marks
\* the first resource whose cleanup fails and returns its error.
CleanupResults(e, homes, held) ==
  LET todo == Releasable(e, homes, held)
      Done(gone) == {[gone |-> gone, failed |-> {}, fault |-> FALSE]}
      Stop(gone, r, fault) == {[gone |-> gone, failed |-> {r}, fault |-> fault]}
      Possible(gone) == \A r \in gone : ~Refused(r, gone)
  IN  UNION {IF gone = todo
             THEN Done(gone)
             ELSE UNION {(IF Refused(r, gone) THEN Stop(gone, r, FALSE) ELSE {})
                           \union (IF IsGit /\ faults < MaxFaults THEN Stop(gone, r, TRUE) ELSE {}) :
                         r \in todo \ gone} :
             gone \in {g \in SUBSET todo : Possible(g)}}

Cleaned_FailureForgotten(c) ==
  /\ state' = [r \in Resource |-> IF r \in c.gone \union c.failed THEN "Released" ELSE state[r]]
  /\ git' = git \ {Item(r) : r \in c.gone}
  /\ faults' = faults + (IF c.fault THEN 1 ELSE 0)

\* The registry and the repository after that cleanup.
Cleaned(c) ==
  /\ state' = [r \in Resource |->
                 CASE r \in c.gone -> "Released"
                   [] r \in c.failed -> "FailedCleanup"
                   [] OTHER -> state[r]]
  /\ git' = git \ {Item(r) : r \in c.gone}
  /\ faults' = faults + (IF c.fault THEN 1 ELSE 0)

\* An action of n that ends with cleanup_releasable_resources()?.
ThenCleanup(n, homes, held, places) ==
  \E c \in CleanupResults(homes[n], homes, held) :
    /\ Cleaned(c)
    /\ refs' = held
    /\ pc' = IF c.failed = {} THEN places ELSE [pc EXCEPT ![n] = Failure(n)]
    /\ IF c.fault THEN Excuse(n) ELSE UNCHANGED excused

-----------------------------------------------------------------------------
(* Surfaces.                                                               *)

\* open_surface and merge_changes take the ids of a worktree and a branch.
NextIds(n, snapshots) ==
  ids' = [ids EXCEPT ![RootOf(n)] =
            [snapshot |-> @.snapshot + snapshots,
             resource |-> @.resource + Cardinality(KindsOpened)]]

NameOf(n, snapshots) ==
  LET id == ids[RootOf(n)]
  IN  IF snapshots = 1 THEN <<"node", id.snapshot + 1, id.resource + 1>>
                       ELSE <<"merge", 0, id.resource + 1>>

\* A git command fails: fetch, rev-parse, worktree add, add, commit.
GitFails(n) ==
  /\ IsGit /\ faults < MaxFaults
  /\ faults' = faults + 1
  /\ pc' = [pc EXCEPT ![n] = Failure(n)]
  /\ Excuse(n)

\* A surface is opened and tracked under one reference, and the agent runs
\* on it; git refuses a worktree or a branch that exists.
OpenSurface(n, snapshots, held, tag) ==
  LET s == <<n, opened[n] + 1>>
      new == NameOf(n, snapshots)
      items == {[name |-> new, kind |-> k] : k \in {"worktree", "branch"}}
  IN
  /\ NextIds(n, snapshots)
  /\ IF IsGit /\ items \intersect git # {}
     THEN /\ pc' = [pc EXCEPT ![n] = Failure(n)]
          /\ refs' = held
          /\ UNCHANGED <<opened, name, state, git, faults, excused>>
     ELSE \/ /\ opened' = [opened EXCEPT ![n] = @ + 1]
             /\ name' = [name EXCEPT ![s] = new]
             /\ git' = IF IsGit THEN git \union items ELSE git
             /\ state' = [r \in Resource |-> IF r \in OpenedBy(s) THEN "Active" ELSE state[r]]
             /\ refs' = [r \in Resource |-> IF r \in OpenedBy(s) THEN {tag} ELSE held[r]]
             /\ pc' = [pc EXCEPT ![n] = "agent"]
             /\ UNCHANGED <<faults, excused>>
          \/ /\ GitFails(n)
             /\ refs' = held
             /\ UNCHANGED <<opened, name, state, git>>

Execute(n) ==
  /\ OpenSurface(n, 1, refs, "running")
  /\ UNCHANGED <<provider, home, attempts, candidate, accepted, changeVars, result>>

\* The first agent run of a node ends: a leaf executes, a group starts its
\* children, each with an engine of its own if the group is parallel.
Specified(n) ==
  /\ Running(n, "specify")
  /\ IF Tree[n] = <<>>
     THEN Execute(n)
     ELSE LET spawned == IF n \in Parallel THEN ToSet(Tree[n]) ELSE {Head(Tree[n])} IN
          /\ pc' = [m \in Node |-> CASE m = n -> "children"
                                     [] m \in spawned -> "specify"
                                     [] OTHER -> pc[m]]
          /\ home' = [m \in Node |->
                        IF m \in spawned /\ n \in Parallel THEN m
                        ELSE IF m \in spawned THEN home[n] ELSE home[m]]
          /\ UNCHANGED <<provider, opened, attempts, candidate, accepted, ids, name,
                         registryVars, git, changeVars, faults, excused, result>>

\* The agent fails or the run is cancelled.
AgentFails(n) ==
  /\ \E place \in {"specify", "agent", "verify"} : Running(n, place)
  /\ pc' = [pc EXCEPT ![n] = Failure(n)]
  /\ Excuse(n)
  /\ UNCHANGED <<provider, opened, attempts, candidate, accepted, home, ids, name,
                 registryVars, git, changeVars, faults, result>>

\* The references after an operation: the change keeps the branch as a
\* candidate, the surface and the inputs of a combine are let go.
Captured(n, s) ==
  [r \in Resource |->
     CASE r \in ChangeOf(s) -> {"candidate"}
       [] r \in OpenedBy(s) \ ChangeOf(s) -> {}
       [] IsCombine(n) /\ r \in UNION {ChangeOf(accepted[c]) : c \in ToSet(Tree[n])} ->
            refs[r] \ {"input"}
       [] OTHER -> refs[r]]

\* Only the git provider sees what was changed.
PathsSeen == IF IsGit THEN Changes ELSE {{}}

\* GitCli::commit_all: git add -A and a commit, whatever was changed.
CommitAll(tree) == [history |-> tree.history \union tree.dirty, dirty |-> {}]

\* GitCli::commit_write_scope: what is left, within the scope.
CommitWriteScope(tree) ==
  LET scoped == {d \in tree.dirty : d[2] = "in"}
  IN  [history |-> tree.history \union scoped, dirty |-> tree.dirty \ scoped]

\* The hook after a node's work; its errors are logged and dropped.
PostCompletionCommit(tree) == IF IsGit THEN CommitWriteScope(tree) ELSE tree

\* execute and combine after the agent: capture_changes, then the commit of
\* the write scope; the artifact becomes the candidate.
Produced(n) ==
  LET s == Current(n) IN
  /\ Running(n, "agent")
  /\ \/ /\ \E paths \in PathsSeen :
             /\ LET tree == [history |-> holds[s], dirty |-> {n} \X paths]
                IN  holds' = [holds EXCEPT ![s] = PostCompletionCommit(CommitAll(tree)).history]
             /\ sha' = [sha EXCEPT ![s] = paths # {}]
             /\ listed' = [listed EXCEPT ![s] = paths]
        /\ ids' = [ids EXCEPT ![RootOf(n)].resource = IF IsGit THEN @ + 1 ELSE @]
        /\ candidate' = [candidate EXCEPT ![n] = s]
        /\ attempts' = IF IsCombine(n) THEN attempts ELSE [attempts EXCEPT ![n] = @ + 1]
        /\ ThenCleanup(n, home, Captured(n, s), [pc EXCEPT ![n] = "verify"])
     \/ /\ GitFails(n)
        /\ UNCHANGED <<attempts, candidate, ids, registryVars, git, changeVars>>
  /\ UNCHANGED <<provider, opened, accepted, home, name, result>>

\* deterministic_verification_verdict on the provider's list of paths.
InScope(n) == listed[candidate[n]] \subseteq {"in"}

Verified(n) ==
  /\ Running(n, "verify")
  /\ InScope(n)
  /\ accepted' = [accepted EXCEPT ![n] = candidate[n]]
  /\ pc' = [pc EXCEPT ![n] = "done"]
  /\ UNCHANGED <<provider, opened, attempts, candidate, home, ids, name, registryVars,
                 git, changeVars, faults, excused, result>>

Rejected(n) ==
  /\ Running(n, "verify")
  /\ ~InScope(n) \/ attempts[n] >= MaxAttempts
  /\ pc' = [pc EXCEPT ![n] = "none"]
  /\ UNCHANGED <<provider, opened, attempts, candidate, accepted, home, ids, name,
                 registryVars, git, changeVars, faults, excused, result>>

\* handle_reject executes again, also a node that was combined.
Retried(n) ==
  /\ Running(n, "verify")
  /\ InScope(n) /\ attempts[n] < MaxAttempts
  /\ Execute(n)

-----------------------------------------------------------------------------
(* Groups.                                                                 *)

Joined(n, c) == n \notin Parallel \/ home[c] # c

\* combine: the accepted children are held as inputs; each branch that
\* reported a commit is merged, up to the first conflict.
Combine(n) ==
  LET inputs == UNION {ChangeOf(accepted[c]) : c \in ToSet(Tree[n])}
      held == [r \in Resource |-> IF r \in inputs THEN refs[r] \union {"input"} ELSE refs[r]]
      s == <<n, opened[n] + 1>>
      commits == {i \in DOMAIN Tree[n] : sha[accepted[Tree[n][i]]]}
  IN
  /\ OpenSurface(n, 0, held, "merge")
  /\ \E last \in DOMAIN Tree[n] :
       LET merged == {i \in commits : i <= last} IN
       /\ merged = {} => commits = {}
       /\ holds' = IF ~IsGit \/ opened' = opened THEN holds
                   ELSE [holds EXCEPT ![s] = UNION {holds[accepted[Tree[n][i]]] : i \in merged}]
  /\ UNCHANGED <<provider, attempts, candidate, accepted, home, sha, listed, result>>

\* git merge fails without conflicts: the new worktree was never tracked.
MergeFails(n) ==
  LET new == NameOf(n, 0) IN
  /\ git' = git \union {[name |-> new, kind |-> k] : k \in {"worktree", "branch"}}
  /\ GitFails(n)
  /\ NextIds(n, 0)
  /\ UNCHANGED <<provider, opened, attempts, candidate, accepted, home, name,
                 registryVars, changeVars, result>>

AllJoined(n) == \A c \in ToSet(Tree[n]) : pc[c] \in {"done", "none"} /\ Joined(n, c)

\* Every child has an accepted artifact.
GroupDone(n) ==
  /\ Running(n, "children")
  /\ AllJoined(n)
  /\ \A c \in ToSet(Tree[n]) : accepted[c] # NoSurface
  /\ Combine(n) \/ MergeFails(n)

\* A child of the group was not accepted: the node ends without artifact.
GroupBlocked(n) ==
  /\ Running(n, "children")
  /\ \E c \in ToSet(Tree[n]) : pc[c] = "none"
  /\ n \in Parallel => AllJoined(n)
  /\ pc' = [pc EXCEPT ![n] = "none"]
  /\ UNCHANGED <<provider, opened, attempts, candidate, accepted, home, ids, name,
                 registryVars, git, changeVars, faults, excused, result>>

\* The next child of a stage.
StageNext(n) ==
  /\ Running(n, "children") /\ n \notin Parallel
  /\ \E i \in 1..Len(Tree[n]) - 1 :
       /\ pc[Tree[n][i]] = "done" /\ pc[Tree[n][i + 1]] = "idle"
       /\ pc' = [pc EXCEPT ![Tree[n][i + 1]] = "specify"]
       /\ home' = [home EXCEPT ![Tree[n][i + 1]] = home[n]]
  /\ UNCHANGED <<provider, opened, attempts, candidate, accepted, ids, name,
                 registryVars, git, changeVars, faults, excused, result>>

\* A child fails: a stage child in the same future, a parallel one when it
\* is joined.
GroupFails(n) ==
  /\ Running(n, "children")
  /\ \E c \in ToSet(Tree[n]) : pc[c] = "error"
  /\ pc' = [pc EXCEPT ![n] = Failure(n)]
  /\ UNCHANGED <<provider, opened, attempts, candidate, accepted, home, ids, name,
                 registryVars, git, changeVars, faults, excused, result>>

Handover_LosesRefs(c) ==
  [r \in Resource |-> IF home[r[1][1]] = c THEN {} ELSE refs[r]]

\* remap_workspace_resource: ids change, references stay.
Handover(c) == refs

\* A branch that returned is joined: its registry goes to the parent's.
Join(n, c) ==
  /\ Running(n, "children")
  /\ c \in ToSet(Tree[n]) /\ n \in Parallel
  /\ pc[c] \in {"done", "none"} /\ home[c] = c
  /\ home' = [m \in Node |-> IF home[m] = c THEN home[n] ELSE home[m]]
  /\ ThenCleanup(n, home', Handover(c), pc)
  /\ UNCHANGED <<provider, opened, attempts, candidate, accepted, ids, name,
                 changeVars, result>>

-----------------------------------------------------------------------------
(* Failure of a branch and end of a run.                                   *)

\* BranchEngineGuard::drop: every Active resource once, in any order; what
\* fails is logged.  A branch may be tried before its worktree is gone.
GuardCleans(c) ==
  LET active == {r \in Owned(c, home) : state[r] = "Active"} IN
  \E gone \in SUBSET active :
    /\ \A r \in gone : ~Refused(r, gone)
    /\ \A r \in active \ gone :
         r[2] = "branch" /\ [name |-> name[r[1]], kind |-> "worktree"] \in git
    /\ git' = git \ {Item(r) : r \in gone}
    /\ state' = [r \in Resource |-> IF r \in Owned(c, home) THEN "none" ELSE state[r]]

\* The future of a branch ends with an error ...
DropFailed(c) ==
  /\ pc[c] = "dropping"
  /\ GuardCleans(c)
  /\ pc' = [pc EXCEPT ![c] = "error"]
  /\ UNCHANGED <<provider, opened, attempts, candidate, accepted, home, ids, name, refs,
                 changeVars, faults, excused, result>>

\* ... or is dropped because its JoinSet is: what it runs inline goes too.
DropAborted(c) ==
  /\ IsBranch(c) /\ Aborted(c) /\ pc[c] \notin Finished \union {"dropping"}
  /\ GuardCleans(c)
  /\ pc' = [m \in Node |->
              IF home[m] = c /\ pc[m] \notin Finished THEN "aborted" ELSE pc[m]]
  /\ UNCHANGED <<provider, opened, attempts, candidate, accepted, home, ids, name, refs,
                 changeVars, faults, excused, result>>

AllLetGo_CandidatesStay(r) ==
  [x \in Resource |-> IF x \in Owned(r, home) THEN refs[x] \intersect {"candidate"} ELSE refs[x]]

AllLetGo(r) == [x \in Resource |-> IF x \in Owned(r, home) THEN {} ELSE refs[x]]

\* run_with_cancel: release_all_refs, cleanup; an error of the run comes
\* before an error of the cleanup.
EndRun(r) ==
  /\ pc[r] \in {"done", "none", "error"} /\ result[r] = "none"
  /\ \E c \in CleanupResults(r, home, AllLetGo(r)) :
       /\ Cleaned(c)
       /\ refs' = AllLetGo(r)
       /\ result' = [result EXCEPT ![r] =
                       IF pc[r] = "error" \/ c.failed # {} THEN "error" ELSE "ok"]
       /\ IF c.fault THEN Excuse(r) ELSE UNCHANGED excused
  /\ UNCHANGED <<provider, nodeVars, home, ids, name, changeVars>>

Next ==
  \/ \E n \in Node :
       \/ Specified(n) \/ AgentFails(n) \/ Produced(n)
       \/ Verified(n) \/ Rejected(n) \/ Retried(n)
       \/ GroupDone(n) \/ GroupBlocked(n) \/ StageNext(n) \/ GroupFails(n)
       \/ DropFailed(n) \/ DropAborted(n)
       \/ \E c \in Node : Join(n, c)
  \/ \E r \in Root : EndRun(r)

Spec == Init /\ [][Next]_vars

-----------------------------------------------------------------------------
(* Properties.                                                             *)

\* The engine that holds n goes on.
Alive(n) ==
  /\ result[RootOf(n)] = "none" /\ ~Aborted(n)
  /\ pc[home[n]] \notin {"dropping", "error", "aborted"}

Name == {<<>>} \union ({"node", "merge"} \X Nat \X Nat)

TypeOK ==
  /\ provider \in Providers
  /\ pc \in [Node -> {"idle", "specify", "agent", "verify", "children", "dropping"} \union Finished]
  /\ home \in [Node -> Node]
  /\ opened \in [Node -> 0..MaxAttempts + 1]
  /\ attempts \in [Node -> 0..MaxAttempts + 1]
  /\ candidate \in [Node -> Surface \union {NoSurface}]
  /\ accepted \in [Node -> Surface \union {NoSurface}]
  /\ ids \in [Root -> [snapshot : Nat, resource : Nat]]
  /\ name \in [Surface -> Name]
  /\ state \in [Resource -> {"none", "Active", "Released", "FailedCleanup"}]
  /\ refs \in [Resource -> SUBSET {"running", "merge", "candidate", "input"}]
  /\ git \subseteq [name : Name, kind : {"worktree", "branch"}]
  /\ holds \in [Surface -> SUBSET (Node \X Path)]
  /\ sha \in [Surface -> BOOLEAN] /\ listed \in [Surface -> SUBSET Path]
  /\ faults \in 0..MaxFaults
  /\ excused \in [Root -> BOOLEAN]
  /\ result \in [Root -> {"none", "ok", "error"}]

\* What the registries of live engines say of git is true: an Active
\* resource exists, a Released one is gone, through joins and retries.
RegistryAgreesWithGit ==
  \A r \in Resource : r[2] # "plain" /\ Alive(r[1][1]) =>
    /\ state[r] = "Active" => Item(r) \in git
    /\ state[r] = "Released" => Item(r) \notin git

\* The branch of a candidate or accepted artifact exists as long as the
\* run may still verify or merge it.
CandidatesKeepTheirBranch ==
  IsGit => \A n \in Node : Alive(n) =>
    \A s \in {candidate[n], accepted[n]} \ {NoSurface} :
      [name |-> name[s], kind |-> "branch"] \in git

\* A run that returns a report leaves no worktree and no branch.
ReportLeavesNothing ==
  (\A r \in Root : result[r] = "ok") => git = {}

\* A run fails only if an agent, a cancel or a git command did: the engine
\* never cleans up a resource twice, too early or in an order git refuses.
FailuresHaveCause == \A r \in Root : result[r] = "error" => excused[r]

-----------------------------------------------------------------------------
(* What the repository says and the code does not do.                      *)

\* "combine = create integration worktree and merge accepted branch deltas".
CombineKeepsAcceptedWork ==
  \A n \in Node : accepted[n] # NoSurface =>
    \A c \in ToSet(Tree[n]) : holds[accepted[c]] \subseteq holds[accepted[n]]

\* "workspace resources are deterministically cleaned up even if the branch
\* panics or errors".
FailedBranchLeavesNothing ==
  \A c \in Node : IsBranch(c) /\ pc[c] \in {"error", "aborted"} =>
    \A s \in Surface : s[1] = c => \A i \in git : i.name # name[s]

\* "ensures that changes outside the write scope are not included in the
\* commit history".
CommitsStayInScope == \A s \in Surface : holds[s] \subseteq Node \X {"in"}
=============================================================================

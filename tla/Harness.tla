------------------------------- MODULE Harness -------------------------------
(***************************************************************************)
(* The contract between the engine and an agent run                        *)
(* (src/task_run/harness.rs, tools.rs, governance.rs, node.rs): what a run *)
(* is asked with, and what its terminal call is taken for.                 *)
(*                                                                         *)
(* Prompts are left out.  The arguments of a terminal call either fit the  *)
(* tool's schema, as a record, or are Garbled.                             *)
(***************************************************************************)
EXTENDS Naturals, Sequences, FiniteSets, SequencesExt

CONSTANTS
  None,       \* Option::None
  Garbled,    \* arguments the schema of the tool refuses
  Slug(_)     \* plan_item_key of a title: <<>> when no letter or digit is left

Operation == {"Specify", "Plan", "Execute", "Combine", "Verify"}

\* One terminal tool for each operation; Commit is the engine's own.
ToolFor ==
  [Specify |-> "submit_specification", Plan |-> "submit_plan_group",
   Execute |-> "submit_work", Combine |-> "submit_combination",
   Verify |-> "submit_verdict"]

EngineTool == {ToolFor[op] : op \in Operation}

ToolsForOperation(op) == {ToolFor[op]}

GovernanceLayerFor(op) ==
  CASE op \in {"Specify", "Plan"} -> "Plan"
    [] op \in {"Execute", "Combine"} -> "Execute"
    [] op = "Verify" -> "Verify"

ActiveHardGatesFor ==
  [Specify |-> {},
   Plan    |-> {"ArchEscape", "ParallelDependency", "SynthesisChild", "ScopeWiden", "Protocol"},
   Execute |-> {"ArchEscape", "ScopeWiden", "Protocol", "CheckFail"},
   Combine |-> {"UnsupportedFact", "Protocol", "CheckFail"},
   Verify  |-> {"PassWithHardViolation", "Protocol", "CheckFail"}]

RuntimeProfile(op, hasSurface, provider) ==
  IF op = "Specify" \/ (op = "Verify" /\ ~hasSurface) \/ provider = "Memory"
  THEN "General" ELSE "Code"

Effort(op) == IF op = "Plan" THEN "Max" ELSE None

-----------------------------------------------------------------------------
(* Sizes and task types.                                                   *)

WorkSize == <<"Tiny", "Small", "Medium", "Large", "XLarge">>

AtLeast(size, threshold) ==
  \E i, j \in DOMAIN WorkSize : WorkSize[i] = size /\ WorkSize[j] = threshold /\ i >= j

DefaultPolicyPack ==
  [Explore |-> [decompose |-> TRUE, threshold |-> "Large"],
   Exploit |-> [decompose |-> TRUE, threshold |-> "Medium"],
   Refine  |-> [decompose |-> FALSE, threshold |-> "Large"],
   Verify  |-> [decompose |-> FALSE, threshold |-> "Large"]]

\* Both of the code's routes plan at the threshold; a group is kept.
PlanFromScopeAssessment(size, plan, pack, allowDecompose) ==
  LET split == IF plan \in {"Stage", "Parallel"} THEN plan ELSE "NeedsPlanning" IN
    IF pack.decompose /\ allowDecompose /\ AtLeast(size, pack.threshold) THEN split
    ELSE IF AtLeast(size, pack.threshold) THEN split ELSE "Execute"

-----------------------------------------------------------------------------
(* The terminal tools.                                                     *)

FailureClass ==
  {"missing_info", "spec_ambiguity", "incomplete_output", "bad_output",
   "unsafe_side_effect", "merge_conflict", "budget_exhausted"}

\* Every spelling of a class is the class.
ParseFailureClass(class) == IF class \in FailureClass THEN class ELSE "bad_output"

IntoVerdict_TakesAccept(args) ==
  CASE args.verdict = "accept" -> [verdict |-> "Accept"]
    [] args.verdict = "reject" ->
         [verdict |-> "Reject", class |-> ParseFailureClass(args.failureClass)]
    [] args.verdict = "need_information" -> [verdict |-> "Uncertain"]

\* An accept that lists hard violations is a reject.
IntoVerdict(args) ==
  CASE args.verdict = "accept" /\ args.hardViolations # {} ->
         [verdict |-> "Reject", class |-> "bad_output"]
    [] args.verdict = "accept" /\ args.hardViolations = {} -> [verdict |-> "Accept"]
    [] args.verdict = "reject" ->
         [verdict |-> "Reject", class |-> ParseFailureClass(args.failureClass)]
    [] args.verdict = "need_information" -> [verdict |-> "Uncertain"]

\* Without a key an item is named after its title, intent or description,
\* whichever it has first, or its position.  title stands for it.
PlanItemKey(title, index) == IF Slug(title) = <<>> THEN <<"item", index>> ELSE Slug(title)

OrElse(option, default) == IF option = None THEN default ELSE option

IntoNodeTemplate(item, index) ==
  [key |-> OrElse(item.key, PlanItemKey(item.title, index)),
   size |-> "Small", plan |-> "Execute",
   policy |-> OrElse(item.policy, "Explore"),
   taskType |-> OrElse(item.taskType, "Explore"),
   readScope |-> item.readScope, writeScope |-> item.writeScope]

SubmitPlanGroup(args) ==
  CASE args.items = <<>> -> [kind |-> "InvalidPlan", code |-> "protocol"]
    [] /\ args.items # <<>> /\ args.mode = "Parallel"
       /\ \E i \in DOMAIN args.items : args.items[i].requiresPrior ->
         [kind |-> "InvalidPlan", code |-> "parallel_dependency"]
    [] OTHER ->
         [kind |-> "Planned", mode |-> args.mode,
          items |-> [i \in DOMAIN args.items |-> IntoNodeTemplate(args.items[i], i)]]

Submit(tool, args) ==
  CASE tool = "submit_specification" -> [kind |-> "Specified", size |-> args.size]
    [] tool = "submit_plan_group" -> SubmitPlanGroup(args)
    [] tool = "submit_work" -> [kind |-> "Executed", changed |-> args.changed]
    [] tool = "submit_combination" -> [kind |-> "Combined"]
    [] tool = "submit_verdict" -> [kind |-> "Verified", verdict |-> IntoVerdict(args)]

-----------------------------------------------------------------------------
(* What the response of a run is taken for.                                *)

Failure(why) == [kind |-> "DecodeError", why |-> why]

DecodeResult_AnyTool(op, response) ==
  CASE response.call = None -> Failure("no terminal tool")
    [] response.call # None /\ response.args = Garbled -> Failure("payload is invalid")
    [] OTHER -> Submit(response.call, response.args)

\* decode_result: only a tool of the operation, with arguments that fit it.
DecodeResult(op, response) ==
  CASE response.call = None ->
         Failure(IF response.failed THEN "agent run failed" ELSE "no terminal tool")
    [] response.call # None /\ response.call \notin ToolsForOperation(op) ->
         Failure("unexpected terminal tool")
    [] response.call \in ToolsForOperation(op) /\ response.args = Garbled ->
         Failure("payload is invalid")
    [] OTHER -> Submit(response.call, response.args)
=============================================================================

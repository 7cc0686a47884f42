----------------------------- MODULE MCPlanning -----------------------------
(* The instance of Planning that is model-checked.                         *)
EXTENDS Planning

CONSTANT Heading  \* a title without letters or digits

SlugOf(title) == IF title = Heading THEN <<>> ELSE <<title>>

Dir(name) == <<name>>

Everywhere == {Everything}

SrcTree == <<Dir("s"), AnyDepth>>
SrcFile == <<Dir("s"), Dir("x")>>
SrcFlat == <<Dir("s"), <<"*">>>>
Other == <<Dir("t")>>

SomePaths == {SrcFile, <<Dir("s"), Dir("x"), Dir("y")>>, <<Dir("s")>>, Other}

Item(title, scope) ==
  [key |-> None, title |-> title, policy |-> None, taskType |-> None,
   readScope |-> scope, writeScope |-> scope, requiresPrior |-> FALSE]

Inherits == Item("a", {})
Tree == [Item("b", {SrcTree}) EXCEPT !.policy = "Implement", !.taskType = "Exploit"]
Mixed == [Item(Heading, {SrcFile, Other}) EXCEPT !.key = <<"b">>, !.requiresPrior = TRUE]
Flat == Item(Heading, {SrcFlat})

SomePlans ==
  {[mode |-> "Parallel", items |-> <<>>],
   [mode |-> "Parallel", items |-> <<Tree, Mixed>>],
   [mode |-> "Parallel", items |-> <<Inherits, Tree>>],
   [mode |-> "Stage", items |-> <<Tree, Mixed>>],
   [mode |-> "Stage", items |-> <<Mixed>>],
   [mode |-> "Parallel", items |-> <<Flat>>]}

\* A child of `s/*` that asks for `s/**`.
WideningPlans ==
  {[mode |-> "Parallel", items |-> <<Flat>>], [mode |-> "Stage", items |-> <<Tree>>]}

SomeSizes == [size : {"Tiny", "Medium", "Large"}]

SomeWork == [changed : BOOLEAN]

SomeVerdicts ==
  [verdict : {"accept"}, hardViolations : {{}, {"G-CHECK-FAIL"}}]
    \union [verdict : {"reject"}, failureClass : {"unsafe_side_effect", "other"}]
    \union {[verdict |-> "need_information"]}

Widths == <<2, 1, 1>>
=============================================================================

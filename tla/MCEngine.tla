------------------------------ MODULE MCEngine ------------------------------
(* Model-checking instances of Engine.                                     *)
EXTENDS Engine

\* Text without changes, a change of any one path, and empty text.
SomeOutput ==
  {[ok |-> FALSE, paths |-> {}], [ok |-> TRUE, paths |-> {}]}
    \union {[ok |-> TRUE, paths |-> {p}] : p \in Path}

\* Text without changes only.
PlainOutput == {[ok |-> TRUE, paths |-> {}]}
=============================================================================

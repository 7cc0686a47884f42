----------------------------- MODULE WriteScope -----------------------------
(***************************************************************************)
(* Scopes: sets of glob patterns over '/'-separated paths, the matcher of  *)
(* src/workspace/mod.rs, and the rule of src/task_run/engine.rs by which a *)
(* planned child takes or narrows the scopes of its parent.                *)
(*                                                                         *)
(* A pattern and a path are sequences of segments, a segment is a sequence *)
(* of characters.  The matchers are recursive functions of the two        *)
(* positions, as the code's recursion has them.                            *)
(***************************************************************************)
EXTENDS Naturals, Sequences, FiniteSets

\* What split('/') gives: a segment at least.
Segmented == Seq(Seq(STRING)) \ {<<>>}

AnyDepth == <<"*", "*">>
Everything == <<AnyDepth, <<"*">>>>

\* segment_chars_match: whether the rest of the pattern from p on matches the
\* rest of the segment from s on.  `*` takes any characters, `?` one.
SegmentCharsMatch(pattern, segment) ==
  LET m[p \in 1..(Len(pattern) + 1)] ==
        [s \in 1..(Len(segment) + 1) |->
           IF p > Len(pattern) THEN s > Len(segment)
           ELSE IF pattern[p] = "*" THEN \E t \in s..(Len(segment) + 1) : m[p + 1][t]
           ELSE /\ s <= Len(segment)
                /\ pattern[p] \in {"?", segment[s]}
                /\ m[p + 1][s + 1]]
  IN  m

SegmentMatch(pattern, segment) == SegmentCharsMatch(pattern, segment)[1][1]

\* segments_match, likewise: `**` takes any segments, none included.
SegmentsMatch(pattern, path) ==
  LET m[p \in 1..(Len(pattern) + 1)] ==
        [s \in 1..(Len(path) + 1) |->
           IF p > Len(pattern) THEN s > Len(path)
           ELSE IF s > Len(path) THEN \A q \in p..Len(pattern) : pattern[q] = AnyDepth
           ELSE IF pattern[p] = AnyDepth THEN \E t \in s..(Len(path) + 1) : m[p + 1][t]
           ELSE SegmentMatch(pattern[p], path[s]) /\ m[p + 1][s + 1]]
  IN  m

GlobMatches(pattern, path) == SegmentsMatch(pattern, path)[1][1]

PathAllowed(patterns, path) == \E p \in patterns : GlobMatches(p, path)

-----------------------------------------------------------------------------

\* The child's pattern is matched as if it were a path.
ParentScopeAllowsChild(parent, child) ==
  parent = Everything \/ parent = child \/ PathAllowed({parent}, child)

ScopeAllowedByParent(child, parents) == \E p \in parents : ParentScopeAllowsChild(p, child)

WithinParent_Some(children, parents) ==
  children = {} \/ \E c \in children : ScopeAllowedByParent(c, parents)

\* ensure_child_scopes_within_parent; an item without scopes takes its parent's.
WithinParent(children, parents) == \A c \in children : ScopeAllowedByParent(c, parents)

InheritScope(child, parent) == IF child = {} THEN parent ELSE child

\* The paths among `universe` a scope allows.
Allowed(patterns, universe) == {p \in universe : PathAllowed(patterns, p)}
=============================================================================

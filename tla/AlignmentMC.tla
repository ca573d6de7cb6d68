----------------------------- MODULE AlignmentMC -----------------------------
(***************************************************************************)
(* Two shapes of one trace are aligned, then again with two sibling roots of  *)
(* the left one written in the other order.                                  *)
(***************************************************************************)
EXTENDS Alignment

SmallTexts ==
  [name \in 1..4 |-> [verb |-> "", capital |-> FALSE, slash |-> FALSE, segments |-> <<name>>]]

Node(name, children) ==
  Span([name |-> name, kind |-> 0, status |-> 0, http |-> 0, scope |-> 0, children |-> children])

Leaf(name) == Node(name, <<>>)
Choice(one, other) == OneOf(<<Leaf(one), Leaf(other)>>)

\* Siblings of one name, told apart by what is below them.
Siblings ==
  {<<Node(4, <<Choice(1, 2)>>), Node(4, <<Choice(1, 3)>>)>>,
   <<Node(4, <<Node(1, <<Leaf(2)>>), Leaf(3)>>), Node(4, <<Node(1, <<Leaf(2), Leaf(3)>>)>>)>>}

Counterparts == {<<Node(4, <<Choice(2, 3)>>)>>, <<Node(4, <<Node(1, <<Leaf(2)>>)>>)>>}

CONSTANT CompareShapes(_, _)  \* the comparison of two shapes: Compare

VARIABLES
  left, right,  \* the roots of the two traces
  shown         \* the rows seen so far, each alignment as a bag of rows

vars == <<left, right, shown>>

Rows(leftRoots, rightRoots) ==
  LET one(roots) == ParseScenarioShape(<<Trace(0, roots)>>)
      rows == Once(CompareShapes(one(leftRoots), one(rightRoots)).alignment[1].spans)
  IN [row \in ToSet(rows) |-> Occurrences(rows, row)]

Init == left \in Siblings /\ right \in Counterparts /\ shown = {}

Align ==
  /\ shown' = shown \cup {Rows(left, right)}
  /\ UNCHANGED <<left, right>>

Swap ==
  /\ shown # {}
  /\ left' = <<left[2], left[1]>>
  /\ UNCHANGED <<right, shown>>

Spec == Init /\ [][Align \/ Swap]_vars

\* The rows of an alignment do not depend on the order in which sibling spans
\* are written: spans of equal keys "describe the same rendered value, so
\* retaining their original relative order cannot change the report"
\* (canonicalMaximumWeightMaximumCardinalityPairs).
SiblingOrderIsImmaterial == Cardinality(shown) <= 1
=============================================================================

---------------------------- MODULE FeatureReport ----------------------------
(***************************************************************************)
(* The report command together with the alignment of shapes it shows for     *)
(* every two profiles (CompareShapes is Compare of Alignment), and what the   *)
(* rows of an alignment promise.                                             *)
(***************************************************************************)
EXTENDS ReportCommand, Alignment

Bare(node) == [node EXCEPT !.children = <<>>]

\* A forest: every tree in it with its number of occurrences.
Forest(trees) == [one \in ToSet(trees) |-> Occurrences(trees, one)]

Selections(groups, Options(_)) ==
  {choice \in [DOMAIN groups -> UNION {Options(groups[g]) : g \in DOMAIN groups}] :
     \A g \in DOMAIN groups : choice[g] \in Options(groups[g])}

\* The trees a group may stand for, one for every way to choose.
RECURSIVE Readings(_)

Readings(group) ==
  IF group.alternatives # <<>>
  THEN UNION {Readings(group.alternatives[a]) : a \in DOMAIN group.alternatives}
  ELSE {[node |-> Bare(group.body), children |-> Forest(children)] :
          children \in Selections(group.body.children, Readings)}

RECURSIVE TraceReadings(_)

TraceReadings(group) ==
  IF group.alternatives # <<>>
  THEN UNION {TraceReadings(group.alternatives[a]) : a \in DOMAIN group.alternatives}
  ELSE {Forest(roots) : roots \in Selections(group.body.roots, Readings)}

\* The positions of the rows at the top, and the rows below one of them.
Tops(rows) == {i \in DOMAIN rows : rows[i].depth = rows[1].depth}

Below(rows, top) ==
  LET next == Min({i \in Tops(rows) : i > top} \cup {Len(rows) + 1})
  IN SubSeq(rows, top + 1, next - 1)

RECURSIVE Rebuilt(_, _)

\* The forest that the rows of a side describe.
Rebuilt(rows, side) ==
  LET treeAt(top) == [node |-> Bare(rows[top][side].node), children |-> Rebuilt(Below(rows, top), side)]
  IN Forest([i \in 1..Cardinality(Tops(rows)) |-> treeAt(SetToSortSeq(Tops(rows), <)[i])])

SideRows(rows, side) ==
  SelectSeq(rows, LAMBDA row : row.kind # (IF side = "left" THEN "right_only" ELSE "left_only"))

Sides == {"left", "right"}

\* The matches that show a trace group of a side.
Showing(alignment, side, group) ==
  {m \in DOMAIN alignment : alignment[m][side].index = group}
-----------------------------------------------------------------------------
(* The best that two lists of groups can be worth, over every way to choose   *)
(* among the alternatives of both and every way to pair what was chosen: as   *)
(* many pairs as possible, of these the highest scores.                       *)
Many == 1000000

RECURSIVE BestWorth(_, _)

BestWorth(leftGroups, rightGroups) ==
  LET options(candidates) == ToSet(candidates)
      worth(left, right) ==
        LET children == BestWorth(left.childGroups, right.childGroups)
        IN ShallowScore(left, right) + 1000 * (children \div Many) + (children % Many)
      scores(left, right) ==
        Once([pair \in {pair \in Positions(left, right) :
                          ShallowScore(left[pair[1]], right[pair[2]]) >= 0} |->
                worth(left[pair[1]], right[pair[2]])])
  IN Max({Max({Many * Cardinality(pairs) + Total(score, pairs) :
                 pairs \in Matchings([score |-> score])}) :
            score \in {scores(left, right) : left \in Selections(leftGroups, options),
                                             right \in Selections(rightGroups, options)}})

RECURSIVE Worth(_)

\* What the rows of an alignment are worth.
Worth(rows) ==
  LET pairs == {top \in Tops(rows) : rows[top].kind = "matched"}
      score == [top \in pairs |->
                  LET children == Worth(Below(rows, top))
                  IN ShallowScore(rows[top].left, rows[top].right)
                       + 1000 * (children \div Many) + (children % Many)]
  IN Many * Cardinality(pairs) + Total(score, pairs)

RECURSIVE WithinLimits(_, _)

WithinLimits(leftGroups, rightGroups) ==
  /\ Len(leftGroups) + Len(rightGroups) <= OptimalLimit
  /\ \A l \in DOMAIN leftGroups, r \in DOMAIN rightGroups :
       \A a \in DOMAIN leftGroups[l], b \in DOMAIN rightGroups[r] :
         LET left == leftGroups[l][a].childGroups
             right == rightGroups[r][b].childGroups
         IN Len(left) + Len(right) <= NestedLimit /\ WithinLimits(left, right)
-----------------------------------------------------------------------------
Compared == IF report.written THEN DOMAIN report.comparisons ELSE {}

ShapeAt(at, side) ==
  command.shapes[<<Profiles[IF side = "left" THEN at[1] ELSE at[2]], at[3]>>]

\* The rows of a comparison account for both shapes: each trace of a shape is
\* shown once, and the rows of its side are exactly one reading of it, no span
\* lost, repeated or moved below another, whichever alternatives were chosen and
\* however the spans were paired, within the limits and beyond them.
EachSpanOnce ==
  \A at \in Compared : \A side \in Sides :
    LET traces == ShapeAt(at, side).traces
        alignment == report.comparisons[at].alignment
    IN \A group \in DOMAIN traces :
         /\ Cardinality(Showing(alignment, side, group)) = 1
         /\ \A m \in Showing(alignment, side, group) :
              Rebuilt(SideRows(alignment[m].spans, side), side) \in TraceReadings(traces[group])

\* Two traces that are matched show as many paired roots as any choice of
\* alternatives allows, and, up to the limits, the choices and pairs at every
\* depth are together worth as much as the best joint choice for both sides:
\* choosing on one side first, or a list at a time, falls short of it.
Coordinated ==
  \A at \in Compared :
    \A m \in DOMAIN report.comparisons[at].alignment :
      LET match == report.comparisons[at].alignment[m]
          candidates(side) ==
            ToSet(TraceGroupCandidates(1, ShapeAt(at, side).traces[match[side].index]))
          worth == Worth(match.spans)
      IN match.kind = "matched" =>
           \E left \in candidates("left"), right \in candidates("right") :
             LET best == Once(BestWorth(left.rootGroups, right.rootGroups))
             IN /\ worth \div Many = best \div Many
                /\ WithinLimits(left.rootGroups, right.rootGroups) => worth = best
=============================================================================

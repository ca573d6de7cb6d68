---------------------------- MODULE ScenarioShape ----------------------------
(***************************************************************************)
(* The trace shapes a scenario is authored with (report/report/scheme.go):    *)
(* what ParseScenarioShape makes of the forms span, trace, repeat, between,   *)
(* optional and one-of.  A group of spans and a group of traces are built the *)
(* same way, so both are records with a body: a span's node, or a trace's     *)
(* coverage and roots.  The strings of both are numbers, 0 the empty one.     *)
(***************************************************************************)
EXTENDS Integers, Sequences, SequencesExt, FiniteSetsExt, Functions

\* The body of a group that is a choice.
NoBody == [children |-> <<>>]

Single(body) ==
  [alternatives |-> <<>>, cardinality |-> "", count |-> 1, exact |-> TRUE,
   min |-> 1, max |-> 1, body |-> body]

Span(node) == Single(node)

UnknownCoverage == 1

Trace(coverage, roots) ==
  Single([coverage |-> IF coverage = 0 THEN UnknownCoverage ELSE coverage, roots |-> roots])

Bounds(group) ==
  IF group.exact THEN <<group.count, group.count>> ELSE <<group.min, group.max>>

ApplyCardinality(group, cardinality, minimum, maximum) ==
  LET bounds == Bounds(group)
      low == minimum * bounds[1]
      high == maximum * bounds[2]
      exact == minimum = maximum /\ group.exact
  IN IF group.alternatives = <<>>
     THEN [group EXCEPT !.min = low, !.max = high, !.exact = exact,
                        !.count = IF exact THEN low ELSE 0,
                        !.cardinality = IF exact THEN @ ELSE cardinality]
     ELSE [alternatives |-> <<group>>, cardinality |-> cardinality, count |-> 0,
           exact |-> FALSE, min |-> low, max |-> high, body |-> NoBody]

Repeat(count, group) == ApplyCardinality(group, "repeat", count, count)
Between(minimum, maximum, group) == ApplyCardinality(group, "between", minimum, maximum)
Optional(group) == ApplyCardinality(group, "optional", 0, 1)

OneOf(alternatives) ==
  [alternatives |-> alternatives, cardinality |-> "one_of", count |-> 0, exact |-> FALSE,
   min |-> Min({Bounds(alternatives[a])[1] : a \in DOMAIN alternatives}),
   max |-> Max({Bounds(alternatives[a])[2] : a \in DOMAIN alternatives} \cup {0}),
   body |-> NoBody]
-----------------------------------------------------------------------------
(* The totals of a shape every count of which is exact.                      *)
RECURSIVE Exact(_), Accumulated(_, _)

Exact(group) ==
  /\ group.exact
  /\ group.alternatives = <<>>
  /\ \A c \in DOMAIN group.body.children : Exact(group.body.children[c])

\* accumulateSpan: every span below the group with how often it occurs.
Accumulated(group, parentMultiplier) ==
  LET multiplier == parentMultiplier * group.count
      children == group.body.children
  IN <<[node |-> group.body, times |-> multiplier]>>
       \o FlattenSeq([c \in DOMAIN children |-> Accumulated(children[c], multiplier)])

Times(spans, Wanted(_)) ==
  LET times == [s \in DOMAIN spans |-> IF Wanted(spans[s].node) THEN spans[s].times ELSE 0]
  IN SumFunction(times)

Counts(spans, Field(_)) ==
  [value \in {Field(spans[s].node) : s \in DOMAIN spans} \ {0} |->
     Times(spans, LAMBDA node : Field(node) = value)]

ParseScenarioShape(traces) ==
  LET exactCounts ==
        \A t \in DOMAIN traces :
          /\ traces[t].exact
          /\ \A r \in DOMAIN traces[t].body.roots : Exact(traces[t].body.roots[r])
      spans ==
        IF exactCounts
        THEN FlattenSeq([t \in DOMAIN traces |->
               FlattenSeq([r \in DOMAIN traces[t].body.roots |->
                 Accumulated(traces[t].body.roots[r], traces[t].count)])])
        ELSE <<>>
  IN [traces |-> traces,
      exactCounts |-> exactCounts,
      traceCount |-> IF exactCounts THEN SumFunction([t \in DOMAIN traces |-> traces[t].count]) ELSE 0,
      spanCount |-> Times(spans, LAMBDA node : TRUE),
      scopes |-> Counts(spans, LAMBDA node : node.scope),
      statuses |-> Counts(spans, LAMBDA node : node.status)]

\* mergeDelta, once for each side: the values whose counts differ.
Delta(left, right) ==
  LET count(counts, value) == IF value \in DOMAIN counts THEN counts[value] ELSE 0
      values == DOMAIN left \cup DOMAIN right
      difference == [value \in values |-> count(right, value) - count(left, value)]
  IN Restrict(difference, {value \in values : difference[value] # 0})
=============================================================================

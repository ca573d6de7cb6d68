------------------------------ MODULE Alignment ------------------------------
(***************************************************************************)
(* How two scenario shapes are laid side by side (report/report/align.go):    *)
(* the best alternatives of every one-of are chosen jointly for the two       *)
(* sides, the siblings are paired, and the pairing is written as rows.  The   *)
(* solvers that find the best pairing are the module Assignment; here a pair  *)
(* of lists gets one of its best pairings, always the same for the same       *)
(* scores.                                                                    *)
(*                                                                           *)
(* A string of a span is a number, 0 the empty one, in the order of strings.  *)
(* A key is the sequence of the numbers and separators it is joined from.     *)
(***************************************************************************)
EXTENDS ScenarioShape, BestMatching

CONSTANTS
  Texts,    \* the names: [verb, capital, slash, segments], in the order of strings
  Methods,  \* the verbs that are HTTP methods
  Placeholders, \* the segments that are path parameters, however written
  OptimalLimit, \* the sizes of two lists up to which their pairing looks at
  NestedLimit   \* what is below the spans, and the same below a span

ASSUME LimitsAssumption == OptimalLimit \in Nat /\ NestedLimit \in Nat

\* The separators of keys come before every other character.
US == -1  \* between the fields of a key
RS == -2  \* between the keys of children
GS == -3  \* between the keys of a path, and of the candidates of a group
FS == -4  \* between the keys of two sides
-----------------------------------------------------------------------------
(* Names and keys.                                                           *)
Normalized(text) ==
  LET isRoute == text.segments # <<>>
                   /\ (text.slash \/ (text.verb \in Methods /\ Len(text.segments) > 1))
      lower == [text EXCEPT !.capital = FALSE]
  IN IF isRoute
     THEN [lower EXCEPT !.slash = FALSE,
                        !.segments = [s \in DOMAIN @ |->
                                        IF @[s] \in Placeholders THEN "*" ELSE @[s]]]
     ELSE lower

\* A normalized name is named by the first of the names that normalize to it.
NormalizeSpanName(name) ==
  IF name = 0 THEN 0
  ELSE Min({other \in DOMAIN Texts : Normalized(Texts[other]) = Normalized(Texts[name])})

Precedes(one, other) ==
  \/ IsStrictPrefix(one, other)
  \/ \E i \in DOMAIN one \cap DOMAIN other :
       /\ SubSeq(one, 1, i - 1) = SubSeq(other, 1, i - 1)
       /\ one[i] < other[i]

\* The positions of a list in the order of its keys, equal keys in list order.
Order(keys) ==
  SortSeq([i \in DOMAIN keys |-> i],
          LAMBDA i, j : Precedes(keys[i], keys[j]) \/ (keys[i] = keys[j] /\ i < j))

Sorted(keys) == [i \in DOMAIN keys |-> keys[Order(keys)[i]]]

Joined(keys, separator) ==
  FlattenSeq([i \in DOMAIN keys |-> IF i = 1 THEN keys[i] ELSE <<separator>> \o keys[i]])

\* The label of a count: the size of the choice, if any, and the numbers shown.
FormatCard(min, max, exact, altCount) ==
  <<IF altCount > 1 THEN altCount ELSE 0>>
    \o (CASE exact /\ min = 1 -> <<>>
          [] exact \/ min = max -> <<min>>
          [] OTHER -> <<min, max>>)

\* The value of an expression, computed once.
Once(expression) == CHOOSE value \in {expression} : value = value

\* canonicalSpanKey without its children; a card is as long as its first number says.
ShallowCanonicalSpanKey(node, card) ==
  <<node.kind, NormalizeSpanName(node.name), node.status, node.http, Len(card)>> \o card

CanonicalChildrenKey(children) ==
  Joined(Sorted([c \in DOMAIN children |-> children[c].key]), RS)

CanonicalAlignmentSpanKey(node, card, children) ==
  <<node.name, node.kind, node.status, node.http, node.scope, Len(card)>> \o card \o <<US>>
    \o Joined(Sorted([c \in DOMAIN children |-> children[c].alignmentKey]), RS)

\* canonicalChildMatchKeys: the path to every span below, with repetitions.
RECURSIVE CanonicalChildMatchKeys(_, _)

CanonicalChildMatchKeys(children, prefix) ==
  FlattenSeq([c \in DOMAIN children |->
    LET shallow == ShallowCanonicalSpanKey(children[c].node, children[c].card)
        key == IF prefix = <<>> THEN shallow ELSE prefix \o <<GS>> \o shallow
    IN <<key>> \o CanonicalChildMatchKeys(children[c].children, key)])

Occurrences(keys, key) == Cardinality({i \in DOMAIN keys : keys[i] = key})
-----------------------------------------------------------------------------
(* The candidates of a group.  A group of spans is resolved into the list of  *)
(* its candidates, each with the lists of candidates of its children and the  *)
(* keys it is compared by.                                                    *)
Keyed(span) ==
  LET childKey == CanonicalChildrenKey(span.children)
  IN [span EXCEPT !.childKey = childKey,
        !.key = ShallowCanonicalSpanKey(span.node, span.card) \o <<US>> \o childKey,
        !.alignmentKey = CanonicalAlignmentSpanKey(span.node, span.card, span.children)]

Wrapped(group, candidate) ==
  LET altCount == IF Len(group.alternatives) > 1 THEN Len(group.alternatives)
                                                 ELSE candidate.altCount
      bounded == group.cardinality \notin {"", "one_of"}
      min == IF bounded THEN group.min ELSE candidate.min
      max == IF bounded THEN group.max ELSE candidate.max
      exact == candidate.exact /\ ~bounded
  IN [candidate EXCEPT !.altCount = altCount, !.min = min, !.max = max, !.exact = exact,
                       !.card = FormatCard(min, max, exact, altCount)]

\* The first of the candidates whose key is the least.
Canonical(candidates) ==
  candidates[Order([c \in DOMAIN candidates |-> candidates[c].key])[1]]

CanonicalCandidates(groups) == [g \in DOMAIN groups |-> Canonical(groups[g])]

RECURSIVE ResolveSpanGroup(_)

ResolveSpanGroup(group) ==
  IF group.alternatives # <<>>
  THEN FlattenSeq([a \in DOMAIN group.alternatives |->
         LET candidates == Once(ResolveSpanGroup(group.alternatives[a]))
         IN [c \in DOMAIN candidates |-> Keyed(Wrapped(group, candidates[c]))]])
  ELSE LET bounds == Bounds(group)
           groups == Once([g \in DOMAIN group.body.children |->
                             ResolveSpanGroup(group.body.children[g])])
           children == Once(CanonicalCandidates(groups))
       IN <<Keyed([node |-> [group.body EXCEPT !.children = <<>>],
                   min |-> bounds[1], max |-> bounds[2], exact |-> group.exact,
                   altCount |-> 0, card |-> FormatCard(bounds[1], bounds[2], group.exact, 0),
                   childGroups |-> groups, children |-> children,
                   childMatchKeys |-> CanonicalChildMatchKeys(children, <<>>),
                   childKey |-> <<>>, key |-> <<>>, alignmentKey |-> <<>>])>>

CanonicalSpanGroupKey(candidates) ==
  Joined(Sorted([c \in DOMAIN candidates |-> candidates[c].alignmentKey]), GS)
-----------------------------------------------------------------------------
(* Scores.  A negative score says that two spans cannot be paired.           *)
SpanMatchScore(left, right) ==
  LET leftName == NormalizeSpanName(left.name)
      rightName == NormalizeSpanName(right.name)
      differ(one, other) == one # 0 /\ other # 0 /\ one # other
      agree(one, other, both) == IF one = 0 /\ other = 0 THEN 2
                                 ELSE IF one = other THEN both ELSE 0
  IN IF differ(left.kind, right.kind) \/ differ(leftName, rightName) THEN -1
     ELSE agree(left.kind, right.kind, 10)
            + agree(leftName, rightName, IF left.name = right.name THEN 101 ELSE 100)

SpanDiffs(left, right) ==
  {field \in {"count", "name", "kind", "status", "httpStatus", "scope"} :
     CASE field = "count" -> left.card # right.card
       [] field = "name" -> left.node.name # right.node.name
       [] field = "kind" -> left.node.kind # right.node.kind
       [] field = "status" -> left.node.status # right.node.status
       [] field = "httpStatus" -> left.node.http # right.node.http
       [] field = "scope" -> left.node.scope # right.node.scope}

ShallowScore(left, right) ==
  LET match == SpanMatchScore(left.node, right.node)
      detail(one, other, both) == IF one # other THEN 0 ELSE IF one = 0 THEN 2 ELSE both
      differenceCount == Cardinality(SpanDiffs(left, right) \ {"scope"})
  IN IF match < 0 THEN match
     ELSE match + detail(left.node.status, right.node.status, 8)
            + detail(left.node.http, right.node.http, 4)
            + (IF left.card = right.card THEN 2 ELSE 0)
            + 6 - differenceCount + (IF differenceCount = 0 THEN 7 ELSE 0)

ChildOverlapScore(left, right) ==
  LET leftKeys == left.childMatchKeys
      rightKeys == right.childMatchKeys
      common == [key \in ToSet(leftKeys) \cap ToSet(rightKeys) |->
                   Min({Occurrences(leftKeys, key), Occurrences(rightKeys, key)})]
  IN 1000 * SumFunction(common) + (IF left.childKey = right.childKey THEN 1000 ELSE 0)
-----------------------------------------------------------------------------
(* Pairing.  A pairing is a set of pairs of positions.                       *)

Positions(left, right) == (1..Len(left)) \X (1..Len(right))

\* Of several best pairings the solver returns one that only the scores decide.
Solve(score) == CHOOSE pairs \in BestPairings([score |-> Once(score)]) : TRUE

\* Both lists are put in the order of their keys before they are solved.
CanonicalPairs(leftKeys, rightKeys, score) ==
  LET leftOrder == Order(leftKeys)
      rightOrder == Order(rightKeys)
      original(pair) == <<leftOrder[pair[1]], rightOrder[pair[2]]>>
      compatible == {pair \in Positions(leftKeys, rightKeys) : original(pair) \in DOMAIN score}
  IN {original(pair) : pair \in Solve([pair \in compatible |-> score[original(pair)]])}

\* The scores of the pairs that can be paired at all.
Scores(left, right, Score(_, _)) ==
  LET all == Once([pair \in Positions(left, right) |-> Score(left[pair[1]], right[pair[2]])])
  IN Once(Restrict(all, {pair \in DOMAIN all : all[pair] >= 0}))

PairSpans(left, right, score) ==
  CanonicalPairs([l \in DOMAIN left |-> left[l].alignmentKey],
                 [r \in DOMAIN right |-> right[r].alignmentKey], score)

RECURSIVE AlignedSpanMatchScore(_, _)

\* maximumCardinalityPairs with the score of matchSpans: beyond the limit only
\* the spans themselves and the paths below them are compared.
MaximumCardinalityPairs(left, right) ==
  PairSpans(left, right,
    IF Len(left) + Len(right) <= OptimalLimit
    THEN Scores(left, right, AlignedSpanMatchScore)
    ELSE LET shallow == Scores(left, right, ShallowScore)
         IN [pair \in DOMAIN shallow |->
               shallow[pair] + ChildOverlapScore(left[pair[1]], right[pair[2]])])

\* Mutant: the best pair is scored, and the canonical candidates are kept.
CanonicalPair(lefts, rights, score) ==
  [left |-> Canonical(lefts), right |-> Canonical(rights), score |-> Max(Range(score))]

\* The pair of candidates with the highest score, of these the least keys, of
\* these the first; bestSpanPair and bestTracePair.
BestPair(lefts, rights, score) ==
  LET keys == Once([pair \in DOMAIN score |->
                      lefts[pair[1]].key \o <<FS>> \o rights[pair[2]].key])
      better(one, other) ==
        \/ score[one] > score[other]
        \/ /\ score[one] = score[other]
           /\ \/ Precedes(keys[one], keys[other])
              \/ keys[one] = keys[other] /\ Precedes(one, other)
      best == CHOOSE pair \in DOMAIN score :
                \A other \in DOMAIN score \ {pair} : better(pair, other)
  IN [left |-> lefts[best[1]], right |-> rights[best[2]], score |-> score[best]]

SpanPair(lefts, rights) ==
  LET score == Scores(lefts, rights, AlignedSpanMatchScore)
  IN IF DOMAIN score = {} THEN {} ELSE {BestPair(lefts, rights, score)}

ShallowSpanPairScore(lefts, rights) ==
  LET score == Scores(lefts, rights, ShallowScore)
  IN Max({-1} \cup {score[pair] + ChildOverlapScore(lefts[pair[1]], rights[pair[2]]) :
                      pair \in DOMAIN score})

\* The candidates of two lists with those of the pairs put in their place.
Placed(candidates, pairs, side, Chosen(_)) ==
  [g \in DOMAIN candidates |->
     IF \E pair \in pairs : pair[side] = g
     THEN Chosen(CHOOSE pair \in pairs : pair[side] = g)
     ELSE candidates[g]]

ChoosePairedCandidates(leftGroups, rightGroups) ==
  LET choices == Once([pair \in Positions(leftGroups, rightGroups) |->
                         SpanPair(leftGroups[pair[1]], rightGroups[pair[2]])])
      compatible == {pair \in DOMAIN choices : choices[pair] # {}}
      choice(pair) == CHOOSE choice \in choices[pair] : TRUE
      score ==
        IF Len(leftGroups) + Len(rightGroups) > OptimalLimit
        THEN Scores(leftGroups, rightGroups, ShallowSpanPairScore)
        ELSE [pair \in compatible |-> choice(pair).score]
      pairs == CanonicalPairs(
                 [g \in DOMAIN leftGroups |-> CanonicalSpanGroupKey(leftGroups[g])],
                 [g \in DOMAIN rightGroups |-> CanonicalSpanGroupKey(rightGroups[g])], score)
  IN <<Placed(CanonicalCandidates(leftGroups), pairs, 1, LAMBDA pair : choice(pair).left),
       Placed(CanonicalCandidates(rightGroups), pairs, 2, LAMBDA pair : choice(pair).right)>>

\* pairedSpanListScore
PairedSpanListScore(left, right) ==
  LET pairs == Once(MaximumCardinalityPairs(left, right))
  IN 1000 * Cardinality(pairs)
       + Total([pair \in pairs |-> AlignedSpanMatchScore(left[pair[1]], right[pair[2]])], pairs)

AlignedSpanMatchScore(left, right) ==
  LET shallow == ShallowScore(left, right)
  IN IF shallow < 0 THEN shallow
     ELSE IF Len(left.children) + Len(right.children) > NestedLimit
     THEN shallow + ChildOverlapScore(left, right)
     ELSE LET chosen == Once(ChoosePairedCandidates(left.childGroups, right.childGroups))
          IN shallow + PairedSpanListScore(chosen[1], chosen[2])
-----------------------------------------------------------------------------
(* Rows.  A row is written for every span of either side, parents first.     *)
NoSpan ==
  [node |-> [name |-> 0, kind |-> 0, status |-> 0, http |-> 0, scope |-> 0, children |-> <<>>],
   card |-> <<>>]

SpanRef(span) == [node |-> span.node, card |-> span.card]

\* Mutant: only the span itself is written.
OnlyTopRow(span, kind, depth) ==
  <<[kind |-> kind, depth |-> depth, diffs |-> {},
     left |-> IF kind = "left_only" THEN SpanRef(span) ELSE NoSpan,
     right |-> IF kind = "right_only" THEN SpanRef(span) ELSE NoSpan]>>

RECURSIVE OnlyRows(_, _, _), MatchSpans(_, _, _)

OnlyRows(span, kind, depth) ==
  <<[kind |-> kind, depth |-> depth, diffs |-> {},
     left |-> IF kind = "left_only" THEN SpanRef(span) ELSE NoSpan,
     right |-> IF kind = "right_only" THEN SpanRef(span) ELSE NoSpan]>>
    \o FlattenSeq([c \in DOMAIN span.children |-> OnlyRows(span.children[c], kind, depth + 1)])

\* The pairs in the order of the left list, then what only one side has.
MatchSpans(left, right, depth) ==
  LET pairs == Once(MaximumCardinalityPairs(left, right))
      partner(l) == {pair[2] : pair \in {pair \in pairs : pair[1] = l}}
      matchedRows(l) ==
        LET leftSpan == left[l]
            rightSpan == right[CHOOSE r \in partner(l) : TRUE]
            children == Once(ChoosePairedCandidates(leftSpan.childGroups, rightSpan.childGroups))
        IN <<[kind |-> "matched", depth |-> depth, diffs |-> SpanDiffs(leftSpan, rightSpan),
              left |-> SpanRef(leftSpan), right |-> SpanRef(rightSpan)]>>
             \o MatchSpans(children[1], children[2], depth + 1)
      usedRight == {pair[2] : pair \in pairs}
  IN FlattenSeq([l \in DOMAIN left |-> IF partner(l) = {} THEN <<>> ELSE matchedRows(l)])
       \o FlattenSeq([l \in DOMAIN left |->
            IF partner(l) = {} THEN OnlyRows(left[l], "left_only", depth) ELSE <<>>])
       \o FlattenSeq([r \in DOMAIN right |->
            IF r \in usedRight THEN <<>> ELSE OnlyRows(right[r], "right_only", depth)])
-----------------------------------------------------------------------------
(* Traces.                                                                   *)
CanonicalTraceKey(trace) ==
  <<Len(trace.card)>> \o trace.card \o <<US, trace.coverage, US>> \o CanonicalChildrenKey(trace.roots)

KeyedTrace(trace) == [trace EXCEPT !.key = CanonicalTraceKey(trace)]

RECURSIVE TraceGroupCandidates(_, _)

Label(roots) == IF roots = <<>> THEN 0 ELSE roots[1].node.name

TraceGroupCandidates(index, group) ==
  IF group.alternatives # <<>>
  THEN FlattenSeq([a \in DOMAIN group.alternatives |->
         LET candidates == Once(TraceGroupCandidates(index, group.alternatives[a]))
         IN [c \in DOMAIN candidates |-> KeyedTrace(Wrapped(group, candidates[c]))]])
  ELSE LET bounds == Bounds(group)
           rootGroups == Once([r \in DOMAIN group.body.roots |->
                                 ResolveSpanGroup(group.body.roots[r])])
           roots == Once(CanonicalCandidates(rootGroups))
       IN <<KeyedTrace([index |-> index, min |-> bounds[1], max |-> bounds[2], exact |-> group.exact,
             altCount |-> 0, card |-> FormatCard(bounds[1], bounds[2], group.exact, 0),
             coverage |-> group.body.coverage, rootGroups |-> rootGroups,
             roots |-> roots, key |-> <<>>])>>

\* The score of two traces, in a set that is empty when they share no root.
TraceScore(left, right, pairs, total) ==
  IF pairs = {} THEN {}
  ELSE LET unmatched == Len(left.roots) + Len(right.roots) - 2 * Cardinality(pairs)
       IN {100000 * Cardinality(pairs) + total - 10000 * unmatched
             + (IF left.card = right.card THEN 100 ELSE 0)
             + (IF left.coverage = right.coverage THEN 10 ELSE 0)}

\* traceMatchScore: roots that answer the same HTTP status are preferred.
TraceMatchScore(leftTrace, rightTrace) ==
  LET chosen == Once(ChoosePairedCandidates(leftTrace.rootGroups, rightTrace.rootGroups))
      left == [leftTrace EXCEPT !.roots = chosen[1]]
      right == [rightTrace EXCEPT !.roots = chosen[2]]
      rootScore(leftRoot, rightRoot) ==
        LET score == AlignedSpanMatchScore(leftRoot, rightRoot)
            one == leftRoot.node.http
            other == rightRoot.node.http
        IN IF score < 0 THEN score
           ELSE score + (IF 0 \in {one, other} \/ one = other THEN 1000 ELSE 0)
                  + (IF one # 0 /\ one = other THEN 10 ELSE 0)
      score == Scores(left.roots, right.roots, rootScore)
      pairs == PairSpans(left.roots, right.roots, score)
  IN TraceScore(left, right, pairs, Total(score, pairs))

ShallowTraceMatchScore(left, right) ==
  LET rootScore(leftRoot, rightRoot) ==
        LET score == ShallowScore(leftRoot, rightRoot)
        IN IF score < 0 THEN score ELSE score + ChildOverlapScore(leftRoot, rightRoot)
      score == Scores(left.roots, right.roots, rootScore)
      pairs == PairSpans(left.roots, right.roots, score)
  IN TraceScore(left, right, pairs, Total(score, pairs))

\* bestTracePair and bestShallowTracePair
TracePair(lefts, rights, Score(_, _)) ==
  LET scores == Once([pair \in Positions(lefts, rights) |->
                        Score(lefts[pair[1]], rights[pair[2]])])
      score == Once([pair \in {pair \in DOMAIN scores : scores[pair] # {}} |-> Max(scores[pair])])
  IN IF DOMAIN score = {} THEN {} ELSE {BestPair(lefts, rights, score)}

\* The traces are solved in the order they are written in.
ChoosePairedTraceCandidates(leftGroups, rightGroups) ==
  LET choices(Score(_, _)) ==
        [pair \in Positions(leftGroups, rightGroups) |->
           TracePair(leftGroups[pair[1]], rightGroups[pair[2]], Score)]
      best == Once(choices(TraceMatchScore))
      scored == Once(IF Len(leftGroups) + Len(rightGroups) > OptimalLimit
                     THEN choices(ShallowTraceMatchScore) ELSE best)
      choice(choicesOf, pair) == CHOOSE choice \in choicesOf[pair] : TRUE
      pairs == Solve([pair \in {pair \in DOMAIN scored : scored[pair] # {}} |->
                        choice(scored, pair).score])
  IN <<Placed(CanonicalCandidates(leftGroups), pairs, 1, LAMBDA pair : choice(best, pair).left),
       Placed(CanonicalCandidates(rightGroups), pairs, 2, LAMBDA pair : choice(best, pair).right)>>

MaximumCardinalityTracePairs(left, right) ==
  LET scores(Score(_, _)) ==
        [pair \in Positions(left, right) |-> Score(left[pair[1]], right[pair[2]])]
      all == Once(IF Len(left) + Len(right) > OptimalLimit
                  THEN scores(ShallowTraceMatchScore) ELSE scores(TraceMatchScore))
  IN Solve([pair \in {pair \in DOMAIN all : all[pair] # {}} |-> Max(all[pair])])

TraceRef(trace, roots) ==
  [index |-> trace.index, label |-> Label(roots), card |-> trace.card,
   coverage |-> trace.coverage]

NoTrace == [index |-> 0, label |-> 0, card |-> <<>>, coverage |-> 0]

TraceOnly(trace, kind) ==
  [kind |-> kind,
   left |-> IF kind = "left_only" THEN TraceRef(trace, trace.roots) ELSE NoTrace,
   right |-> IF kind = "right_only" THEN TraceRef(trace, trace.roots) ELSE NoTrace,
   spans |-> FlattenSeq([r \in DOMAIN trace.roots |-> OnlyRows(trace.roots[r], kind, 0)])]

\* The traces in the order of the left shape, then those only the right one has.
AlignShapes(leftShape, rightShape) ==
  LET groups(shape) ==
        Once([g \in DOMAIN shape.traces |-> TraceGroupCandidates(g, shape.traces[g])])
      chosen == Once(ChoosePairedTraceCandidates(groups(leftShape), groups(rightShape)))
      left == chosen[1]
      right == chosen[2]
      pairs == Once(MaximumCardinalityTracePairs(left, right))
      partner(l) == {pair[2] : pair \in {pair \in pairs : pair[1] = l}}
      match(l) ==
        LET rightTrace == right[CHOOSE r \in partner(l) : TRUE]
            roots == Once(ChoosePairedCandidates(left[l].rootGroups, rightTrace.rootGroups))
        IN [kind |-> "matched", left |-> TraceRef(left[l], roots[1]),
            right |-> TraceRef(rightTrace, roots[2]), spans |-> MatchSpans(roots[1], roots[2], 0)]
      unused == SelectSeq([r \in DOMAIN right |-> r], LAMBDA r : \A pair \in pairs : pair[2] # r)
  IN [l \in DOMAIN left |-> IF partner(l) = {} THEN TraceOnly(left[l], "left_only") ELSE match(l)]
       \o [u \in DOMAIN unused |-> TraceOnly(right[unused[u]], "right_only")]

\* The comparison of two shapes: differences only where all counts are exact.
Compare(left, right) ==
  LET available == left.exactCounts /\ right.exactCounts
      none == [value \in {} |-> 0]
      delta(Measure(_)) == IF available THEN Measure(right) - Measure(left) ELSE 0
  IN [available |-> available,
      traceDelta |-> delta(LAMBDA shape : shape.traceCount),
      spanDelta |-> delta(LAMBDA shape : shape.spanCount),
      countDelta |-> delta(LAMBDA shape : Len(shape.traces)),
      scopeDelta |-> IF available THEN Delta(left.scopes, right.scopes) ELSE none,
      statusDelta |-> IF available THEN Delta(left.statuses, right.statuses) ELSE none,
      alignment |-> AlignShapes(left, right)]
=============================================================================

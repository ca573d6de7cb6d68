----------------------------- MODULE Assignment -----------------------------
(***************************************************************************)
(* How the report pairs the entries of two lists: the span alignment's        *)
(* assignment solvers (report/report/align.go).                               *)
(*                                                                         *)
(* Short lists go to maximumWeightMaximumCardinalityPairs, which pads the      *)
(* scores to a square matrix and runs the Hungarian algorithm.  Long lists    *)
(* go to linearMemoryMaximumCardinalityPairsWithSeed: Hopcroft-Karp from a     *)
(* seed, then an auction (improveMatchingScores) whose result replaces the     *)
(* matching when it scores more.                                              *)
(*                                                                         *)
(* Entries are numbered from 1 and 0 stands for the code's -1; the scores are  *)
(* a function on the compatible pairs, as the scorer always answers the same.  *)
(***************************************************************************)
EXTENDS Integers, FiniteSets, Sequences

CONSTANTS
  Problems,  \* left, right, score; limit, the length up to which lists are
             \* short (128 in the code); seed, the pairs with equal keys
  Infinity   \* more than any cost

\* The scores are defined on the compatible pairs; the seed, which the code
\* takes from the right entries of an equal key, gives none of them away twice.
IsProblem(p) ==
  /\ {p.left, p.right, p.limit} \subseteq Nat
  /\ DOMAIN p.score \subseteq (1..p.left) \X (1..p.right)
  /\ p.score \in [DOMAIN p.score -> Int]
  /\ p.seed \in [1..p.left -> 0..p.right]
  /\ \A k, l \in 1..p.left : p.seed[k] = p.seed[l] => k = l \/ p.seed[k] = 0

ASSUME ProblemsAssumption ==
  /\ \A p \in Problems : IsProblem(p)
  /\ Infinity \in Nat

\* No padded weight reaches Infinity: a quarter of the largest int in the code, for
\* lists of at most 128 entries.
ASSUME InfinityAssumption ==
  \A p \in Problems : \A low, high \in DOMAIN p.score :
    LET shorter == IF p.left <= p.right THEN p.left ELSE p.right
        range == p.score[high] - p.score[low]
    IN (range + 1) * (shorter + 1) + range < Infinity

VARIABLES
  problem,        \* the arguments of the call
  pc,             \* where the call stands
  matchedRight,   \* the result: the right entry of each left entry, or 0
  lowest, highest,  \* the extremes of the scores
  \* maximumWeightAssignment
  row, column, leftPotential, rightPotential, matchedColumn, previous, minCost, used,
  \* linearMemoryMaximumCardinalityPairsWithSeed
  leftToRight, rightToLeft, distance, nextRight,
  root,           \* the left entry of the loop that calls augment
  path,           \* the left entries of the active calls of augment
  \* improveMatchingScores
  prices, owners, assignment, unassigned

square == <<row, column, leftPotential, rightPotential, matchedColumn, previous,
            minCost, used>>
linear == <<leftToRight, rightToLeft, distance, nextRight, root, path>>
auction == <<prices, owners, assignment, unassigned>>
call == <<problem, lowest, highest>>
vars == <<call, pc, matchedRight, square, linear, auction>>

Left == 1..problem.left
Right == 1..problem.right
Compatible == DOMAIN problem.score

\* The pairs a table of partners stands for.
PairsOf(partners) == {<<l, partners[l]>> : l \in {k \in DOMAIN partners : partners[k] # 0}}

Nobody == [l \in Left |-> 0]

\* The sum of f over 1..n.
SumTo(n, f) ==
  LET sum[k \in 0..n] == IF k = 0 THEN 0 ELSE sum[k - 1] + f[k] IN sum[n]

Score(partners) ==
  SumTo(problem.left,
        [l \in Left |-> IF partners[l] = 0 THEN 0 ELSE problem.score[<<l, partners[l]>>]])

----------------------------------------------------------------------------
\* Weights

\* The extremes of the scores, which shift every weight to be positive.
MeasureScores ==
  \E low, high \in Compatible :
    /\ \A pair \in Compatible : problem.score[pair] \in problem.score[low]..problem.score[high]
    /\ lowest' = problem.score[low]
    /\ highest' = problem.score[high]

\* Mutant: equal scores leave a pair without any weight.
BonusOfRange ==
  LET shorter == IF problem.left <= problem.right THEN problem.left ELSE problem.right
  IN (highest - lowest) * (shorter + 1)

\* One more pair outweighs every difference between the scores of the others.
Bonus ==
  LET shorter == IF problem.left <= problem.right THEN problem.left ELSE problem.right
  IN (highest - lowest + 1) * (shorter + 1)

Weight(l, r) ==
  IF <<l, r>> \in Compatible THEN Bonus + problem.score[<<l, r>>] - lowest ELSE 0

----------------------------------------------------------------------------
\* The call

Init ==
  /\ problem \in Problems
  /\ pc = "call"
  /\ matchedRight = <<>>
  /\ lowest = 0 /\ highest = 0
  /\ row = 1 /\ column = 0
  /\ leftPotential = <<>> /\ rightPotential = <<>> /\ matchedColumn = <<>>
  /\ previous = <<>> /\ minCost = <<>> /\ used = {}
  /\ leftToRight = <<>> /\ rightToLeft = <<>> /\ distance = <<>> /\ nextRight = <<>>
  /\ root = 1 /\ path = <<>>
  /\ prices = <<>> /\ owners = <<>> /\ assignment = <<>> /\ unassigned = <<>>

Return(partners) == pc' = "done" /\ matchedRight' = partners

Short == problem.left + problem.right <= problem.limit

\* Short lists without a compatible pair: everything stays unmatched.
NothingToPair ==
  /\ pc = "call" /\ Short
  /\ Compatible = {}
  /\ Return(Nobody)
  /\ UNCHANGED <<call, square, linear, auction>>

Size == problem.left + problem.right
Columns == 0..Size

BeginSquare ==
  /\ pc = "call" /\ Short
  /\ Compatible # {}
  /\ MeasureScores
  /\ pc' = "row"
  /\ row' = 1 /\ column' = 0
  /\ leftPotential' = [i \in Columns |-> 0]
  /\ rightPotential' = [i \in Columns |-> 0]
  /\ matchedColumn' = [i \in Columns |-> 0]
  /\ previous' = [i \in Columns |-> 0]
  /\ minCost' = [i \in Columns |-> 0]
  /\ used' = {}
  /\ UNCHANGED <<problem, matchedRight, linear, auction>>

\* The seeds that are in range, still free and compatible are the first pairs.
BeginLinear ==
  /\ pc = "call" /\ ~Short
  /\ leftToRight' = [l \in Left |->
       IF <<l, problem.seed[l]>> \in Compatible THEN problem.seed[l] ELSE 0]
  /\ rightToLeft' = [r \in Right |->
       IF \E l \in Left : leftToRight'[l] = r
       THEN CHOOSE l \in Left : leftToRight'[l] = r ELSE 0]
  /\ distance' = Nobody
  /\ nextRight' = Nobody
  /\ pc' = "layers"
  /\ UNCHANGED <<call, matchedRight, square, root, path, auction>>

----------------------------------------------------------------------------
\* maximumWeightAssignment: one row after the other gets a column

\* The slack of an edge under the potentials.
Cost(i, j) == -Weight(i, j) - leftPotential[i] - rightPotential[j]

\* Mutant: a row starts from the slacks the previous one left.
BeginRowStale ==
  /\ pc = "row" /\ row <= Size
  /\ matchedColumn' = [matchedColumn EXCEPT ![0] = row]
  /\ column' = 0
  /\ minCost' = [j \in Columns |-> IF row > 1 THEN minCost[j] ELSE Infinity]
  /\ used' = {}
  /\ pc' = "scan"
  /\ UNCHANGED <<call, matchedRight, row, leftPotential, rightPotential, previous,
                 linear, auction>>

BeginRow ==
  /\ pc = "row" /\ row <= Size
  /\ matchedColumn' = [matchedColumn EXCEPT ![0] = row]
  /\ column' = 0
  /\ minCost' = [j \in Columns |-> IF j = 0 THEN 0 ELSE Infinity]
  /\ used' = {}
  /\ pc' = "scan"
  /\ UNCHANGED <<call, matchedRight, row, leftPotential, rightPotential, previous,
                 linear, auction>>

\* The tree of alternating paths grows by the cheapest column next to it.
Scan ==
  /\ pc = "scan"
  /\ LET matchedRow == matchedColumn[column]
         tree == used \cup {column}
         rest == Columns \ tree
         reached(j) == IF Cost(matchedRow, j) < minCost[j] THEN Cost(matchedRow, j) ELSE minCost[j]
     IN \E nearest \in rest :
        /\ \A j \in rest : reached(nearest) < reached(j)
                           \/ (reached(nearest) = reached(j) /\ nearest <= j)
        /\ used' = tree
        /\ previous' = [j \in Columns |->
             IF j \in rest /\ Cost(matchedRow, j) < minCost[j] THEN column ELSE previous[j]]
        /\ minCost' = [j \in Columns |->
             IF j \in rest THEN reached(j) - reached(nearest) ELSE minCost[j]]
        /\ leftPotential' = [i \in Columns |->
             IF \E j \in tree : matchedColumn[j] = i
             THEN leftPotential[i] + reached(nearest) ELSE leftPotential[i]]
        /\ rightPotential' = [j \in Columns |->
             IF j \in tree THEN rightPotential[j] - reached(nearest) ELSE rightPotential[j]]
        /\ column' = nearest
        /\ pc' = IF matchedColumn[nearest] = 0 THEN "flip" ELSE "scan"
  /\ UNCHANGED <<call, matchedRight, row, matchedColumn, linear, auction>>

\* Along the path back to column 0 every column takes its predecessor's row.
Flip ==
  /\ pc = "flip"
  /\ matchedColumn' = [matchedColumn EXCEPT ![column] = matchedColumn[previous[column]]]
  /\ column' = previous[column]
  /\ IF column' = 0 THEN pc' = "row" /\ row' = row + 1 ELSE UNCHANGED <<pc, row>>
  /\ UNCHANGED <<call, matchedRight, leftPotential, rightPotential, previous, minCost, used,
                 linear, auction>>

\* Only compatible pairs of the assignment are pairs of the result.
EndSquare ==
  /\ pc = "row" /\ row > Size
  /\ Return([l \in Left |->
       LET r == CHOOSE j \in 1..Size : matchedColumn[j] = l
       IN IF <<l, r>> \in Compatible THEN r ELSE 0])
  /\ UNCHANGED <<call, square, linear, auction>>

----------------------------------------------------------------------------
\* linearMemoryMaximumCardinalityPairsWithSeed: phases of layers and augmenting

Unmatched == {l \in Left : leftToRight[l] = 0}

\* The left entries at most k alternations from an unmatched one.
Within(k) ==
  LET within[n \in 0..k] ==
        IF n = 0 THEN Unmatched
        ELSE within[n - 1] \cup {rightToLeft[r] : r \in {q \in Right :
               rightToLeft[q] # 0 /\ \E l \in within[n - 1] : <<l, q>> \in Compatible}}
  IN within[k]

\* The number of the first layer that holds l.
Layer(l) ==
  IF l \in Within(problem.left)
  THEN Cardinality({k \in 0..problem.left : l \notin Within(k)}) ELSE -1

\* A breadth-first search from the unmatched entries; the phases end when it
\* meets no free right entry.
Layers ==
  /\ pc = "layers"
  /\ distance' = [l \in Left |-> Layer(l)]
  /\ IF \E l \in Left, r \in Right :
          l \in Within(problem.left) /\ <<l, r>> \in Compatible /\ rightToLeft[r] = 0
     THEN /\ pc' = "augment"
          /\ nextRight' = [l \in Left |-> 1]
          /\ root' = 1
     ELSE pc' = "improve" /\ UNCHANGED <<nextRight, root>>
  /\ UNCHANGED <<call, matchedRight, square, leftToRight, rightToLeft, path, auction>>

Caller == path[Len(path)]

\* The loop over the left entries calls augment for those still unmatched.
NextRoot ==
  /\ pc = "augment" /\ path = <<>>
  /\ IF root > problem.left THEN pc' = "layers" /\ UNCHANGED <<root, path>>
     ELSE IF leftToRight[root] = 0 THEN path' = <<root>> /\ UNCHANGED <<pc, root>>
     ELSE root' = root + 1 /\ UNCHANGED <<pc, path>>
  /\ UNCHANGED <<call, matchedRight, square, leftToRight, rightToLeft, distance, nextRight,
                 auction>>

\* Mutant: only the innermost call records its pair.
AugmentedInnermost == [leftToRight EXCEPT ![Caller] = nextRight[Caller]]

\* The calls return one after the other, each with the right entry it tried.
Augmented == [l \in Left |->
  IF \E i \in DOMAIN path : path[i] = l
  THEN (IF l = Caller THEN nextRight[l] ELSE nextRight[l] - 1) ELSE leftToRight[l]]

\* augment looks at its next right entry: not compatible, matched outside the
\* next layer, matched in the next layer (a recursive call), or free.
TryRight ==
  /\ pc = "augment" /\ path # <<>>
  /\ nextRight[Caller] <= problem.right
  /\ LET r == nextRight[Caller]
         owner == rightToLeft[r]
         compatible == <<Caller, r>> \in Compatible
     IN \/ /\ \/ ~compatible
              \/ owner # 0 /\ distance[owner] # distance[Caller] + 1
           /\ UNCHANGED <<leftToRight, rightToLeft, root, path>>
        \/ /\ compatible
           /\ owner # 0 /\ distance[owner] = distance[Caller] + 1
           /\ path' = Append(path, owner)
           /\ UNCHANGED <<leftToRight, rightToLeft, root>>
        \/ /\ compatible
           /\ owner = 0
           /\ leftToRight' = Augmented
           /\ rightToLeft' = [q \in Right |->
                IF \E i \in DOMAIN path : Augmented[path[i]] = q
                THEN path[CHOOSE i \in DOMAIN path : Augmented[path[i]] = q]
                ELSE rightToLeft[q]]
           /\ path' = <<>>
           /\ root' = root + 1
  /\ nextRight' = [nextRight EXCEPT ![Caller] = @ + 1]
  /\ UNCHANGED <<call, pc, matchedRight, square, distance, auction>>

\* augment fails: its entry leaves the layers and its caller goes on.
DeadEnd ==
  /\ pc = "augment" /\ path # <<>>
  /\ nextRight[Caller] > problem.right
  /\ distance' = [distance EXCEPT ![Caller] = -1]
  /\ path' = SubSeq(path, 1, Len(path) - 1)
  /\ root' = IF Len(path) = 1 THEN root + 1 ELSE root
  /\ UNCHANGED <<call, pc, matchedRight, square, leftToRight, rightToLeft, nextRight, auction>>

----------------------------------------------------------------------------
\* improveMatchingScores: the left entries bid for the right ones

\* The right entries, then a slot per left entry that leaves it unmatched.
Items == 1..(problem.right + problem.left)

NothingToImprove ==
  /\ pc = "improve" /\ Compatible = {}
  /\ Return(leftToRight)
  /\ UNCHANGED <<call, square, linear, auction>>

BeginAuction ==
  /\ pc = "improve" /\ Compatible # {}
  /\ MeasureScores
  /\ prices' = [i \in Items |-> 0]
  /\ owners' = [i \in Items |-> 0]
  /\ assignment' = Nobody
  /\ unassigned' = [k \in Left |-> problem.left + 1 - k]
  /\ pc' = "bid"
  /\ UNCHANGED <<problem, matchedRight, square, linear>>

Eligible(l) == {i \in Items : i \in Right => <<l, i>> \in Compatible}

\* What an item is worth before its price; the scale makes a step of 1 exact.
Worth(l, i) == (IF i \in Right THEN Weight(l, i) ELSE 0) * (problem.left + 1)

Value(l, i) == Worth(l, i) - prices[i]

\* The most valuable item, the first of several.
IsBest(l, item) ==
  \A i \in Eligible(l) : Value(l, i) < Value(l, item)
                         \/ (Value(l, i) = Value(l, item) /\ item <= i)

\* Mutant: a bid of the whole value.
BidsAll(l, item) == {Value(l, item) + 1}

\* What l bids for its best item: by how much it is better than the next, plus 1.
Bids(l, item) ==
  LET others == Eligible(l) \ {item}
      seconds == {i \in others : \A j \in others : Value(l, j) <= Value(l, i)}
  IN IF others = {} THEN {1} ELSE {Value(l, item) - Value(l, i) + 1 : i \in seconds}

\* The last entry of the stack takes its best item, whose owner loses it.
Bid ==
  /\ pc = "bid" /\ unassigned # <<>>
  /\ LET l == unassigned[Len(unassigned)]
         rest == SubSeq(unassigned, 1, Len(unassigned) - 1)
     IN \E item \in Eligible(l) : \E bid \in Bids(l, item) :
        /\ IsBest(l, item)
        /\ prices' = [prices EXCEPT ![item] = @ + bid]
        /\ assignment' = [k \in Left |->
             IF k = l THEN item ELSE IF k = owners[item] THEN 0 ELSE assignment[k]]
        /\ owners' = [owners EXCEPT ![item] = l]
        /\ unassigned' = IF owners[item] = 0 THEN rest ELSE Append(rest, owners[item])
  /\ UNCHANGED <<call, pc, matchedRight, square, linear>>

Candidate == [l \in Left |-> IF assignment[l] \in Right THEN assignment[l] ELSE 0]

\* The auction's pairs replace the matching when they are as many and score more.
EndAuction ==
  /\ pc = "bid" /\ unassigned = <<>>
  /\ Return(IF /\ PairsOf(leftToRight) \cup PairsOf(Candidate) \subseteq Compatible
               /\ Cardinality(PairsOf(Candidate)) = Cardinality(PairsOf(leftToRight))
               /\ Score(Candidate) > Score(leftToRight)
            THEN Candidate ELSE leftToRight)
  /\ UNCHANGED <<call, square, linear, auction>>

----------------------------------------------------------------------------
Returned == pc = "done" /\ UNCHANGED vars

Next ==
  \/ NothingToPair \/ BeginSquare \/ BeginRow \/ Scan \/ Flip \/ EndSquare
  \/ BeginLinear \/ Layers \/ NextRoot \/ TryRight \/ DeadEnd
  \/ NothingToImprove \/ BeginAuction \/ Bid \/ EndAuction
  \/ Returned

\* The call computes until it returns.
Spec == Init /\ [][Next]_vars /\ WF_vars(Next)

----------------------------------------------------------------------------
\* Properties

Solving == pc \in {"layers", "augment", "improve", "bid"}

TypeOK ==
  /\ IsProblem(problem)
  /\ pc \in {"call", "row", "scan", "flip", "layers", "augment", "improve", "bid", "done"}
  /\ {lowest, highest} \subseteq Int
  /\ pc \in {"row", "scan", "flip"} =>
       /\ row \in IF pc = "row" THEN 1..(Size + 1) ELSE 1..Size
       /\ column \in Columns
       /\ matchedColumn \in [Columns -> 0..Size]
       /\ previous \in [Columns -> Columns]
       /\ used \subseteq Columns
  /\ pc = "call" => root = 1
  /\ Solving =>
       /\ leftToRight \in [Left -> 0..problem.right]
       /\ rightToLeft \in [Right -> 0..problem.left]
       /\ distance \in [Left -> Int]
       /\ nextRight \in [Left -> 0..(problem.right + 1)]
       /\ path \in Seq(Left)
       /\ root \in 1..(problem.left + 1)
  /\ pc = "bid" =>
       /\ prices \in [Items -> Int]
       /\ owners \in [Items -> 0..problem.left]
       /\ assignment \in [Left -> 0..(problem.right + problem.left)]
       /\ unassigned \in Seq(Left)
  /\ pc = "done" => matchedRight \in [Left -> 0..problem.right]

\* The rows matched so far have a column each: no two share one, and while an
\* alternating path is flipped the column it stands at is the one to be reassigned.
RowsHaveColumns ==
  LET open == IF pc = "row" THEN {0} ELSE IF pc = "scan" THEN {} ELSE {column}
      placed == IF pc = "row" THEN 1..(row - 1) ELSE 1..row
  IN pc \in {"row", "scan", "flip"} =>
       /\ \A j \in Columns \ open : matchedColumn[j] \in placed \cup {0}
       /\ \A j, k \in Columns \ open :
            matchedColumn[j] = matchedColumn[k] => j = k \/ matchedColumn[j] = 0
       /\ \A i \in placed : \E j \in Columns \ open : matchedColumn[j] = i

\* The two sides of the matching agree, between any two calls of augment.
SidesAgree ==
  Solving =>
    /\ \A l \in Left, r \in Right : leftToRight[l] = r <=> rightToLeft[r] = l
    /\ PairsOf(leftToRight) \subseteq Compatible

\* An item and its owner know each other, and no entry holds an item it may not.
OwnersAgree ==
  pc = "bid" =>
    /\ \A l \in Left, i \in Items : assignment[l] = i <=> owners[i] = l
    /\ \A l \in Left : assignment[l] \in Eligible(l) \cup {0}

\* No entry is paired twice and only compatible ones are, through every step of
\* either solver: the report counts each entry in one row.
NoEntryTwice ==
  /\ RowsHaveColumns /\ SidesAgree /\ OwnersAgree
  /\ pc = "done" =>
       /\ PairsOf(matchedRight) \subseteq Compatible
       /\ \A k, l \in Left : matchedRight[k] = matchedRight[l] => k = l \/ matchedRight[k] = 0

\* maximumWeightAssignment: between two rows the potentials bound the weights from
\* above, and meet them on the assigned pairs.  Every assignment so far is thereby
\* the heaviest of its rows.
PotentialsBound ==
  pc = "row" =>
    \A j \in Columns \ {0} : \A i \in 1..(row - 1) :
      /\ Cost(i, j) >= 0
      /\ matchedColumn[j] = i => Cost(i, j) = 0

\* improveMatchingScores: no entry that holds an item would gain more than the
\* epsilon of 1 by another one, whatever the later bids do to the prices.
NoRegret ==
  pc = "bid" =>
    \A l \in Left : assignment[l] # 0 =>
      \A i \in Eligible(l) : Value(l, i) <= Value(l, assignment[l]) + 1

Promise == INSTANCE Pairing WITH
  solved <- pc = "done",
  pairs <- IF pc = "done" THEN PairsOf(matchedRight) ELSE {}

\* Both solvers return, and what they return is a largest pairing of the highest
\* score: neither the padding, the seed nor the auction's rounding costs a pair
\* or a point.
ReturnsBestPairing == Promise!Spec
=============================================================================

-------------------------- MODULE AssignmentProofs --------------------------
(***************************************************************************)
(* Proofs about the assignment solvers, for lists of every length.            *)
(*                                                                         *)
(* NoEntryTwice is inductive together with what augment's active calls and    *)
(* the auction's stack look like: PathAgrees and StackAgrees below.           *)
(*                                                                         *)
(* That what either solver returns is a best pairing rests on a certificate   *)
(* each: the potentials of the Hungarian algorithm (SquareInv), the closed    *)
(* layers of Hopcroft-Karp (Largest) and the prices of the auction            *)
(* (NoRegret, AuctionInv).  PromiseIsKept, at the end, puts them together.    *)
(***************************************************************************)
EXTENDS Assignment, BestMatching, Induction, TLAPS, FiniteSetTheorems, SequenceTheorems

\* Each active call of augment waits for the owner of the right entry it tried,
\* one layer further on; outside of augment there is none.
PathAgrees ==
  /\ pc # "augment" => path = <<>>
  /\ pc = "augment" => \A l \in Left : nextRight[l] >= 1
  /\ path # <<>> =>
       /\ root \in Left
       /\ leftToRight[path[1]] = 0
       /\ \A i \in 1..Len(path) : distance[path[i]] = distance[path[1]] + i - 1
       /\ \A i \in 1..(Len(path) - 1) :
            /\ <<path[i], nextRight[path[i]] - 1>> \in Compatible
            /\ rightToLeft[nextRight[path[i]] - 1] = path[i + 1]

\* The stack holds entries without an item, each once.
StackAgrees ==
  pc = "bid" =>
    /\ \A k \in 1..Len(unassigned) : assignment[unassigned[k]] = 0
    /\ \A j, k \in 1..Len(unassigned) : unassigned[j] = unassigned[k] => j = k

ResultAgrees ==
  pc = "done" =>
    /\ PairsOf(matchedRight) \subseteq Compatible
    /\ \A k, l \in Left : matchedRight[k] = matchedRight[l] => k = l \/ matchedRight[k] = 0

IInv ==
  /\ TypeOK /\ RowsHaveColumns /\ SidesAgree /\ OwnersAgree /\ ResultAgrees
  /\ PathAgrees /\ StackAgrees

LEMMA InitInv == Init => IInv
  <1> SUFFICES ASSUME Init PROVE IInv
    OBVIOUS
  <1> USE DEF Init
  <1>1. TypeOK
    BY ProblemsAssumption DEF TypeOK, Solving
  <1> QED
    BY <1>1 DEF IInv, RowsHaveColumns, SidesAgree, OwnersAgree, ResultAgrees, PathAgrees,
                StackAgrees, Solving

\* What the arguments of the call are.
LEMMA ProblemFacts ==
  ASSUME TypeOK
  PROVE  /\ problem.left \in Nat /\ problem.right \in Nat
         /\ Compatible \subseteq Left \X Right
         /\ \A pair \in Compatible : problem.score[pair] \in Int
         /\ problem.seed \in [Left -> 0..problem.right]
         /\ \A k, l \in Left : problem.seed[k] = problem.seed[l] => k = l \/ problem.seed[k] = 0
  BY DEF TypeOK, IsProblem, Compatible, Left, Right

\* A list of n entries has n entries.
LEMMA IntervalSize ==
  ASSUME NEW n \in Nat
  PROVE  IsFiniteSet(1..n) /\ Cardinality(1..n) = n
  <1>1. n \in Int /\ 1 \in Int
    OBVIOUS
  <1>2. /\ IsFiniteSet(1..n)
        /\ Cardinality(1..n) = IF 1 > n THEN 0 ELSE n - 1 + 1
    BY <1>1, FS_Interval
  <1> QED
    BY <1>2

----------------------------------------------------------------------------
\* maximumWeightAssignment

LEMMA SquareSteps ==
  ASSUME IInv, BeginSquare \/ BeginRow \/ Scan \/ Flip
  PROVE  IInv'
  <1> USE ProblemFacts DEF IInv
  <1>t. /\ problem.left \in Nat /\ problem.right \in Nat /\ Size \in Nat
        /\ Columns = 0..Size
    BY DEF Size, Columns
  <1>r. /\ ResultAgrees' /\ SidesAgree' /\ OwnersAgree' /\ PathAgrees' /\ StackAgrees'
    BY DEF BeginSquare, BeginRow, Scan, Flip, ResultAgrees, SidesAgree, OwnersAgree,
           PathAgrees, StackAgrees, Solving, call, linear, auction
  <1>1. CASE BeginSquare
    <2>1. {lowest', highest'} \subseteq Int
      BY <1>1 DEF BeginSquare, MeasureScores
    <2>2. TypeOK'
      BY <1>1, <1>t, <2>1 DEF BeginSquare, TypeOK, Solving, Size, Columns, Left
    <2>3. RowsHaveColumns'
      BY <1>1, <1>t DEF BeginSquare, RowsHaveColumns, Columns, Size
    <2> QED
      BY <1>r, <2>2, <2>3
  <1>2. CASE BeginRow
    <2>1. TypeOK'
      BY <1>2, <1>t DEF BeginRow, TypeOK, Solving, Size, Columns, Left, call
    <2>2. RowsHaveColumns'
      <3>1. /\ row \in 1..Size /\ pc' = "scan" /\ row' = row /\ Columns' = Columns
            /\ matchedColumn \in [Columns -> 0..Size]
            /\ matchedColumn' = [matchedColumn EXCEPT ![0] = row]
        BY <1>2, <1>t DEF BeginRow, TypeOK, Columns, Size, call
      <3>2. /\ \A j \in Columns \ {0} : matchedColumn[j] \in 1..(row - 1) \cup {0}
            /\ \A j, k \in Columns \ {0} :
                 matchedColumn[j] = matchedColumn[k] => j = k \/ matchedColumn[j] = 0
            /\ \A i \in 1..(row - 1) : \E j \in Columns \ {0} : matchedColumn[j] = i
        BY <1>2 DEF BeginRow, RowsHaveColumns
      <3>3. /\ \A j \in Columns : matchedColumn'[j] \in 1..row \cup {0}
            /\ \A j, k \in Columns :
                 matchedColumn'[j] = matchedColumn'[k] => j = k \/ matchedColumn'[j] = 0
        <4>1. ASSUME NEW j \in Columns
              PROVE  /\ matchedColumn'[j] = IF j = 0 THEN row ELSE matchedColumn[j]
                     /\ j # 0 => matchedColumn[j] \in 1..(row - 1) \cup {0}
          BY <3>1, <3>2
        <4>2. \A i \in 1..(row - 1) \cup {0} : i \in 1..row \cup {0} /\ i # row
          BY <3>1, <1>t
        <4>3. row \in 1..row /\ row # 0
          BY <3>1, <1>t
        <4>4. \A j \in Columns : matchedColumn'[j] \in 1..row \cup {0}
          BY <4>1, <4>2, <4>3
        <4>5. ASSUME NEW j \in Columns, NEW k \in Columns, matchedColumn'[j] = matchedColumn'[k]
              PROVE  j = k \/ matchedColumn'[j] = 0
          BY <3>2, <4>1, <4>2, <4>5
        <4> QED
          BY <4>4, <4>5
      <3>4. \A i \in 1..row : \E j \in Columns : matchedColumn'[j] = i
        <4>1. matchedColumn'[0] = row /\ 0 \in Columns
          BY <3>1, <1>t
        <4>2. \A i \in 1..row : i = row \/ i \in 1..(row - 1)
          BY <3>1, <1>t
        <4> QED
          BY <3>1, <3>2, <4>1, <4>2
      <3> QED
        BY <3>1, <3>3, <3>4 DEF RowsHaveColumns
    <2> QED
      BY <1>r, <2>1, <2>2
  <1>3. CASE Scan
    <2>1. TypeOK'
      BY <1>3, <1>t DEF Scan, TypeOK, Solving, Size, Columns, Left, call
    <2>2. RowsHaveColumns'
      BY <1>3, <1>t DEF Scan, RowsHaveColumns, TypeOK, Size, Columns, call
    <2> QED
      BY <1>r, <2>1, <2>2
  <1>4. CASE Flip
    <2>1. /\ pc = "flip" /\ column \in Columns /\ previous[column] \in Columns
          /\ row \in 1..Size /\ row \in Int
          /\ matchedColumn \in [Columns -> 0..Size]
          /\ previous \in [Columns -> Columns] /\ used \subseteq Columns
          /\ IsProblem(problem) /\ {lowest, highest} \subseteq Int
      BY <1>4, <1>t DEF Flip, TypeOK
    <2>2. /\ matchedColumn' = [matchedColumn EXCEPT ![column] = matchedColumn[previous[column]]]
          /\ column' = previous[column]
          /\ \/ column' = 0 /\ pc' = "row" /\ row' = row + 1
             \/ column' # 0 /\ pc' = "flip" /\ row' = row
          /\ previous' = previous /\ used' = used
          /\ Columns' = Columns /\ Size' = Size /\ problem' = problem
          /\ lowest' = lowest /\ highest' = highest
      BY <1>4, <2>1 DEF Flip, call, Columns, Size
    <2>3. TypeOK'
      <3>1. matchedColumn' \in [Columns -> 0..Size]
        BY <2>1, <2>2
      <3>2. row' \in IF pc' = "row" THEN 1..(Size + 1) ELSE 1..Size
        <4>1. CASE column' = 0
          <5>1. row + 1 \in 1..(Size + 1)
            BY <2>1, <1>t
          <5> QED
            BY <2>2, <4>1, <5>1
        <4>2. CASE column' # 0
          <5>1. row' = row /\ pc' = "flip"
            BY <2>2, <4>2
          <5> QED
            BY <2>1, <5>1
        <4> QED
          BY <4>1, <4>2
      <3> QED
        BY <2>1, <2>2, <3>1, <3>2 DEF TypeOK, Solving
    <2>4. RowsHaveColumns'
      <3>1. /\ \A j \in Columns \ {column} : matchedColumn[j] \in (1..row) \cup {0}
            /\ \A j, k \in Columns \ {column} :
                 matchedColumn[j] = matchedColumn[k] => j = k \/ matchedColumn[j] = 0
            /\ \A i \in 1..row : \E j \in Columns \ {column} : matchedColumn[j] = i
        BY <2>1 DEF RowsHaveColumns
      <3>2. /\ \A j \in Columns \ {column'} : matchedColumn'[j] \in (1..row) \cup {0}
            /\ \A j, k \in Columns \ {column'} :
                 matchedColumn'[j] = matchedColumn'[k] => j = k \/ matchedColumn'[j] = 0
        BY <2>1, <2>2, <3>1
      <3>3. ASSUME NEW i \in 1..row
            PROVE  \E j \in Columns \ {column'} : matchedColumn'[j] = i
        <4>1. PICK j \in Columns \ {column} : matchedColumn[j] = i
          BY <3>1
        <4>2. CASE j = column'
          BY <2>1, <2>2, <4>1, <4>2
        <4>3. CASE j # column'
          BY <2>1, <2>2, <4>1, <4>3
        <4> QED
          BY <4>2, <4>3
      <3>4. (row + 1) - 1 = row
        BY <2>1
      <3> QED
        BY <2>1, <2>2, <3>2, <3>3, <3>4 DEF RowsHaveColumns
    <2> QED
      BY <1>r, <2>3, <2>4
  <1> QED
    BY <1>1, <1>2, <1>3, <1>4

\* What a solver returns: a table of partners over the pairs of a matching.
LEMMA Returning ==
  ASSUME IInv, NEW partners,
         pc # "augment", Return(partners), UNCHANGED <<call, path>>,
         partners \in [Left -> 0..problem.right],
         PairsOf(partners) \subseteq Compatible,
         \A k, l \in Left : partners[k] = partners[l] => k = l \/ partners[k] = 0
  PROVE  IInv'
  <1>1. /\ pc' = "done" /\ matchedRight' = partners
        /\ problem' = problem /\ lowest' = lowest /\ highest' = highest
        /\ Left' = Left /\ Compatible' = Compatible
    BY DEF Return, call, Left, Compatible
  <1>2. TypeOK'
    BY <1>1 DEF IInv, TypeOK, Solving
  <1>3. ResultAgrees'
    BY <1>1 DEF ResultAgrees, PairsOf
  <1>4. PathAgrees'
    BY <1>1 DEF PathAgrees, IInv
  <1> QED
    BY <1>1, <1>2, <1>3, <1>4
    DEF IInv, RowsHaveColumns, SidesAgree, OwnersAgree, StackAgrees, Solving

LEMMA NothingToPairStep == ASSUME IInv, NothingToPair PROVE IInv'
  <1>1. /\ Nobody \in [Left -> 0..problem.right]
        /\ PairsOf(Nobody) = {}
        /\ \A l \in Left : Nobody[l] = 0
    BY ProblemFacts DEF IInv, Nobody, PairsOf
  <1> QED
    BY <1>1, Returning DEF NothingToPair, linear

LEMMA EndSquareStep == ASSUME IInv, EndSquare PROVE IInv'
  <1> DEFINE columnOf(l) == CHOOSE j \in 1..Size : matchedColumn[j] = l
             partners == [l \in Left |->
               IF <<l, columnOf(l)>> \in Compatible THEN columnOf(l) ELSE 0]
  <1>1. pc # "augment" /\ Return(partners) /\ UNCHANGED <<call, path>>
    BY DEF EndSquare, linear
  <1>2. Compatible \subseteq Left \X Right /\ problem.left \in Nat /\ problem.right \in Nat
    BY ProblemFacts DEF IInv
  <1>3. ASSUME NEW l \in Left
        PROVE  columnOf(l) \in 1..Size /\ matchedColumn[columnOf(l)] = l
    <2>1. row = Size + 1
      BY <1>2 DEF EndSquare, IInv, TypeOK, Size
    <2>2. l \in 1..(row - 1)
      BY <2>1, <1>2 DEF Left, Size
    <2>3. \E j \in Columns \ {0} : matchedColumn[j] = l
      BY <2>2 DEF EndSquare, IInv, RowsHaveColumns
    <2>4. Columns \ {0} = 1..Size
      BY <1>2 DEF Columns, Size
    <2> QED
      BY <2>3, <2>4
  <1> HIDE DEF columnOf
  <1>4. partners \in [Left -> 0..problem.right]
    <2>1. ASSUME NEW l \in Left PROVE partners[l] \in 0..problem.right
      <3>1. CASE <<l, columnOf(l)>> \in Compatible
        <4>1. columnOf(l) \in Right
          BY <3>1, <1>2
        <4> QED
          BY <3>1, <4>1, <1>2 DEF Right
      <3>2. CASE <<l, columnOf(l)>> \notin Compatible
        BY <3>2, <1>2
      <3> QED
        BY <3>1, <3>2
    <2> QED
      BY <2>1
  <1>5. PairsOf(partners) \subseteq Compatible
    BY DEF PairsOf
  <1>6. \A k, l \in Left : partners[k] = partners[l] => k = l \/ partners[k] = 0
    BY <1>3
  <1> HIDE DEF partners
  <1> QED
    BY <1>1, <1>4, <1>5, <1>6, Returning

----------------------------------------------------------------------------
\* linearMemoryMaximumCardinalityPairsWithSeed

\* What the steps of Hopcroft-Karp leave alone.
LEMMA LinearFacts ==
  ASSUME IInv, UNCHANGED <<call, matchedRight, square, auction>>,
         {pc, pc'} \subseteq {"call", "layers", "augment", "improve"}
  PROVE  /\ Left' = Left /\ Right' = Right /\ Compatible' = Compatible
         /\ problem' = problem /\ IsProblem(problem') /\ {lowest', highest'} \subseteq Int
         /\ RowsHaveColumns' /\ OwnersAgree' /\ ResultAgrees' /\ StackAgrees'
  BY DEF IInv, TypeOK, call, Left, Right, Compatible, RowsHaveColumns, OwnersAgree,
         ResultAgrees, StackAgrees

LEMMA BeginLinearStep == ASSUME IInv, BeginLinear PROVE IInv'
  <1>1. /\ pc = "call" /\ pc' = "layers" /\ path' = path /\ root' = root
        /\ UNCHANGED <<call, matchedRight, square, auction>>
    BY DEF BeginLinear
  <1>2. /\ Left' = Left /\ Right' = Right /\ Compatible' = Compatible
        /\ problem' = problem /\ IsProblem(problem') /\ {lowest', highest'} \subseteq Int
        /\ RowsHaveColumns' /\ OwnersAgree' /\ ResultAgrees' /\ StackAgrees'
    BY <1>1, LinearFacts
  <1>3. /\ problem.left \in Nat /\ problem.right \in Nat
        /\ Compatible \subseteq Left \X Right
        /\ problem.seed \in [Left -> 0..problem.right]
        /\ \A k, l \in Left : problem.seed[k] = problem.seed[l] => k = l \/ problem.seed[k] = 0
    BY ProblemFacts DEF IInv
  <1>4. /\ leftToRight' = [l \in Left |->
             IF <<l, problem.seed[l]>> \in Compatible THEN problem.seed[l] ELSE 0]
        /\ rightToLeft' = [r \in Right |->
             IF \E l \in Left : leftToRight'[l] = r
             THEN CHOOSE l \in Left : leftToRight'[l] = r ELSE 0]
        /\ distance' = Nobody /\ nextRight' = Nobody
    BY DEF BeginLinear
  <1>5. /\ leftToRight' \in [Left -> 0..problem.right]
        /\ \A l \in Left : leftToRight'[l] # 0 => <<l, leftToRight'[l]>> \in Compatible
    BY <1>3, <1>4
  <1>6. \A k, l \in Left : leftToRight'[k] = leftToRight'[l] => k = l \/ leftToRight'[k] = 0
    BY <1>3, <1>4
  <1> DEFINE pairedWith(r) == CHOOSE l \in Left : leftToRight'[l] = r
  <1>7. ASSUME NEW r \in Right
        PROVE  \/ /\ pairedWith(r) \in Left /\ leftToRight'[pairedWith(r)] = r
                  /\ rightToLeft'[r] = pairedWith(r)
               \/ /\ \A l \in Left : leftToRight'[l] # r
                  /\ rightToLeft'[r] = 0
    BY <1>4
  <1> HIDE DEF pairedWith
  <1>8. /\ rightToLeft' \in [Right -> 0..problem.left]
        /\ \A l \in Left, r \in Right : leftToRight'[l] = r <=> rightToLeft'[r] = l
    <2>1. /\ 0 \notin Left /\ 0 \notin Right
          /\ \A l \in Left : l \in 0..problem.left
          /\ 0 \in 0..problem.left
      BY <1>3 DEF Left, Right
    <2>2. \A r \in Right : rightToLeft'[r] \in 0..problem.left
      BY <1>7, <2>1
    <2>3. rightToLeft' \in [Right -> 0..problem.left]
      BY <1>4, <2>2
    <2>4. \A l \in Left, r \in Right : leftToRight'[l] = r <=> rightToLeft'[r] = l
      BY <1>6, <1>7, <2>1
    <2> QED
      BY <2>3, <2>4
  <1>9. root = 1 /\ path = <<>>
    BY <1>1 DEF IInv, PathAgrees, TypeOK
  <1>10. TypeOK'
    <2>1. /\ distance' \in [Left -> Int]
          /\ nextRight' \in [Left -> 0..(problem.right + 1)]
          /\ path' \in Seq(Left)
          /\ root' \in 1..(problem.left + 1)
      BY <1>1, <1>3, <1>4, <1>9 DEF Nobody
    <2> QED
      BY <1>1, <1>2, <1>5, <1>8, <2>1 DEF TypeOK, Solving
  <1>11. SidesAgree'
    BY <1>2, <1>5, <1>8 DEF SidesAgree, PairsOf
  <1>12. PathAgrees'
    BY <1>1, <1>9 DEF PathAgrees
  <1> QED
    BY <1>2, <1>10, <1>11, <1>12 DEF IInv

LEMMA LayersStep == ASSUME IInv, Layers PROVE IInv'
  <1>1. /\ pc = "layers" /\ pc' \in {"augment", "improve"} /\ path = <<>>
        /\ UNCHANGED <<call, matchedRight, square, leftToRight, rightToLeft, path, auction>>
        /\ distance' = [l \in Left |-> Layer(l)]
        /\ \/ pc' = "augment" /\ nextRight' = [l \in Left |-> 1] /\ root' = 1
           \/ pc' = "improve" /\ nextRight' = nextRight /\ root' = root
    BY DEF Layers, IInv, PathAgrees
  <1>2. /\ Left' = Left /\ Right' = Right /\ Compatible' = Compatible
        /\ problem' = problem /\ IsProblem(problem') /\ {lowest', highest'} \subseteq Int
        /\ RowsHaveColumns' /\ OwnersAgree' /\ ResultAgrees' /\ StackAgrees'
    BY <1>1, LinearFacts
  <1>3. problem.left \in Nat /\ problem.right \in Nat
    BY ProblemFacts DEF IInv
  <1>4. ASSUME NEW l \in Left PROVE Layer(l) \in Int
    <2> DEFINE earlier == {k \in 0..problem.left : l \notin Within(k)}
    <2>1. IsFiniteSet(0..problem.left)
      BY <1>3, FS_Interval
    <2>2. IsFiniteSet(earlier)
      BY <2>1, FS_Subset
    <2>3. Cardinality(earlier) \in Nat
      BY <2>2, FS_CardinalityType
    <2> HIDE DEF earlier
    <2>4. Layer(l) = Cardinality(earlier) \/ Layer(l) = -1
      BY DEF Layer, earlier
    <2> QED
      BY <2>3, <2>4
  <1>5. distance' \in [Left -> Int]
    BY <1>1, <1>4
  <1>6. TypeOK'
    <2>1. /\ leftToRight \in [Left -> 0..problem.right]
          /\ rightToLeft \in [Right -> 0..problem.left]
          /\ nextRight \in [Left -> 0..(problem.right + 1)]
          /\ root \in 1..(problem.left + 1)
          /\ path \in Seq(Left)
      BY <1>1 DEF IInv, TypeOK, Solving
    <2>2. 1 \in 0..(problem.right + 1) /\ 1 \in 1..(problem.left + 1)
      BY <1>3
    <2>3. nextRight' \in [Left -> 0..(problem.right + 1)] /\ root' \in 1..(problem.left + 1)
      BY <1>1, <2>1, <2>2
    <2> QED
      BY <1>1, <1>2, <1>5, <2>1, <2>3 DEF TypeOK, Solving
  <1>7. SidesAgree'
    BY <1>1, <1>2 DEF IInv, SidesAgree, Solving, PairsOf
  <1>8. PathAgrees'
    BY <1>1, <1>2 DEF PathAgrees
  <1> QED
    BY <1>2, <1>6, <1>7, <1>8 DEF IInv

\* What the loop around augment leaves alone.
LEMMA AugmentFacts ==
  ASSUME IInv, pc = "augment", pc' \in {"augment", "layers"},
         UNCHANGED <<call, matchedRight, square, auction>>
  PROVE  /\ Left' = Left /\ Right' = Right /\ Compatible' = Compatible
         /\ problem' = problem /\ IsProblem(problem') /\ {lowest', highest'} \subseteq Int
         /\ RowsHaveColumns' /\ OwnersAgree' /\ ResultAgrees' /\ StackAgrees'
         /\ problem.left \in Nat /\ problem.right \in Nat
         /\ Compatible \subseteq Left \X Right
         /\ leftToRight \in [Left -> 0..problem.right]
         /\ rightToLeft \in [Right -> 0..problem.left]
         /\ distance \in [Left -> Int]
         /\ nextRight \in [Left -> 0..(problem.right + 1)]
         /\ \A l \in Left : nextRight[l] >= 1
         /\ path \in Seq(Left) /\ Len(path) \in Nat
         /\ \A i \in 1..Len(path) : path[i] \in Left
         /\ root \in 1..(problem.left + 1)
  <1>1. /\ Left' = Left /\ Right' = Right /\ Compatible' = Compatible
        /\ problem' = problem /\ IsProblem(problem') /\ {lowest', highest'} \subseteq Int
        /\ RowsHaveColumns' /\ OwnersAgree' /\ ResultAgrees' /\ StackAgrees'
    BY LinearFacts
  <1>2. /\ problem.left \in Nat /\ problem.right \in Nat
        /\ Compatible \subseteq Left \X Right
    BY ProblemFacts DEF IInv
  <1>3. path \in Seq(Left)
    BY DEF IInv, TypeOK, Solving
  <1>4. Len(path) \in Nat /\ \A i \in 1..Len(path) : path[i] \in Left
    BY <1>3
  <1> QED
    BY <1>1, <1>2, <1>3, <1>4 DEF IInv, TypeOK, Solving, PathAgrees

LEMMA NextRootStep == ASSUME IInv, NextRoot PROVE IInv'
  <1>1. /\ pc = "augment" /\ path = <<>> /\ pc' \in {"augment", "layers"}
        /\ UNCHANGED <<call, matchedRight, square, leftToRight, rightToLeft, distance,
                       nextRight, auction>>
        /\ \/ pc' = "layers" /\ root' = root /\ path' = path
           \/ /\ root <= problem.left /\ leftToRight[root] = 0
              /\ pc' = "augment" /\ path' = <<root>> /\ root' = root
           \/ /\ root <= problem.left
              /\ pc' = "augment" /\ path' = path /\ root' = root + 1
    BY AugmentFacts DEF NextRoot, IInv, TypeOK, Solving
  <1>2. UNCHANGED <<call, matchedRight, square, auction>>
    BY <1>1
  <1>3. /\ Left' = Left /\ Right' = Right /\ Compatible' = Compatible
        /\ problem' = problem /\ IsProblem(problem') /\ {lowest', highest'} \subseteq Int
        /\ RowsHaveColumns' /\ OwnersAgree' /\ ResultAgrees' /\ StackAgrees'
        /\ problem.left \in Nat /\ problem.right \in Nat
        /\ leftToRight \in [Left -> 0..problem.right]
        /\ rightToLeft \in [Right -> 0..problem.left]
        /\ distance \in [Left -> Int]
        /\ nextRight \in [Left -> 0..(problem.right + 1)]
        /\ \A l \in Left : nextRight[l] >= 1
        /\ root \in 1..(problem.left + 1)
    BY <1>1, <1>2, AugmentFacts
  <1>4. root <= problem.left => root \in Left
    BY <1>3 DEF Left
  <1>5. path' \in Seq(Left) /\ root' \in 1..(problem.left + 1)
    <2>1. root <= problem.left => <<root>> \in Seq(Left) /\ root + 1 \in 1..(problem.left + 1)
      BY <1>3, <1>4
    <2>2. path \in Seq(Left)
      BY <1>1
    <2> QED
      BY <1>1, <1>3, <2>1, <2>2
  <1>6. TypeOK'
    BY <1>1, <1>3, <1>5 DEF TypeOK, Solving
  <1>7. SidesAgree'
    BY <1>1, <1>3 DEF IInv, SidesAgree, Solving, PairsOf
  <1>8. PathAgrees'
    <2>1. CASE path' = <<>>
      BY <1>1, <1>3, <2>1 DEF PathAgrees
    <2>2. CASE path' # <<>>
      <3>1. /\ path' = <<root>> /\ leftToRight[root] = 0 /\ root \in Left /\ pc' = "augment"
        BY <1>1, <1>4, <2>2
      <3>2. Len(path') = 1 /\ path'[1] = root
        BY <3>1
      <3>3. \A i \in 1..Len(path') : distance'[path'[i]] = distance'[path'[1]] + i - 1
        BY <1>1, <1>3, <3>1, <3>2
      <3>4. 1..(Len(path') - 1) = {}
        BY <3>2
      <3> QED
        BY <1>1, <1>3, <3>1, <3>2, <3>3, <3>4 DEF PathAgrees
    <2> QED
      BY <2>1, <2>2
  <1> QED
    BY <1>3, <1>6, <1>7, <1>8 DEF IInv

LEMMA DeadEndStep == ASSUME IInv, DeadEnd PROVE IInv'
  <1> DEFINE n == Len(path)
  <1>1. /\ pc = "augment" /\ pc' = "augment" /\ path # <<>>
        /\ UNCHANGED <<call, matchedRight, square, auction>>
        /\ leftToRight' = leftToRight /\ rightToLeft' = rightToLeft /\ nextRight' = nextRight
        /\ distance' = [distance EXCEPT ![Caller] = -1]
        /\ path' = SubSeq(path, 1, n - 1)
        /\ root' = IF n = 1 THEN root + 1 ELSE root
    BY DEF DeadEnd
  <1>2. /\ Left' = Left /\ Right' = Right /\ Compatible' = Compatible
        /\ problem' = problem /\ IsProblem(problem') /\ {lowest', highest'} \subseteq Int
        /\ RowsHaveColumns' /\ OwnersAgree' /\ ResultAgrees' /\ StackAgrees'
        /\ problem.left \in Nat /\ problem.right \in Nat
        /\ leftToRight \in [Left -> 0..problem.right]
        /\ rightToLeft \in [Right -> 0..problem.left]
        /\ distance \in [Left -> Int]
        /\ nextRight \in [Left -> 0..(problem.right + 1)]
        /\ \A l \in Left : nextRight[l] >= 1
        /\ path \in Seq(Left) /\ n \in Nat
        /\ \A i \in 1..n : path[i] \in Left
        /\ Caller = path[n]
    BY <1>1, AugmentFacts DEF Caller
  <1>3. n >= 1 /\ n \in Int
    BY <1>1, <1>2
  <1>4. /\ root \in Left
        /\ leftToRight[path[1]] = 0
        /\ \A i \in 1..n : distance[path[i]] = distance[path[1]] + i - 1
        /\ \A i \in 1..(n - 1) :
             /\ <<path[i], nextRight[path[i]] - 1>> \in Compatible
             /\ rightToLeft[nextRight[path[i]] - 1] = path[i + 1]
    BY <1>1 DEF IInv, PathAgrees
  <1> HIDE DEF n
  <1>5. /\ path' \in Seq(Left) /\ Len(path') = n - 1
        /\ \A i \in 1..(n - 1) : path'[i] = path[i]
    <2>1. 1..(n - 1) \subseteq 1..n /\ n - 1 \in Nat
      BY <1>2, <1>3
    <2>2. /\ SubSeq(path, 1, n - 1) \in Seq(Left)
          /\ Len(SubSeq(path, 1, n - 1)) = IF 1 <= n - 1 THEN (n - 1) - 1 + 1 ELSE 0
          /\ \A i \in 1..((n - 1) - 1 + 1) : SubSeq(path, 1, n - 1)[i] = path[1 + i - 1]
      BY <1>2, <1>3, <2>1, SubSeqProperties
    <2>3. (n - 1) - 1 + 1 = n - 1 /\ \A i \in 1..(n - 1) : 1 + i - 1 = i
      BY <1>3
    <2>4. (IF 1 <= n - 1 THEN (n - 1) - 1 + 1 ELSE 0) = n - 1
      BY <1>3
    <2> QED
      BY <1>1, <2>2, <2>3, <2>4
  <1>6. \A i \in 1..(n - 1) : path[i] # Caller
    <2>1. ASSUME NEW i \in 1..(n - 1) PROVE path[i] # path[n]
      <3>1. i \in 1..n /\ n \in 1..n /\ i # n /\ path[1] \in Left
        BY <1>2, <1>3
      <3>2. distance[path[1]] \in Int
        BY <1>2, <3>1
      <3>3. distance[path[i]] # distance[path[n]]
        BY <1>3, <1>4, <3>1, <3>2
      <3> QED
        BY <3>3
    <2> QED
      BY <1>2, <2>1
  <1>7. \A i \in 1..(n - 1) : distance'[path[i]] = distance[path[i]]
    <2>1. 1..(n - 1) \subseteq 1..n
      BY <1>3
    <2> QED
      BY <1>1, <1>2, <1>6, <2>1
  <1>8. TypeOK'
    <2>1. Caller \in Left
      BY <1>2, <1>3
    <2>2. distance' \in [Left -> Int]
      BY <1>1, <1>2, <2>1
    <2>3. root' \in 1..(problem.left + 1)
      BY <1>1, <1>2, <1>4 DEF Left
    <2> QED
      BY <1>1, <1>2, <1>5, <2>2, <2>3 DEF TypeOK, Solving
  <1>9. SidesAgree'
    BY <1>1, <1>2 DEF IInv, SidesAgree, Solving, PairsOf
  <1>10. PathAgrees'
    <2>1. CASE n = 1
      <3>1. path' = <<>>
        BY <1>5, <2>1
      <3> QED
        BY <1>1, <1>2, <3>1 DEF PathAgrees
    <2>2. CASE n > 1
      <3>1. /\ Len(path') = n - 1 /\ 1 \in 1..(n - 1)
            /\ \A i \in 1..(n - 1) : path'[i] = path[i] /\ i \in 1..n
            /\ \A i \in 1..(n - 1 - 1) : i \in 1..(n - 1) /\ i + 1 \in 1..(n - 1)
        <4>1. 1 \in 1..(n - 1) /\ \A i \in 1..(n - 1) : i \in 1..n
          BY <1>3, <2>2
        <4>2. \A i \in 1..(n - 1 - 1) : i \in 1..(n - 1) /\ i + 1 \in 1..(n - 1)
          BY <1>3, <2>2
        <4> QED
          BY <1>5, <4>1, <4>2
      <3>2. leftToRight'[path'[1]] = 0
        BY <1>1, <1>4, <3>1
      <3>3. \A i \in 1..Len(path') : distance'[path'[i]] = distance'[path'[1]] + i - 1
        BY <1>4, <1>7, <3>1
      <3>4. ASSUME NEW i \in 1..(Len(path') - 1)
            PROVE  /\ <<path'[i], nextRight'[path'[i]] - 1>> \in Compatible'
                   /\ rightToLeft'[nextRight'[path'[i]] - 1] = path'[i + 1]
        <4>1. i \in 1..(n - 1) /\ path'[i] = path[i] /\ path'[i + 1] = path[i + 1]
          BY <3>1
        <4>2. /\ <<path[i], nextRight[path[i]] - 1>> \in Compatible
              /\ rightToLeft[nextRight[path[i]] - 1] = path[i + 1]
          BY <1>4, <4>1
        <4> QED
          BY <1>1, <1>2, <4>1, <4>2
      <3>5. root' \in Left'
        <4>1. n # 1
          BY <1>3, <2>2
        <4> QED
          BY <1>1, <1>2, <1>4, <4>1
      <3> QED
        BY <1>1, <1>2, <3>2, <3>3, <3>4, <3>5 DEF PathAgrees
    <2> QED
      BY <1>3, <2>1, <2>2
  <1> QED
    BY <1>2, <1>8, <1>9, <1>10 DEF IInv

\* Every active call of augment is one layer deeper, so none is active twice.
LEMMA PathFacts ==
  ASSUME IInv, path # <<>>, NEW n, n = Len(path)
  PROVE  /\ n \in Int /\ n >= 1
         /\ Caller = path[n] /\ Caller \in Left
         /\ \A i \in 1..n : path[i] \in Left
         /\ \A i, j \in 1..n : path[i] = path[j] => i = j
         /\ root \in Left /\ leftToRight[path[1]] = 0
         /\ \A i \in 1..n : distance[path[i]] = distance[path[1]] + i - 1
         /\ \A i \in 1..(n - 1) :
              /\ <<path[i], nextRight[path[i]] - 1>> \in Compatible
              /\ rightToLeft[nextRight[path[i]] - 1] = path[i + 1]
  <1>1. pc = "augment"
    BY DEF IInv, PathAgrees
  <1>2. path \in Seq(Left) /\ distance \in [Left -> Int]
    BY <1>1 DEF IInv, TypeOK, Solving
  <1>3. n \in Int /\ n >= 1 /\ \A i \in 1..n : path[i] \in Left
    BY <1>2
  <1>4. /\ root \in Left /\ leftToRight[path[1]] = 0
        /\ \A i \in 1..n : distance[path[i]] = distance[path[1]] + i - 1
        /\ \A i \in 1..(n - 1) :
             /\ <<path[i], nextRight[path[i]] - 1>> \in Compatible
             /\ rightToLeft[nextRight[path[i]] - 1] = path[i + 1]
    BY DEF IInv, PathAgrees
  <1>5. ASSUME NEW i \in 1..n, NEW j \in 1..n, path[i] = path[j]
        PROVE  i = j
    <2>1. path[1] \in Left
      BY <1>3
    <2>2. distance[path[1]] \in Int
      BY <1>2, <2>1
    <2>3. distance[path[1]] + i - 1 = distance[path[1]] + j - 1
      BY <1>4, <1>5
    <2> QED
      BY <2>2, <2>3, <1>3
  <1>6. Caller = path[n] /\ n \in 1..n
    BY <1>3 DEF Caller
  <1> QED
    BY <1>3, <1>4, <1>5, <1>6

\* What looking at the next right entry of the innermost call changes.
LEMMA TryFacts ==
  ASSUME IInv, TryRight, NEW n, n = Len(path), NEW r, r = nextRight[Caller]
  PROVE  /\ pc = "augment" /\ pc' = "augment" /\ path # <<>> /\ r \in Right
         /\ UNCHANGED <<call, matchedRight, square, auction>>
         /\ distance' = distance
         /\ nextRight' = [nextRight EXCEPT ![Caller] = r + 1]
         /\ nextRight' \in [Left -> 0..(problem.right + 1)]
         /\ \A l \in Left : nextRight'[l] >= 1
         /\ \A i \in 1..(n - 1) : nextRight'[path[i]] = nextRight[path[i]]
         /\ nextRight'[path[n]] = r + 1
  <1>1. /\ pc = "augment" /\ pc' = "augment" /\ path # <<>>
        /\ UNCHANGED <<call, matchedRight, square, auction>>
        /\ distance' = distance
        /\ nextRight[Caller] <= problem.right
        /\ nextRight' = [nextRight EXCEPT ![Caller] = @ + 1]
    BY DEF TryRight
  <1>2. /\ problem.right \in Nat
        /\ nextRight \in [Left -> 0..(problem.right + 1)]
        /\ \A l \in Left : nextRight[l] >= 1
    BY <1>1, AugmentFacts
  <1>3. /\ n \in Int /\ n >= 1 /\ Caller = path[n] /\ Caller \in Left
        /\ \A i \in 1..n : path[i] \in Left
        /\ \A i, j \in 1..n : path[i] = path[j] => i = j
    BY <1>1, PathFacts
  <1>4. r \in Right /\ r + 1 \in 0..(problem.right + 1) /\ r + 1 >= 1
    BY <1>1, <1>2, <1>3 DEF Right
  <1>5. ASSUME NEW i \in 1..(n - 1) PROVE nextRight'[path[i]] = nextRight[path[i]]
    <2>1. i \in 1..n /\ n \in 1..n /\ i # n
      BY <1>3
    <2> QED
      BY <1>1, <1>2, <1>3, <2>1
  <1> QED
    BY <1>1, <1>2, <1>3, <1>4, <1>5

LEMMA TryRightStep == ASSUME IInv, TryRight PROVE IInv'
  <1> DEFINE n == Len(path)
             r == nextRight[Caller]
             owner == rightToLeft[r]
  <1>1. /\ pc = "augment" /\ pc' = "augment" /\ path # <<>> /\ r \in Right
        /\ UNCHANGED <<call, matchedRight, square, auction>>
        /\ distance' = distance
        /\ nextRight' = [nextRight EXCEPT ![Caller] = r + 1]
        /\ nextRight' \in [Left -> 0..(problem.right + 1)]
        /\ \A l \in Left : nextRight'[l] >= 1
        /\ \A i \in 1..(n - 1) : nextRight'[path[i]] = nextRight[path[i]]
        /\ nextRight'[path[n]] = r + 1
    BY TryFacts
  <1>2. /\ Left' = Left /\ Right' = Right /\ Compatible' = Compatible
        /\ problem' = problem /\ IsProblem(problem') /\ {lowest', highest'} \subseteq Int
        /\ RowsHaveColumns' /\ OwnersAgree' /\ ResultAgrees' /\ StackAgrees'
        /\ problem.left \in Nat /\ problem.right \in Nat
        /\ Compatible \subseteq Left \X Right
        /\ leftToRight \in [Left -> 0..problem.right]
        /\ rightToLeft \in [Right -> 0..problem.left]
        /\ distance \in [Left -> Int]
        /\ path \in Seq(Left)
        /\ root \in 1..(problem.left + 1)
    BY <1>1, AugmentFacts
  <1>3. /\ n \in Int /\ n >= 1 /\ Caller = path[n] /\ Caller \in Left
        /\ \A i \in 1..n : path[i] \in Left
        /\ \A i, j \in 1..n : path[i] = path[j] => i = j
        /\ root \in Left /\ leftToRight[path[1]] = 0
        /\ \A i \in 1..n : distance[path[i]] = distance[path[1]] + i - 1
        /\ \A i \in 1..(n - 1) :
             /\ <<path[i], nextRight[path[i]] - 1>> \in Compatible
             /\ rightToLeft[nextRight[path[i]] - 1] = path[i + 1]
    BY <1>1, PathFacts
  <1>4. /\ \A l \in Left, q \in Right : leftToRight[l] = q <=> rightToLeft[q] = l
        /\ PairsOf(leftToRight) \subseteq Compatible
    BY <1>1 DEF IInv, SidesAgree, Solving
  <1>5. owner \in 0..problem.left
    BY <1>1, <1>2
  <1>6. \/ UNCHANGED <<leftToRight, rightToLeft, root, path>>
        \/ /\ <<Caller, r>> \in Compatible
           /\ owner # 0 /\ distance[owner] = distance[Caller] + 1
           /\ path' = Append(path, owner)
           /\ UNCHANGED <<leftToRight, rightToLeft, root>>
        \/ /\ <<Caller, r>> \in Compatible
           /\ owner = 0
           /\ leftToRight' = Augmented
           /\ rightToLeft' = [q \in Right |->
                IF \E i \in DOMAIN path : Augmented[path[i]] = q
                THEN path[CHOOSE i \in DOMAIN path : Augmented[path[i]] = q]
                ELSE rightToLeft[q]]
           /\ path' = <<>>
           /\ root' = root + 1
    BY DEF TryRight
  <1>7. DOMAIN path = 1..n
    BY <1>2
  <1> HIDE DEF n, r, owner
  <1>8. CASE UNCHANGED <<leftToRight, rightToLeft, root, path>>
    <2>1. TypeOK'
      BY <1>1, <1>2, <1>8 DEF TypeOK, Solving
    <2>2. SidesAgree'
      BY <1>2, <1>4, <1>8 DEF SidesAgree, PairsOf
    <2>3. PathAgrees'
      <3>1. Len(path') = n /\ path' = path
        BY <1>8 DEF n
      <3>2. root' \in Left' /\ leftToRight'[path'[1]] = 0
        BY <1>2, <1>3, <1>8
      <3>3. \A i \in 1..Len(path') : distance'[path'[i]] = distance'[path'[1]] + i - 1
        BY <1>1, <1>3, <3>1
      <3>4. \A i \in 1..(Len(path') - 1) :
              /\ <<path'[i], nextRight'[path'[i]] - 1>> \in Compatible'
              /\ rightToLeft'[nextRight'[path'[i]] - 1] = path'[i + 1]
        BY <1>1, <1>2, <1>3, <1>8, <3>1
      <3> QED
        BY <1>1, <1>2, <3>2, <3>3, <3>4 DEF PathAgrees
    <2> QED
      BY <1>2, <2>1, <2>2, <2>3 DEF IInv
  <1>9. CASE /\ <<Caller, r>> \in Compatible
             /\ owner # 0 /\ distance[owner] = distance[Caller] + 1
             /\ path' = Append(path, owner)
             /\ UNCHANGED <<leftToRight, rightToLeft, root>>
    <2>1. owner \in Left
      BY <1>2, <1>5, <1>9 DEF Left
    <2>2. /\ path' \in Seq(Left) /\ Len(path') = n + 1 /\ path'[n + 1] = owner
          /\ \A i \in 1..n : path'[i] = path[i]
      BY <1>2, <1>9, <2>1 DEF n
    <2>3. TypeOK'
      BY <1>1, <1>2, <1>9, <2>2 DEF TypeOK, Solving
    <2>4. SidesAgree'
      BY <1>2, <1>4, <1>9 DEF SidesAgree, PairsOf
    <2>5. /\ 1 \in 1..n /\ n \in 1..n /\ path[1] \in Left /\ distance[path[1]] \in Int
      BY <1>2, <1>3
    <2>6. ASSUME NEW i \in 1..(n + 1)
          PROVE  distance'[path'[i]] = distance'[path'[1]] + i - 1
      <3>1. CASE i = n + 1
        <4>1. distance[owner] = distance[path[1]] + n - 1 + 1
          BY <1>3, <1>9, <2>5
        <4>2. distance[path[1]] + n - 1 + 1 = distance[path[1]] + i - 1
          BY <1>3, <2>5, <3>1
        <4>3. distance'[path'[i]] = distance[owner] /\ distance'[path'[1]] = distance[path[1]]
          BY <1>1, <2>2, <2>5, <3>1
        <4> QED
          BY <4>1, <4>2, <4>3
      <3>2. CASE i \in 1..n
        BY <1>1, <1>3, <2>2, <2>5, <3>2
      <3> QED
        BY <1>3, <3>1, <3>2
    <2>7. ASSUME NEW i \in 1..n
          PROVE  /\ <<path'[i], nextRight'[path'[i]] - 1>> \in Compatible
                 /\ rightToLeft'[nextRight'[path'[i]] - 1] = path'[i + 1]
      <3>1. CASE i = n
        <4>1. (r + 1) - 1 = r
          BY <1>1, <1>2 DEF Right
        <4> QED
          BY <1>1, <1>3, <1>9, <2>2, <3>1, <4>1 DEF owner
      <3>2. CASE i \in 1..(n - 1)
        <4>1. i + 1 \in 1..n
          BY <1>3, <3>2
        <4> QED
          BY <1>1, <1>3, <1>9, <2>2, <3>2, <4>1
      <3> QED
        BY <1>3, <3>1, <3>2
    <2>8. (n + 1) - 1 = n
      BY <1>3
    <2>9. PathAgrees'
      <3>1. Len(path') = n + 1 /\ Len(path') - 1 = n
        BY <2>2, <2>8
      <3>2. root' \in Left' /\ leftToRight'[path'[1]] = 0
        BY <1>2, <1>3, <1>9, <2>2, <2>5
      <3>3. \A i \in 1..Len(path') : distance'[path'[i]] = distance'[path'[1]] + i - 1
        BY <2>6, <3>1
      <3>4. \A i \in 1..(Len(path') - 1) :
              /\ <<path'[i], nextRight'[path'[i]] - 1>> \in Compatible'
              /\ rightToLeft'[nextRight'[path'[i]] - 1] = path'[i + 1]
        BY <1>2, <2>7, <3>1
      <3> QED
        BY <1>1, <1>2, <3>2, <3>3, <3>4 DEF PathAgrees
    <2> QED
      BY <1>2, <2>3, <2>4, <2>9 DEF IInv
  <1>10. CASE /\ <<Caller, r>> \in Compatible
              /\ owner = 0
              /\ leftToRight' = Augmented
              /\ rightToLeft' = [q \in Right |->
                   IF \E i \in DOMAIN path : Augmented[path[i]] = q
                   THEN path[CHOOSE i \in DOMAIN path : Augmented[path[i]] = q]
                   ELSE rightToLeft[q]]
              /\ path' = <<>>
              /\ root' = root + 1
    <2> DEFINE tried(i) == IF i = n THEN r ELSE nextRight[path[i]] - 1
               callOf(q) == CHOOSE i \in 1..n : Augmented[path[i]] = q
    <2>1. /\ \A i \in 1..n : Augmented[path[i]] = tried(i)
          /\ \A l \in Left : (\A i \in 1..n : path[i] # l) => Augmented[l] = leftToRight[l]
          /\ Augmented = [l \in Left |-> Augmented[l]]
      <3>1. \A i \in 1..n : path[i] = Caller <=> i = n
        BY <1>3
      <3> QED
        BY <1>3, <1>7, <3>1 DEF Augmented, r
    <2>2. \A i \in 1..n : /\ tried(i) \in Right /\ <<path[i], tried(i)>> \in Compatible
                           /\ rightToLeft[tried(i)] = IF i = n THEN 0 ELSE path[i + 1]
      <3>1. ASSUME NEW i \in 1..n, i # n
            PROVE  /\ <<path[i], tried(i)>> \in Compatible
                   /\ rightToLeft[tried(i)] = path[i + 1]
        <4>1. i \in 1..(n - 1)
          BY <1>3, <3>1
        <4> QED
          BY <1>3, <3>1, <4>1
      <3>2. /\ <<path[n], tried(n)>> \in Compatible /\ rightToLeft[tried(n)] = 0
        BY <1>3, <1>10 DEF owner
      <3> QED
        BY <1>2, <3>1, <3>2
    <2> HIDE DEF tried
    <2>3. \A i \in 1..n : i # n => i + 1 \in 1..n
      BY <1>3
    <2>4. 0 \notin Left /\ 0 \notin Right
      BY <1>2 DEF Left, Right
    <2>5. \A i, j \in 1..n : tried(i) = tried(j) => i = j
      <3>1. ASSUME NEW i \in 1..n, NEW j \in 1..n, tried(i) = tried(j)
            PROVE  i = j
        <4> DEFINE next(k) == IF k = n THEN 0 ELSE path[k + 1]
        <4>0. next(i) = next(j)
          <5>1. rightToLeft[tried(i)] = next(i) /\ rightToLeft[tried(j)] = next(j)
            BY <2>2
          <5> HIDE DEF next
          <5> QED
            BY <3>1, <5>1
        <4>1. CASE i = n \/ j = n
          <5>1. \A k \in 1..n : k # n => path[k + 1] # 0
            BY <1>3, <2>3, <2>4
          <5> QED
            BY <4>0, <4>1, <5>1
        <4>2. CASE i # n /\ j # n
          <5>1. path[i + 1] = path[j + 1]
            BY <4>0, <4>2
          <5>2. i + 1 = j + 1
            BY <1>3, <2>3, <4>2, <5>1
          <5> QED
            BY <5>2, <1>3
        <4> QED
          BY <4>1, <4>2
      <3> QED
        BY <3>1
    <2>6. ASSUME NEW q \in Right
          PROVE  \/ /\ callOf(q) \in 1..n /\ tried(callOf(q)) = q
                    /\ rightToLeft'[q] = path[callOf(q)]
                 \/ /\ \A i \in 1..n : tried(i) # q
                    /\ rightToLeft'[q] = rightToLeft[q]
      <3>1. CASE \E i \in 1..n : Augmented[path[i]] = q
        BY <1>7, <1>10, <2>1, <3>1
      <3>2. CASE \A i \in 1..n : Augmented[path[i]] # q
        BY <1>7, <1>10, <2>1, <3>2
      <3> QED
        BY <3>1, <3>2
    <2> HIDE DEF callOf
    <2>7. ASSUME NEW l \in Left, NEW q \in Right
          PROVE  leftToRight'[l] = q <=> rightToLeft'[q] = l
      <3>1. CASE \E i \in 1..n : path[i] = l
        <4>1. PICK i \in 1..n : path[i] = l
          BY <3>1
        <4>2. leftToRight'[l] = tried(i)
          BY <1>10, <2>1, <4>1
        <4>3. ASSUME rightToLeft'[q] = l PROVE tried(i) = q
          <5>1. CASE /\ callOf(q) \in 1..n /\ tried(callOf(q)) = q
                     /\ rightToLeft'[q] = path[callOf(q)]
            BY <1>3, <4>1, <4>3, <5>1
          <5>2. CASE (\A j \in 1..n : tried(j) # q) /\ rightToLeft'[q] = rightToLeft[q]
            <6>1. leftToRight[l] = q
              BY <1>4, <4>3, <5>2
            <6>2. CASE i = 1
              BY <1>3, <2>4, <4>1, <6>1, <6>2
            <6>3. CASE i # 1
              <7>1. i - 1 \in 1..n /\ i - 1 # n /\ (i - 1) + 1 = i
                BY <1>3, <6>3
              <7>2. rightToLeft[tried(i - 1)] = l /\ tried(i - 1) \in Right
                BY <2>2, <4>1, <7>1
              <7>3. leftToRight[l] = tried(i - 1)
                BY <1>4, <7>2
              <7> QED
                BY <5>2, <6>1, <7>1, <7>3
            <6> QED
              BY <6>2, <6>3
          <5> QED
            BY <2>6, <5>1, <5>2
        <4>4. ASSUME tried(i) = q PROVE rightToLeft'[q] = l
          BY <2>5, <2>6, <4>1, <4>4
        <4> QED
          BY <4>2, <4>3, <4>4
      <3>2. CASE \A i \in 1..n : path[i] # l
        <4>1. leftToRight'[l] = leftToRight[l]
          BY <1>10, <2>1, <3>2
        <4>2. ASSUME leftToRight[l] = q PROVE rightToLeft'[q] = l
          <5>1. rightToLeft[q] = l
            BY <1>4, <4>2
          <5>2. \A i \in 1..n : tried(i) # q
            BY <2>2, <2>3, <2>4, <3>2, <5>1
          <5> QED
            BY <2>6, <5>1, <5>2
        <4>3. ASSUME rightToLeft'[q] = l PROVE leftToRight[l] = q
          BY <1>4, <2>6, <3>2, <4>3
        <4> QED
          BY <4>1, <4>2, <4>3
      <3> QED
        BY <3>1, <3>2
    <2>8. leftToRight' \in [Left -> 0..problem.right]
      <3>1. \A l \in Left : leftToRight[l] \in 0..problem.right
        BY <1>2
      <3>2. \A q \in Right : q \in 0..problem.right
        BY <1>2 DEF Right
      <3>3. \A l \in Left : Augmented[l] \in 0..problem.right
        <4>1. ASSUME NEW l \in Left PROVE Augmented[l] \in 0..problem.right
          <5>1. CASE \E i \in 1..n : path[i] = l
            BY <2>1, <2>2, <3>2, <5>1
          <5>2. CASE \A i \in 1..n : path[i] # l
            <6>1. Augmented[l] = leftToRight[l]
              BY <2>1, <5>2
            <6> QED
              BY <3>1, <6>1
          <5> QED
            BY <5>1, <5>2
        <4> QED
          BY <4>1
      <3> QED
        BY <1>10, <2>1, <3>3
    <2>9. rightToLeft' \in [Right -> 0..problem.left]
      <3>1. \A l \in Left : l \in 0..problem.left
        BY <1>2 DEF Left
      <3>2. \A q \in Right : rightToLeft'[q] \in 0..problem.left
        BY <1>2, <1>3, <2>6, <3>1
      <3> QED
        BY <1>10, <3>2
    <2>10. \A l \in Left : leftToRight'[l] # 0 => <<l, leftToRight'[l]>> \in Compatible
      <3>1. \A l \in Left : leftToRight[l] # 0 => <<l, leftToRight[l]>> \in Compatible
        BY <1>2, <1>4 DEF PairsOf
      <3> QED
        BY <1>10, <2>1, <2>2, <3>1
    <2>11. TypeOK'
      <3>1. root' \in 1..(problem.left + 1) /\ path' \in Seq(Left)
        BY <1>2, <1>3, <1>10 DEF Left
      <3> QED
        BY <1>1, <1>2, <2>8, <2>9, <3>1 DEF TypeOK, Solving
    <2>12. SidesAgree'
      BY <1>2, <2>7, <2>8, <2>10 DEF SidesAgree, PairsOf
    <2>13. PathAgrees'
      BY <1>1, <1>2, <1>10 DEF PathAgrees
    <2> QED
      BY <1>2, <2>11, <2>12, <2>13 DEF IInv
  <1> QED
    BY <1>6, <1>8, <1>9, <1>10

----------------------------------------------------------------------------
\* improveMatchingScores

\* The matching found before the auction is one that may be returned.
LEMMA MatchingFacts ==
  ASSUME IInv, pc \in {"improve", "bid"}
  PROVE  /\ leftToRight \in [Left -> 0..problem.right]
         /\ PairsOf(leftToRight) \subseteq Compatible
         /\ \A k, l \in Left : leftToRight[k] = leftToRight[l] => k = l \/ leftToRight[k] = 0
  <1>1. /\ leftToRight \in [Left -> 0..problem.right]
        /\ \A l \in Left, r \in Right : leftToRight[l] = r <=> rightToLeft[r] = l
        /\ PairsOf(leftToRight) \subseteq Compatible
    BY DEF IInv, TypeOK, SidesAgree, Solving
  <1>2. problem.right \in Nat
    BY ProblemFacts DEF IInv
  <1>3. \A l \in Left : leftToRight[l] # 0 => leftToRight[l] \in Right
    BY <1>1, <1>2 DEF Right
  <1> QED
    BY <1>1, <1>3

LEMMA NothingToImproveStep == ASSUME IInv, NothingToImprove PROVE IInv'
  BY MatchingFacts, Returning DEF NothingToImprove, linear

LEMMA EndAuctionStep == ASSUME IInv, EndAuction PROVE IInv'
  <1>1. pc = "bid" /\ UNCHANGED <<call, path>> /\ pc # "augment"
    BY DEF EndAuction, linear
  <1>2. /\ leftToRight \in [Left -> 0..problem.right]
        /\ PairsOf(leftToRight) \subseteq Compatible
        /\ \A k, l \in Left : leftToRight[k] = leftToRight[l] => k = l \/ leftToRight[k] = 0
    BY <1>1, MatchingFacts
  <1>3. CASE Return(leftToRight)
    BY <1>1, <1>2, <1>3, Returning
  <1>4. CASE /\ Return(Candidate)
             /\ PairsOf(leftToRight) \cup PairsOf(Candidate) \subseteq Compatible
    <2>1. /\ problem.left \in Nat /\ problem.right \in Nat
      BY ProblemFacts DEF IInv
    <2>2. Candidate \in [Left -> 0..problem.right]
      BY <2>1 DEF Candidate, Right
    <2>3. ASSUME NEW k \in Left, NEW l \in Left, Candidate[k] = Candidate[l]
          PROVE  k = l \/ Candidate[k] = 0
      <3>1. \A h \in Left, i \in Items : assignment[h] = i <=> owners[i] = h
        BY <1>1 DEF IInv, OwnersAgree
      <3>2. Right \subseteq Items /\ 0 \notin Right
        BY <2>1 DEF Right, Items
      <3>3. CASE Candidate[k] # 0
        <4>1. Candidate[k] = assignment[k] /\ Candidate[l] = assignment[l] /\ assignment[k] \in Right
          BY <2>3, <3>3, <3>2 DEF Candidate
        <4>2. assignment[k] \in Items /\ assignment[l] = assignment[k]
          BY <2>3, <3>2, <4>1
        <4>3. owners[assignment[k]] = k /\ owners[assignment[k]] = l
          BY <3>1, <4>2
        <4> QED
          BY <4>3
      <3> QED
        BY <3>3
    <2> QED
      BY <1>1, <1>4, <2>2, <2>3, Returning
  <1> QED
    BY <1>3, <1>4 DEF EndAuction

\* What the steps of the auction leave alone.
LEMMA AuctionFacts ==
  ASSUME IInv, pc \in {"improve", "bid"}, pc' = "bid", problem' = problem,
         UNCHANGED <<matchedRight, square, linear>>, {lowest', highest'} \subseteq Int
  PROVE  /\ Left' = Left /\ Right' = Right /\ Compatible' = Compatible /\ Items' = Items
         /\ \A l : Eligible(l)' = Eligible(l)
         /\ problem.left \in Nat /\ problem.right \in Nat
         /\ Right \subseteq Items /\ Items \subseteq Int /\ 0 \notin Items /\ 0 \notin Left
         /\ Items \subseteq 0..(problem.right + problem.left) /\ Left \subseteq 0..problem.left
         /\ RowsHaveColumns' /\ SidesAgree' /\ ResultAgrees' /\ PathAgrees'
         /\ /\ prices' \in [Items -> Int]
            /\ owners' \in [Items -> 0..problem.left]
            /\ assignment' \in [Left -> 0..(problem.right + problem.left)]
            /\ unassigned' \in Seq(Left)
            => TypeOK'
  <1>1. /\ Left' = Left /\ Right' = Right /\ Compatible' = Compatible /\ Items' = Items
        /\ \A l : Eligible(l)' = Eligible(l)
    BY DEF Left, Right, Compatible, Items, Eligible
  <1>2. problem.left \in Nat /\ problem.right \in Nat
    BY ProblemFacts DEF IInv
  <1>3. /\ Right \subseteq Items /\ Items \subseteq Int /\ 0 \notin Items /\ 0 \notin Left
        /\ Items \subseteq 0..(problem.right + problem.left) /\ Left \subseteq 0..problem.left
    BY <1>2 DEF Right, Items, Left
  <1>4. RowsHaveColumns' /\ ResultAgrees' /\ PathAgrees'
    BY DEF IInv, RowsHaveColumns, ResultAgrees, PathAgrees, linear
  <1>5. SidesAgree'
    BY <1>1 DEF IInv, SidesAgree, Solving, PairsOf, linear
  <1>6. /\ prices' \in [Items -> Int]
        /\ owners' \in [Items -> 0..problem.left]
        /\ assignment' \in [Left -> 0..(problem.right + problem.left)]
        /\ unassigned' \in Seq(Left)
        => TypeOK'
    BY <1>1 DEF IInv, TypeOK, Solving, linear
  <1> QED
    BY <1>1, <1>2, <1>3, <1>4, <1>5, <1>6

LEMMA BeginAuctionStep == ASSUME IInv, BeginAuction PROVE IInv'
  <1>1. /\ pc = "improve" /\ pc' = "bid" /\ problem' = problem
        /\ UNCHANGED <<matchedRight, square, linear>>
        /\ MeasureScores
        /\ prices' = [i \in Items |-> 0] /\ owners' = [i \in Items |-> 0]
        /\ assignment' = [l \in Left |-> 0]
        /\ unassigned' = [k \in Left |-> problem.left + 1 - k]
    BY DEF BeginAuction, Nobody
  <1>2. {lowest', highest'} \subseteq Int
    BY <1>1, ProblemFacts DEF IInv, MeasureScores
  <1>3. /\ Left' = Left /\ Right' = Right /\ Compatible' = Compatible /\ Items' = Items
        /\ \A l : Eligible(l)' = Eligible(l)
        /\ problem.left \in Nat /\ problem.right \in Nat
        /\ Right \subseteq Items /\ Items \subseteq Int /\ 0 \notin Items /\ 0 \notin Left
        /\ RowsHaveColumns' /\ SidesAgree' /\ ResultAgrees' /\ PathAgrees'
        /\ /\ prices' \in [Items -> Int]
           /\ owners' \in [Items -> 0..problem.left]
           /\ assignment' \in [Left -> 0..(problem.right + problem.left)]
           /\ unassigned' \in Seq(Left)
           => TypeOK'
    BY <1>1, <1>2, AuctionFacts
  <1>4. /\ unassigned' \in Seq(Left) /\ Len(unassigned') = problem.left
        /\ \A k \in Left : unassigned'[k] = problem.left + 1 - k /\ unassigned'[k] \in Left
    <2>1. \A k \in 1..problem.left : problem.left + 1 - k \in 1..problem.left
      BY <1>3
    <2>2. unassigned' \in [1..problem.left -> Left]
      BY <1>1, <2>1 DEF Left
    <2>3. unassigned' \in Seq(Left) /\ Len(unassigned') = problem.left
      BY <1>3, <2>2, IsASeq
    <2> QED
      BY <1>1, <2>1, <2>3 DEF Left
  <1>5. TypeOK'
    <2>1. 0 \in 0..problem.left /\ 0 \in 0..(problem.right + problem.left)
      BY <1>3
    <2> QED
      BY <1>1, <1>3, <1>4, <2>1
  <1>6. OwnersAgree'
    BY <1>1, <1>3 DEF OwnersAgree
  <1>7. StackAgrees'
    <2>1. \A k \in 1..problem.left : unassigned'[k] = problem.left + 1 - k /\ unassigned'[k] \in Left
      BY <1>4 DEF Left
    <2>2. \A k \in 1..problem.left : assignment'[unassigned'[k]] = 0
      BY <1>1, <2>1
    <2>3. \A j, k \in 1..problem.left : unassigned'[j] = unassigned'[k] => j = k
      BY <1>3, <2>1
    <2> QED
      BY <1>4, <2>2, <2>3 DEF StackAgrees
  <1> QED
    BY <1>3, <1>5, <1>6, <1>7 DEF IInv

\* What an item is worth to an entry is a number.
LEMMA WorthIsNumber ==
  ASSUME IInv, NEW l \in Left, NEW i \in Items
  PROVE  Worth(l, i) \in Int
  <1>1. /\ problem.left \in Int /\ problem.right \in Int /\ lowest \in Int /\ highest \in Int
        /\ \A pair \in Compatible : problem.score[pair] \in Int
    BY ProblemFacts DEF IInv, TypeOK
  <1>2. \A a, b \in Int : a * b \in Int
    OBVIOUS
  <1>3. Bonus \in Int
    BY <1>1, <1>2 DEF Bonus
  <1>4. Weight(l, i) \in Int
    <2>1. CASE <<l, i>> \in Compatible
      <3>1. problem.score[<<l, i>>] \in Int
        BY <1>1, <2>1
      <3>2. Weight(l, i) = Bonus + problem.score[<<l, i>>] - lowest
        BY <2>1 DEF Weight
      <3> QED
        BY <1>1, <1>3, <3>1, <3>2
    <2>2. CASE <<l, i>> \notin Compatible
      BY <2>2 DEF Weight
    <2> QED
      BY <2>1, <2>2
  <1>5. (IF i \in Right THEN Weight(l, i) ELSE 0) \in Int /\ problem.left + 1 \in Int
    BY <1>1, <1>4
  <1> QED
    BY <1>2, <1>5 DEF Worth

\* What a bid changes, and that it is positive.
LEMMA BidFacts ==
  ASSUME IInv, Bid
  PROVE  \E l \in Left : \E item \in Eligible(l), bid \in Int :
           /\ assignment[l] = 0 /\ item \in Items
           /\ bid >= 1
           /\ \A i \in Eligible(l) \ {item} : Value(l, i) <= Value(l, item) - bid + 1
           /\ prices' = [prices EXCEPT ![item] = @ + bid]
           /\ owners' = [owners EXCEPT ![item] = l]
           /\ assignment' = [k \in Left |->
                IF k = l THEN item ELSE IF k = owners[item] THEN 0 ELSE assignment[k]]
           /\ l = unassigned[Len(unassigned)]
           /\ unassigned' =
                IF owners[item] = 0 THEN SubSeq(unassigned, 1, Len(unassigned) - 1)
                ELSE Append(SubSeq(unassigned, 1, Len(unassigned) - 1), owners[item])
  <1> DEFINE l == unassigned[Len(unassigned)]
  <1>p. PICK item \in Eligible(l) : \E bid \in Bids(l, item) :
          /\ IsBest(l, item)
          /\ prices' = [prices EXCEPT ![item] = @ + bid]
          /\ assignment' = [k \in Left |->
               IF k = l THEN item ELSE IF k = owners[item] THEN 0 ELSE assignment[k]]
          /\ owners' = [owners EXCEPT ![item] = l]
          /\ unassigned' =
               IF owners[item] = 0 THEN SubSeq(unassigned, 1, Len(unassigned) - 1)
               ELSE Append(SubSeq(unassigned, 1, Len(unassigned) - 1), owners[item])
    BY DEF Bid
  <1>1. PICK bid \in Bids(l, item) :
          /\ IsBest(l, item)
          /\ prices' = [prices EXCEPT ![item] = @ + bid]
          /\ assignment' = [k \in Left |->
               IF k = l THEN item ELSE IF k = owners[item] THEN 0 ELSE assignment[k]]
          /\ owners' = [owners EXCEPT ![item] = l]
          /\ unassigned' =
               IF owners[item] = 0 THEN SubSeq(unassigned, 1, Len(unassigned) - 1)
               ELSE Append(SubSeq(unassigned, 1, Len(unassigned) - 1), owners[item])
    BY <1>p
  <1>2. pc = "bid" /\ unassigned # <<>> /\ unassigned \in Seq(Left) /\ prices \in [Items -> Int]
    BY DEF Bid, IInv, TypeOK
  <1>3. Len(unassigned) \in 1..Len(unassigned) /\ l \in Left
    BY <1>2
  <1>4. assignment[l] = 0
    BY <1>2, <1>3 DEF IInv, StackAgrees
  <1> HIDE DEF l
  <1>5. \A i \in Eligible(l) : i \in Items /\ Value(l, i) \in Int
    BY <1>2, <1>3, WorthIsNumber DEF Value, Eligible
  <1>6. \A i \in Eligible(l) : Value(l, i) <= Value(l, item)
    BY <1>1, <1>5 DEF IsBest
  <1>7. /\ bid \in Int /\ bid >= 1
        /\ \A i \in Eligible(l) \ {item} : Value(l, i) <= Value(l, item) - bid + 1
    <2>1. CASE Eligible(l) \ {item} = {}
      BY <2>1 DEF Bids
    <2>2. CASE Eligible(l) \ {item} # {}
      <3>1. PICK i \in Eligible(l) \ {item} :
              /\ \A j \in Eligible(l) \ {item} : Value(l, j) <= Value(l, i)
              /\ bid = Value(l, item) - Value(l, i) + 1
        BY <2>2 DEF Bids
      <3>2. Value(l, item) \in Int /\ Value(l, i) \in Int /\ Value(l, i) <= Value(l, item)
        BY <1>5, <1>6
      <3>3. bid \in Int /\ bid >= 1 /\ Value(l, item) - bid + 1 = Value(l, i)
        BY <3>1, <3>2
      <3> QED
        BY <3>1, <3>3
    <2> QED
      BY <2>1, <2>2
  <1>8. item \in Items
    BY <1>5
  <1>9. l = unassigned[Len(unassigned)]
    BY DEF l
  <1> QED
    BY <1>1, <1>3, <1>4, <1>7, <1>8, <1>9, Zenon

LEMMA BidStep == ASSUME IInv, Bid PROVE IInv'
  <1> DEFINE n == Len(unassigned)
  <1>1. /\ pc = "bid" /\ pc' = "bid" /\ problem' = problem /\ unassigned # <<>>
        /\ UNCHANGED <<matchedRight, square, linear>>
        /\ {lowest', highest'} \subseteq Int
    BY DEF Bid, call, IInv, TypeOK
  <1>2. /\ Left' = Left /\ Right' = Right /\ Compatible' = Compatible /\ Items' = Items
        /\ \A k : Eligible(k)' = Eligible(k)
        /\ Items \subseteq Int /\ 0 \notin Items /\ 0 \notin Left
        /\ Items \subseteq 0..(problem.right + problem.left) /\ Left \subseteq 0..problem.left
        /\ problem.left \in Nat /\ problem.right \in Nat
        /\ RowsHaveColumns' /\ SidesAgree' /\ ResultAgrees' /\ PathAgrees'
        /\ /\ prices' \in [Items -> Int]
           /\ owners' \in [Items -> 0..problem.left]
           /\ assignment' \in [Left -> 0..(problem.right + problem.left)]
           /\ unassigned' \in Seq(Left)
           => TypeOK'
    BY <1>1, AuctionFacts
  <1>3. /\ prices \in [Items -> Int]
        /\ owners \in [Items -> 0..problem.left]
        /\ assignment \in [Left -> 0..(problem.right + problem.left)]
        /\ unassigned \in Seq(Left)
        /\ \A k \in Left, i \in Items : assignment[k] = i <=> owners[i] = k
        /\ \A k \in Left : assignment[k] \in Eligible(k) \cup {0}
        /\ \A k \in 1..n : assignment[unassigned[k]] = 0
        /\ \A j, k \in 1..n : unassigned[j] = unassigned[k] => j = k
    BY <1>1 DEF IInv, TypeOK, OwnersAgree, StackAgrees
  <1>4. n \in Int /\ n >= 1 /\ \A k \in 1..n : unassigned[k] \in Left
    BY <1>1, <1>3
  <1> HIDE DEF n
  <1>p. PICK l \in Left : \E item \in Eligible(l), bid \in Int :
           /\ assignment[l] = 0 /\ item \in Items
           /\ prices' = [prices EXCEPT ![item] = @ + bid]
           /\ owners' = [owners EXCEPT ![item] = l]
           /\ assignment' = [k \in Left |->
                IF k = l THEN item ELSE IF k = owners[item] THEN 0 ELSE assignment[k]]
           /\ l = unassigned[n]
           /\ unassigned' = IF owners[item] = 0 THEN SubSeq(unassigned, 1, n - 1)
                            ELSE Append(SubSeq(unassigned, 1, n - 1), owners[item])
    BY BidFacts, Zenon DEF n
  <1>5. PICK item \in Eligible(l), bid \in Int :
           /\ assignment[l] = 0 /\ item \in Items
           /\ prices' = [prices EXCEPT ![item] = @ + bid]
           /\ owners' = [owners EXCEPT ![item] = l]
           /\ assignment' = [k \in Left |->
                IF k = l THEN item ELSE IF k = owners[item] THEN 0 ELSE assignment[k]]
           /\ l = unassigned[n]
           /\ unassigned' = IF owners[item] = 0 THEN SubSeq(unassigned, 1, n - 1)
                            ELSE Append(SubSeq(unassigned, 1, n - 1), owners[item])
    BY <1>p
  <1> DEFINE rest == SubSeq(unassigned, 1, n - 1)
             loser == owners[item]
  <1>6. loser \in Left \cup {0}
    BY <1>2, <1>3, <1>5 DEF Left
  <1>7. loser # 0 => assignment[loser] = item
    BY <1>3, <1>5, <1>6
  <1>8. loser # l
    BY <1>2, <1>5, <1>7
  <1>9. /\ rest \in Seq(Left) /\ Len(rest) = n - 1
        /\ \A k \in 1..(n - 1) : rest[k] = unassigned[k] /\ k \in 1..n /\ k # n
    <2>1. \A k \in 1..(n - 1) : k \in 1..n /\ k # n /\ 1 + k - 1 = k
      BY <1>4
    <2>2. n - 1 \in Int /\ 1 \in Int /\ \A k \in 1..(n - 1) : unassigned[k] \in Left
      BY <1>4, <2>1
    <2>3. /\ rest \in Seq(Left)
          /\ Len(rest) = IF 1 <= n - 1 THEN (n - 1) - 1 + 1 ELSE 0
          /\ \A k \in 1..((n - 1) - 1 + 1) : rest[k] = unassigned[1 + k - 1]
      BY <2>2, SubSeqProperties
    <2>4. (IF 1 <= n - 1 THEN (n - 1) - 1 + 1 ELSE 0) = n - 1 /\ (n - 1) - 1 + 1 = n - 1
      BY <1>4
    <2> QED
      BY <2>1, <2>3, <2>4
  <1> HIDE DEF rest, loser
  <1>10. TypeOK'
    <2>1. prices' \in [Items -> Int]
      BY <1>3, <1>5
    <2>2. owners' \in [Items -> 0..problem.left]
      BY <1>2, <1>3, <1>5
    <2>3. assignment' \in [Left -> 0..(problem.right + problem.left)]
      <3>1. 0 \in 0..(problem.right + problem.left)
        BY <1>2
      <3> QED
        BY <1>2, <1>3, <1>5, <3>1
    <2>4. unassigned' \in Seq(Left)
      <3>1. loser # 0 => Append(rest, loser) \in Seq(Left)
        BY <1>6, <1>9
      <3> QED
        BY <1>5, <1>9, <3>1 DEF rest, loser
    <2> QED
      BY <1>2, <2>1, <2>2, <2>3, <2>4
  <1>11. OwnersAgree'
    <2>1. ASSUME NEW k \in Left, NEW i \in Items
          PROVE  assignment'[k] = i <=> owners'[i] = k
      <3>1. assignment'[k] = IF k = l THEN item ELSE IF k = loser THEN 0 ELSE assignment[k]
        BY <1>5 DEF loser
      <3>2. owners'[i] = IF i = item THEN l ELSE owners[i]
        BY <1>3, <1>5
      <3>3. assignment[k] = i <=> owners[i] = k
        BY <1>3
      <3>4. assignment[l] # i /\ i # 0
        BY <1>2, <1>5
      <3>5. loser # 0 => (assignment[loser] = i <=> i = item)
        BY <1>7
      <3>6. owners[item] = loser
        BY DEF loser
      <3>7. k # 0
        BY <1>2
      <3>8. CASE k = l
        BY <3>1, <3>2, <3>3, <3>4, <3>8
      <3>9. CASE k # l /\ k = loser
        BY <3>1, <3>2, <3>3, <3>4, <3>5, <3>7, <3>9
      <3>10. CASE k # l /\ k # loser
        BY <3>1, <3>2, <3>3, <3>6, <3>10
      <3> QED
        BY <3>8, <3>9, <3>10
    <2>2. \A k \in Left : assignment'[k] \in Eligible(k) \cup {0}
      BY <1>3, <1>5
    <2> QED
      BY <1>2, <2>1, <2>2 DEF OwnersAgree
  <1>12. StackAgrees'
    <2>1. \A k \in 1..(n - 1) : /\ rest[k] # l /\ rest[k] \in Left
                                /\ assignment'[rest[k]] = 0
      <3>1. n \in 1..n
        BY <1>4
      <3>2. ASSUME NEW k \in 1..(n - 1)
            PROVE  rest[k] # l /\ rest[k] \in Left /\ assignment[rest[k]] = 0
        <4>1. rest[k] = unassigned[k] /\ k \in 1..n /\ k # n
          BY <1>9
        <4>2. unassigned[k] # unassigned[n] /\ unassigned[k] \in Left
          BY <1>3, <1>4, <3>1, <4>1
        <4> QED
          BY <1>3, <1>5, <4>1, <4>2
      <3> QED
        BY <1>5, <3>2
    <2>2. \A j, k \in 1..(n - 1) : rest[j] = rest[k] => j = k
      BY <1>3, <1>9
    <2>3. CASE loser = 0
      <3>1. unassigned' = rest
        BY <1>5, <2>3 DEF rest, loser
      <3> QED
        BY <1>9, <2>1, <2>2, <3>1 DEF StackAgrees
    <2>4. CASE loser # 0
      <3>1. unassigned' = Append(rest, loser) /\ loser \in Left
        BY <1>5, <1>6, <2>4 DEF rest, loser
      <3>2. /\ Len(unassigned') = n /\ unassigned'[n] = loser
            /\ \A k \in 1..(n - 1) : unassigned'[k] = rest[k]
        BY <1>4, <1>9, <3>1
      <3>3. assignment'[loser] = 0
        BY <1>5, <1>8, <3>1 DEF loser
      <3>4. \A k \in 1..(n - 1) : rest[k] # loser
        <4>1. ASSUME NEW k \in 1..(n - 1) PROVE assignment[rest[k]] = 0
          BY <1>3, <1>9
        <4> QED
          BY <1>2, <1>5, <1>7, <2>4, <4>1
      <3>5. \A k \in 1..n : k = n \/ k \in 1..(n - 1)
        BY <1>4
      <3> QED
        BY <2>1, <2>2, <3>2, <3>3, <3>4, <3>5 DEF StackAgrees
    <2> QED
      BY <2>3, <2>4
  <1> QED
    BY <1>2, <1>10, <1>11, <1>12 DEF IInv

LEMMA NextInv == IInv /\ [Next]_vars => IInv'
  <1> SUFFICES ASSUME IInv, [Next]_vars PROVE IInv'
    OBVIOUS
  <1>1. CASE BeginSquare \/ BeginRow \/ Scan \/ Flip
    BY <1>1, SquareSteps
  <1>2. CASE NothingToPair \/ EndSquare
    BY <1>2, NothingToPairStep, EndSquareStep
  <1>3. CASE BeginLinear \/ Layers \/ NextRoot \/ TryRight \/ DeadEnd
    BY <1>3, BeginLinearStep, LayersStep, NextRootStep, TryRightStep, DeadEndStep
  <1>4. CASE NothingToImprove \/ BeginAuction \/ Bid \/ EndAuction
    BY <1>4, NothingToImproveStep, BeginAuctionStep, BidStep, EndAuctionStep
  <1>5. CASE UNCHANGED vars
    BY <1>5 DEF vars, call, square, linear, auction, IInv, TypeOK, RowsHaveColumns, SidesAgree,
                OwnersAgree, ResultAgrees, PathAgrees, StackAgrees, Solving, Left, Right,
                Compatible, Items, Eligible, PairsOf, Columns, Size
  <1> QED
    BY <1>1, <1>2, <1>3, <1>4, <1>5 DEF Next, Returned

LEMMA Invariance == Spec => []IInv
  BY InitInv, NextInv, PTL DEF Spec

(* The call's tables keep their shape, whatever the lists, the scores and   *)
(* the seed (maximumCardinalityPairsInOrder and both solvers, align.go).    *)
THEOREM TypeCorrect == Spec => []TypeOK
  <1>1. IInv => TypeOK
    BY DEF IInv
  <1> QED
    BY <1>1, Invariance, PTL

(* Neither solver ever pairs an entry twice or an incompatible one, in the  *)
(* middle of an augmenting path or an auction as little as in the result    *)
(* (maximumWeightAssignment, augment, improveMatchingScores).               *)
THEOREM Pairs == Spec => []NoEntryTwice
  <1>1. IInv => NoEntryTwice
    BY DEF IInv, NoEntryTwice, ResultAgrees
  <1> QED
    BY <1>1, Invariance, PTL

LEMMA NoRegretStep == IInv /\ NoRegret /\ [Next]_vars => NoRegret'
  <1> SUFFICES ASSUME IInv, NoRegret, [Next]_vars, pc' = "bid" PROVE NoRegret'
    BY DEF NoRegret
  <1>1. \/ UNCHANGED vars \/ BeginAuction \/ Bid
    BY DEF Next, NothingToPair, BeginSquare, BeginRow, Scan, Flip, EndSquare, BeginLinear,
           Layers, NextRoot, TryRight, DeadEnd, NothingToImprove, EndAuction, Returned, Return
  <1>2. CASE UNCHANGED vars
    <2>1. /\ pc' = pc /\ problem' = problem /\ prices' = prices /\ assignment' = assignment
          /\ lowest' = lowest /\ highest' = highest
      BY <1>2 DEF vars, call, auction
    <2> QED
      BY <2>1 DEF NoRegret, Left, Right, Items, Eligible, Value, Worth, Weight, Bonus, Compatible
  <1>3. CASE BeginAuction
    BY <1>3 DEF BeginAuction, NoRegret, Nobody, Left
  <1>4. CASE Bid
    <2>1. pc = "bid" /\ problem' = problem /\ lowest' = lowest /\ highest' = highest
      BY <1>4 DEF Bid, call
    <2>2. /\ Left' = Left
          /\ \A l : Eligible(l)' = Eligible(l)
          /\ \A l, i : Value(l, i)' = Worth(l, i) - prices'[i]
      BY <2>1 DEF Left, Right, Items, Eligible, Value, Worth, Weight, Bonus, Compatible
    <2>3. /\ prices \in [Items -> Int]
          /\ \A k \in Left, i \in Items : assignment[k] = i <=> owners[i] = k
          /\ \A k \in Left : assignment[k] \in Eligible(k) \cup {0}
      BY <2>1 DEF IInv, TypeOK, OwnersAgree
    <2>4. \A k \in Left : \A i \in Eligible(k) : i \in Items /\ Worth(k, i) \in Int
      BY WorthIsNumber DEF Eligible
    <2>p. PICK l \in Left : \E item \in Eligible(l), bid \in Int :
             /\ item \in Items /\ bid >= 1
             /\ \A i \in Eligible(l) \ {item} : Value(l, i) <= Value(l, item) - bid + 1
             /\ prices' = [prices EXCEPT ![item] = @ + bid]
             /\ assignment' = [k \in Left |->
                  IF k = l THEN item ELSE IF k = owners[item] THEN 0 ELSE assignment[k]]
      BY <1>4, BidFacts, Zenon
    <2>5. PICK item \in Eligible(l), bid \in Int :
             /\ item \in Items /\ bid >= 1
             /\ \A i \in Eligible(l) \ {item} : Value(l, i) <= Value(l, item) - bid + 1
             /\ prices' = [prices EXCEPT ![item] = @ + bid]
             /\ assignment' = [k \in Left |->
                  IF k = l THEN item ELSE IF k = owners[item] THEN 0 ELSE assignment[k]]
      BY <2>p
    <2>6. \A i \in Items : prices'[i] = IF i = item THEN prices[i] + bid ELSE prices[i]
      BY <2>3, <2>5
    <2>7. ASSUME NEW k \in Left, assignment'[k] # 0, NEW i \in Eligible(k)
          PROVE  Worth(k, i) - prices'[i] <= Worth(k, assignment'[k]) - prices'[assignment'[k]] + 1
      <3>1. i \in Items /\ Worth(k, i) \in Int /\ prices[i] \in Int
        BY <2>3, <2>4
      <3>2. CASE k = l
        <4>1. /\ assignment'[k] = item /\ Worth(k, item) \in Int /\ prices[item] \in Int
              /\ prices'[item] = prices[item] + bid
          BY <2>3, <2>4, <2>5, <2>6, <3>2
        <4>2. CASE i = item
          BY <2>5, <3>1, <4>1, <4>2
        <4>3. CASE i # item
          <5>1. Worth(k, i) - prices[i] <= Worth(k, item) - prices[item] - bid + 1
            BY <2>5, <3>2, <4>3 DEF Value
          <5>2. prices'[i] = prices[i]
            BY <2>6, <3>1, <4>3
          <5> QED
            BY <2>5, <3>1, <4>1, <5>1, <5>2
        <4> QED
          BY <4>2, <4>3
      <3>3. CASE k # l
        <4> DEFINE own == assignment[k]
        <4>1. assignment'[k] = own /\ own # 0 /\ k # owners[item]
          BY <2>5, <2>7, <3>3
        <4>2. own \in Eligible(k) /\ own \in Items /\ own # item
          BY <2>3, <2>4, <2>5, <4>1
        <4>3. Worth(k, own) \in Int /\ prices[own] \in Int /\ prices'[own] = prices[own]
          BY <2>3, <2>4, <2>6, <4>2
        <4>4. Worth(k, i) - prices[i] <= Worth(k, own) - prices[own] + 1
          BY <2>1, <4>1 DEF NoRegret, Value
        <4> HIDE DEF own
        <4>5. CASE i = item
          BY <2>5, <2>6, <3>1, <4>1, <4>3, <4>4, <4>5
        <4>6. CASE i # item
          BY <2>6, <3>1, <4>1, <4>3, <4>4, <4>6
        <4> QED
          BY <4>5, <4>6
      <3> QED
        BY <3>2, <3>3
    <2> QED
      BY <2>2, <2>7 DEF NoRegret
  <1> QED
    BY <1>1, <1>2, <1>3, <1>4

(* The auction's epsilon complementary slackness: no bid, of any number of  *)
(* bidders, leaves an owner wanting another item by more than the epsilon   *)
(* that the scale of the weights makes harmless (improveMatchingScores).    *)
THEOREM Contentment == Spec => []NoRegret
  <1>1. Init => NoRegret
    BY DEF Init, NoRegret
  <1> QED
    BY <1>1, NoRegretStep, Invariance, PTL DEF Spec

----------------------------------------------------------------------------
\* The potentials of maximumWeightAssignment

\* The potentials are being computed.
Squaring == pc \in {"row", "scan", "flip"}

\* No column has been reached from this row yet.
Untouched == pc = "row" \/ (pc = "scan" /\ used = {})

\* The rows that have potentials.
Priced == IF Untouched THEN 1..(row - 1) ELSE 1..row

Heaviest == Bonus + highest - lowest

\* The scores lie between their extremes, so no weight reaches Infinity.
Measured ==
  Squaring =>
    /\ problem \in Problems
    /\ \A pair \in Compatible : lowest <= problem.score[pair] /\ problem.score[pair] <= highest
    /\ \E pair \in Compatible : problem.score[pair] = lowest
    /\ \E pair \in Compatible : problem.score[pair] = highest

SlackTypes ==
  Squaring => /\ leftPotential \in [Columns -> Int]
              /\ rightPotential \in [Columns -> Int]
              /\ minCost \in [Columns -> Int]

\* The potentials bound the weights, and meet them on the assigned pairs.
Bound ==
  Squaring =>
    /\ \A i \in Priced, j \in Columns \ {0} : Cost(i, j) >= 0
    /\ \A j \in Columns \ {0} : (pc = "flip" /\ j = column)
         \/ IF matchedColumn[j] = 0 THEN rightPotential[j] = 0
            ELSE Cost(matchedColumn[j], j) = 0

\* A row that has had no turn has no potential, a row that has had one none above
\* zero; the potentials of the columns are between zero and minus the heaviest weight.
Shallow ==
  /\ Squaring => \A i \in Columns : i > row \/ (i = row /\ Untouched) => leftPotential[i] = 0
  /\ Untouched => \A j \in Columns \ {0} : rightPotential[j] >= -Heaviest
  /\ Squaring => \A j \in Columns \ {0} : rightPotential[j] <= 0
  /\ pc \in {"flip", "row"} => \A i \in Priced : leftPotential[i] <= 0

\* What the search knows of the columns outside the tree.
Fringe ==
  pc = "scan" =>
    /\ \A j \in used \cup {column} : matchedColumn[j] # 0
    /\ used = {} =>
         /\ column = 0 /\ matchedColumn[0] = row
         /\ \A j \in Columns \ {0} : minCost[j] = Infinity
    /\ used # {} =>
         /\ 0 \in used /\ column \notin used
         /\ \A j \in Columns \ used :
           /\ previous[j] \in used
           /\ minCost[j] = Cost(matchedColumn[previous[j]], j)
           /\ \A k \in used : minCost[j] <= Cost(matchedColumn[k], j)

\* Every column of the tree is reached by an edge without slack from one reached earlier.
Tree == used \cup {column}

Rooted ==
  pc \in {"scan", "flip"} =>
    \E rank \in [Columns -> Nat] : \E n \in Nat :
      /\ pc = "flip" => column # 0
      /\ \A j \in Tree : rank[j] <= n
      /\ \A j \in Tree \ {0} : pc = "scan" \/ rank[j] <= rank[column] =>
           /\ previous[j] \in used
           /\ rank[previous[j]] < rank[j]
           /\ matchedColumn[previous[j]] # 0
           /\ Cost(matchedColumn[previous[j]], j) = 0

SquareInv == Measured /\ SlackTypes /\ Bound /\ Shallow /\ Fringe /\ Rooted

\* Weights are between nothing and Heaviest, which is less than Infinity.
LEMMA WeightFacts ==
  ASSUME TypeOK, Measured, Squaring
  PROVE  /\ Infinity \in Nat /\ Heaviest \in Nat /\ Heaviest < Infinity
         /\ \A i, j : Weight(i, j) \in Int /\ 0 <= Weight(i, j) /\ Weight(i, j) <= Heaviest
  <1> DEFINE shorter == IF problem.left <= problem.right THEN problem.left ELSE problem.right
  <1>1. /\ problem.left \in Nat /\ problem.right \in Nat
        /\ \A pair \in Compatible : problem.score[pair] \in Int
        /\ lowest \in Int /\ highest \in Int
    BY ProblemFacts DEF TypeOK
  <1>2. PICK low \in Compatible, high \in Compatible :
          problem.score[low] = lowest /\ problem.score[high] = highest
    BY DEF Measured
  <1>3. lowest <= highest /\ problem \in Problems /\ Infinity \in Nat
    BY <1>1, <1>2, ProblemsAssumption DEF Measured
  <1>4. shorter \in Nat
    BY <1>1
  <1>5. Bonus = (highest - lowest + 1) * (shorter + 1)
    BY DEF Bonus
  <1>6. (highest - lowest + 1) * (shorter + 1) + (highest - lowest) < Infinity
    BY <1>2, <1>3, InfinityAssumption DEF Compatible
  <1> HIDE DEF shorter
  <1>7. Bonus \in Nat
    <2>1. ASSUME NEW a \in Nat, NEW b \in Nat PROVE a * b \in Nat
      OBVIOUS
    <2>2. highest - lowest + 1 \in Nat /\ shorter + 1 \in Nat
      BY <1>1, <1>3, <1>4
    <2> QED
      BY <1>5, <2>1, <2>2
  <1>8. Heaviest \in Nat /\ Heaviest < Infinity
    <2>1. Heaviest = Bonus + highest - lowest /\ Bonus + (highest - lowest) < Infinity
      BY <1>5, <1>6 DEF Heaviest
    <2> QED
      BY <1>1, <1>3, <1>7, <2>1
  <1>9. ASSUME NEW i, NEW j
        PROVE  Weight(i, j) \in Int /\ 0 <= Weight(i, j) /\ Weight(i, j) <= Heaviest
    <2>1. CASE <<i, j>> \in Compatible
      <3>1. /\ Weight(i, j) = Bonus + problem.score[<<i, j>>] - lowest
            /\ problem.score[<<i, j>>] \in Int
            /\ lowest <= problem.score[<<i, j>>] /\ problem.score[<<i, j>>] <= highest
        BY <1>1, <2>1 DEF Weight, Measured
      <3> QED
        BY <1>1, <1>7, <3>1 DEF Heaviest
    <2>2. CASE <<i, j>> \notin Compatible
      BY <1>8, <2>2 DEF Weight
    <2> QED
      BY <2>1, <2>2
  <1> QED
    BY <1>3, <1>8, <1>9

\* Only the potentials change what an edge costs while a problem is solved.
LEMMA CostFrame ==
  ASSUME UNCHANGED call
  PROVE  /\ Size' = Size /\ Columns' = Columns /\ Heaviest' = Heaviest
         /\ \A i, j : Cost(i, j) = -Weight(i, j) - leftPotential[i] - rightPotential[j]
         /\ \A i, j : Cost(i, j)' = -Weight(i, j) - leftPotential'[i] - rightPotential'[j]
  <1>1. Size' = Size /\ Columns' = Columns /\ Heaviest' = Heaviest
    BY DEF call, Size, Columns, Heaviest, Bonus
  <1>2. \A i, j : Weight(i, j)' = Weight(i, j)
    BY DEF call, Weight, Bonus, Compatible
  <1> QED
    BY <1>1, <1>2 DEF Cost

\* A step that keeps the problem and its extremes keeps what they bound.
LEMMA MeasuredFrame ==
  ASSUME Measured, Squaring, UNCHANGED call
  PROVE  Measured'
  BY DEF Measured, Squaring, call, Compatible

\* What the sizes of the padded square are.
LEMMA SquareSizes ==
  ASSUME TypeOK, Squaring
  PROVE  /\ Size \in Nat /\ Columns = 0..Size
         /\ row \in Int /\ row >= 1 /\ (pc # "row" => row <= Size)
         /\ column \in Columns /\ used \subseteq Columns
         /\ matchedColumn \in [Columns -> 0..Size]
         /\ previous \in [Columns -> Columns]
  <1>1. problem.left \in Nat /\ problem.right \in Nat
    BY ProblemFacts
  <1> QED
    BY <1>1 DEF TypeOK, Squaring, Size, Columns

\* Heaviest, of either state.
LEMMA HeaviestIsNatural == TypeOK /\ Measured /\ Squaring => Heaviest \in Nat
  BY WeightFacts

\* Without potentials every slack is minus a weight, and no row has had its turn.
LEMMA BeginSquarePotentials ==
  ASSUME IInv, problem \in Problems, BeginSquare, IInv'
  PROVE  SquareInv'
  <1>1. /\ pc' = "row" /\ row' = 1 /\ column' = 0 /\ used' = {}
        /\ leftPotential' = [i \in Columns |-> 0]
        /\ rightPotential' = [i \in Columns |-> 0]
        /\ matchedColumn' = [i \in Columns |-> 0]
        /\ minCost' = [i \in Columns |-> 0]
        /\ problem' = problem
    BY DEF BeginSquare
  <1>2. Columns' = Columns /\ Size' = Size /\ Compatible' = Compatible
    BY <1>1 DEF Columns, Size, Compatible
  <1>3. Measured'
    BY <1>1, <1>2, ProblemFacts DEF IInv, BeginSquare, MeasureScores, Measured
  <1>4. Heaviest' \in Nat
    <2>1. (TypeOK /\ Measured /\ Squaring => Heaviest \in Nat)'
      BY HeaviestIsNatural, PTL
    <2> QED
      BY <1>1, <1>3, <2>1 DEF IInv, Squaring
  <1>5. SlackTypes'
    BY <1>1, <1>2 DEF SlackTypes
  <1>6. Bound'
    BY <1>1, <1>2 DEF Bound, Priced, Untouched
  <1>8. Shallow'
    <2>1. \A i \in Columns : leftPotential'[i] = 0 /\ rightPotential'[i] = 0
      BY <1>1
    <2>2. 0 >= -(Heaviest')
      <3>1. \A h \in Nat : 0 >= -h
        OBVIOUS
      <3> QED
        BY <1>4, <3>1
    <2>3. \A j \in Columns : rightPotential'[j] <= 0
      BY <2>1
    <2>4. Priced' = {}
      BY <1>1 DEF Priced, Untouched
    <2> QED
      BY <1>1, <1>2, <2>1, <2>2, <2>3, <2>4 DEF Shallow
  <1>7. Fringe' /\ Rooted'
    BY <1>1 DEF Fringe, Rooted
  <1> QED
    BY <1>3, <1>5, <1>6, <1>7, <1>8 DEF SquareInv

\* A row begins its turn with everything out of reach.
LEMMA BeginRowPotentials ==
  ASSUME IInv, SquareInv, BeginRow
  PROVE  SquareInv'
  <1>1. /\ pc = "row" /\ pc' = "scan" /\ row' = row /\ column' = 0 /\ used' = {}
        /\ leftPotential' = leftPotential /\ rightPotential' = rightPotential
        /\ matchedColumn' = [matchedColumn EXCEPT ![0] = row]
        /\ minCost' = [j \in Columns |-> IF j = 0 THEN 0 ELSE Infinity]
        /\ row \in Int /\ row >= 1 /\ Columns = 0..Size /\ Size \in Nat
        /\ matchedColumn \in [Columns -> 0..Size]
    BY SquareSizes DEF BeginRow, IInv, Squaring
  <1>2. /\ Columns' = Columns /\ Size' = Size /\ Heaviest' = Heaviest
        /\ \A i, j : Cost(i, j)' = Cost(i, j)
    BY <1>1, CostFrame DEF BeginRow
  <1>3. Measured'
    BY <1>1, MeasuredFrame DEF BeginRow, SquareInv, Squaring
  <1>4. SlackTypes'
    <2>1. minCost' \in [Columns -> Int]
      BY <1>1, ProblemsAssumption
    <2>2. leftPotential' \in [Columns -> Int] /\ rightPotential' \in [Columns -> Int]
      BY <1>1 DEF SlackTypes, SquareInv, Squaring
    <2> QED
      BY <1>2, <2>1, <2>2 DEF SlackTypes
  <1>5. Bound'
    <2>1. \A j \in Columns \ {0} : matchedColumn'[j] = matchedColumn[j]
      BY <1>1
    <2>2. Priced' = Priced
      BY <1>1 DEF Priced, Untouched
    <2>3. /\ \A i \in Priced, j \in Columns \ {0} : Cost(i, j) >= 0
          /\ \A j \in Columns \ {0} :
               IF matchedColumn[j] = 0 THEN rightPotential[j] = 0
               ELSE Cost(matchedColumn[j], j) = 0
      BY <1>1 DEF SquareInv, Bound, Squaring
    <2>4. \A i \in Priced', j \in Columns' \ {0} : Cost(i, j)' >= 0
      BY <1>2, <2>2, <2>3
    <2>5. ASSUME NEW j \in Columns \ {0}
          PROVE  IF matchedColumn'[j] = 0 THEN rightPotential'[j] = 0
                 ELSE Cost(matchedColumn[j], j)' = 0
      BY <1>1, <1>2, <2>1, <2>3
    <2> QED
      BY <1>2, <2>1, <2>4, <2>5 DEF Bound
  <1>6. Shallow'
    BY <1>1, <1>2 DEF Shallow, SquareInv, Untouched, Squaring, Priced
  <1>7. Fringe'
    BY <1>1, <1>2 DEF Fringe
  <1>8. Rooted'
    <2>1. Tree' = {0}
      BY <1>1 DEF Tree
    <2>2. [j \in Columns |-> 0] \in [Columns -> Nat] /\ 0 \in Nat
      OBVIOUS
    <2> QED
      BY <1>1, <1>2, <2>1, <2>2 DEF Rooted
  <1> QED
    BY <1>3, <1>4, <1>5, <1>6, <1>7, <1>8 DEF SquareInv

\* The columns of the tree take in the row of the last one, its slack is shared out.
LEMMA ScanPotentials ==
  ASSUME IInv, SquareInv, Scan, IInv'
  PROVE  SquareInv'
  <1> DEFINE matchedRow == matchedColumn[column]
             tree == used \cup {column}
             rest == Columns \ tree
             reached(j) ==
               IF Cost(matchedRow, j) < minCost[j] THEN Cost(matchedRow, j) ELSE minCost[j]
             taken == {matchedColumn[k] : k \in tree}
  <1>1. PICK nearest \in rest :
          /\ \A j \in rest : reached(nearest) < reached(j)
                             \/ (reached(nearest) = reached(j) /\ nearest <= j)
          /\ used' = tree
          /\ previous' = [j \in Columns |->
               IF j \in rest /\ Cost(matchedRow, j) < minCost[j] THEN column ELSE previous[j]]
          /\ minCost' = [j \in Columns |->
               IF j \in rest THEN reached(j) - reached(nearest) ELSE minCost[j]]
          /\ leftPotential' = [i \in Columns |->
               IF \E j \in tree : matchedColumn[j] = i
               THEN leftPotential[i] + reached(nearest) ELSE leftPotential[i]]
          /\ rightPotential' = [j \in Columns |->
               IF j \in tree THEN rightPotential[j] - reached(nearest) ELSE rightPotential[j]]
          /\ column' = nearest
          /\ pc' = IF matchedColumn[nearest] = 0 THEN "flip" ELSE "scan"
    BY DEF Scan
  <1> DEFINE delta == reached(nearest)
  <1>2. /\ pc = "scan" /\ row' = row /\ matchedColumn' = matchedColumn
        /\ Squaring /\ UNCHANGED call
        /\ row \in Int /\ row >= 1 /\ row <= Size /\ Columns = 0..Size /\ Size \in Nat
        /\ matchedColumn \in [Columns -> 0..Size] /\ previous \in [Columns -> Columns]
        /\ column \in Columns /\ used \subseteq Columns
    BY SquareSizes DEF Scan, IInv, Squaring
  <1>3. /\ Columns' = Columns /\ Size' = Size /\ Heaviest' = Heaviest
        /\ \A i, j : Cost(i, j) = -Weight(i, j) - leftPotential[i] - rightPotential[j]
        /\ \A i, j : Cost(i, j)' = -Weight(i, j) - leftPotential'[i] - rightPotential'[j]
    BY <1>2, CostFrame
  <1>4. /\ Infinity \in Nat /\ Heaviest \in Nat /\ Heaviest < Infinity
        /\ \A i, j : Weight(i, j) \in Int /\ 0 <= Weight(i, j) /\ Weight(i, j) <= Heaviest
    BY <1>2, WeightFacts DEF IInv, SquareInv
  <1>5. /\ leftPotential \in [Columns -> Int] /\ rightPotential \in [Columns -> Int]
        /\ minCost \in [Columns -> Int]
    BY <1>2 DEF SquareInv, SlackTypes
  <1>6. \A i, j \in Columns : Cost(i, j) \in Int
    BY <1>3, <1>4, <1>5
  \* The rows of the tree are those matched so far to its columns, each to one.
  <1>7. /\ \A j \in Columns : matchedColumn[j] \in (1..row) \cup {0}
        /\ \A j, k \in Columns :
             matchedColumn[j] = matchedColumn[k] => j = k \/ matchedColumn[j] = 0
    BY <1>2 DEF IInv, RowsHaveColumns
  <1>8. /\ \A j \in tree : matchedColumn[j] \in 1..row
        /\ used = {} =>
             /\ column = 0 /\ matchedColumn[0] = row
             /\ \A j \in Columns \ {0} : minCost[j] = Infinity
        /\ used # {} =>
             /\ 0 \in used
             /\ \A j \in Columns \ used :
                  /\ previous[j] \in used
                  /\ minCost[j] = Cost(matchedColumn[previous[j]], j)
                  /\ \A k \in used : minCost[j] <= Cost(matchedColumn[k], j)
    BY <1>2, <1>7 DEF SquareInv, Fringe
  <1>9. /\ tree \subseteq Columns /\ column \in tree /\ 0 \in tree
        /\ nearest \in Columns /\ nearest \notin tree /\ nearest # 0
        /\ matchedRow \in 1..row /\ matchedRow \in Columns
        /\ taken \subseteq 1..row /\ \A i \in 1..row : i \in Columns
    <2>1. tree \subseteq Columns /\ column \in tree
      BY <1>2
    <2>2. 0 \in tree
      BY <1>8
    <2>3. nearest \in Columns /\ nearest \notin tree
      BY <1>1
    <2>4. \A i \in 1..row : i \in Columns
      BY <1>2
    <2>5. matchedRow \in 1..row /\ taken \subseteq 1..row
      BY <1>8, <2>1
    <2> QED
      BY <2>1, <2>2, <2>3, <2>4, <2>5
  <1>10. /\ \A i \in Priced, j \in Columns \ {0} : Cost(i, j) >= 0
         /\ \A j \in Columns \ {0} :
              IF matchedColumn[j] = 0 THEN rightPotential[j] = 0
              ELSE Cost(matchedColumn[j], j) = 0
         /\ Priced = IF used = {} THEN 1..(row - 1) ELSE 1..row
    BY <1>2 DEF SquareInv, Bound, Priced, Untouched
  <1> HIDE DEF tree, rest
  <1>11. rest = Columns \ tree /\ tree = used \cup {column}
    BY DEF rest, tree
  <1>12. ASSUME NEW j \in rest
         PROVE  /\ reached(j) \in Int /\ delta \in Int /\ delta <= reached(j)
                /\ reached(j) <= Cost(matchedRow, j) /\ reached(j) <= minCost[j]
                /\ j \in Columns \ {0} /\ j \in Columns \ used
    <2>1. /\ j \in Columns /\ j # 0 /\ j \notin used /\ nearest \in Columns
      BY <1>9, <1>11
    <2>2. /\ Cost(matchedRow, j) \in Int /\ Cost(matchedRow, nearest) \in Int
          /\ minCost[j] \in Int /\ minCost[nearest] \in Int
      BY <2>1, <1>5, <1>6, <1>9
    <2> QED
      BY <1>1, <2>1, <2>2
  <1> HIDE DEF reached
  <1> HIDE DEF delta
  <1>13. delta = reached(nearest) /\ delta \in Int /\ nearest \in rest
    BY <1>12, <1>1 DEF delta
  \* No column is out of reach of the first row.
  <1>14. ASSUME NEW j \in rest
         PROVE  \/ /\ Cost(matchedRow, j) < minCost[j] /\ reached(j) = Cost(matchedRow, j)
                   /\ previous'[j] = column
                \/ /\ used # {} /\ reached(j) = minCost[j] /\ previous'[j] = previous[j]
    <2>1. CASE Cost(matchedRow, j) < minCost[j]
      BY <1>1, <1>12, <2>1 DEF reached
    <2>2. CASE ~(Cost(matchedRow, j) < minCost[j])
      <3>1. reached(j) = minCost[j] /\ previous'[j] = previous[j]
        BY <1>1, <1>12, <2>2 DEF reached
      <3>2. used # {}
        <4>1. SUFFICES ASSUME used = {} PROVE FALSE
          OBVIOUS
        <4>2. minCost[j] = Infinity /\ matchedRow = row
          BY <4>1, <1>8, <1>12
        <4>3. leftPotential[row] = 0 /\ rightPotential[j] >= -Heaviest
          BY <4>1, <1>2, <1>9, <1>12, <4>2 DEF SquareInv, Shallow, Untouched
        <4>4. /\ Cost(row, j) = -Weight(row, j) - leftPotential[row] - rightPotential[j]
              /\ Weight(row, j) \in Int /\ 0 <= Weight(row, j)
              /\ rightPotential[j] \in Int
          BY <1>3, <1>4, <1>5, <1>12
        <4>5. Cost(row, j) < Infinity
          BY <4>3, <4>4, <1>4
        <4> QED
          BY <2>2, <4>2, <4>5
      <3> QED
        BY <3>1, <3>2
    <2> QED
      BY <2>1, <2>2
  \* The tree gains delta on its rows and loses it on its columns.
  <1>15. /\ \A i \in Columns : leftPotential'[i] =
              IF i \in taken THEN leftPotential[i] + delta ELSE leftPotential[i]
         /\ \A j \in Columns : rightPotential'[j] =
              IF j \in tree THEN rightPotential[j] - delta ELSE rightPotential[j]
    BY <1>1, <1>13
  <1>16. /\ leftPotential' \in [Columns -> Int] /\ rightPotential' \in [Columns -> Int]
         /\ minCost' \in [Columns -> Int]
    <2>1. ASSUME NEW j \in Columns
          PROVE  /\ leftPotential'[j] \in Int /\ rightPotential'[j] \in Int
                 /\ minCost'[j] \in Int
      <3>1. leftPotential[j] \in Int /\ rightPotential[j] \in Int /\ minCost[j] \in Int
        BY <1>5
      <3>2. CASE j \in rest
        <4>1. minCost'[j] = reached(j) - delta
          BY <1>1, <1>13, <3>2
        <4> QED
          BY <1>12, <1>13, <1>15, <3>1, <3>2, <4>1
      <3>3. CASE j \notin rest
        <4>1. minCost'[j] = minCost[j]
          BY <1>1, <3>3
        <4> QED
          BY <1>13, <1>15, <3>1, <4>1
      <3> QED
        BY <3>2, <3>3
    <2>2. /\ leftPotential' = [j \in Columns |-> leftPotential'[j]]
          /\ rightPotential' = [j \in Columns |-> rightPotential'[j]]
          /\ minCost' = [j \in Columns |-> minCost'[j]]
      BY <1>1
    <2> QED
      BY <2>1, <2>2
  <1>17. ASSUME NEW i \in Columns, NEW j \in Columns
         PROVE  Cost(i, j)' = Cost(i, j) - (IF i \in taken THEN delta ELSE 0)
                                         + (IF j \in tree THEN delta ELSE 0)
    <2>1. /\ leftPotential[i] \in Int /\ rightPotential[j] \in Int /\ Weight(i, j) \in Int
          /\ Cost(i, j) = -Weight(i, j) - leftPotential[i] - rightPotential[j]
          /\ Cost(i, j)' = -Weight(i, j) - leftPotential'[i] - rightPotential'[j]
      BY <1>3, <1>4, <1>5
    <2> QED
      BY <2>1, <1>13, <1>15
  <1> HIDE DEF taken
  <1>18. \A k \in tree : matchedColumn[k] \in taken
    BY DEF taken
  <1>19. \A i \in taken : \E k \in tree : matchedColumn[k] = i
    BY DEF taken
  <1>20. \A j \in Columns : matchedColumn[j] \in taken => j \in tree
    BY <1>7, <1>8, <1>9, <1>19
  \* A tree of more than the first row pays a price that is no less than before.
  <1>21. ASSUME used # {} PROVE delta >= 0
    <2>1. /\ nearest \in Columns \ {0} /\ nearest \in Columns \ used
          /\ matchedRow \in Priced
      BY <1>9, <1>10, <1>12, <1>13, <1>21
    <2>2. previous[nearest] \in used /\ minCost[nearest] = Cost(matchedColumn[previous[nearest]], nearest)
      BY <1>8, <1>21, <2>1
    <2>3. previous[nearest] \in tree
      BY <1>11, <2>2
    <2>4. matchedColumn[previous[nearest]] \in Priced
      BY <1>8, <1>10, <1>21, <2>3
    <2>5. Cost(matchedRow, nearest) >= 0 /\ minCost[nearest] >= 0
      BY <1>10, <2>1, <2>2, <2>4
    <2> QED
      BY <1>13, <1>14, <2>5
  \* No edge out of the tree costs less than delta.
  <1>22. ASSUME NEW i \in taken, NEW j \in rest PROVE delta <= Cost(i, j)
    <2>1. PICK k \in tree : matchedColumn[k] = i
      BY <1>19
    <2>2. /\ delta <= reached(j) /\ reached(j) <= Cost(matchedRow, j)
          /\ reached(j) <= minCost[j] /\ j \in Columns \ used
      BY <1>12
    <2>3. /\ reached(j) \in Int /\ Cost(matchedRow, j) \in Int /\ Cost(i, j) \in Int
          /\ minCost[j] \in Int /\ delta \in Int
      <3>1. i \in Columns /\ j \in Columns
        BY <1>8, <1>9, <1>12, <2>1
      <3> QED
        BY <3>1, <1>5, <1>6, <1>9, <1>12
    <2>4. CASE k = column
      BY <2>1, <2>2, <2>3, <2>4
    <2>5. CASE k \in used
      <3>1. minCost[j] <= Cost(i, j)
        BY <1>8, <2>1, <2>2, <2>5
      <3> QED
        BY <2>2, <2>3, <3>1
    <2> QED
      BY <1>11, <2>4, <2>5
  <1>23. Priced' = 1..row
    <2>1. pc' # "row" /\ used' # {}
      BY <1>1, <1>9
    <2> QED
      BY <1>2, <2>1 DEF Priced, Untouched
  <1>24. ASSUME NEW i \in 1..row, NEW j \in Columns \ {0} PROVE Cost(i, j)' >= 0
    <2>1. i \in Columns /\ Cost(i, j) \in Int
      BY <1>6, <1>9
    <2>2. CASE i \in taken /\ j \in tree
      <3>1. used # {}
        <4>1. SUFFICES ASSUME used = {} PROVE FALSE
          OBVIOUS
        <4> QED
          BY <4>1, <1>8, <1>11, <2>2
      <3> QED
        BY <1>10, <1>13, <1>17, <2>1, <2>2, <3>1
    <2>3. CASE i \in taken /\ j \notin tree
      BY <1>11, <1>13, <1>17, <1>22, <2>1, <2>3
    <2>4. CASE i \notin taken
      <3>1. i \in Priced
        <4>1. CASE used = {}
          <5>1. row \in taken
            BY <4>1, <1>8, <1>9, <1>18
          <5> QED
            BY <4>1, <5>1, <1>2, <1>10, <2>4
        <4>2. CASE used # {}
          BY <4>2, <1>10
        <4> QED
          BY <4>1, <4>2
      <3>2. Cost(i, j) >= 0
        BY <3>1, <1>10
      <3>3. CASE j \in tree
        <4>1. used # {}
          BY <3>3, <1>8, <1>11
        <4> QED
          BY <1>13, <1>17, <1>21, <2>1, <2>4, <3>2, <3>3, <4>1
      <3>4. CASE j \notin tree
        BY <1>13, <1>17, <2>1, <2>4, <3>2, <3>4
      <3> QED
        BY <3>3, <3>4
    <2> QED
      BY <2>2, <2>3, <2>4
  <1>25. Measured'
    BY <1>2, MeasuredFrame DEF SquareInv
  <1>26. SlackTypes'
    BY <1>3, <1>16 DEF SlackTypes
  <1>27. Bound'
    <2>1. ASSUME NEW j \in Columns \ {0}
          PROVE  IF matchedColumn[j] = 0 THEN rightPotential'[j] = 0
                 ELSE Cost(matchedColumn[j], j)' = 0
      <3>1. CASE matchedColumn[j] = 0
        <4>1. j \notin tree
          BY <1>8, <3>1
        <4> QED
          BY <1>10, <1>15, <3>1, <4>1
      <3>2. CASE matchedColumn[j] # 0
        <4>1. matchedColumn[j] \in Columns /\ Cost(matchedColumn[j], j) = 0
          BY <1>7, <1>9, <1>10, <3>2
        <4>2. matchedColumn[j] \in taken <=> j \in tree
          BY <1>18, <1>20
        <4>3. Cost(matchedColumn[j], j)' = Cost(matchedColumn[j], j)
               - (IF matchedColumn[j] \in taken THEN delta ELSE 0)
               + (IF j \in tree THEN delta ELSE 0)
          <5>1. ASSUME NEW i \in Columns, i = matchedColumn[j]
                PROVE  Cost(i, j)' = Cost(i, j) - (IF i \in taken THEN delta ELSE 0)
                                                + (IF j \in tree THEN delta ELSE 0)
            BY <1>17
          <5>2. ASSUME NEW i, i = matchedColumn[j] PROVE Cost(i, j)' = Cost(matchedColumn[j], j)'
            BY <1>2, <5>2
          <5> QED
            BY <4>1, <5>1, <5>2
        <4> QED
          BY <1>13, <3>2, <4>1, <4>2, <4>3
      <3> QED
        BY <3>1, <3>2
    <2> QED
      BY <1>2, <1>3, <1>23, <1>24, <2>1 DEF Bound
  <1>28. \A i \in Columns : i > row => i \notin taken
    BY <1>2, <1>9
  <1>29. Shallow'
    <2>1. ~Untouched'
      BY <1>1, <1>9 DEF Untouched
    <2>2. ASSUME NEW i \in Columns, i > row PROVE leftPotential'[i] = 0
      BY <1>2, <1>15, <1>28, <2>2 DEF SquareInv, Shallow
    <2>3. ASSUME pc' = "flip", NEW i \in 1..row PROVE leftPotential'[i] <= 0
      <3>1. matchedColumn[nearest] = 0
        BY <1>1, <2>3
      <3>2. rightPotential'[nearest] = 0
        BY <1>9, <1>10, <1>15, <3>1
      <3>3. Cost(i, nearest)' >= 0
        <4>1. \A j \in Columns \ {0} : Cost(i, j)' >= 0
          BY <1>24
        <4>2. nearest \in Columns \ {0}
          BY <1>9
        <4>3. ASSUME NEW j, j = nearest PROVE Cost(i, j)' >= 0
          BY <4>1, <4>2, <4>3
        <4>4. nearest \in Columns
          BY <1>9
        <4> QED
          BY <4>3
      <3>4. /\ Cost(i, nearest)' = -Weight(i, nearest) - leftPotential'[i] - rightPotential'[nearest]
            /\ 0 <= Weight(i, nearest) /\ Weight(i, nearest) \in Int
            /\ leftPotential'[i] \in Int
        BY <1>3, <1>4, <1>9, <1>16
      <3> QED
        BY <3>2, <3>3, <3>4
    <2>4. ASSUME NEW j \in Columns \ {0} PROVE rightPotential'[j] <= 0
      <3>1. rightPotential[j] <= 0 /\ rightPotential[j] \in Int
        BY <1>2, <1>5 DEF SquareInv, Shallow
      <3>2. CASE j \in tree
        <4>1. delta >= 0
          BY <3>2, <1>8, <1>11, <1>21
        <4> QED
          BY <1>13, <1>15, <3>1, <4>1
      <3>3. CASE j \notin tree
        BY <1>15, <3>1, <3>3
      <3> QED
        BY <3>2, <3>3
    <2>5. pc' # "row"
      BY <1>1
    <2> QED
      BY <1>2, <1>3, <1>23, <2>1, <2>2, <2>3, <2>4, <2>5 DEF Shallow
  \* What the columns of the tree leave of the costs of its rows.
  <1>30. ASSUME NEW k \in tree, NEW j \in Columns
         PROVE  Cost(matchedColumn[k], j)' =
                  IF j \in tree THEN Cost(matchedColumn[k], j)
                                ELSE Cost(matchedColumn[k], j) - delta
    <2>1. matchedColumn[k] \in Columns /\ matchedColumn[k] \in taken
      BY <1>8, <1>9, <1>18
    <2>2. ASSUME NEW i, i = matchedColumn[k]
          PROVE  Cost(i, j)' = IF j \in tree THEN Cost(i, j) ELSE Cost(i, j) - delta
      <3>1. i \in Columns /\ i \in taken /\ Cost(i, j) \in Int
        BY <1>6, <2>1, <2>2
      <3> QED
        BY <1>13, <1>17, <3>1
    <2> QED
      BY <1>2, <2>2
  <1>31. ASSUME NEW j \in rest
         PROVE  /\ previous'[j] \in tree /\ minCost'[j] = reached(j) - delta
                /\ reached(j) = Cost(matchedColumn[previous'[j]], j)
    <2>1. CASE Cost(matchedRow, j) < minCost[j] /\ reached(j) = Cost(matchedRow, j)
               /\ previous'[j] = column
      BY <1>1, <1>9, <1>12, <1>13, <2>1
    <2>2. CASE used # {} /\ reached(j) = minCost[j] /\ previous'[j] = previous[j]
      BY <1>1, <1>8, <1>11, <1>12, <1>13, <2>2
    <2> QED
      BY <1>14, <2>1, <2>2
  <1>32. Fringe'
    <2>1. SUFFICES ASSUME pc' = "scan" PROVE Fringe'
      BY DEF Fringe
    <2>2. \A j \in tree \cup {nearest} : matchedColumn[j] # 0
      BY <1>1, <1>8, <2>1
    <2>3. used' # {} /\ 0 \in used' /\ column' \notin used'
      BY <1>1, <1>9
    <2>4. ASSUME NEW j \in Columns \ tree
          PROVE  /\ previous'[j] \in tree
                 /\ minCost'[j] = Cost(matchedColumn[previous[j]], j)'
                 /\ \A k \in tree : minCost'[j] <= Cost(matchedColumn[k], j)'
      <3>1. j \in rest /\ j \in Columns /\ j \notin tree
        BY <1>11
      <3>2. /\ previous'[j] \in tree /\ minCost'[j] = reached(j) - delta
            /\ reached(j) = Cost(matchedColumn[previous'[j]], j)
        BY <1>31, <3>1
      <3>3. Cost(matchedColumn[previous[j]], j)' = reached(j) - delta
        <4>1. ASSUME NEW k \in tree, k = previous'[j]
              PROVE  Cost(matchedColumn[k], j)' = reached(j) - delta
          BY <1>30, <3>1, <3>2, <4>1
        <4> QED
          BY <3>2, <4>1
      <3>4. ASSUME NEW k \in tree PROVE minCost'[j] <= Cost(matchedColumn[k], j)'
        <4>1. Cost(matchedColumn[k], j)' = Cost(matchedColumn[k], j) - delta
          BY <1>30, <3>1
        <4>2. Cost(matchedColumn[k], j) \in Int
          BY <1>6, <1>8, <1>9, <3>1
        <4>3. minCost'[j] <= Cost(matchedColumn[k], j) - delta
          <5>1. reached(j) <= Cost(matchedColumn[k], j)
            <6>1. CASE k = column
              BY <6>1, <1>12, <3>1
            <6>2. CASE k \in used
              BY <6>2, <1>5, <1>8, <1>12, <3>1, <4>2
            <6> QED
              BY <1>11, <6>1, <6>2
          <5> QED
            BY <1>12, <1>13, <3>1, <3>2, <4>2, <5>1
        <4> QED
          BY <4>1, <4>3
      <3> QED
        BY <3>2, <3>3, <3>4
    <2>5. used' = tree /\ column' = nearest /\ tree # {}
      BY <1>1, <1>9
    <2> QED
      BY <1>2, <1>3, <2>2, <2>3, <2>4, <2>5 DEF Fringe
  <1>33. Rooted'
    <2>1. PICK rank \in [Columns -> Nat], n \in Nat :
            /\ \A j \in tree : rank[j] <= n
            /\ \A j \in tree \ {0} :
                 /\ previous[j] \in used /\ rank[previous[j]] < rank[j]
                 /\ Cost(matchedColumn[previous[j]], j) = 0
      BY <1>2, <1>11 DEF SquareInv, Rooted, Tree
    <2> DEFINE later == [rank EXCEPT ![nearest] = n + 1]
    <2>2. /\ later \in [Columns -> Nat] /\ n + 1 \in Nat
          /\ later[nearest] = n + 1 /\ \A j \in Columns \ {nearest} : later[j] = rank[j]
      BY <1>9, <2>1
    <2>3. \A j \in tree \cup {nearest} : later[j] <= n + 1
      BY <1>9, <2>1, <2>2
    <2>4. ASSUME NEW j \in tree \ {0}
          PROVE  /\ previous'[j] \in tree /\ later[previous'[j]] < later[j]
                 /\ matchedColumn[previous'[j]] # 0
                 /\ Cost(matchedColumn[previous[j]], j)' = 0
      <3>1. previous'[j] = previous[j] /\ j \in Columns /\ j # nearest
        BY <1>1, <1>9, <1>11
      <3>2. previous[j] \in tree /\ previous[j] # nearest /\ previous[j] \in Columns
        BY <1>9, <1>11, <2>1
      <3>3. later[previous[j]] < later[j]
        BY <2>1, <2>2, <3>1, <3>2
      <3>4. Cost(matchedColumn[previous[j]], j)' = 0
        <4>1. ASSUME NEW k \in tree, k = previous'[j] PROVE Cost(matchedColumn[k], j)' = 0
          BY <1>30, <2>1, <3>1, <4>1
        <4> QED
          BY <3>1, <3>2, <4>1
      <3> QED
        BY <1>8, <3>1, <3>2, <3>3, <3>4
    <2>5. /\ previous'[nearest] \in tree /\ later[previous'[nearest]] < later[nearest]
          /\ matchedColumn[previous'[nearest]] # 0
          /\ Cost(matchedColumn[previous[nearest]], nearest)' = 0
      <3>1. /\ previous'[nearest] \in tree
            /\ delta = Cost(matchedColumn[previous'[nearest]], nearest)
        BY <1>13, <1>31
      <3>2. later[previous'[nearest]] < later[nearest]
        BY <1>9, <2>1, <2>2, <3>1
      <3>3. Cost(matchedColumn[previous[nearest]], nearest)' = 0
        <4>1. ASSUME NEW k \in tree, k = previous'[nearest],
                     NEW j \in Columns, j = nearest
              PROVE  Cost(matchedColumn[k], j)' = 0
          BY <1>9, <1>13, <1>30, <3>1, <4>1
        <4> QED
          BY <1>9, <3>1, <4>1
      <3> QED
        BY <1>8, <3>1, <3>2, <3>3
    <2>6. Tree' = tree \cup {nearest} /\ used' = tree /\ column' = nearest /\ nearest # 0
      BY <1>1, <1>9 DEF Tree
    <2> HIDE DEF later
    <2>7. \A j \in Tree' : later[j] <= n + 1
      BY <2>3, <2>6
    <2>8. \A j \in Tree' \ {0} :
            /\ previous'[j] \in used' /\ later[previous'[j]] < later[j]
            /\ matchedColumn'[previous'[j]] # 0
            /\ Cost(matchedColumn[previous[j]], j)' = 0
      BY <1>2, <2>4, <2>5, <2>6
    <2> QED
      BY <1>3, <2>2, <2>6, <2>7, <2>8 DEF Rooted
  <1> QED
    BY <1>25, <1>26, <1>27, <1>29, <1>32, <1>33 DEF SquareInv

\* Along the path the edges without slack change over.
LEMMA FlipPotentials ==
  ASSUME IInv, SquareInv, Flip
  PROVE  SquareInv'
  <1> DEFINE next == previous[column]
  <1>1. /\ pc = "flip" /\ Squaring /\ UNCHANGED call
        /\ matchedColumn' = [matchedColumn EXCEPT ![column] = matchedColumn[next]]
        /\ column' = next
        /\ \/ next = 0 /\ pc' = "row" /\ row' = row + 1
           \/ next # 0 /\ pc' = "flip" /\ row' = row
        /\ leftPotential' = leftPotential /\ rightPotential' = rightPotential
        /\ previous' = previous /\ minCost' = minCost /\ used' = used
    BY DEF Flip, Squaring
  <1>2. /\ row \in Int /\ row >= 1 /\ row <= Size /\ Columns = 0..Size /\ Size \in Nat
        /\ column \in Columns /\ used \subseteq Columns
        /\ matchedColumn \in [Columns -> 0..Size] /\ previous \in [Columns -> Columns]
    BY <1>1, SquareSizes DEF IInv
  <1>3. /\ Columns' = Columns /\ Size' = Size /\ Heaviest' = Heaviest
        /\ \A i, j : Cost(i, j) = -Weight(i, j) - leftPotential[i] - rightPotential[j]
        /\ \A i, j : Cost(i, j)' = Cost(i, j)
    BY <1>1, CostFrame
  <1>4. /\ Heaviest \in Nat
        /\ \A i, j : Weight(i, j) \in Int /\ 0 <= Weight(i, j) /\ Weight(i, j) <= Heaviest
    BY <1>1, WeightFacts DEF IInv, SquareInv
  <1>5. /\ leftPotential \in [Columns -> Int] /\ rightPotential \in [Columns -> Int]
        /\ minCost \in [Columns -> Int]
    BY <1>1 DEF SquareInv, SlackTypes
  <1>6. /\ \A i \in 1..row, j \in Columns \ {0} : Cost(i, j) >= 0
        /\ \A j \in Columns \ {0, column} :
             IF matchedColumn[j] = 0 THEN rightPotential[j] = 0
             ELSE Cost(matchedColumn[j], j) = 0
    BY <1>1 DEF SquareInv, Bound, Priced, Untouched
  <1>7. PICK rank \in [Columns -> Nat], n \in Nat :
          /\ column # 0
          /\ \A j \in Tree : rank[j] <= n
          /\ \A j \in Tree \ {0} : rank[j] <= rank[column] =>
               /\ previous[j] \in used /\ rank[previous[j]] < rank[j]
               /\ matchedColumn[previous[j]] # 0
               /\ Cost(matchedColumn[previous[j]], j) = 0
    BY <1>1 DEF SquareInv, Rooted
  <1>8. /\ next \in used /\ next \in Columns /\ rank[next] < rank[column] /\ next # column
        /\ matchedColumn[next] # 0 /\ Cost(matchedColumn[next], column) = 0
        /\ rank[column] \in Nat /\ rank[next] \in Nat
    <2>1. column \in Tree \ {0} /\ rank[column] \in Nat /\ next \in Columns
      BY <1>2, <1>7 DEF Tree
    <2>2. rank[column] <= rank[column] /\ rank[next] \in Nat
      BY <2>1
    <2> QED
      BY <1>7, <2>1, <2>2
  <1> HIDE DEF next
  <1>9. /\ matchedColumn'[column] = matchedColumn[next]
        /\ \A j \in Columns \ {column} : matchedColumn'[j] = matchedColumn[j]
    BY <1>1, <1>2
  \* The column that was open is matched without slack.
  <1>10. ASSUME NEW j \in Columns \ {0, next}
         PROVE  IF matchedColumn'[j] = 0 THEN rightPotential[j] = 0
                ELSE Cost(matchedColumn'[j], j) = 0
    <2>1. CASE j = column
      BY <1>8, <1>9, <2>1
    <2>2. CASE j # column
      BY <1>6, <1>9, <2>2
    <2> QED
      BY <2>1, <2>2
  <1>11. Priced' = 1..row
    <2>1. (row + 1) - 1 = row
      BY <1>2
    <2> QED
      BY <1>1, <2>1 DEF Priced, Untouched
  <1>12. Measured' /\ SlackTypes'
    BY <1>1, <1>3, <1>5, MeasuredFrame DEF SquareInv, SlackTypes
  <1>13. Bound'
    <2>1. \A i \in Priced', j \in Columns' \ {0} : Cost(i, j)' >= 0
      BY <1>3, <1>6, <1>11
    <2>2. ASSUME NEW j \in Columns \ {0}
          PROVE  \/ pc' = "flip" /\ j = column'
                 \/ IF matchedColumn'[j] = 0 THEN rightPotential'[j] = 0
                    ELSE Cost(matchedColumn[j], j)' = 0
      <3>1. CASE j = next
        BY <1>1, <3>1
      <3>2. CASE j # next
        <4>1. IF matchedColumn'[j] = 0 THEN rightPotential[j] = 0
              ELSE Cost(matchedColumn'[j], j) = 0
          BY <1>10, <3>2
        <4>2. Cost(matchedColumn[j], j)' = Cost(matchedColumn'[j], j)
          BY <1>3
        <4> QED
          BY <1>1, <4>1, <4>2
      <3> QED
        BY <3>1, <3>2
    <2> QED
      BY <1>3, <2>1, <2>2 DEF Bound
  <1>14. \A i \in 1..row : leftPotential[i] <= 0
    BY <1>1 DEF SquareInv, Shallow, Priced, Untouched
  <1>15. Shallow'
    <2>1. ASSUME NEW i \in Columns, i > row' \/ (i = row' /\ Untouched')
          PROVE  leftPotential'[i] = 0
      <3>1. i > row
        <4>1. i \in Int
          BY <1>2
        <4>2. CASE pc' = "row" /\ row' = row + 1
          BY <1>2, <2>1, <4>1, <4>2
        <4>3. CASE pc' = "flip" /\ row' = row
          BY <2>1, <4>3 DEF Untouched
        <4> QED
          BY <1>1, <4>2, <4>3
      <3> QED
        BY <1>1, <3>1 DEF SquareInv, Shallow
    <2>2. ASSUME Untouched', NEW j \in Columns \ {0}
          PROVE  rightPotential'[j] >= -Heaviest
      <3>1. next = 0 /\ j \in Columns \ {0, next} /\ rightPotential[j] \in Int
        BY <1>1, <1>5, <2>2 DEF Untouched
      <3>2. CASE matchedColumn'[j] = 0
        BY <1>1, <1>4, <1>10, <3>1, <3>2
      <3>3. CASE matchedColumn'[j] # 0
        <4> DEFINE i == matchedColumn'[j]
        <4>1. i \in 1..row
          <5>1. \A k \in Columns \ {column} : matchedColumn[k] \in (1..row) \cup {0}
            BY <1>1 DEF IInv, RowsHaveColumns
          <5> QED
            BY <1>8, <1>9, <3>3, <5>1
        <4>2. i \in Columns /\ leftPotential[i] \in Int /\ leftPotential[i] <= 0
          <5>1. \A m \in 1..row : m \in Columns
            BY <1>2
          <5> QED
            BY <1>5, <1>14, <4>1, <5>1
        <4>3. Cost(i, j) = 0
          BY <1>10, <3>1, <3>3
        <4> HIDE DEF i
        <4>4. /\ Cost(i, j) = -Weight(i, j) - leftPotential[i] - rightPotential[j]
              /\ Weight(i, j) \in Int /\ Weight(i, j) <= Heaviest
          BY <1>3, <1>4
        <4>5. rightPotential[j] >= -Heaviest
          BY <1>4, <3>1, <4>2, <4>3, <4>4
        <4> QED
          BY <1>1, <4>5
      <3> QED
        BY <3>2, <3>3
    <2>3. \A i \in Priced' : leftPotential'[i] <= 0
      BY <1>1, <1>11, <1>14
    <2>4. \A j \in Columns \ {0} : rightPotential'[j] <= 0
      BY <1>1 DEF SquareInv, Shallow
    <2> QED
      BY <1>1, <1>3, <2>1, <2>2, <2>3, <2>4 DEF Shallow
  <1>16. Fringe'
    BY <1>1 DEF Fringe
  <1>17. Rooted'
    <2>1. CASE pc' = "row"
      BY <2>1 DEF Rooted
    <2>2. CASE next # 0 /\ pc' = "flip"
      <3>1. Tree' = used
        BY <1>1, <1>8 DEF Tree
      <3>2. used \subseteq Tree /\ used \subseteq Columns
        BY <1>2 DEF Tree
      <3>3. ASSUME NEW j \in used \ {0}, rank[j] <= rank[next]
            PROVE  /\ previous[j] \in used /\ rank[previous[j]] < rank[j]
                   /\ matchedColumn'[previous[j]] # 0
                   /\ Cost(matchedColumn'[previous[j]], j) = 0
        <4>1. rank[j] \in Nat /\ j \in Tree \ {0}
          BY <3>2
        <4>2. rank[j] <= rank[column]
          BY <1>8, <3>3, <4>1
        <4>3. /\ previous[j] \in used /\ rank[previous[j]] < rank[j]
              /\ matchedColumn[previous[j]] # 0
              /\ Cost(matchedColumn[previous[j]], j) = 0
          BY <1>7, <4>1, <4>2
        <4>4. rank[previous[j]] \in Nat /\ previous[j] \in Columns
          BY <3>2, <4>3
        <4>5. previous[j] # column
          BY <1>8, <3>3, <4>1, <4>3, <4>4
        <4> QED
          BY <1>9, <4>3, <4>4, <4>5
      <3>4. ASSUME NEW j \in Tree' \ {0}, rank[j] <= rank[column']
            PROVE  /\ previous'[j] \in used' /\ rank[previous'[j]] < rank[j]
                   /\ matchedColumn'[previous'[j]] # 0
                   /\ Cost(matchedColumn[previous[j]], j)' = 0
        <4>1. /\ previous[j] \in used /\ rank[previous[j]] < rank[j]
              /\ matchedColumn'[previous[j]] # 0
              /\ Cost(matchedColumn'[previous[j]], j) = 0
          BY <1>1, <3>1, <3>3, <3>4
        <4>2. Cost(matchedColumn[previous[j]], j)' = Cost(matchedColumn'[previous[j]], j)
          BY <1>1, <1>3
        <4> QED
          BY <1>1, <4>1, <4>2
      <3>5. \A j \in Tree' : rank[j] <= n
        BY <1>7, <3>1, <3>2
      <3>6. rank \in [Columns' -> Nat] /\ column' # 0 /\ pc' # "scan"
        BY <1>1, <1>3, <1>7, <2>2
      <3> QED
        BY <1>7, <3>4, <3>5, <3>6 DEF Rooted
    <2> QED
      BY <1>1, <2>1, <2>2
  <1> QED
    BY <1>12, <1>13, <1>15, <1>16, <1>17 DEF SquareInv

\* Outside of the Hungarian solver there is nothing to say.
LEMMA ElsewherePotentials ==
  ASSUME ~Squaring'
  PROVE  SquareInv'
  BY DEF SquareInv, Squaring, Measured, SlackTypes, Bound, Shallow, Untouched, Fringe, Rooted

\* The problem being solved is one that was given.
Posed == problem \in Problems

\* The square's potentials, of every reachable state.
LEMMA SquareInvariance == Spec => [](IInv /\ Posed /\ SquareInv)
  <1>1. Init => Posed /\ SquareInv
    BY DEF Init, Posed, SquareInv, Squaring, Measured, SlackTypes, Bound, Shallow, Untouched, Fringe,
           Rooted
  <1>2. IInv /\ Posed /\ SquareInv /\ [Next]_vars /\ IInv'
          => Posed' /\ SquareInv'
    <2> SUFFICES ASSUME IInv, Posed, SquareInv, [Next]_vars, IInv'
                 PROVE  Posed' /\ SquareInv'
      OBVIOUS
    <2>1. problem' = problem
      BY DEF Next, vars, call, NothingToPair, BeginSquare, BeginRow, Scan, Flip, EndSquare,
             BeginLinear, Layers, NextRoot, TryRight, DeadEnd, NothingToImprove, BeginAuction,
             Bid, EndAuction, Returned
    <2>2. CASE BeginSquare
      BY <2>1, <2>2, BeginSquarePotentials DEF Posed
    <2>3. CASE BeginRow
      BY <2>1, <2>3, BeginRowPotentials DEF Posed
    <2>4. CASE Scan
      BY <2>1, <2>4, ScanPotentials DEF Posed
    <2>5. CASE Flip
      BY <2>1, <2>5, FlipPotentials DEF Posed
    <2>6. CASE \/ NothingToPair \/ EndSquare \/ BeginLinear \/ Layers \/ NextRoot \/ TryRight
               \/ DeadEnd \/ NothingToImprove \/ BeginAuction \/ Bid \/ EndAuction
      <3>1. ~Squaring'
        BY <2>6 DEF Squaring, NothingToPair, EndSquare, BeginLinear, Layers, NextRoot, TryRight,
               DeadEnd, NothingToImprove, BeginAuction, Bid, EndAuction, Return
      <3> QED
        BY <2>1, <3>1, ElsewherePotentials DEF Posed
    <2>7. CASE UNCHANGED vars
      <3>1. UNCHANGED <<call, pc, square>> /\ UNCHANGED <<problem, lowest, highest>>
        BY <2>7 DEF vars, call
      <3>2. (Measured' <=> Measured) /\ (SlackTypes' <=> SlackTypes)
        BY <3>1 DEF square, Measured, SlackTypes, Squaring, Columns, Size, Compatible
      <3>3. (Bound' <=> Bound) /\ (Shallow' <=> Shallow)
        BY <3>1 DEF square, Bound, Shallow, Squaring, Untouched, Priced, Heaviest, Cost, Weight,
               Bonus, Columns, Size, Compatible
      <3>4. (Fringe' <=> Fringe) /\ (Rooted' <=> Rooted)
        BY <3>1 DEF square, Fringe, Rooted, Tree, Cost, Weight, Bonus, Columns, Size, Compatible
      <3> QED
        BY <2>1, <3>2, <3>3, <3>4 DEF SquareInv, Posed
    <2> QED
      BY <2>1, <2>2, <2>3, <2>4, <2>5, <2>6, <2>7 DEF Next, Returned
  <1> QED
    BY <1>1, <1>2, Invariance, PTL DEF Spec

(* Between two rows the potentials of the Hungarian solver bound the weights  *)
(* from above and meet them on the assigned pairs, for lists of every length  *)
(* and any scores (maximumWeightAssignment, align.go).                        *)
THEOREM Potentials == Spec => []PotentialsBound
  <1>1. IInv /\ SquareInv => PotentialsBound
    <2> SUFFICES ASSUME IInv, SquareInv, pc = "row", NEW j \in Columns \ {0},
                        NEW i \in 1..(row - 1)
                 PROVE  Cost(i, j) >= 0 /\ (matchedColumn[j] = i => Cost(i, j) = 0)
      BY DEF PotentialsBound
    <2>1. i # 0
      BY SquareSizes DEF IInv, Squaring
    <2> QED
      BY <2>1 DEF SquareInv, Bound, Squaring, Priced, Untouched
  <1> QED
    BY <1>1, SquareInvariance, PTL

----------------------------------------------------------------------------
\* Totals: sums over finite sets, taken in any order

\* An element of a set that is not empty.
Some(S) == CHOOSE x \in S : TRUE

\* The total of a set, given those of its subsets.
TotalOf(score, f, S) == IF S = {} THEN 0 ELSE score[Some(S)] + f[S \ {Some(S)}]

\* The table of the totals of all subsets of S.
IsTotals(score, f, S) == f = [T \in SUBSET S |-> TotalOf(score, f, T)]

\* A set and what is left of it without Some element.
LEMMA SomeFacts ==
  ASSUME NEW S, IsFiniteSet(S), S # {}
  PROVE  /\ Some(S) \in S /\ IsFiniteSet(S \ {Some(S)})
         /\ Cardinality(S) \in Nat \ {0}
         /\ Cardinality(S \ {Some(S)}) = Cardinality(S) - 1
         /\ Cardinality(S \ {Some(S)}) \in Nat
  <1>1. Some(S) \in S
    BY DEF Some
  <1>2. /\ IsFiniteSet(S \ {Some(S)})
        /\ Cardinality(S \ {Some(S)}) = Cardinality(S) - 1
    BY <1>1, FS_RemoveElement
  <1>3. Cardinality(S) \in Nat /\ Cardinality(S \ {Some(S)}) \in Nat
    BY <1>2, FS_CardinalityType
  <1> QED
    BY <1>1, <1>2, <1>3

\* There is a table of totals for every finite set.
LEMMA TotalsExist ==
  ASSUME NEW score, NEW S, IsFiniteSet(S)
  PROVE  \E f : IsTotals(score, f, S)
  <1> DEFINE UpTo(n) == {T \in SUBSET S : Cardinality(T) <= n}
             Table(f, n) == f = [T \in UpTo(n) |-> TotalOf(score, f, T)]
             N == {n \in Nat : \E f : Table(f, n)}
  <1>1. \A T \in SUBSET S : IsFiniteSet(T) /\ Cardinality(T) \in Nat
    BY FS_Subset, FS_CardinalityType
  <1>2. 0 \in N
    <2>1. ASSUME NEW f, NEW T \in UpTo(0) PROVE TotalOf(score, f, T) = 0
      <3>1. T = {}
        BY <1>1, FS_EmptySet
      <3> QED
        BY <3>1 DEF TotalOf
    <2> DEFINE zero == [T \in UpTo(0) |-> 0]
    <2> HIDE DEF UpTo
    <2>2. zero = [T \in UpTo(0) |-> TotalOf(score, zero, T)]
      <3> DEFINE again == [T \in UpTo(0) |-> TotalOf(score, zero, T)]
      <3>1. \A T \in UpTo(0) : TotalOf(score, zero, T) = 0
        BY <2>1
      <3> HIDE DEF zero
      <3>2. again = [T \in UpTo(0) |-> 0]
        BY <3>1
      <3> QED
        BY <3>2 DEF zero
    <2> HIDE DEF zero
    <2>3. Table(zero, 0)
      BY <2>2
    <2> QED
      BY <2>3
  <1>3. ASSUME NEW n \in Nat, n \in N PROVE n + 1 \in N
    <2>1. PICK f : Table(f, n)
      BY <1>3
    <2> DEFINE g == [T \in UpTo(n + 1) |-> TotalOf(score, f, T)]
    <2>2. UpTo(n) \subseteq UpTo(n + 1)
      BY <1>1
    <2>3. \A T \in UpTo(n) : f[T] = g[T]
      <3>1. \A T \in UpTo(n) : f[T] = TotalOf(score, f, T)
        <4> HIDE DEF UpTo
        <4> QED
          BY <2>1, Zenon
      <3> HIDE DEF UpTo
      <3> QED
        BY <2>2, <3>1
    <2>4. ASSUME NEW T \in UpTo(n + 1) PROVE TotalOf(score, g, T) = TotalOf(score, f, T)
      <3>1. CASE T = {}
        BY <3>1 DEF TotalOf
      <3>2. CASE T # {}
        <4>1. T \ {Some(T)} \in UpTo(n)
          BY <1>1, <3>2, SomeFacts
        <4>2. f[T \ {Some(T)}] = g[T \ {Some(T)}]
          BY <2>3, <4>1
        <4> HIDE DEF g
        <4> QED
          BY <4>2 DEF TotalOf
      <3> QED
        BY <3>1, <3>2
    <2> HIDE DEF UpTo
    <2>5. g = [T \in UpTo(n + 1) |-> TotalOf(score, g, T)]
      <3> DEFINE again == [T \in UpTo(n + 1) |-> TotalOf(score, g, T)]
      <3>1. again = [T \in UpTo(n + 1) |-> TotalOf(score, f, T)]
        <4> HIDE DEF g
        <4> QED
          BY <2>4
      <3> QED
        BY <3>1
    <2>6. Table(g, n + 1)
      BY <2>5
    <2> HIDE DEF g, Table
    <2> QED
      BY <2>6
  <1>4. N = Nat
    <2>1. N \subseteq Nat
      OBVIOUS
    <2> HIDE DEF N
    <2>2. Nat \subseteq N
      BY <1>2, <1>3, NaturalInduction
    <2> QED
      BY <2>1, <2>2
  <1>5. Cardinality(S) \in Nat
    BY <1>1
  <1>6. PICK f : Table(f, Cardinality(S))
    BY <1>4, <1>5
  <1>7. UpTo(Cardinality(S)) = SUBSET S
    BY FS_Subset
  <1> HIDE DEF UpTo
  <1> QED
    BY <1>6, <1>7 DEF IsTotals

\* Two tables agree wherever both say something.
LEMMA TotalsAgree ==
  ASSUME NEW score, NEW S, IsFiniteSet(S), NEW R \in SUBSET S,
         NEW f, IsTotals(score, f, S), NEW g, IsTotals(score, g, R)
  PROVE  f[R] = g[R]
  <1> DEFINE N == {n \in Nat : \A T \in SUBSET R : Cardinality(T) = n => f[T] = g[T]}
  <1>1. \A T \in SUBSET R : /\ T \in SUBSET S /\ IsFiniteSet(T) /\ Cardinality(T) \in Nat
                            /\ f[T] = TotalOf(score, f, T) /\ g[T] = TotalOf(score, g, T)
    <2>1. \A T \in SUBSET R : T \in SUBSET S /\ IsFiniteSet(T) /\ Cardinality(T) \in Nat
      BY FS_Subset, FS_CardinalityType
    <2>2. \A T \in SUBSET S : f[T] = TotalOf(score, f, T)
      BY Zenon DEF IsTotals
    <2>3. \A T \in SUBSET R : g[T] = TotalOf(score, g, T)
      BY Zenon DEF IsTotals
    <2> QED
      BY <2>1, <2>2, <2>3
  <1>2. 0 \in N
    <2>1. ASSUME NEW T \in SUBSET R, Cardinality(T) = 0 PROVE f[T] = g[T]
      <3>1. T = {}
        BY <1>1, <2>1, FS_EmptySet
      <3> QED
        BY <1>1, <3>1 DEF TotalOf
    <2> QED
      BY <2>1
  <1>3. ASSUME NEW n \in Nat, n \in N PROVE n + 1 \in N
    <2>1. ASSUME NEW T \in SUBSET R, Cardinality(T) = n + 1 PROVE f[T] = g[T]
      <3>1. T # {}
        <4>1. Cardinality({}) = 0
          BY FS_EmptySet
        <4> QED
          BY <1>3, <2>1, <4>1
      <3>2. Cardinality(T \ {Some(T)}) = n /\ T \ {Some(T)} \in SUBSET R
        BY <1>1, <2>1, <3>1, SomeFacts
      <3>3. f[T \ {Some(T)}] = g[T \ {Some(T)}]
        BY <1>3, <3>2
      <3> QED
        BY <1>1, <3>1, <3>3 DEF TotalOf
    <2> QED
      BY <2>1
  <1> HIDE DEF N
  <1>4. Nat \subseteq N
    BY <1>2, <1>3, NaturalInduction
  <1>5. R \in SUBSET R /\ Cardinality(R) \in N
    BY <1>1, <1>4
  <1> QED
    BY <1>5 DEF N

\* Total looks its result up in such a table.
LEMMA TotalIsTable ==
  ASSUME NEW score, NEW S, IsFiniteSet(S)
  PROVE  \E f : IsTotals(score, f, S) /\ Total(score, S) = f[S]
  <1> DEFINE f == CHOOSE f : IsTotals(score, f, S)
  <1>1. IsTotals(score, f, S)
    BY TotalsExist
  <1>2. Total(score, S) = f[S]
    BY DEF Total, IsTotals, TotalOf, Some
  <1> QED
    BY <1>1, <1>2

\* The recursion of Total.
LEMMA TotalUnfolds ==
  ASSUME NEW score, NEW S, IsFiniteSet(S)
  PROVE  Total(score, S) =
           IF S = {} THEN 0 ELSE score[Some(S)] + Total(score, S \ {Some(S)})
  <1>1. PICK f : IsTotals(score, f, S) /\ Total(score, S) = f[S]
    BY TotalIsTable
  <1>2. \A T \in SUBSET S : f[T] = TotalOf(score, f, T)
    BY <1>1, Zenon DEF IsTotals
  <1>3. \A T \in SUBSET S : Total(score, T) = f[T]
    <2>1. ASSUME NEW T \in SUBSET S PROVE Total(score, T) = f[T]
      <3>1. IsFiniteSet(T)
        BY FS_Subset
      <3>2. PICK g : IsTotals(score, g, T) /\ Total(score, T) = g[T]
        BY <3>1, TotalIsTable
      <3> QED
        BY <1>1, <3>2, TotalsAgree
    <2> QED
      BY <2>1
  <1>4. S \in SUBSET S /\ S \ {Some(S)} \in SUBSET S
    OBVIOUS
  <1> QED
    BY <1>2, <1>3, <1>4 DEF TotalOf

\* Of nothing, the total is nothing.
LEMMA TotalEmpty == ASSUME NEW score PROVE Total(score, {}) = 0
  <1>1. IsFiniteSet({})
    BY FS_EmptySet
  <1> QED
    BY <1>1, TotalUnfolds

\* Totals of numbers are numbers.
LEMMA TotalType ==
  ASSUME NEW S, IsFiniteSet(S), NEW score, \A x \in S : score[x] \in Int
  PROVE  Total(score, S) \in Int
  <1> DEFINE N == {n \in Nat : \A T \in SUBSET S : Cardinality(T) = n => Total(score, T) \in Int}
  <1>1. \A T \in SUBSET S : /\ IsFiniteSet(T) /\ Cardinality(T) \in Nat
                            /\ (Cardinality(T) = 0 <=> T = {})
    BY FS_Subset, FS_CardinalityType, FS_EmptySet
  <1>2. 0 \in N
    <2>1. ASSUME NEW T \in SUBSET S, Cardinality(T) = 0 PROVE Total(score, T) \in Int
      <3>1. IsFiniteSet(T) /\ T = {}
        BY <1>1, <2>1
      <3> QED
        BY <3>1, TotalEmpty
    <2> QED
      BY <2>1
  <1>3. ASSUME NEW n \in Nat, n \in N PROVE n + 1 \in N
    <2>1. ASSUME NEW T \in SUBSET S, Cardinality(T) = n + 1 PROVE Total(score, T) \in Int
      <3>1. IsFiniteSet(T) /\ T # {}
        BY <1>1, <1>3, <2>1
      <3>2. /\ Cardinality(T \ {Some(T)}) = n /\ T \ {Some(T)} \in SUBSET S
            /\ Some(T) \in S
        BY <1>1, <2>1, <3>1, SomeFacts
      <3>3. Total(score, T \ {Some(T)}) \in Int /\ score[Some(T)] \in Int
        BY <1>3, <3>2
      <3>4. Total(score, T) = score[Some(T)] + Total(score, T \ {Some(T)})
        BY <3>1, TotalUnfolds
      <3> QED
        BY <3>3, <3>4
    <2> QED
      BY <2>1
  <1> HIDE DEF N
  <1>4. Nat \subseteq N
    BY <1>2, <1>3, NaturalInduction
  <1>5. S \in SUBSET S /\ Cardinality(S) \in N
    BY <1>1, <1>4
  <1> QED
    BY <1>5 DEF N

\* Whichever element is added first, the total is the same.
LEMMA TotalRemove ==
  ASSUME NEW S, IsFiniteSet(S), NEW score, \A x \in S : score[x] \in Int, NEW x \in S
  PROVE  Total(score, S) = score[x] + Total(score, S \ {x})
  <1> DEFINE Splits(T) == \A y \in T : Total(score, T) = score[y] + Total(score, T \ {y})
             N == {n \in Nat : \A T \in SUBSET S : Cardinality(T) = n => Splits(T)}
  <1>1. \A T \in SUBSET S :
          /\ IsFiniteSet(T) /\ Cardinality(T) \in Nat /\ (Cardinality(T) = 0 <=> T = {})
          /\ Total(score, T) \in Int
    <2>1. \A T \in SUBSET S :
            /\ IsFiniteSet(T) /\ Cardinality(T) \in Nat /\ (Cardinality(T) = 0 <=> T = {})
      BY FS_Subset, FS_CardinalityType, FS_EmptySet
    <2>2. \A T \in SUBSET S : \A y \in T : score[y] \in Int
      OBVIOUS
    <2>3. \A T \in SUBSET S : Total(score, T) \in Int
      BY <2>1, <2>2, TotalType
    <2> QED
      BY <2>1, <2>3
  <1>2. 0 \in N
    BY <1>1
  <1>3. ASSUME NEW n \in Nat, n \in N PROVE n + 1 \in N
    <2>1. ASSUME NEW T \in SUBSET S, Cardinality(T) = n + 1, NEW y \in T
          PROVE  Total(score, T) = score[y] + Total(score, T \ {y})
      <3> DEFINE c == Some(T)
      <3>1. IsFiniteSet(T) /\ T # {}
        BY <1>1, <1>3, <2>1
      <3>2. c \in T
        BY <3>1, SomeFacts
      <3>3. Total(score, T) = score[c] + Total(score, T \ {c})
        BY <3>1, TotalUnfolds
      <3> HIDE DEF c
      <3>4. CASE y = c
        BY <3>3, <3>4
      <3>5. CASE y # c
        <4>1. /\ T \ {c} \in SUBSET S /\ T \ {y} \in SUBSET S
              /\ Cardinality(T \ {c}) = n /\ Cardinality(T \ {y}) = n
          <5>1. /\ Cardinality(T \ {c}) = Cardinality(T) - 1
                /\ Cardinality(T \ {y}) = Cardinality(T) - 1
            BY <2>1, <3>1, <3>2, FS_RemoveElement
          <5>2. (n + 1) - 1 = n
            OBVIOUS
          <5> QED
            BY <2>1, <5>1, <5>2
        <4>2. /\ Total(score, T \ {c}) = score[y] + Total(score, (T \ {c}) \ {y})
              /\ Total(score, T \ {y}) = score[c] + Total(score, (T \ {y}) \ {c})
          BY <1>3, <2>1, <3>2, <3>5, <4>1
        <4> DEFINE rest == (T \ {c}) \ {y}
        <4>3. rest = (T \ {y}) \ {c} /\ rest \in SUBSET S
          OBVIOUS
        <4>4. score[c] \in Int /\ score[y] \in Int /\ Total(score, rest) \in Int
          BY <1>1, <3>2, <4>3
        <4>5. /\ Total(score, T \ {c}) = score[y] + Total(score, rest)
              /\ Total(score, T \ {y}) = score[c] + Total(score, rest)
          BY <4>2, <4>3
        <4> HIDE DEF rest
        <4> QED
          BY <3>3, <4>4, <4>5
      <3> QED
        BY <3>4, <3>5
    <2> QED
      BY <2>1
  <1> HIDE DEF N
  <1>4. Nat \subseteq N
    BY <1>2, <1>3, NaturalInduction
  <1>5. S \in SUBSET S /\ Cardinality(S) \in N
    BY <1>1, <1>4
  <1> QED
    BY <1>5 DEF N

\* One more element adds its score.
LEMMA TotalAdd ==
  ASSUME NEW S, IsFiniteSet(S), NEW score, NEW x, x \notin S,
         \A y \in S \cup {x} : score[y] \in Int
  PROVE  Total(score, S \cup {x}) = score[x] + Total(score, S)
  <1>1. IsFiniteSet(S \cup {x}) /\ (S \cup {x}) \ {x} = S /\ x \in S \cup {x}
    BY FS_AddElement
  <1> QED
    BY <1>1, TotalRemove

\* Totals of two tables of scores that are compared element by element.
LEMMA TotalCompare ==
  ASSUME NEW S, IsFiniteSet(S), NEW f, NEW g,
         \A x \in S : f[x] \in Int /\ g[x] \in Int /\ f[x] <= g[x]
  PROVE  Total(f, S) <= Total(g, S)
  <1> DEFINE F == {T \in SUBSET S : Total(f, T) <= Total(g, T)}
  <1>1. {} \in F
    BY TotalEmpty
  <1>2. ASSUME NEW T \in SUBSET S, NEW x \in S, T \in F, x \notin T
        PROVE  T \cup {x} \in F
    <2>1. IsFiniteSet(T)
      BY FS_Subset
    <2>2. Total(f, T) \in Int /\ Total(g, T) \in Int
      BY <2>1, TotalType
    <2>3. /\ Total(f, T \cup {x}) = f[x] + Total(f, T)
          /\ Total(g, T \cup {x}) = g[x] + Total(g, T)
      BY <1>2, <2>1, TotalAdd
    <2> QED
      BY <1>2, <2>2, <2>3
  <1> HIDE DEF F
  <1>3. S \in F
    BY <1>1, <1>2, FiniteSetInduction
  <1> QED
    BY <1>3 DEF F

\* The total of sums is the sum of the totals.
LEMMA TotalPlus ==
  ASSUME NEW S, IsFiniteSet(S), NEW f, NEW g, NEW h,
         \A x \in S : f[x] \in Int /\ g[x] \in Int /\ h[x] = f[x] + g[x]
  PROVE  Total(h, S) = Total(f, S) + Total(g, S)
  <1> DEFINE F == {T \in SUBSET S : Total(h, T) = Total(f, T) + Total(g, T)}
  <1>1. {} \in F
    BY TotalEmpty
  <1>2. ASSUME NEW T \in SUBSET S, NEW x \in S, T \in F, x \notin T
        PROVE  T \cup {x} \in F
    <2>1. IsFiniteSet(T) /\ \A y \in T \cup {x} : h[y] \in Int
      BY FS_Subset
    <2>2. Total(f, T) \in Int /\ Total(g, T) \in Int
      BY <2>1, TotalType
    <2>3. /\ Total(f, T \cup {x}) = f[x] + Total(f, T)
          /\ Total(g, T \cup {x}) = g[x] + Total(g, T)
          /\ Total(h, T \cup {x}) = h[x] + Total(h, T)
      BY <1>2, <2>1, TotalAdd
    <2> QED
      BY <1>2, <2>2, <2>3
  <1> HIDE DEF F
  <1>3. S \in F
    BY <1>1, <1>2, FiniteSetInduction
  <1> QED
    BY <1>3 DEF F

\* The total of a constant.
LEMMA TotalConstant ==
  ASSUME NEW S, IsFiniteSet(S), NEW f, NEW c \in Int, \A x \in S : f[x] = c
  PROVE  Total(f, S) = c * Cardinality(S)
  <1> DEFINE F == {T \in SUBSET S : Total(f, T) = c * Cardinality(T)}
  <1>1. {} \in F
    BY TotalEmpty, FS_EmptySet
  <1>2. ASSUME NEW T \in SUBSET S, NEW x \in S, T \in F, x \notin T
        PROVE  T \cup {x} \in F
    <2>1. IsFiniteSet(T) /\ \A y \in T \cup {x} : f[y] \in Int
      BY FS_Subset
    <2>2. /\ Total(f, T \cup {x}) = c + Total(f, T)
          /\ Cardinality(T \cup {x}) = Cardinality(T) + 1 /\ Cardinality(T) \in Nat
      <3>1. Total(f, T \cup {x}) = f[x] + Total(f, T)
        BY <1>2, <2>1, TotalAdd
      <3>2. Cardinality(T \cup {x}) = Cardinality(T) + 1
        BY <1>2, <2>1, FS_AddElement
      <3>3. Cardinality(T) \in Nat
        BY <2>1, FS_CardinalityType
      <3> QED
        BY <3>1, <3>2, <3>3
    <2>3. \A n \in Nat : c + c * n = c * (n + 1)
      OBVIOUS
    <2> QED
      BY <1>2, <2>2, <2>3
  <1> HIDE DEF F
  <1>3. S \in F
    BY <1>1, <1>2, FiniteSetInduction
  <1> QED
    BY <1>3 DEF F

\* The total of a set is that of one part and that of the rest.
LEMMA TotalUnion ==
  ASSUME NEW S, IsFiniteSet(S), NEW f, \A x \in S : f[x] \in Int, NEW R \in SUBSET S
  PROVE  Total(f, S) = Total(f, R) + Total(f, S \ R)
  <1> DEFINE Q == S \ R
             F == {T \in SUBSET Q : Total(f, R \cup T) = Total(f, R) + Total(f, T)}
  <1>1. IsFiniteSet(R) /\ IsFiniteSet(Q)
    BY FS_Subset
  <1>2. Total(f, R) \in Int
    BY <1>1, TotalType
  <1>3. {} \in F
    <2>1. R \cup {} = R
      OBVIOUS
    <2> QED
      BY <1>2, <2>1, TotalEmpty
  <1>4. ASSUME NEW T \in SUBSET Q, NEW x \in Q, T \in F, x \notin T
        PROVE  T \cup {x} \in F
    <2>1. IsFiniteSet(T)
      BY <1>1, FS_Subset
    <2>2. IsFiniteSet(R \cup T) /\ x \notin R \cup T /\ R \cup (T \cup {x}) = (R \cup T) \cup {x}
      BY <1>1, <1>4, <2>1, FS_Union
    <2>3. /\ \A y \in (R \cup T) \cup {x} : f[y] \in Int
          /\ \A y \in T \cup {x} : f[y] \in Int
          /\ \A y \in T : f[y] \in Int
          /\ f[x] \in Int
      OBVIOUS
    <2>4. Total(f, T) \in Int
      BY <2>1, <2>3, TotalType
    <2>5. Total(f, (R \cup T) \cup {x}) = f[x] + Total(f, R \cup T)
      BY <2>2, <2>3, TotalAdd
    <2>6. Total(f, T \cup {x}) = f[x] + Total(f, T)
      BY <1>4, <2>1, <2>3, TotalAdd
    <2> DEFINE whole == Total(f, (R \cup T) \cup {x})
               part == Total(f, T \cup {x})
    <2>7. /\ Total(f, R \cup T) = Total(f, R) + Total(f, T) /\ f[x] \in Int
          /\ whole = f[x] + Total(f, R \cup T) /\ part = f[x] + Total(f, T)
      BY <1>4, <2>3, <2>5, <2>6
    <2>8. Total(f, R \cup (T \cup {x})) = whole
      BY <2>2
    <2> HIDE DEF whole, part
    <2>9. whole = Total(f, R) + part
      BY <1>2, <2>4, <2>7
    <2>10. Total(f, R \cup (T \cup {x})) = Total(f, R) + Total(f, T \cup {x})
      BY <2>8, <2>9 DEF part
    <2> QED
      BY <1>4, <2>10
  <1> HIDE DEF F
  <1>5. Q \in F
    BY <1>1, <1>3, <1>4, FiniteSetInduction
  <1>6. R \cup Q = S
    OBVIOUS
  <1> QED
    BY <1>5, <1>6 DEF F

\* Of two totals of the same scores there is only one.
LEMMA TotalEqual ==
  ASSUME NEW S, IsFiniteSet(S), NEW f, NEW g, \A x \in S : f[x] \in Int /\ g[x] = f[x]
  PROVE  Total(f, S) = Total(g, S)
  <1>1. \A x \in S : f[x] \in Int /\ g[x] \in Int /\ f[x] <= g[x] /\ g[x] <= f[x]
    OBVIOUS
  <1>2. Total(f, S) <= Total(g, S) /\ Total(g, S) <= Total(f, S)
    BY <1>1, TotalCompare
  <1>3. Total(f, S) \in Int /\ Total(g, S) \in Int
    BY <1>1, TotalType
  <1> QED
    BY <1>2, <1>3

\* A part of scores that are not negative adds up to no more than the whole.
LEMMA TotalOfPart ==
  ASSUME NEW S, IsFiniteSet(S), NEW f, \A x \in S : f[x] \in Int /\ f[x] >= 0, NEW R \in SUBSET S
  PROVE  Total(f, R) <= Total(f, S)
  <1> DEFINE zero == [x \in S \ R |-> 0]
  <1>1. IsFiniteSet(R) /\ IsFiniteSet(S \ R)
    BY FS_Subset
  <1>2. Cardinality(S \ R) \in Nat
    BY <1>1, FS_CardinalityType
  <1>3. \A x \in S \ R : zero[x] = 0 /\ zero[x] \in Int /\ f[x] \in Int /\ zero[x] <= f[x]
    OBVIOUS
  <1> HIDE DEF zero
  <1>4. Total(zero, S \ R) = 0 * Cardinality(S \ R)
    BY <1>1, <1>3, TotalConstant
  <1>5. Total(zero, S \ R) <= Total(f, S \ R)
    BY <1>1, <1>3, TotalCompare
  <1>6. Total(f, S) = Total(f, R) + Total(f, S \ R)
    BY TotalUnion
  <1>7. Total(f, R) \in Int /\ Total(f, S \ R) \in Int
    BY <1>1, TotalType
  <1> QED
    BY <1>2, <1>4, <1>5, <1>6, <1>7

\* What scores nothing adds nothing.
LEMMA TotalOfRest ==
  ASSUME NEW S, IsFiniteSet(S), NEW f, \A x \in S : f[x] \in Int, NEW R \in SUBSET S,
         \A x \in S \ R : f[x] = 0
  PROVE  Total(f, S) = Total(f, R)
  <1>1. IsFiniteSet(R) /\ IsFiniteSet(S \ R)
    BY FS_Subset
  <1>2. Cardinality(S \ R) \in Nat
    BY <1>1, FS_CardinalityType
  <1>3. Total(f, S \ R) = 0 * Cardinality(S \ R)
    BY <1>1, TotalConstant
  <1>4. Total(f, S) = Total(f, R) + Total(f, S \ R)
    BY TotalUnion
  <1>5. Total(f, R) \in Int
    BY <1>1, TotalType
  <1> QED
    BY <1>2, <1>3, <1>4, <1>5

\* The total of multiples.
LEMMA TotalScale ==
  ASSUME NEW S, IsFiniteSet(S), NEW f, NEW g, NEW c \in Int,
         \A x \in S : f[x] \in Int /\ g[x] = c * f[x]
  PROVE  Total(g, S) = c * Total(f, S)
  <1> DEFINE F == {T \in SUBSET S : Total(g, T) = c * Total(f, T)}
  <1>1. {} \in F
    BY TotalEmpty
  <1>2. ASSUME NEW T \in SUBSET S, NEW x \in S, T \in F, x \notin T
        PROVE  T \cup {x} \in F
    <2>1. IsFiniteSet(T) /\ \A y \in T \cup {x} : f[y] \in Int /\ g[y] \in Int
      BY FS_Subset
    <2>2. Total(f, T) \in Int
      BY <2>1, TotalType
    <2>3. /\ Total(f, T \cup {x}) = f[x] + Total(f, T)
          /\ Total(g, T \cup {x}) = c * f[x] + Total(g, T)
      BY <1>2, <2>1, TotalAdd
    <2>4. \A a, b \in Int : c * a + c * b = c * (a + b)
      OBVIOUS
    <2>5. c * f[x] + c * Total(f, T) = c * (f[x] + Total(f, T))
      BY <2>2, <2>4
    <2> QED
      BY <1>2, <2>3, <2>5
  <1> HIDE DEF F
  <1>3. S \in F
    BY <1>1, <1>2, FiniteSetInduction
  <1> QED
    BY <1>3 DEF F

\* The sum over 1..n is the total.
LEMMA SumIsTotal ==
  ASSUME NEW n \in Nat, NEW f, \A k \in 1..n : f[k] \in Int
  PROVE  SumTo(n, f) = Total(f, 1..n)
  <1> DEFINE Entry(s, k) == IF k = 0 THEN 0 ELSE s[k - 1] + f[k]
             t == [k \in 0..n |-> Total(f, 1..k)]
             sum == CHOOSE s : s = [k \in 0..n |-> Entry(s, k)]
             T == {k \in Nat : k <= n => sum[k] = Total(f, 1..k)}
  <1>1. SumTo(n, f) = sum[n]
    BY DEF SumTo
  <1>2. Total(f, 1..0) = 0
    <2>1. 1..0 = {}
      OBVIOUS
    <2> QED
      BY <2>1, TotalEmpty, Zenon
  <1>3. ASSUME NEW k \in Nat, k + 1 <= n
        PROVE  Total(f, 1..(k + 1)) = Total(f, 1..k) + f[k + 1]
    <2>1. 1..(k + 1) = 1..k \cup {k + 1} /\ k + 1 \notin 1..k
      OBVIOUS
    <2>2. \A j \in 1..k \cup {k + 1} : j \in 1..n
      BY <1>3
    <2>3. IsFiniteSet(1..k)
      BY IntervalSize
    <2>4. Total(f, 1..k \cup {k + 1}) = f[k + 1] + Total(f, 1..k)
      <3> DEFINE S == 1..k
                 x == k + 1
      <3>1. \A j \in S \cup {x} : f[j] \in Int
        BY <2>2
      <3>2. x \notin S /\ IsFiniteSet(S)
        BY <2>1, <2>3
      <3> HIDE DEF S, x
      <3>3. Total(f, S \cup {x}) = f[x] + Total(f, S)
        BY <3>1, <3>2, TotalAdd
      <3> QED
        BY <3>3 DEF S, x
    <2>5. Total(f, 1..k) \in Int /\ f[k + 1] \in Int
      <3>1. \A j \in 1..k : f[j] \in Int
        BY <2>2
      <3>2. k + 1 \in 1..n
        BY <2>2
      <3> QED
        BY <2>3, <3>1, <3>2, TotalType
    <2>6. Total(f, 1..(k + 1)) = Total(f, 1..k \cup {k + 1})
      BY <2>1, Zenon
    <2> QED
      BY <2>4, <2>5, <2>6
  <1>4. t = [k \in 0..n |-> Entry(t, k)]
    <2> DEFINE again == [k \in 0..n |-> Entry(t, k)]
    <2>1. ASSUME NEW k \in 0..n PROVE Entry(t, k) = Total(f, 1..k)
      <3>1. CASE k = 0
        BY <1>2, <3>1
      <3>2. CASE k # 0
        <4> DEFINE j == k - 1
        <4>1. j \in 0..n /\ j \in Nat /\ j + 1 <= n /\ k = j + 1
          BY <3>2
        <4>2. t[j] = Total(f, 1..j)
          BY <4>1
        <4>3. Entry(t, k) = t[j] + f[k]
          BY <3>2
        <4> HIDE DEF j, t, Entry
        <4> QED
          BY <1>3, <4>1, <4>2, <4>3
      <3> QED
        BY <3>1, <3>2
    <2>2. again = [k \in 0..n |-> Total(f, 1..k)]
      <3> HIDE DEF t, Entry
      <3> QED
        BY <2>1
    <2> QED
      BY <2>2
  <1>5. sum = [k \in 0..n |-> Entry(sum, k)]
    <2> HIDE DEF t, Entry
    <2> QED
      BY <1>4
  <1> HIDE DEF sum, t
  <1>6. \A k \in 0..n : sum[k] = Entry(sum, k)
    <2> HIDE DEF Entry
    <2> QED
      BY <1>5, Zenon
  <1>7. 0 \in T
    BY <1>2, <1>6
  <1>8. ASSUME NEW k \in Nat, k \in T PROVE k + 1 \in T
    <2>1. SUFFICES ASSUME k + 1 <= n PROVE sum[k + 1] = Total(f, 1..(k + 1))
      OBVIOUS
    <2>2. k + 1 \in 0..n /\ k + 1 # 0 /\ (k + 1) - 1 = k
      BY <2>1
    <2>3. sum[k + 1] = sum[k] + f[k + 1]
      BY <1>6, <2>2
    <2>4. sum[k] = Total(f, 1..k)
      BY <1>8, <2>1
    <2> HIDE DEF Entry
    <2> QED
      BY <1>3, <2>1, <2>3, <2>4
  <1> HIDE DEF T
  <1>9. Nat \subseteq T
    BY <1>7, <1>8, NaturalInduction
  <1>10. n \in T
    BY <1>9
  <1> QED
    BY <1>1, <1>10 DEF T

----------------------------------------------------------------------------
\* Matchings

\* The left and the right entries of some pairs.
Lefts(pairs) == {pair[1] : pair \in pairs}
Rights(pairs) == {pair[2] : pair \in pairs}

\* A matching has as many left and right entries as pairs, and what is paid for the
\* pairs is paid for their entries.
LEMMA MatchingSplit ==
  ASSUME NEW N, IsFiniteSet(N), IsMatching(N), NEW a, NEW b, NEW h,
         \A x \in N : a[x[1]] \in Int /\ b[x[2]] \in Int /\ h[x] = a[x[1]] + b[x[2]]
  PROVE  /\ IsFiniteSet(Lefts(N)) /\ IsFiniteSet(Rights(N))
         /\ Cardinality(Lefts(N)) = Cardinality(N) /\ Cardinality(Rights(N)) = Cardinality(N)
         /\ Total(h, N) = Total(a, Lefts(N)) + Total(b, Rights(N))
  <1> DEFINE Splits(T) ==
        /\ IsFiniteSet(Lefts(T)) /\ IsFiniteSet(Rights(T))
        /\ Cardinality(Lefts(T)) = Cardinality(T) /\ Cardinality(Rights(T)) = Cardinality(T)
        /\ Total(h, T) = Total(a, Lefts(T)) + Total(b, Rights(T))
      F == {T \in SUBSET N : Splits(T)}
  <1>1. {} \in F
    <2>1. Lefts({}) = {} /\ Rights({}) = {}
      BY DEF Lefts, Rights
    <2>2. IsFiniteSet({}) /\ Total(h, {}) = 0 /\ Total(a, {}) = 0 /\ Total(b, {}) = 0
      BY TotalEmpty, FS_EmptySet
    <2>3. Total(h, {}) = Total(a, Lefts({})) + Total(b, Rights({}))
      <3>1. Total(a, Lefts({})) = 0 /\ Total(b, Rights({})) = 0
        BY <2>1, <2>2, Zenon
      <3> QED
        BY <2>2, <3>1
    <2>4. Splits({})
      BY <2>1, <2>2, <2>3
    <2> QED
      BY <2>4
  <1>2. ASSUME NEW T \in SUBSET N, NEW x \in N, T \in F, x \notin T
        PROVE  T \cup {x} \in F
    <2>1. IsFiniteSet(T) /\ \A y \in T \cup {x} : h[y] \in Int
      BY FS_Subset
    <2>2. /\ Lefts(T \cup {x}) = Lefts(T) \cup {x[1]}
          /\ Rights(T \cup {x}) = Rights(T) \cup {x[2]}
      BY DEF Lefts, Rights
    <2>3. x[1] \notin Lefts(T) /\ x[2] \notin Rights(T)
      BY <1>2 DEF Lefts, Rights, IsMatching
    <2>4. /\ \A y \in Lefts(T) \cup {x[1]} : a[y] \in Int
          /\ \A y \in Rights(T) \cup {x[2]} : b[y] \in Int
      BY DEF Lefts, Rights
    <2>5. Total(h, T \cup {x}) = h[x] + Total(h, T)
      BY <1>2, <2>1, TotalAdd
    <2>6. /\ Total(a, Lefts(T) \cup {x[1]}) = a[x[1]] + Total(a, Lefts(T))
          /\ Total(b, Rights(T) \cup {x[2]}) = b[x[2]] + Total(b, Rights(T))
      BY <1>2, <2>3, <2>4, TotalAdd
    <2>7. /\ Total(a, Lefts(T)) \in Int /\ Total(b, Rights(T)) \in Int
          /\ a[x[1]] \in Int /\ b[x[2]] \in Int /\ h[x] = a[x[1]] + b[x[2]]
      BY <1>2, <2>4, TotalType
    <2>8. /\ IsFiniteSet(Lefts(T) \cup {x[1]}) /\ IsFiniteSet(Rights(T) \cup {x[2]})
          /\ Cardinality(Lefts(T) \cup {x[1]}) = Cardinality(Lefts(T)) + 1
          /\ Cardinality(Rights(T) \cup {x[2]}) = Cardinality(Rights(T)) + 1
          /\ Cardinality(T \cup {x}) = Cardinality(T) + 1
      BY <1>2, <2>1, <2>3, FS_AddElement
    <2>9. Total(h, T) = Total(a, Lefts(T)) + Total(b, Rights(T))
      BY <1>2
    <2>10. h[x] + Total(h, T) = (a[x[1]] + Total(a, Lefts(T))) + (b[x[2]] + Total(b, Rights(T)))
      BY <2>7, <2>9
    <2>11. Total(h, T \cup {x}) = Total(a, Lefts(T \cup {x})) + Total(b, Rights(T \cup {x}))
      BY <2>2, <2>5, <2>6, <2>10
    <2> QED
      BY <1>2, <2>2, <2>8, <2>11
  <1> HIDE DEF F
  <1>3. N \in F
    BY <1>1, <1>2, FiniteSetInduction
  <1> QED
    BY <1>3 DEF F

----------------------------------------------------------------------------
\* The heaviest matchings

\* What each compatible pair weighs.
Weights == [pair \in Compatible |-> Weight(pair[1], pair[2])]

\* The smaller number of entries.
Shorter == IF problem.left <= problem.right THEN problem.left ELSE problem.right

\* The extremes are those of the scores.
Scaled ==
  /\ Compatible # {}
  /\ \A pair \in Compatible : lowest <= problem.score[pair] /\ problem.score[pair] <= highest

\* What the weights of the compatible pairs are between.
LEMMA ScaledFacts ==
  ASSUME TypeOK, Scaled
  PROVE  /\ highest - lowest \in Nat /\ Shorter \in Nat
         /\ Bonus = (highest - lowest + 1) * (Shorter + 1) /\ Bonus \in Nat
         /\ lowest \in Int /\ highest \in Int
         /\ \A x \in Compatible :
              /\ problem.score[x] \in Int /\ Weights[x] \in Int
              /\ Weights[x] = problem.score[x] + (Bonus - lowest)
              /\ Bonus <= Weights[x] /\ Weights[x] <= Bonus + (highest - lowest)
  <1>1. /\ problem.left \in Nat /\ problem.right \in Nat
        /\ \A x \in Compatible : problem.score[x] \in Int
        /\ lowest \in Int /\ highest \in Int
        /\ Compatible \subseteq Left \X Right
    BY ProblemFacts DEF TypeOK
  <1>2. highest - lowest \in Nat
    BY <1>1 DEF Scaled
  <1>3. Shorter \in Nat
    BY <1>1 DEF Shorter
  <1>4. Bonus = (highest - lowest + 1) * (Shorter + 1)
    BY DEF Bonus, Shorter
  <1>5. Bonus \in Nat
    <2>1. \A a, b \in Nat : a * b \in Nat
      OBVIOUS
    <2>2. highest - lowest + 1 \in Nat /\ Shorter + 1 \in Nat
      BY <1>1, <1>2, <1>3
    <2> QED
      BY <1>4, <2>1, <2>2
  <1>6. ASSUME NEW x \in Compatible
        PROVE  /\ problem.score[x] \in Int /\ Weights[x] \in Int
               /\ Weights[x] = problem.score[x] + (Bonus - lowest)
               /\ Bonus <= Weights[x] /\ Weights[x] <= Bonus + (highest - lowest)
    <2>1. x = <<x[1], x[2]>>
      BY <1>1
    <2>2. Weights[x] = Bonus + problem.score[x] - lowest
      BY <2>1 DEF Weights, Weight
    <2>3. lowest <= problem.score[x] /\ problem.score[x] <= highest /\ problem.score[x] \in Int
      BY <1>1 DEF Scaled
    <2> QED
      BY <1>1, <1>5, <2>2, <2>3
  <1> QED
    BY <1>1, <1>2, <1>3, <1>4, <1>5, <1>6

\* A matching is finite, and has no more pairs than either side has entries.
LEMMA MatchingSizes ==
  ASSUME TypeOK, NEW N \in Matchings(problem)
  PROVE  /\ N \subseteq Compatible /\ N \subseteq Left \X Right
         /\ IsMatching(N) /\ IsFiniteSet(N)
         /\ Cardinality(N) \in Nat /\ Cardinality(N) <= Shorter
  <1>1. /\ problem.left \in Nat /\ problem.right \in Nat
        /\ Compatible \subseteq Left \X Right
    BY ProblemFacts
  <1>2. N \subseteq Compatible /\ N \subseteq Left \X Right /\ IsMatching(N)
    BY <1>1 DEF Matchings, Compatible
  <1>3. /\ IsFiniteSet(Left) /\ Cardinality(Left) = problem.left
        /\ IsFiniteSet(Right) /\ Cardinality(Right) = problem.right
    BY <1>1, IntervalSize DEF Left, Right
  <1>4. IsFiniteSet(N)
    BY <1>2, <1>3, FS_Product, FS_Subset
  <1>5. Cardinality(N) <= problem.left
    <2> DEFINE f == [x \in N |-> x[1]]
    <2>1. f \in Injection(N, Left)
      BY <1>2 DEF Injection, IsInjective, IsMatching
    <2> QED
      BY <1>3, <2>1, FS_Injection
  <1>6. Cardinality(N) <= problem.right
    <2> DEFINE f == [x \in N |-> x[2]]
    <2>1. f \in Injection(N, Right)
      BY <1>2 DEF Injection, IsInjective, IsMatching
    <2> QED
      BY <1>3, <2>1, FS_Injection
  <1> QED
    BY <1>2, <1>4, <1>5, <1>6, FS_CardinalityType DEF Shorter

\* The weight of a matching is its score and a constant for every pair.
LEMMA WeightOfMatching ==
  ASSUME TypeOK, Scaled, NEW N \in Matchings(problem)
  PROVE  /\ Total(Weights, N) \in Int /\ Total(problem.score, N) \in Int
         /\ Total(Weights, N) = Total(problem.score, N) + (Bonus - lowest) * Cardinality(N)
         /\ Bonus * Cardinality(N) <= Total(Weights, N)
         /\ Total(Weights, N) <= (Bonus + (highest - lowest)) * Cardinality(N)
  <1>1. /\ N \subseteq Compatible /\ IsFiniteSet(N) /\ Cardinality(N) \in Nat
    BY MatchingSizes
  <1>2. /\ Bonus \in Int /\ lowest \in Int /\ highest \in Int
        /\ \A x \in N :
             /\ problem.score[x] \in Int /\ Weights[x] \in Int
             /\ Weights[x] = problem.score[x] + (Bonus - lowest)
             /\ Bonus <= Weights[x] /\ Weights[x] <= Bonus + (highest - lowest)
    BY <1>1, ScaledFacts
  <1>3. Total(Weights, N) \in Int /\ Total(problem.score, N) \in Int
    BY <1>1, <1>2, TotalType
  <1>4. ASSUME NEW c \in Int
        PROVE  Total([x \in N |-> c], N) = c * Cardinality(N)
    <2> DEFINE f == [x \in N |-> c]
    <2>1. \A x \in N : f[x] = c
      OBVIOUS
    <2> HIDE DEF f
    <2>2. Total(f, N) = c * Cardinality(N)
      BY <1>1, <2>1, TotalConstant
    <2> QED
      BY <2>2 DEF f
  <1>5. Total(Weights, N) = Total(problem.score, N) + (Bonus - lowest) * Cardinality(N)
    <2> DEFINE f == [x \in N |-> Bonus - lowest]
    <2>1. \A x \in N : f[x] \in Int /\ Weights[x] = problem.score[x] + f[x]
      BY <1>2
    <2> HIDE DEF f
    <2>2. Total(Weights, N) = Total(problem.score, N) + Total(f, N)
      BY <1>1, <1>2, <2>1, TotalPlus
    <2>3. Total(f, N) = (Bonus - lowest) * Cardinality(N)
      <3>1. Bonus - lowest \in Int
        BY <1>2
      <3> QED
        BY <3>1, <1>4 DEF f
    <2> QED
      BY <2>2, <2>3
  <1>6. Bonus * Cardinality(N) <= Total(Weights, N)
    <2> DEFINE f == [x \in N |-> Bonus]
    <2>1. \A x \in N : f[x] \in Int /\ Weights[x] \in Int /\ f[x] <= Weights[x]
      BY <1>2
    <2> HIDE DEF f
    <2>2. Total(f, N) <= Total(Weights, N)
      BY <1>1, <2>1, TotalCompare
    <2>3. Total(f, N) = Bonus * Cardinality(N)
      BY <1>2, <1>4 DEF f
    <2> QED
      BY <2>2, <2>3
  <1>7. Total(Weights, N) <= (Bonus + (highest - lowest)) * Cardinality(N)
    <2> DEFINE f == [x \in N |-> Bonus + (highest - lowest)]
    <2>1. \A x \in N : f[x] \in Int /\ Weights[x] \in Int /\ Weights[x] <= f[x]
      BY <1>2
    <2> HIDE DEF f
    <2>2. Total(Weights, N) <= Total(f, N)
      BY <1>1, <2>1, TotalCompare
    <2>3. Total(f, N) = (Bonus + (highest - lowest)) * Cardinality(N)
      <3>1. Bonus + (highest - lowest) \in Int
        BY <1>2
      <3> QED
        BY <3>1, <1>4 DEF f
    <2> QED
      BY <2>2, <2>3
  <1> QED
    BY <1>3, <1>5, <1>6, <1>7

\* One pair more outweighs whatever the scores of the others make of it.
LEMMA BonusOutweighs ==
  ASSUME NEW range \in Nat, NEW s \in Nat, NEW m \in Nat, m <= s, NEW n \in Nat, n > m,
         NEW bonus \in Nat, bonus = (range + 1) * (s + 1)
  PROVE  (bonus + range) * m < bonus * n
  <1>1. PICK d \in Nat : n = m + 1 + d
    <2>1. n - m - 1 \in Nat /\ n = m + 1 + (n - m - 1)
      OBVIOUS
    <2> QED
      BY <2>1
  <1>2. PICK e \in Nat : s = m + e
    <2>1. s - m \in Nat /\ s = m + (s - m)
      OBVIOUS
    <2> QED
      BY <2>1
  <1>3. \A x, y \in Nat : x * y \in Nat
    OBVIOUS
  <1>4. bonus * n = bonus * m + bonus + bonus * d
    BY <1>1
  <1>5. (bonus + range) * m = bonus * m + range * m
    OBVIOUS
  <1>6. bonus = range * m + range * e + range + s + 1
    BY <1>2
  <1>7. /\ bonus * m \in Nat /\ bonus * d \in Nat /\ range * m \in Nat /\ range * e \in Nat
    BY <1>3
  <1> QED
    BY <1>4, <1>5, <1>6, <1>7

\* A heaviest matching pairs as many as possible, and scores the most of those.
LEMMA HeaviestIsBest ==
  ASSUME TypeOK, Scaled, NEW M \in Matchings(problem),
         \A N \in Matchings(problem) : Total(Weights, N) <= Total(Weights, M)
  PROVE  M \in BestPairings(problem)
  <1>1. ASSUME NEW N \in Matchings(problem)
        PROVE  /\ Cardinality(N) <= Cardinality(M)
               /\ Cardinality(N) = Cardinality(M) =>
                    Total(problem.score, N) <= Total(problem.score, M)
    <2> DEFINE m == Cardinality(M)
               n == Cardinality(N)
               range == highest - lowest
    <2>1. m \in Nat /\ m <= Shorter /\ n \in Nat
      BY MatchingSizes
    <2>2. /\ range \in Nat /\ Shorter \in Nat /\ Bonus \in Nat /\ lowest \in Int
          /\ Bonus = (range + 1) * (Shorter + 1)
      BY ScaledFacts
    <2>3. /\ Bonus * n <= Total(Weights, N) /\ Total(Weights, M) <= (Bonus + range) * m
          /\ Total(Weights, N) \in Int /\ Total(Weights, M) \in Int
          /\ Total(problem.score, N) \in Int /\ Total(problem.score, M) \in Int
          /\ Total(Weights, N) = Total(problem.score, N) + (Bonus - lowest) * n
          /\ Total(Weights, M) = Total(problem.score, M) + (Bonus - lowest) * m
      BY WeightOfMatching
    <2> HIDE DEF m, n, range
    <2>4. n <= m
      <3>1. SUFFICES ASSUME n > m PROVE FALSE
        BY <2>1
      <3>2. (Bonus + range) * m < Bonus * n
        BY <3>1, <2>1, <2>2, BonusOutweighs
      <3>3. /\ (Bonus + range) * m \in Int /\ Bonus * n \in Int
        BY <2>1, <2>2
      <3> QED
        BY <2>3, <3>2, <3>3
    <2>5. ASSUME n = m PROVE Total(problem.score, N) <= Total(problem.score, M)
      <3>1. (Bonus - lowest) * n \in Int /\ (Bonus - lowest) * m = (Bonus - lowest) * n
        BY <2>1, <2>2, <2>5
      <3>2. Total(Weights, N) <= Total(Weights, M)
        OBVIOUS
      <3> QED
        BY <2>3, <3>1, <3>2
    <2> QED
      BY <2>4, <2>5 DEF m, n
  <1>2. \A N \in Matchings(problem) : Cardinality(N) \in Nat
    BY MatchingSizes
  <1> QED
    BY <1>1, <1>2 DEF BestPairings

----------------------------------------------------------------------------
\* What maximumWeightMaximumCardinalityPairs returns

\* A table that gives no right entry to two left ones stands for a matching.
LEMMA TableIsMatching ==
  ASSUME TypeOK, NEW partners \in [Left -> 0..problem.right],
         PairsOf(partners) \subseteq Compatible,
         \A k, l \in Left : partners[k] = partners[l] => k = l \/ partners[k] = 0
  PROVE  PairsOf(partners) \in Matchings(problem)
  BY DEF PairsOf, Matchings, IsMatching, Compatible

\* The columns and the rows they are matched to pay for what every matching weighs.
LEMMA SquareIsHeaviest ==
  ASSUME IInv, SquareInv, EndSquare, NEW N \in Matchings(problem)
  PROVE  Total(Weights, N) <= Total(Weights, PairsOf(matchedRight'))
  <1> DEFINE M == PairsOf(matchedRight')
             rows == 1..Size
             a == [i \in rows |-> -leftPotential[i]]
             b == [j \in rows |-> -rightPotential[j]]
             h == [x \in rows \X rows |-> a[x[1]] + b[x[2]]]
             w == [x \in rows \X rows |-> Weight(x[1], x[2])]
             J == {j \in rows : matchedColumn[j] # 0}
             F == {<<matchedColumn[j], j>> : j \in J}
             columnOf(l) == CHOOSE j \in 1..Size : matchedColumn[j] = l
  <1>1. /\ problem.left \in Nat /\ problem.right \in Nat /\ Size \in Nat
        /\ Size = problem.left + problem.right
        /\ Compatible \subseteq Left \X Right
    BY ProblemFacts DEF IInv, Size
  <1>2. /\ pc = "row" /\ Squaring /\ row = Size + 1 /\ Columns = 0..Size
        /\ matchedColumn \in [Columns -> 0..Size]
        /\ matchedRight' = [l \in Left |->
             IF <<l, columnOf(l)>> \in Compatible THEN columnOf(l) ELSE 0]
    <2>1. pc = "row" /\ Squaring /\ row > Size /\ row \in 1..(Size + 1)
      BY DEF EndSquare, Squaring, IInv, TypeOK
    <2>2. row = Size + 1
      BY <1>1, <2>1
    <2> QED
      BY <2>1, <2>2, SquareSizes DEF EndSquare, Return, IInv
  <1>3. /\ rows = Columns \ {0} /\ Left \subseteq rows /\ Right \subseteq rows
        /\ 1..(row - 1) = rows /\ IsFiniteSet(rows) /\ 0 \notin rows
    <2>1. IsFiniteSet(rows)
      <3>1. 1 \in Int /\ Size \in Int
        BY <1>1
      <3> QED
        BY <3>1, FS_Interval
    <2>2. (Size + 1) - 1 = Size
      BY <1>1
    <2>3. rows = Columns \ {0} /\ 0 \notin rows
      BY <1>1, <1>2
    <2>4. Left \subseteq rows /\ Right \subseteq rows
      BY <1>1 DEF Left, Right
    <2> QED
      BY <1>2, <2>1, <2>2, <2>3, <2>4
  <1>4. /\ \A j \in rows : matchedColumn[j] \in rows \cup {0}
        /\ \A j, k \in rows :
             matchedColumn[j] = matchedColumn[k] => j = k \/ matchedColumn[j] = 0
        /\ \A i \in rows : \E j \in rows : matchedColumn[j] = i
    BY <1>2, <1>3 DEF IInv, RowsHaveColumns
  <1>5. /\ \A i, j \in rows : Cost(i, j) >= 0
        /\ \A j \in rows : IF matchedColumn[j] = 0 THEN rightPotential[j] = 0
                           ELSE Cost(matchedColumn[j], j) = 0
        /\ \A i \in rows : leftPotential[i] <= 0
        /\ \A j \in rows : rightPotential[j] <= 0
    BY <1>2, <1>3 DEF SquareInv, Bound, Shallow, Priced, Untouched
  <1>6. /\ \A i \in rows : leftPotential[i] \in Int /\ rightPotential[i] \in Int
        /\ \A i, j : Cost(i, j) = -Weight(i, j) - leftPotential[i] - rightPotential[j]
        /\ \A i, j : Weight(i, j) \in Int
    BY <1>2, <1>3, WeightFacts DEF SquareInv, SlackTypes, IInv, Cost
  <1> HIDE DEF rows
  <1>7. /\ \A i \in rows : a[i] \in Int /\ a[i] >= 0 /\ a[i] = -leftPotential[i]
        /\ \A j \in rows : b[j] \in Int /\ b[j] >= 0 /\ b[j] = -rightPotential[j]
    BY <1>5, <1>6
  <1> HIDE DEF a, b
  <1>8. ASSUME NEW x \in rows \X rows
        PROVE  /\ h[x] = a[x[1]] + b[x[2]] /\ a[x[1]] \in Int /\ b[x[2]] \in Int
               /\ h[x] \in Int /\ w[x] \in Int /\ w[x] <= h[x]
               /\ w[x] = Weight(x[1], x[2])
               /\ Cost(x[1], x[2]) = 0 => w[x] = h[x]
    <2>1. /\ x[1] \in rows /\ x[2] \in rows /\ h[x] = a[x[1]] + b[x[2]]
          /\ w[x] = Weight(x[1], x[2])
      OBVIOUS
    <2>2. /\ Cost(x[1], x[2]) >= 0 /\ Weight(x[1], x[2]) \in Int
          /\ Cost(x[1], x[2]) = -Weight(x[1], x[2]) - leftPotential[x[1]] - rightPotential[x[2]]
          /\ leftPotential[x[1]] \in Int /\ rightPotential[x[2]] \in Int
      BY <1>5, <1>6, <2>1
    <2>3. /\ a[x[1]] = -leftPotential[x[1]] /\ b[x[2]] = -rightPotential[x[2]]
          /\ a[x[1]] \in Int /\ b[x[2]] \in Int
      BY <1>7, <2>1
    <2> HIDE DEF h, w
    <2> QED
      BY <2>1, <2>2, <2>3
  <1> HIDE DEF h
  \* Whatever N pairs is paid for by the potentials of its entries.
  <1>9. Total(Weights, N) <= Total(a, rows) + Total(b, rows)
    <2>1. /\ N \subseteq Compatible /\ N \subseteq rows \X rows
          /\ IsMatching(N) /\ IsFiniteSet(N)
      BY <1>3, MatchingSizes DEF IInv
    <2>2. \A x \in N : Weights[x] = w[x]
      BY <2>1, <1>8 DEF Weights
    <2> HIDE DEF w
    <2>3. Total(Weights, N) <= Total(h, N)
      <3>1. \A x \in N : Weights[x] \in Int /\ h[x] \in Int /\ Weights[x] <= h[x]
        BY <1>8, <2>1, <2>2
      <3> QED
        BY <2>1, <3>1, TotalCompare
    <2>4. Total(h, N) = Total(a, Lefts(N)) + Total(b, Rights(N))
      <3>1. \A x \in N : a[x[1]] \in Int /\ b[x[2]] \in Int /\ h[x] = a[x[1]] + b[x[2]]
        BY <1>8, <2>1
      <3> QED
        BY <2>1, <3>1, MatchingSplit
    <2>5. Lefts(N) \subseteq rows /\ Rights(N) \subseteq rows
      BY <2>1 DEF Lefts, Rights
    <2>6. Total(a, Lefts(N)) <= Total(a, rows) /\ Total(b, Rights(N)) <= Total(b, rows)
      BY <1>3, <1>7, <2>5, TotalOfPart
    <2>7. /\ Total(a, rows) \in Int /\ Total(b, rows) \in Int
      BY <1>3, <1>7, TotalType
    <2>8. Total(a, Lefts(N)) \in Int /\ Total(b, Rights(N)) \in Int /\ Total(Weights, N) \in Int
      <3>1. IsFiniteSet(Lefts(N)) /\ IsFiniteSet(Rights(N))
        BY <1>3, <2>5, FS_Subset
      <3>2. \A x \in N : Weights[x] \in Int
        BY <1>8, <2>1, <2>2
      <3>3. (\A i \in Lefts(N) : a[i] \in Int) /\ (\A j \in Rights(N) : b[j] \in Int)
        BY <1>7, <2>5
      <3> QED
        BY <2>1, <3>1, <3>2, <3>3, TotalType
    <2> QED
      BY <2>3, <2>4, <2>6, <2>7, <2>8
  \* The matched columns and their rows are paid all there is.
  <1>10. /\ F \subseteq rows \X rows /\ IsFiniteSet(F) /\ IsMatching(F)
         /\ Lefts(F) = rows /\ Rights(F) = J /\ J \subseteq rows
         /\ \A x \in F : Cost(x[1], x[2]) = 0
    <2>1. \A j \in J : matchedColumn[j] \in rows /\ j \in rows /\ Cost(matchedColumn[j], j) = 0
      BY <1>4, <1>5
    <2>2. F \subseteq rows \X rows /\ \A x \in F : Cost(x[1], x[2]) = 0
      BY <2>1
    <2>3. IsFiniteSet(F)
      BY <1>3, <2>2, FS_Product, FS_Subset
    <2>4. IsMatching(F)
      BY <1>4 DEF IsMatching
    <2>5. Lefts(F) = rows
      <3>1. \A x \in F : x[1] \in rows
        BY <2>2
      <3>2. ASSUME NEW i \in rows PROVE \E x \in F : x[1] = i
        <4>1. PICK j \in rows : matchedColumn[j] = i
          BY <1>4
        <4>2. j \in J
          BY <1>3, <4>1
        <4>3. <<matchedColumn[j], j>> \in F /\ <<matchedColumn[j], j>>[1] = i
          BY <4>1, <4>2
        <4> HIDE DEF F
        <4> QED
          BY <4>3
      <3> HIDE DEF F
      <3> QED
        BY <3>1, <3>2 DEF Lefts
    <2>6. Rights(F) = J
      <3>1. \A x \in F : x[2] \in J
        OBVIOUS
      <3>2. ASSUME NEW j \in J PROVE \E x \in F : x[2] = j
        <4>1. <<matchedColumn[j], j>> \in F /\ <<matchedColumn[j], j>>[2] = j
          OBVIOUS
        <4> HIDE DEF F
        <4> QED
          BY <4>1
      <3> HIDE DEF F, J
      <3> QED
        BY <3>1, <3>2 DEF Rights
    <2> QED
      BY <2>2, <2>3, <2>4, <2>5, <2>6
  <1>11. Total(w, F) = Total(a, rows) + Total(b, rows)
    <2>1. Total(w, F) = Total(h, F)
      <3>1. \A x \in F : w[x] \in Int /\ h[x] = w[x]
        BY <1>8, <1>10
      <3> HIDE DEF F, w
      <3> QED
        BY <1>10, <3>1, TotalEqual
    <2>2. Total(h, F) = Total(a, rows) + Total(b, J)
      <3>1. \A x \in F : a[x[1]] \in Int /\ b[x[2]] \in Int /\ h[x] = a[x[1]] + b[x[2]]
        BY <1>8, <1>10
      <3> HIDE DEF F, J
      <3> QED
        BY <1>10, <3>1, MatchingSplit
    <2>3. Total(b, rows) = Total(b, J)
      <3>1. /\ \A j \in rows \ J : b[j] = 0
            /\ \A j \in rows : b[j] \in Int
        BY <1>5, <1>7
      <3> HIDE DEF J
      <3> QED
        BY <1>3, <1>10, <3>1, TotalOfRest
    <2> QED
      BY <2>1, <2>2, <2>3
  \* Of these pairs the incompatible ones weigh nothing, and the others are returned.
  <1>12. M = {x \in F : x \in Compatible}
    <2>1. ASSUME NEW l \in Left
          PROVE  /\ columnOf(l) \in rows /\ matchedColumn[columnOf(l)] = l
                 /\ \A j \in rows : matchedColumn[j] = l => columnOf(l) = j
                 /\ l # 0
      <3>1. l \in rows
        BY <1>3
      <3>2. \E j \in rows : matchedColumn[j] = l
        BY <1>4, <3>1
      <3>3. columnOf(l) \in rows /\ matchedColumn[columnOf(l)] = l
        BY <3>2 DEF rows
      <3> HIDE DEF columnOf
      <3> QED
        BY <1>3, <1>4, <3>1, <3>3
    <2> HIDE DEF columnOf
    <2>2. DOMAIN matchedRight' = Left
      BY <1>2
    <2>3. ASSUME NEW x \in M PROVE x \in F /\ x \in Compatible
      <3>1. PICK l \in Left : x = <<l, matchedRight'[l]>> /\ matchedRight'[l] # 0
        BY <2>2 DEF PairsOf
      <3>2. x = <<l, columnOf(l)>> /\ x \in Compatible
        BY <1>2, <3>1
      <3>3. columnOf(l) \in J /\ <<matchedColumn[columnOf(l)], columnOf(l)>> = x
        BY <2>1, <3>2
      <3> QED
        BY <3>2, <3>3
    <2>4. ASSUME NEW x \in F, x \in Compatible PROVE x \in M
      <3>1. PICK j \in J : x = <<matchedColumn[j], j>>
        OBVIOUS
      <3>2. matchedColumn[j] \in Left /\ j \in rows
        BY <1>1, <2>4, <3>1
      <3>3. columnOf(matchedColumn[j]) = j /\ j # 0
        BY <1>3, <2>1, <3>2
      <3>4. matchedRight'[matchedColumn[j]] = j
        BY <1>2, <2>4, <3>1, <3>2, <3>3
      <3> QED
        BY <2>2, <3>1, <3>2, <3>3, <3>4 DEF PairsOf
    <2> HIDE DEF M, F
    <2> QED
      BY <2>3, <2>4
  <1>13. Total(Weights, M) = Total(w, F)
    <2>1. M \in SUBSET F /\ M \subseteq Compatible /\ IsFiniteSet(M)
      BY <1>10, <1>12, FS_Subset
    <2>2. \A x \in F : w[x] \in Int
      BY <1>8, <1>10
    <2>3. \A x \in F \ M : w[x] = 0
      <3>1. ASSUME NEW x \in F, x \notin Compatible PROVE w[x] = 0
        <4>1. x = <<x[1], x[2]>> /\ w[x] = Weight(x[1], x[2])
          BY <1>8, <1>10
        <4> QED
          BY <3>1, <4>1 DEF Weight
      <3> QED
        BY <1>12, <3>1
    <2>4. \A x \in M : w[x] \in Int /\ Weights[x] = w[x]
      BY <1>8, <1>10, <2>1 DEF Weights
    <2> HIDE DEF F, M, w
    <2>5. Total(w, F) = Total(w, M)
      BY <1>10, <2>1, <2>2, <2>3, TotalOfRest
    <2>6. Total(w, M) = Total(Weights, M)
      BY <2>1, <2>4, TotalEqual
    <2> QED
      BY <2>5, <2>6
  <1> QED
    BY <1>9, <1>11, <1>13

\* What maximumWeightMaximumCardinalityPairs returns is a best pairing.
LEMMA SquareReturnsBest ==
  ASSUME IInv, SquareInv, EndSquare
  PROVE  PairsOf(matchedRight') \in BestPairings(problem)
  <1>1. IInv' /\ pc' = "done" /\ problem' = problem /\ Left' = Left /\ Compatible' = Compatible
    BY EndSquareStep DEF EndSquare, Return, call, Left, Compatible
  <1>2. PairsOf(matchedRight') \in Matchings(problem)
    <2>1. /\ matchedRight' \in [Left -> 0..problem.right]
          /\ PairsOf(matchedRight') \subseteq Compatible
          /\ \A k, l \in Left :
               matchedRight'[k] = matchedRight'[l] => k = l \/ matchedRight'[k] = 0
      BY <1>1 DEF IInv, TypeOK, ResultAgrees, PairsOf
    <2> QED
      BY <2>1, TableIsMatching DEF IInv
  <1>3. \A N \in Matchings(problem) : Total(Weights, N) <= Total(Weights, PairsOf(matchedRight'))
    BY SquareIsHeaviest
  <1>4. Scaled
    BY DEF SquareInv, Measured, Squaring, EndSquare, Scaled
  <1> QED
    BY <1>2, <1>3, <1>4, HeaviestIsBest DEF IInv

\* Where nothing is compatible, the best pairing is that of nobody.
LEMMA NobodyIsBest ==
  ASSUME TypeOK, Compatible = {}, NEW partners, PairsOf(partners) \subseteq Compatible
  PROVE  PairsOf(partners) \in BestPairings(problem)
  <1>1. PairsOf(partners) = {} /\ Matchings(problem) = {{}}
    BY DEF Matchings, IsMatching, Compatible
  <1>2. Cardinality({}) = 0 /\ Total(problem.score, {}) = 0
    BY FS_EmptySet, TotalEmpty
  <1> HIDE DEF Matchings, PairsOf
  <1> QED
    BY <1>1, <1>2 DEF BestPairings

----------------------------------------------------------------------------
\* The layers of Hopcroft-Karp

\* The entries of S, and those one alternation further on.
Onward(S) ==
  S \cup {rightToLeft[r] : r \in {q \in Right :
            rightToLeft[q] # 0 /\ \E l \in S : <<l, q>> \in Compatible}}

\* One entry of the table Within looks its result up in, and the table itself.
ReachOf(f, n) == IF n = 0 THEN Unmatched ELSE Onward(f[n - 1])

IsReach(f, k) == f = [n \in 0..k |-> ReachOf(f, n)]

\* An entry of the table depends on the entry before.
LEMMA ReachEntry ==
  ASSUME NEW k \in Nat, NEW f, NEW g, NEW n \in 0..(k + 1), \A j \in 0..k : f[j] = g[j]
  PROVE  ReachOf(f, n) = ReachOf(g, n)
  <1>1. CASE n = 0
    BY <1>1 DEF ReachOf
  <1>2. CASE n # 0
    <2>1. n - 1 \in 0..k
      BY <1>2
    <2>2. f[n - 1] = g[n - 1]
      BY <2>1
    <2> QED
      BY <1>2, <2>2 DEF ReachOf
  <1> QED
    BY <1>1, <1>2

\* There is such a table of every length.
LEMMA ReachExists == \A k \in Nat : \E f : IsReach(f, k)
  <1> DEFINE T == {k \in Nat : \E f : IsReach(f, k)}
  <1>1. 0 \in T
    <2> DEFINE f == [n \in 0..0 |-> Unmatched]
    <2>1. \A n \in 0..0 : ReachOf(f, n) = Unmatched
      BY DEF ReachOf
    <2>2. f = [n \in 0..0 |-> ReachOf(f, n)]
      <3> DEFINE again == [n \in 0..0 |-> ReachOf(f, n)]
      <3>1. again = [n \in 0..0 |-> Unmatched]
        <4> HIDE DEF f
        <4> QED
          BY <2>1
      <3> QED
        BY <3>1
    <2>3. IsReach(f, 0)
      BY <2>2 DEF IsReach
    <2> HIDE DEF f
    <2> QED
      BY <2>3
  <1>2. ASSUME NEW k \in Nat, k \in T PROVE k + 1 \in T
    <2>1. PICK f : IsReach(f, k)
      BY <1>2
    <2> DEFINE g == [n \in 0..(k + 1) |-> ReachOf(f, n)]
    <2>2. \A n \in 0..k : f[n] = g[n]
      <3>1. \A n \in 0..k : f[n] = ReachOf(f, n)
        BY <2>1, Zenon DEF IsReach
      <3>2. \A n \in 0..k : n \in 0..(k + 1)
        OBVIOUS
      <3> QED
        BY <3>1, <3>2
    <2>3. \A n \in 0..(k + 1) : ReachOf(g, n) = ReachOf(f, n)
      <3> HIDE DEF g
      <3> QED
        BY <2>2, ReachEntry
    <2>4. g = [n \in 0..(k + 1) |-> ReachOf(g, n)]
      <3> DEFINE again == [n \in 0..(k + 1) |-> ReachOf(g, n)]
      <3>1. again = [n \in 0..(k + 1) |-> ReachOf(f, n)]
        <4> HIDE DEF g
        <4> QED
          BY <2>3
      <3> QED
        BY <3>1
    <2>5. IsReach(g, k + 1)
      BY <2>4 DEF IsReach
    <2> HIDE DEF g
    <2> QED
      BY <2>5
  <1> HIDE DEF T
  <1>3. Nat \subseteq T
    BY <1>1, <1>2, NaturalInduction
  <1> QED
    BY <1>3 DEF T

\* A longer table agrees with a shorter one.
LEMMA ReachAgrees ==
  ASSUME NEW k \in Nat, NEW m \in Nat, k <= m, NEW f, IsReach(f, k), NEW g, IsReach(g, m)
  PROVE  f[k] = g[k]
  <1> DEFINE T == {n \in Nat : n <= k => f[n] = g[n]}
  <1>1. \A n \in Nat : n <= k => f[n] = ReachOf(f, n) /\ g[n] = ReachOf(g, n)
    <2>1. /\ \A n \in 0..k : f[n] = ReachOf(f, n)
          /\ \A n \in 0..m : g[n] = ReachOf(g, n)
      BY Zenon DEF IsReach
    <2>2. \A n \in Nat : n <= k => n \in 0..k /\ n \in 0..m
      OBVIOUS
    <2> QED
      BY <2>1, <2>2
  <1>2. 0 \in T
    BY <1>1 DEF ReachOf
  <1>3. ASSUME NEW n \in Nat, n \in T PROVE n + 1 \in T
    <2>1. SUFFICES ASSUME n + 1 <= k PROVE f[n + 1] = g[n + 1]
      OBVIOUS
    <2>2. f[n] = g[n] /\ (n + 1) - 1 = n /\ n + 1 # 0 /\ n + 1 \in Nat
      BY <1>3, <2>1
    <2> QED
      BY <1>1, <2>1, <2>2 DEF ReachOf
  <1> HIDE DEF T
  <1>4. Nat \subseteq T
    BY <1>2, <1>3, NaturalInduction
  <1> QED
    BY <1>4 DEF T

\* Each layer is found from the one before.
LEMMA WithinUnfolds ==
  Within(0) = Unmatched /\ \A k \in Nat : Within(k + 1) = Onward(Within(k))
  <1>1. ASSUME NEW k \in Nat PROVE \E f : IsReach(f, k) /\ Within(k) = f[k]
    <2> DEFINE f == CHOOSE f : IsReach(f, k)
    <2>1. IsReach(f, k)
      BY ReachExists
    <2>2. Within(k) = f[k]
      BY DEF Within, IsReach, ReachOf, Onward
    <2> HIDE DEF f
    <2> QED
      BY <2>1, <2>2
  <1>2. ASSUME NEW f, NEW k \in Nat, IsReach(f, k), NEW n \in 0..k PROVE f[n] = ReachOf(f, n)
    BY <1>2, Zenon DEF IsReach
  <1>3. Within(0) = Unmatched
    <2>1. PICK f : IsReach(f, 0) /\ Within(0) = f[0]
      BY <1>1
    <2> QED
      BY <1>2, <2>1 DEF ReachOf
  <1>4. ASSUME NEW k \in Nat PROVE Within(k + 1) = Onward(Within(k))
    <2>1. PICK f : IsReach(f, k + 1) /\ Within(k + 1) = f[k + 1]
      BY <1>1
    <2>2. PICK g : IsReach(g, k) /\ Within(k) = g[k]
      BY <1>1
    <2>3. g[k] = f[k]
      BY <2>1, <2>2, ReachAgrees
    <2>4. f[k + 1] = ReachOf(f, k + 1) /\ k + 1 # 0 /\ (k + 1) - 1 = k
      BY <1>2, <2>1
    <2> QED
      BY <2>1, <2>2, <2>3, <2>4 DEF ReachOf
  <1> QED
    BY <1>3, <1>4

\* Where the layers stop growing: within as many steps as there are left entries.
LEMMA WithinIsClosed ==
  ASSUME IInv, Solving
  PROVE  /\ Within(problem.left) \subseteq Left /\ Unmatched \subseteq Within(problem.left)
         /\ Onward(Within(problem.left)) = Within(problem.left)
  <1> DEFINE W(k) == Within(k)
             P == {k \in Nat : W(k) \subseteq Left /\ Unmatched \subseteq W(k)}
             Q == {k \in Nat : W(k + 1) = W(k) \/ Cardinality(W(k + 1)) >= k + 1}
  <1>1. /\ problem.left \in Nat /\ problem.right \in Nat
        /\ leftToRight \in [Left -> 0..problem.right]
        /\ rightToLeft \in [Right -> 0..problem.left]
    BY ProblemFacts DEF IInv, TypeOK
  <1>2. Left = 1..problem.left /\ IsFiniteSet(Left) /\ Cardinality(Left) = problem.left
    BY <1>1, IntervalSize DEF Left
  <1>3. W(0) = Unmatched /\ \A k \in Nat : W(k + 1) = Onward(W(k))
    BY WithinUnfolds
  <1>4. \A S : S \subseteq Onward(S) /\ (S \subseteq Left => Onward(S) \subseteq Left)
    <2>1. \A r \in Right : rightToLeft[r] # 0 => rightToLeft[r] \in Left
      BY <1>1, <1>2
    <2> QED
      BY <2>1 DEF Onward
  <1> HIDE DEF W
  <1>5. 0 \in P
    BY <1>3 DEF Unmatched
  <1>6. ASSUME NEW k \in Nat, k \in P PROVE k + 1 \in P
    <2>1. W(k) \subseteq Left /\ Unmatched \subseteq W(k) /\ W(k + 1) = Onward(W(k))
      BY <1>3, <1>6
    <2>2. W(k + 1) \subseteq Left /\ Unmatched \subseteq W(k + 1)
      BY <1>4, <2>1
    <2> QED
      BY <2>2
  <1>7. Nat \subseteq P
    <2> HIDE DEF P
    <2> QED
      BY <1>5, <1>6, NaturalInduction
  <1>8. ASSUME NEW k \in Nat
        PROVE  /\ W(k) \subseteq Left /\ IsFiniteSet(W(k)) /\ Cardinality(W(k)) \in Nat
               /\ Cardinality(W(k)) <= problem.left
    <2>1. W(k) \subseteq Left
      BY <1>7
    <2> QED
      BY <1>2, <2>1, FS_Subset, FS_CardinalityType
  <1>9. ASSUME NEW k \in Nat
        PROVE  W(k + 1) = W(k) \/ Cardinality(W(k + 1)) >= Cardinality(W(k)) + 1
    <2>1. SUFFICES ASSUME W(k + 1) # W(k) PROVE Cardinality(W(k + 1)) >= Cardinality(W(k)) + 1
      OBVIOUS
    <2>2. k + 1 \in Nat
      OBVIOUS
    <2>3. W(k) \subseteq W(k + 1) /\ IsFiniteSet(W(k + 1))
      BY <1>3, <1>4, <1>8, <2>2
    <2>4. Cardinality(W(k)) <= Cardinality(W(k + 1)) /\ Cardinality(W(k)) # Cardinality(W(k + 1))
      BY <2>1, <2>3, FS_Subset
    <2>5. Cardinality(W(k)) \in Nat /\ Cardinality(W(k + 1)) \in Nat
      BY <1>8, <2>2
    <2> QED
      BY <2>4, <2>5
  <1>10. 0 \in Q
    <2>1. Cardinality(W(0)) \in Nat /\ Cardinality(W(0 + 1)) \in Nat
      BY <1>8
    <2> QED
      BY <1>9, <2>1
  <1>11. ASSUME NEW k \in Nat, k \in Q PROVE k + 1 \in Q
    <2>1. k + 1 \in Nat /\ (k + 1) + 1 \in Nat
      OBVIOUS
    <2>2. CASE W(k + 1) = W(k)
      <3>1. W((k + 1) + 1) = Onward(W(k + 1)) /\ W(k + 1) = Onward(W(k))
        BY <1>3, <2>1
      <3>2. W((k + 1) + 1) = W(k + 1)
        BY <2>2, <3>1
      <3> QED
        BY <2>1, <3>2
    <2>3. CASE Cardinality(W(k + 1)) >= k + 1
      <3>1. Cardinality(W(k + 1)) \in Nat /\ Cardinality(W((k + 1) + 1)) \in Nat
        BY <1>8, <2>1
      <3>2. \/ W((k + 1) + 1) = W(k + 1)
            \/ Cardinality(W((k + 1) + 1)) >= Cardinality(W(k + 1)) + 1
        BY <1>9, <2>1
      <3>3. \/ W((k + 1) + 1) = W(k + 1)
            \/ Cardinality(W((k + 1) + 1)) >= (k + 1) + 1
        BY <2>3, <3>1, <3>2
      <3> QED
        BY <2>1, <3>3
    <2> QED
      BY <1>11, <2>2, <2>3
  <1>12. Nat \subseteq Q
    <2> HIDE DEF Q
    <2> QED
      BY <1>10, <1>11, NaturalInduction
  <1>13. W(problem.left + 1) = W(problem.left)
    <2>1. problem.left + 1 \in Nat
      BY <1>1
    <2>2. /\ Cardinality(W(problem.left + 1)) \in Nat
          /\ Cardinality(W(problem.left + 1)) <= problem.left
      BY <1>8, <2>1
    <2>3. ~(Cardinality(W(problem.left + 1)) >= problem.left + 1)
      BY <1>1, <2>2
    <2> QED
      BY <1>1, <1>12, <2>3
  <1>14. Onward(W(problem.left)) = W(problem.left)
    BY <1>1, <1>3, <1>13
  <1>15. W(problem.left) \subseteq Left /\ Unmatched \subseteq W(problem.left)
    BY <1>1, <1>7
  <1> QED
    BY <1>14, <1>15 DEF W

\* The matching pairs as many entries as any other.
Largest ==
  pc \in {"improve", "bid"} =>
    \A N \in Matchings(problem) : Cardinality(N) <= Cardinality(PairsOf(leftToRight))

\* The pairs of the two sides' tables are a matching.
LEMMA MatchedIsMatching ==
  ASSUME IInv, Solving
  PROVE  /\ leftToRight \in [Left -> 0..problem.right]
         /\ PairsOf(leftToRight) \in Matchings(problem)
  <1>1. /\ problem.left \in Nat /\ problem.right \in Nat
        /\ leftToRight \in [Left -> 0..problem.right]
        /\ \A l \in Left, r \in Right : leftToRight[l] = r <=> rightToLeft[r] = l
        /\ PairsOf(leftToRight) \subseteq Compatible
    BY ProblemFacts DEF IInv, TypeOK, SidesAgree
  <1>2. \A l \in Left : leftToRight[l] = 0 \/ leftToRight[l] \in Right
    BY <1>1 DEF Right
  <1>3. \A k, l \in Left : leftToRight[k] = leftToRight[l] => k = l \/ leftToRight[k] = 0
    BY <1>1, <1>2
  <1> QED
    BY <1>1, <1>3, TableIsMatching DEF IInv

\* When no free entry is in reach, the pairs of any matching have a pair of this
\* one each: that of the right entry where the left one is in reach, else of the left.
LEMMA NoFreeInReach ==
  ASSUME IInv, Solving,
         \A l \in Left, r \in Right :
           l \in Within(problem.left) /\ <<l, r>> \in Compatible => rightToLeft[r] # 0,
         NEW N \in Matchings(problem)
  PROVE  Cardinality(N) <= Cardinality(PairsOf(leftToRight))
  <1> DEFINE S == Within(problem.left)
             M == PairsOf(leftToRight)
             f == [x \in N |-> IF x[1] \in S THEN <<rightToLeft[x[2]], x[2]>>
                                             ELSE <<x[1], leftToRight[x[1]]>>]
  <1>1. /\ problem.left \in Nat /\ problem.right \in Nat
        /\ leftToRight \in [Left -> 0..problem.right]
        /\ rightToLeft \in [Right -> 0..problem.left]
        /\ \A l \in Left, r \in Right : leftToRight[l] = r <=> rightToLeft[r] = l
        /\ M \in Matchings(problem)
    BY ProblemFacts, MatchedIsMatching DEF IInv, TypeOK, SidesAgree
  <1>2. /\ N \subseteq Compatible /\ N \subseteq Left \X Right /\ IsMatching(N)
        /\ IsFiniteSet(M)
    BY <1>1, MatchingSizes DEF IInv
  <1>3. Unmatched \subseteq S /\ Onward(S) = S
    BY WithinIsClosed
  <1>4. Left = 1..problem.left /\ Right = 1..problem.right
    BY DEF Left, Right
  <1>5. ASSUME NEW l \in S, NEW r \in Right, l \in Left, <<l, r>> \in Compatible
        PROVE  rightToLeft[r] \in S /\ rightToLeft[r] \in Left /\ leftToRight[rightToLeft[r]] = r
    <2>1. rightToLeft[r] # 0
      BY <1>5
    <2>2. rightToLeft[r] \in Left
      BY <1>1, <1>4, <2>1
    <2>3. rightToLeft[r] \in Onward(S)
      BY <1>5, <2>1 DEF Onward
    <2> QED
      BY <1>1, <1>3, <2>2, <2>3
  <1>6. ASSUME NEW l \in Left, l \notin S PROVE leftToRight[l] # 0
    BY <1>3, <1>6 DEF Unmatched
  <1> HIDE DEF S
  <1>7. ASSUME NEW x \in N
        PROVE  \/ x[1] \in S /\ f[x] \in M /\ f[x][1] \in S /\ f[x][2] = x[2]
               \/ x[1] \notin S /\ f[x] \in M /\ f[x][1] = x[1]
    <2>1. x[1] \in Left /\ x[2] \in Right /\ <<x[1], x[2]>> \in Compatible
      BY <1>2
    <2>2. \A l \in Left : leftToRight[l] # 0 => <<l, leftToRight[l]>> \in M
      BY <1>1 DEF PairsOf
    <2>3. 0 \notin Right
      BY <1>4
    <2>4. CASE x[1] \in S
      <3>1. /\ rightToLeft[x[2]] \in S /\ rightToLeft[x[2]] \in Left
            /\ leftToRight[rightToLeft[x[2]]] = x[2]
        BY <1>5, <2>1, <2>4
      <3>2. <<rightToLeft[x[2]], x[2]>> \in M
        BY <2>1, <2>2, <2>3, <3>1
      <3>3. f[x] = <<rightToLeft[x[2]], x[2]>>
        BY <2>4
      <3> HIDE DEF f, M
      <3> QED
        BY <2>4, <3>1, <3>2, <3>3
    <2>5. CASE x[1] \notin S
      <3>1. <<x[1], leftToRight[x[1]]>> \in M
        BY <1>6, <2>1, <2>2, <2>5
      <3>2. f[x] = <<x[1], leftToRight[x[1]]>>
        BY <2>5
      <3> HIDE DEF f, M
      <3> QED
        BY <2>5, <3>1, <3>2
    <2> QED
      BY <2>4, <2>5
  <1>8. DOMAIN f = N
    OBVIOUS
  <1> HIDE DEF f, M
  <1>9. \A x \in N : f[x] \in M
    BY <1>7
  <1>10. ASSUME NEW x \in N, NEW y \in N, f[x] = f[y] PROVE x = y
    <2>1. x[1] = y[1] \/ x[2] = y[2]
      BY <1>7, <1>10
    <2> QED
      BY <1>2, <2>1 DEF IsMatching
  <1>11. f \in [N -> M]
    <2>1. f = [x \in N |-> f[x]]
      BY <1>8 DEF f
    <2> QED
      BY <1>9, <2>1
  <1>12. f \in Injection(N, M)
    BY <1>10, <1>11 DEF Injection, IsInjective
  <1> QED
    BY <1>2, <1>12, FS_Injection DEF M

\* The phases end with a largest matching.
LEMMA LayersEndLargest ==
  ASSUME IInv, Layers, pc' = "improve"
  PROVE  Largest'
  <1>1. Solving /\ pc = "layers" /\ problem' = problem /\ leftToRight' = leftToRight
    BY DEF Layers, Solving, call
  <1>2. \A l \in Left, r \in Right :
          l \in Within(problem.left) /\ <<l, r>> \in Compatible => rightToLeft[r] # 0
    BY DEF Layers
  <1>3. \A N \in Matchings(problem) : Cardinality(N) <= Cardinality(PairsOf(leftToRight))
    BY <1>1, <1>2, NoFreeInReach
  <1> QED
    BY <1>1, <1>3 DEF Largest, PairsOf

----------------------------------------------------------------------------
\* The auction

\* The scores lie between their extremes.
Scaling == pc = "bid" => Scaled

\* No price is negative, and an item nobody ever owned is free.
PricesAgree ==
  pc = "bid" => \A i \in Items : prices[i] >= 0 /\ (owners[i] = 0 => prices[i] = 0)

\* Whoever holds no item is on the stack.
StackComplete ==
  pc = "bid" =>
    \A l \in Left : assignment[l] = 0 => \E k \in 1..Len(unassigned) : unassigned[k] = l

AuctionInv == Scaling /\ PricesAgree /\ StackComplete

\* The auction begins with free items and everybody on the stack.
LEMMA BeginAuctionInv ==
  ASSUME IInv, BeginAuction
  PROVE  AuctionInv'
  <1>1. /\ problem' = problem /\ MeasureScores /\ Compatible # {}
        /\ prices' = [i \in Items |-> 0] /\ owners' = [i \in Items |-> 0]
        /\ unassigned' = [k \in Left |-> problem.left + 1 - k]
        /\ Left' = Left /\ Items' = Items /\ Compatible' = Compatible
    BY DEF BeginAuction, Left, Right, Items, Compatible
  <1>2. /\ problem.left \in Nat /\ Left = 1..problem.left
        /\ \A pair \in Compatible : problem.score[pair] \in Int
    BY ProblemFacts DEF IInv, Left
  <1>3. Scaling'
    BY <1>1, <1>2 DEF Scaling, Scaled, MeasureScores
  <1>4. PricesAgree'
    BY <1>1 DEF PricesAgree
  <1>5. \A l \in 1..problem.left :
          /\ problem.left + 1 - l \in 1..problem.left
          /\ problem.left + 1 - (problem.left + 1 - l) = l
    BY <1>2
  <1>6. Len(unassigned') = problem.left
    <2>1. unassigned' \in [1..problem.left -> Left]
      BY <1>1, <1>2, <1>5
    <2> QED
      BY <1>2, <2>1, IsASeq
  <1>7. \A l \in Left : \E k \in 1..Len(unassigned') : unassigned'[k] = l
    BY <1>1, <1>2, <1>5, <1>6
  <1> QED
    BY <1>1, <1>3, <1>4, <1>7 DEF AuctionInv, StackComplete

\* A bid raises a price, and puts the former owner on the stack.
LEMMA BidInv ==
  ASSUME IInv, AuctionInv, Bid
  PROVE  AuctionInv'
  <1> DEFINE n == Len(unassigned)
  <1>1. /\ pc = "bid" /\ problem' = problem /\ lowest' = lowest /\ highest' = highest
        /\ Left' = Left /\ Items' = Items /\ Compatible' = Compatible /\ unassigned # <<>>
    BY DEF Bid, call, Left, Right, Items, Compatible
  <1>2. /\ prices \in [Items -> Int] /\ owners \in [Items -> 0..problem.left]
        /\ assignment \in [Left -> 0..(problem.right + problem.left)]
        /\ unassigned \in Seq(Left) /\ problem.left \in Nat /\ 0 \notin Left
        /\ \A k \in Left : assignment[k] = 0 => \E j \in 1..n : unassigned[j] = k
        /\ \A i \in Items : prices[i] >= 0 /\ (owners[i] = 0 => prices[i] = 0)
    BY <1>1, ProblemFacts DEF IInv, TypeOK, AuctionInv, StackComplete, PricesAgree, Left
  <1>3. n \in Nat /\ n >= 1 /\ \A k \in 1..n : unassigned[k] \in Left
    BY <1>1, <1>2
  <1> HIDE DEF n
  <1>p. PICK l \in Left : \E item \in Eligible(l), bid \in Int :
           /\ item \in Items /\ bid >= 1
           /\ prices' = [prices EXCEPT ![item] = @ + bid]
           /\ owners' = [owners EXCEPT ![item] = l]
           /\ assignment' = [k \in Left |->
                IF k = l THEN item ELSE IF k = owners[item] THEN 0 ELSE assignment[k]]
           /\ l = unassigned[n]
           /\ unassigned' = IF owners[item] = 0 THEN SubSeq(unassigned, 1, n - 1)
                            ELSE Append(SubSeq(unassigned, 1, n - 1), owners[item])
    BY BidFacts, Zenon DEF n
  <1>4. PICK item \in Eligible(l), bid \in Int :
           /\ item \in Items /\ bid >= 1
           /\ prices' = [prices EXCEPT ![item] = @ + bid]
           /\ owners' = [owners EXCEPT ![item] = l]
           /\ assignment' = [k \in Left |->
                IF k = l THEN item ELSE IF k = owners[item] THEN 0 ELSE assignment[k]]
           /\ l = unassigned[n]
           /\ unassigned' = IF owners[item] = 0 THEN SubSeq(unassigned, 1, n - 1)
                            ELSE Append(SubSeq(unassigned, 1, n - 1), owners[item])
    BY <1>p
  <1> DEFINE rest == SubSeq(unassigned, 1, n - 1)
             loser == owners[item]
  <1>5. Scaling'
    BY <1>1 DEF AuctionInv, Scaling, Scaled
  <1>6. PricesAgree'
    <2>1. ASSUME NEW i \in Items
          PROVE  prices'[i] >= 0 /\ (owners'[i] = 0 => prices'[i] = 0)
      <3>1. prices[i] \in Int /\ prices[i] >= 0 /\ (owners[i] = 0 => prices[i] = 0)
        BY <1>2
      <3>2. CASE i = item
        <4>1. prices'[i] = prices[i] + bid /\ owners'[i] = l /\ l # 0
          BY <1>2, <1>4, <3>2
        <4> QED
          BY <1>4, <3>1, <4>1
      <3>3. CASE i # item
        <4>1. prices'[i] = prices[i] /\ owners'[i] = owners[i]
          BY <1>2, <1>4, <3>3
        <4> QED
          BY <3>1, <4>1
      <3> QED
        BY <3>2, <3>3
    <2> QED
      BY <1>1, <2>1 DEF PricesAgree
  <1>7. /\ rest \in Seq(Left) /\ Len(rest) = n - 1
        /\ \A k \in 1..n : k # n => k \in 1..(n - 1) /\ rest[k] = unassigned[k]
    <2>1. \A k \in 1..n : k # n => k \in 1..(n - 1) /\ 1 + k - 1 = k
      BY <1>3
    <2>2. n - 1 \in Int /\ 1 \in Int /\ \A k \in 1..(n - 1) : unassigned[k] \in Left
      <3>1. \A k \in 1..(n - 1) : k \in 1..n
        BY <1>3
      <3> QED
        BY <1>3, <3>1
    <2>3. /\ rest \in Seq(Left)
          /\ Len(rest) = IF 1 <= n - 1 THEN (n - 1) - 1 + 1 ELSE 0
          /\ \A k \in 1..((n - 1) - 1 + 1) : rest[k] = unassigned[1 + k - 1]
      BY <2>2, SubSeqProperties
    <2>4. (IF 1 <= n - 1 THEN (n - 1) - 1 + 1 ELSE 0) = n - 1 /\ (n - 1) - 1 + 1 = n - 1
      BY <1>3
    <2> QED
      BY <2>1, <2>3, <2>4
  <1>8. loser = 0 \/ loser \in Left
    BY <1>2, <1>4 DEF Left
  <1>9. unassigned' = IF loser = 0 THEN rest ELSE Append(rest, loser)
    BY <1>4
  <1>10. /\ \A k \in 1..(n - 1) : k \in 1..Len(unassigned') /\ unassigned'[k] = rest[k]
         /\ loser # 0 => n \in 1..Len(unassigned') /\ unassigned'[n] = loser
    <2> HIDE DEF rest, loser
    <2>1. CASE loser = 0
      BY <1>7, <1>9, <2>1
    <2>2. CASE loser # 0
      <3>1. /\ Len(unassigned') = n /\ unassigned'[n] = loser
            /\ \A k \in 1..(n - 1) : unassigned'[k] = rest[k]
        BY <1>3, <1>7, <1>8, <1>9, <2>2
      <3> QED
        BY <1>3, <3>1
    <2> QED
      BY <2>1, <2>2
  <1>11. ASSUME NEW k \in Left, assignment'[k] = 0
         PROVE  \E j \in 1..Len(unassigned') : unassigned'[j] = k
    <2>1. item # 0
      BY <1>2, <1>4 DEF Items
    <2>2. k # l /\ (k = loser \/ assignment[k] = 0)
      BY <1>4, <1>11, <2>1
    <2> HIDE DEF rest, loser
    <2>3. CASE k = loser
      <3>1. loser # 0
        BY <1>2, <2>3
      <3> QED
        BY <1>10, <2>3, <3>1
    <2>4. CASE k # loser
      <3>1. PICK j \in 1..n : unassigned[j] = k
        BY <1>2, <2>2, <2>4
      <3>2. j # n
        BY <1>4, <2>2, <3>1
      <3> QED
        BY <1>7, <1>10, <3>1, <3>2
    <2> QED
      BY <2>3, <2>4
  <1>12. StackComplete'
    BY <1>1, <1>11 DEF StackComplete
  <1> QED
    BY <1>5, <1>6, <1>12 DEF AuctionInv

\* What the epsilons of the bidders add up to is less than one step of the scale.
LEMMA EpsilonsAreHarmless ==
  ASSUME NEW n \in Nat, NEW a \in Int, NEW b \in Int, (n + 1) * a <= (n + 1) * b + n
  PROVE  a <= b
  <1>1. SUFFICES ASSUME a > b PROVE FALSE
    OBVIOUS
  <1>2. PICK d \in Nat : a = b + 1 + d
    <2>1. a - b - 1 \in Nat /\ a = b + 1 + (a - b - 1)
      BY <1>1
    <2> QED
      BY <2>1
  <1>3. \A x, y \in Nat : x * y \in Nat
    OBVIOUS
  <1>4. (n + 1) * d \in Nat /\ (n + 1) * b \in Int
    BY <1>3
  <1>5. (n + 1) * a = (n + 1) * b + n + 1 + (n + 1) * d
    BY <1>2
  <1> QED
    BY <1>4, <1>5

\* The auction's result is a best pairing: with the slots, every matching gives each
\* entry an item, and by NoRegret the entries' own are worth no less but an epsilon.
LEMMA CandidateIsBest ==
  ASSUME IInv, NoRegret, AuctionInv, pc = "bid", unassigned = <<>>
  PROVE  /\ Candidate \in [Left -> 0..problem.right]
         /\ PairsOf(Candidate) \in BestPairings(problem)
  <1> DEFINE A == {<<l, assignment[l]>> : l \in Left}
             C == PairsOf(Candidate)
             u == [l \in Left |-> Value(l, assignment[l]) + 1]
             p == [i \in Items |-> prices[i]]
             w == [x \in Left \X Items |-> Worth(x[1], x[2])]
             h == [x \in Left \X Items |-> u[x[1]] + p[x[2]]]
             scale == problem.left + 1
  <1>1. /\ problem.left \in Nat /\ problem.right \in Nat /\ Left = 1..problem.left
        /\ Right = 1..problem.right /\ Items = 1..(problem.right + problem.left)
        /\ Compatible \subseteq Left \X Right /\ Right \subseteq Items /\ 0 \notin Items
    BY ProblemFacts DEF IInv, Left, Right, Items
  <1>2. /\ IsFiniteSet(Left) /\ Cardinality(Left) = problem.left /\ IsFiniteSet(Items)
    <2>1. problem.right + problem.left \in Nat
      BY <1>1
    <2> QED
      BY <1>1, <2>1, IntervalSize
  <1>3. /\ prices \in [Items -> Int] /\ owners \in [Items -> 0..problem.left]
        /\ \A l \in Left, i \in Items : assignment[l] = i <=> owners[i] = l
        /\ \A i \in Items : prices[i] >= 0 /\ (owners[i] = 0 => prices[i] = 0)
    BY DEF IInv, TypeOK, OwnersAgree, AuctionInv, PricesAgree
  <1>4. \A l \in Left : assignment[l] \in Eligible(l) /\ assignment[l] \in Items
    <2>1. \A l \in Left : assignment[l] # 0
      <3>1. Len(unassigned) = 0
        OBVIOUS
      <3> QED
        BY <3>1 DEF AuctionInv, StackComplete
    <2>2. \A l \in Left : assignment[l] \in Eligible(l) \cup {0}
      BY DEF IInv, OwnersAgree
    <2> QED
      BY <2>1, <2>2 DEF Eligible
  <1>5. \A l \in Left, i \in Items : Worth(l, i) \in Int /\ prices[i] \in Int
    BY <1>3, WorthIsNumber
  <1>6. /\ \A l \in Left : u[l] \in Int /\ u[l] = Worth(l, assignment[l]) - prices[assignment[l]] + 1
        /\ \A i \in Items : p[i] \in Int /\ p[i] >= 0 /\ p[i] = prices[i]
    BY <1>3, <1>4, <1>5 DEF Value
  <1> HIDE DEF u, p
  <1>7. \A x \in Left \X Items :
          /\ h[x] = u[x[1]] + p[x[2]] /\ w[x] = Worth(x[1], x[2])
          /\ u[x[1]] \in Int /\ p[x[2]] \in Int /\ h[x] \in Int /\ w[x] \in Int
    BY <1>5, <1>6
  <1>8. \A x \in Left \X Items : x[2] \notin Right => w[x] = 0
    BY <1>1, <1>7 DEF Worth
  <1>9. ASSUME NEW N \in SUBSET Compatible
        PROVE  \A x \in N : /\ Weights[x] \in Int /\ x \in Left \X Items
                            /\ w[x] = scale * Weights[x]
    <2>1. ASSUME NEW x \in N
          PROVE  /\ x \in Left \X Items /\ x[2] \in Right /\ x \in Compatible
                 /\ x = <<x[1], x[2]>>
      BY <1>1
    <2>2. \A x \in Compatible : Weights[x] \in Int
      BY ScaledFacts DEF IInv, AuctionInv, Scaling
    <2>3. ASSUME NEW x \in N PROVE w[x] = scale * Weights[x]
      <3>1. w[x] = Weight(x[1], x[2]) * scale /\ Weights[x] = Weight(x[1], x[2])
        BY <1>7, <2>1 DEF Worth, Weights
      <3>2. Weights[x] \in Int /\ scale \in Int
        BY <1>1, <2>1, <2>2
      <3>3. \A a, b \in Int : a * b = b * a
        OBVIOUS
      <3> HIDE DEF w, scale
      <3> QED
        BY <3>1, <3>2, <3>3
    <2> QED
      BY <2>1, <2>2, <2>3
  <1> HIDE DEF w, h
  \* What the entries hold is paid for, but for an epsilon each.
  <1>10. /\ A \subseteq Left \X Items /\ IsFiniteSet(A) /\ IsMatching(A)
         /\ Lefts(A) = Left /\ Cardinality(A) = problem.left
         /\ Rights(A) \subseteq Items /\ Total(h, A) = Total(u, Left) + Total(p, Items)
    <2>1. A \subseteq Left \X Items
      BY <1>4
    <2>2. IsFiniteSet(A)
      BY <1>2, <2>1, FS_Product, FS_Subset
    <2>3. IsMatching(A)
      <3>1. ASSUME NEW x \in A, NEW y \in A, x[1] = y[1] \/ x[2] = y[2] PROVE x = y
        <4>1. PICK k \in Left : x = <<k, assignment[k]>>
          OBVIOUS
        <4>2. PICK l \in Left : y = <<l, assignment[l]>>
          OBVIOUS
        <4>3. k = l
          BY <1>3, <1>4, <3>1, <4>1, <4>2
        <4> QED
          BY <4>1, <4>2, <4>3
      <3> HIDE DEF A
      <3> QED
        BY <3>1 DEF IsMatching
    <2>4. Lefts(A) = Left
      <3>1. \A x \in A : x[1] \in Left
        OBVIOUS
      <3>2. ASSUME NEW l \in Left PROVE \E x \in A : x[1] = l
        <4>1. <<l, assignment[l]>> \in A /\ <<l, assignment[l]>>[1] = l
          OBVIOUS
        <4> HIDE DEF A
        <4> QED
          BY <4>1
      <3> HIDE DEF A
      <3> QED
        BY <3>1, <3>2 DEF Lefts
    <2>5. ASSUME NEW i \in Items, i \notin Rights(A) PROVE p[i] = 0
      <3>1. \A l \in Left : assignment[l] # i
        <4>1. ASSUME NEW l \in Left, assignment[l] = i PROVE FALSE
          <5>1. <<l, assignment[l]>> \in A /\ <<l, assignment[l]>>[2] = i
            BY <4>1
          <5> HIDE DEF A
          <5> QED
            BY <2>5, <5>1 DEF Rights
        <4> QED
          BY <4>1
      <3>2. owners[i] \notin Left
        BY <1>3, <3>1
      <3>3. owners[i] = 0
        BY <1>1, <1>3, <3>2
      <3> QED
        BY <1>3, <1>6, <3>3
    <2> HIDE DEF A
    <2>6. Rights(A) \subseteq Items
      BY <2>1 DEF Rights
    <2>7. /\ Cardinality(Lefts(A)) = Cardinality(A)
          /\ Total(h, A) = Total(u, Lefts(A)) + Total(p, Rights(A))
      <3>1. \A x \in A : u[x[1]] \in Int /\ p[x[2]] \in Int /\ h[x] = u[x[1]] + p[x[2]]
        BY <1>7, <2>1
      <3> QED
        BY <2>2, <2>3, <3>1, MatchingSplit
    <2>8. Total(p, Items) = Total(p, Rights(A))
      BY <1>2, <1>6, <2>5, <2>6, TotalOfRest
    <2> QED
      BY <1>2, <2>1, <2>2, <2>3, <2>4, <2>6, <2>7, <2>8
  <1>11. Total(h, A) = Total(w, A) + problem.left /\ Total(w, A) \in Int
    <2> DEFINE one == [x \in A |-> 1]
    <2>1. \A x \in A : h[x] = w[x] + 1 /\ w[x] \in Int /\ x \in Left \X Items
      <3>1. ASSUME NEW l \in Left
            PROVE  h[<<l, assignment[l]>>] = w[<<l, assignment[l]>>] + 1
        <4>1. <<l, assignment[l]>> \in Left \X Items
          BY <1>4
        <4>2. /\ h[<<l, assignment[l]>>] = u[l] + p[assignment[l]]
              /\ w[<<l, assignment[l]>>] = Worth(l, assignment[l])
          BY <1>7, <4>1
        <4>3. Worth(l, assignment[l]) \in Int /\ prices[assignment[l]] \in Int
          BY <1>4, <1>5
        <4> QED
          BY <1>4, <1>6, <4>2, <4>3
      <3> QED
        BY <1>7, <1>10, <3>1
    <2> HIDE DEF A
    <2>2. \A x \in A : one[x] = 1 /\ one[x] \in Int /\ w[x] \in Int /\ h[x] = w[x] + one[x]
      BY <2>1
    <2> HIDE DEF one
    <2>3. Total(h, A) = Total(w, A) + Total(one, A)
      BY <1>10, <2>2, TotalPlus
    <2>4. Total(one, A) = 1 * Cardinality(A)
      BY <1>10, <2>2, TotalConstant
    <2>5. Total(w, A) \in Int
      BY <1>10, <2>2, TotalType
    <2> QED
      BY <1>1, <1>10, <2>3, <2>4, <2>5
  \* Of the items held, the right entries are the pairs of the candidate.
  <1>12. /\ Candidate \in [Left -> 0..problem.right]
         /\ C \in Matchings(problem) /\ C \subseteq A /\ C \subseteq Compatible
         /\ \A x \in A \ C : x[2] \notin Right
    <2>1. Candidate \in [Left -> 0..problem.right]
      BY <1>1 DEF Candidate
    <2>2. \A l \in Left : Candidate[l] # 0 =>
            /\ Candidate[l] = assignment[l] /\ assignment[l] \in Right
            /\ <<l, assignment[l]>> \in Compatible
      BY <1>4 DEF Candidate, Eligible
    <2>3. \A l \in Left : assignment[l] \in Right => Candidate[l] = assignment[l]
      BY DEF Candidate
    <2>4. DOMAIN Candidate = Left
      BY DEF Candidate
    <2>5. C \subseteq Compatible /\ C \subseteq A
      BY <2>2, <2>4 DEF PairsOf
    <2>6. ASSUME NEW k \in Left, NEW l \in Left, Candidate[k] = Candidate[l]
          PROVE  k = l \/ Candidate[k] = 0
      <3>1. SUFFICES ASSUME Candidate[k] # 0 PROVE k = l
        OBVIOUS
      <3>2. assignment[k] = assignment[l] /\ assignment[k] \in Items
        BY <1>4, <2>2, <2>6, <3>1
      <3> HIDE DEF C
      <3> QED
        BY <1>3, <3>2
    <2>7. C \in Matchings(problem)
      BY <2>1, <2>5, <2>6, TableIsMatching DEF IInv
    <2>8. ASSUME NEW l \in Left, assignment[l] \in Right PROVE <<l, assignment[l]>> \in C
      <3>1. Candidate[l] = assignment[l] /\ Candidate[l] # 0
        BY <1>1, <2>3, <2>8
      <3> QED
        BY <2>4, <3>1 DEF PairsOf
    <2>9. \A x \in A \ C : x[2] \notin Right
      BY <2>8
    <2> QED
      BY <2>1, <2>5, <2>7, <2>9
  <1> HIDE DEF A, C
  <1>13. /\ Total(w, A) = scale * Total(Weights, C) /\ Total(Weights, C) \in Int
    <2>1. IsFiniteSet(C) /\ scale \in Int
      BY <1>1, <1>10, <1>12, FS_Subset
    <2>2. /\ \A x \in A : w[x] \in Int
          /\ \A x \in A \ C : w[x] = 0
      BY <1>7, <1>8, <1>10, <1>12
    <2>3. Total(w, A) = Total(w, C)
      BY <1>10, <1>12, <2>2, TotalOfRest
    <2>4. \A x \in C : Weights[x] \in Int /\ w[x] = scale * Weights[x]
      BY <1>9, <1>12
    <2> HIDE DEF scale
    <2>5. Total(w, C) = scale * Total(Weights, C) /\ Total(Weights, C) \in Int
      BY <2>1, <2>4, TotalScale, TotalType
    <2> QED
      BY <2>3, <2>5
  <1>14. ASSUME NEW N \in Matchings(problem)
         PROVE  Total(Weights, N) <= Total(Weights, C)
    <2> DEFINE E == N \cup {<<l, problem.right + l>> : l \in Left \ Lefts(N)}
    <2>1. /\ N \subseteq Compatible /\ IsMatching(N) /\ IsFiniteSet(N)
          /\ N \subseteq Left \X Right
      BY MatchingSizes DEF IInv
    <2>2. ASSUME NEW l \in Left
          PROVE  /\ problem.right + l \in Items /\ problem.right + l \notin Right
                 /\ problem.right + l \in Eligible(l)
      <3>1. problem.right + l \in Items /\ problem.right + l \notin Right
        BY <1>1
      <3> QED
        BY <3>1 DEF Eligible
    <2>3. ASSUME NEW x \in E
          PROVE  \/ /\ x \in N /\ x[1] \in Lefts(N) /\ x[2] \in Right
                    /\ x[1] \in Left /\ x[2] \in Items /\ x[2] \in Eligible(x[1])
                    /\ x = <<x[1], x[2]>>
                 \/ /\ x \notin N /\ x[1] \in Left \ Lefts(N) /\ x[2] = problem.right + x[1]
                    /\ x[2] \in Items /\ x[2] \notin Right /\ x[2] \in Eligible(x[1])
                    /\ x = <<x[1], x[2]>>
      <3>1. CASE x \in N
        <4>1. x \in Compatible /\ x[1] \in Left /\ x[2] \in Right /\ x = <<x[1], x[2]>>
          BY <2>1, <3>1
        <4>2. x[1] \in Lefts(N)
          BY <3>1 DEF Lefts
        <4>3. x[2] \in Items /\ x[2] \in Eligible(x[1])
          BY <1>1, <4>1 DEF Eligible
        <4> QED
          BY <3>1, <4>1, <4>2, <4>3
      <3>2. CASE x \notin N
        <4>1. PICK l \in Left \ Lefts(N) : x = <<l, problem.right + l>>
          BY <3>2
        <4> QED
          BY <2>2, <3>2, <4>1
      <3> QED
        BY <3>1, <3>2
    <2>4. Lefts(E) = Left
      <3>1. \A x \in E : x[1] \in Left
        BY <2>3
      <3>2. ASSUME NEW l \in Left PROVE \E x \in E : x[1] = l
        <4>1. CASE l \in Lefts(N)
          <5>1. PICK x \in N : x[1] = l
            BY <4>1 DEF Lefts
          <5> QED
            BY <5>1
        <4>2. CASE l \notin Lefts(N)
          <5>1. <<l, problem.right + l>> \in E /\ <<l, problem.right + l>>[1] = l
            BY <4>2
          <5> HIDE DEF E
          <5> QED
            BY <5>1
        <4> QED
          BY <4>1, <4>2
      <3> HIDE DEF E
      <3> QED
        BY <3>1, <3>2 DEF Lefts
    <2>5. N \in SUBSET E
      OBVIOUS
    <2> HIDE DEF E
    <2>6. E \subseteq Left \X Items
      BY <2>3
    <2>7. IsFiniteSet(E)
      BY <1>2, <2>6, FS_Product, FS_Subset
    <2>8. IsMatching(E)
      <3>1. ASSUME NEW x \in E, NEW y \in E, x[1] = y[1] \/ x[2] = y[2] PROVE x = y
        <4>1. CASE x \in N /\ y \in N
          BY <2>1, <3>1, <4>1 DEF IsMatching
        <4>2. CASE x \in N /\ y \notin N
          BY <2>3, <3>1, <4>2
        <4>3. CASE x \notin N /\ y \in N
          BY <2>3, <3>1, <4>3
        <4>4. CASE x \notin N /\ y \notin N
          <5>1. /\ x[2] = problem.right + x[1] /\ y[2] = problem.right + y[1]
                /\ x[1] \in Left /\ y[1] \in Left
                /\ x = <<x[1], x[2]>> /\ y = <<y[1], y[2]>>
            BY <2>3, <4>4
          <5>2. x[1] \in Int /\ y[1] \in Int
            BY <1>1, <5>1
          <5>3. x[1] = y[1]
            BY <1>1, <3>1, <5>1, <5>2
          <5> QED
            BY <5>1, <5>3
        <4> QED
          BY <4>1, <4>2, <4>3, <4>4
      <3> QED
        BY <3>1 DEF IsMatching
    <2>9. \A x \in E : w[x] \in Int /\ h[x] \in Int /\ w[x] <= h[x]
      <3>1. ASSUME NEW x \in E PROVE w[x] <= h[x]
        <4>1. x[1] \in Left /\ x[2] \in Items /\ x[2] \in Eligible(x[1]) /\ x \in Left \X Items
          BY <2>3, <2>6
        <4>2. Value(x[1], x[2]) <= Value(x[1], assignment[x[1]]) + 1
          BY <1>1, <1>4, <4>1 DEF NoRegret
        <4>3. /\ Worth(x[1], x[2]) \in Int /\ prices[x[2]] \in Int
              /\ Worth(x[1], assignment[x[1]]) \in Int /\ prices[assignment[x[1]]] \in Int
          BY <1>4, <1>5, <4>1
        <4>4. Worth(x[1], x[2]) <= u[x[1]] + p[x[2]]
          BY <1>6, <4>1, <4>2, <4>3 DEF Value
        <4> QED
          BY <1>7, <4>1, <4>4
      <3> QED
        BY <1>7, <2>6, <3>1
    <2>10. Total(w, E) <= Total(w, A) + problem.left /\ Total(w, E) \in Int
      <3>1. Total(w, E) <= Total(h, E) /\ Total(w, E) \in Int /\ Total(h, E) \in Int
        BY <2>7, <2>9, TotalCompare, TotalType
      <3>2. Total(h, E) = Total(u, Left) + Total(p, Rights(E))
        <4>1. \A x \in E : u[x[1]] \in Int /\ p[x[2]] \in Int /\ h[x] = u[x[1]] + p[x[2]]
          BY <1>7, <2>6
        <4>2. Total(h, E) = Total(u, Lefts(E)) + Total(p, Rights(E))
          BY <2>7, <2>8, <4>1, MatchingSplit
        <4> QED
          BY <2>4, <4>2
      <3>3. Rights(E) \subseteq Items
        BY <2>6 DEF Rights
      <3>4. Total(p, Rights(E)) <= Total(p, Items)
        BY <1>2, <1>6, <3>3, TotalOfPart
      <3>5. /\ Total(u, Left) \in Int /\ Total(p, Items) \in Int /\ Total(p, Rights(E)) \in Int
        <4>1. IsFiniteSet(Rights(E)) /\ \A i \in Rights(E) : p[i] \in Int
          BY <1>2, <1>6, <3>3, FS_Subset
        <4> QED
          BY <1>2, <1>6, <4>1, TotalType
      <3> QED
        BY <1>10, <1>11, <3>1, <3>2, <3>4, <3>5
    <2>11. Total(w, E) = Total(w, N)
      <3>1. /\ \A x \in E : w[x] \in Int
            /\ \A x \in E \ N : w[x] = 0
        BY <1>8, <2>3, <2>6, <2>9
      <3> QED
        BY <2>5, <2>7, <3>1, TotalOfRest
    <2>12. scale \in Int
      BY <1>1
    <2>13. Total(w, N) = scale * Total(Weights, N) /\ Total(Weights, N) \in Int
      <3> HIDE DEF scale
      <3>1. \A x \in N : Weights[x] \in Int /\ w[x] = scale * Weights[x]
        BY <1>9, <2>1
      <3> QED
        BY <2>1, <2>12, <3>1, TotalScale, TotalType
    <2>14. scale * Total(Weights, N) <= scale * Total(Weights, C) + problem.left
      BY <1>13, <2>10, <2>11, <2>13
    <2> QED
      BY <1>1, <1>13, <2>13, <2>14, EpsilonsAreHarmless
  <1>15. Scaled
    BY DEF AuctionInv, Scaling
  <1> QED
    BY <1>12, <1>14, <1>15, HeaviestIsBest DEF IInv, C

\* What Score adds up along the left entries is the total of the pairs.
LEMMA ScoreIsTotal ==
  ASSUME TypeOK, NEW partners \in [Left -> 0..problem.right],
         PairsOf(partners) \in Matchings(problem)
  PROVE  Score(partners) = Total(problem.score, PairsOf(partners))
  <1> DEFINE P == PairsOf(partners)
             g == [l \in Left |-> IF partners[l] = 0 THEN 0 ELSE problem.score[<<l, partners[l]>>]]
             zero == [r \in Rights(P) |-> 0]
             paired == {l \in Left : partners[l] # 0}
  <1>1. /\ problem.left \in Nat /\ Left = 1..problem.left
        /\ \A x \in Compatible : problem.score[x] \in Int
    BY ProblemFacts DEF Left
  <1>2. IsFiniteSet(Left)
    BY <1>1, IntervalSize
  <1>3. P \subseteq Compatible /\ IsMatching(P) /\ IsFiniteSet(P)
    BY MatchingSizes
  <1>4. /\ \A x \in P : /\ x[1] \in paired /\ x = <<x[1], partners[x[1]]>>
                        /\ problem.score[x] = g[x[1]] /\ problem.score[x] \in Int
        /\ \A l \in paired : <<l, partners[l]>> \in P
    BY <1>1, <1>3 DEF PairsOf
  <1>5. \A l \in Left : g[l] \in Int /\ (l \notin paired => g[l] = 0)
    <2>1. ASSUME NEW l \in paired PROVE g[l] \in Int
      <3>1. <<l, partners[l]>> \in Compatible /\ g[l] = problem.score[<<l, partners[l]>>]
        BY <1>3, <1>4
      <3> QED
        BY <1>1, <3>1
    <2> QED
      BY <2>1
  <1>6. Lefts(P) = paired
    <2>1. \A l \in paired : \E x \in P : x[1] = l
      <3>1. ASSUME NEW l \in paired PROVE \E x \in P : x[1] = l
        <4>1. <<l, partners[l]>> \in P /\ <<l, partners[l]>>[1] = l
          BY <1>4
        <4> HIDE DEF P
        <4> QED
          BY <4>1
      <3> QED
        BY <3>1
    <2>2. \A x \in P : x[1] \in paired
      BY <1>4
    <2> HIDE DEF P, paired
    <2> QED
      BY <2>1, <2>2 DEF Lefts
  <1>7. Score(partners) = Total(g, Left)
    <2>1. Score(partners) = SumTo(problem.left, g)
      BY DEF Score
    <2>2. \A l \in 1..problem.left : g[l] \in Int
      BY <1>1, <1>5
    <2> HIDE DEF g
    <2>3. SumTo(problem.left, g) = Total(g, 1..problem.left)
      BY <1>1, <2>2, SumIsTotal
    <2> QED
      BY <1>1, <2>1, <2>3
  <1>8. paired \in SUBSET Left
    OBVIOUS
  <1>9. \A x \in P : zero[x[2]] = 0
    BY DEF Rights
  <1>10. \A r \in Rights(P) : zero[r] = 0
    OBVIOUS
  <1> HIDE DEF P, g, zero, paired
  <1>11. Total(g, Left) = Total(g, paired)
    BY <1>2, <1>5, <1>8, TotalOfRest
  <1>12. /\ IsFiniteSet(Rights(P))
         /\ Total(problem.score, P) = Total(g, Lefts(P)) + Total(zero, Rights(P))
    <2>1. \A x \in P : /\ g[x[1]] \in Int /\ zero[x[2]] \in Int
                       /\ problem.score[x] = g[x[1]] + zero[x[2]]
      BY <1>4, <1>9
    <2> QED
      BY <1>3, <2>1, MatchingSplit
  <1>13. Total(zero, Rights(P)) = 0
    <2>1. Cardinality(Rights(P)) \in Nat
      BY <1>12, FS_CardinalityType
    <2>2. Total(zero, Rights(P)) = 0 * Cardinality(Rights(P))
      BY <1>10, <1>12, TotalConstant
    <2> QED
      BY <2>1, <2>2
  <1>14. Total(g, paired) \in Int
    <2>1. IsFiniteSet(paired) /\ \A l \in paired : g[l] \in Int
      BY <1>2, <1>5, <1>8, FS_Subset
    <2> QED
      BY <2>1, TotalType
  <1> QED
    BY <1>6, <1>7, <1>11, <1>12, <1>13, <1>14 DEF P

\* Whichever of the two is returned: the candidate is a best pairing, and where the
\* matching, a largest one, scores no less, so is the matching.
LEMMA AuctionReturnsBest ==
  ASSUME IInv, NoRegret, AuctionInv, Largest, EndAuction
  PROVE  PairsOf(matchedRight') \in BestPairings(problem)
  <1> DEFINE M == PairsOf(leftToRight)
             C == PairsOf(Candidate)
  <1>1. pc = "bid" /\ unassigned = <<>> /\ Solving
    BY DEF EndAuction, Solving
  <1>2. Candidate \in [Left -> 0..problem.right] /\ C \in BestPairings(problem)
    BY <1>1, CandidateIsBest
  <1>3. leftToRight \in [Left -> 0..problem.right] /\ M \in Matchings(problem)
    BY <1>1, MatchedIsMatching
  <1>4. /\ C \in Matchings(problem)
        /\ \A N \in Matchings(problem) : Cardinality(N) <= Cardinality(C)
        /\ \A N \in Matchings(problem) :
             (\A other \in Matchings(problem) : Cardinality(other) <= Cardinality(N))
             => Total(problem.score, N) <= Total(problem.score, C)
    BY <1>2 DEF BestPairings
  <1>5. \A N \in Matchings(problem) : Cardinality(N) <= Cardinality(M)
    BY <1>1 DEF Largest
  <1>6. \A N \in Matchings(problem) :
          /\ Cardinality(N) \in Nat /\ Total(problem.score, N) \in Int /\ N \subseteq Compatible
    <2>1. ASSUME NEW N \in Matchings(problem)
          PROVE  /\ Cardinality(N) \in Nat /\ Total(problem.score, N) \in Int
                 /\ N \subseteq Compatible
      <3>1. N \subseteq Compatible /\ IsFiniteSet(N) /\ Cardinality(N) \in Nat
        BY MatchingSizes DEF IInv
      <3>2. \A x \in N : problem.score[x] \in Int
        BY <3>1, ProblemFacts DEF IInv
      <3> QED
        BY <3>1, <3>2, TotalType
    <2> QED
      BY <2>1
  <1>7. /\ Score(Candidate) = Total(problem.score, C)
        /\ Score(leftToRight) = Total(problem.score, M)
    BY <1>2, <1>3, <1>4, ScoreIsTotal DEF IInv
  <1>8. matchedRight' = IF /\ M \cup C \subseteq Compatible
                           /\ Cardinality(C) = Cardinality(M)
                           /\ Score(Candidate) > Score(leftToRight)
                        THEN Candidate ELSE leftToRight
    BY DEF EndAuction, Return
  <1>9. PairsOf(matchedRight') \in {C, M}
    BY <1>8
  <1> HIDE DEF M, C
  <1>10. M \cup C \subseteq Compatible /\ Cardinality(C) = Cardinality(M)
    BY <1>3, <1>4, <1>5, <1>6
  <1>11. CASE Score(Candidate) > Score(leftToRight)
    <2>1. matchedRight' = Candidate
      BY <1>8, <1>10, <1>11
    <2> QED
      BY <1>2, <2>1 DEF C
  <1>12. CASE ~(Score(Candidate) > Score(leftToRight))
    <2>1. matchedRight' = leftToRight
      BY <1>8, <1>12
    <2>2. \A N \in Matchings(problem) :
            (\A other \in Matchings(problem) : Cardinality(other) <= Cardinality(N))
            => Total(problem.score, N) <= Total(problem.score, M)
      BY <1>3, <1>4, <1>6, <1>7, <1>12
    <2>3. M \in BestPairings(problem)
      BY <1>3, <1>5, <2>2 DEF BestPairings
    <2> QED
      BY <2>1, <2>3 DEF M
  <1> QED
    BY <1>11, <1>12

----------------------------------------------------------------------------
\* What a call promises

\* The invariant of the long lists' solver.
LongInv == Largest /\ AuctionInv

\* Every step keeps the invariant of the long lists.
LEMMA LongStep == IInv /\ LongInv /\ [Next]_vars => LongInv'
  <1> SUFFICES ASSUME IInv, LongInv, [Next]_vars PROVE LongInv'
    OBVIOUS
  <1>1. CASE BeginAuction
    <2>1. Largest'
      BY <1>1 DEF BeginAuction, LongInv, Largest, linear, PairsOf
    <2> QED
      BY <1>1, <2>1, BeginAuctionInv DEF LongInv
  <1>2. CASE Bid
    <2>1. Largest'
      BY <1>2 DEF Bid, LongInv, Largest, linear, call, PairsOf
    <2> QED
      BY <1>2, <2>1, BidInv DEF LongInv
  <1>3. CASE Layers
    <2>1. AuctionInv'
      BY <1>3 DEF Layers, AuctionInv, Scaling, PricesAgree, StackComplete
    <2>2. Largest'
      <3>1. CASE pc' = "improve"
        BY <1>3, <3>1, LayersEndLargest
      <3>2. CASE pc' # "improve"
        BY <1>3, <3>2 DEF Layers, Largest
      <3> QED
        BY <3>1, <3>2
    <2> QED
      BY <2>1, <2>2 DEF LongInv
  <1>4. CASE \/ NothingToPair \/ BeginSquare \/ BeginRow \/ Scan \/ Flip \/ EndSquare
             \/ BeginLinear \/ NextRoot \/ TryRight \/ DeadEnd \/ NothingToImprove \/ EndAuction
    <2>1. pc' \notin {"improve", "bid"}
      BY <1>4 DEF NothingToPair, BeginSquare, BeginRow, Scan, Flip, EndSquare, BeginLinear,
             NextRoot, TryRight, DeadEnd, NothingToImprove, EndAuction, Return
    <2> QED
      BY <2>1 DEF LongInv, Largest, AuctionInv, Scaling, PricesAgree, StackComplete
  <1>5. CASE UNCHANGED vars
    <2>1. UNCHANGED <<call, pc, leftToRight, auction>> /\ UNCHANGED <<problem, lowest, highest>>
      BY <1>5 DEF vars, call, linear
    <2> QED
      BY <2>1 DEF LongInv, Largest, AuctionInv, Scaling, Scaled, PricesAgree, StackComplete, auction,
             Left, Right, Items, Compatible, PairsOf
  <1> QED
    BY <1>1, <1>2, <1>3, <1>4, <1>5 DEF Next, Returned

\* One step of a call: it stays on its problem, keeps what it has returned, and what
\* it returns is a best pairing.
LEMMA StepKeepsPromise ==
  ASSUME IInv, SquareInv, NoRegret, LongInv, [Next]_vars
  PROVE  /\ problem' = problem
         /\ pc = "done" => pc' = "done" /\ matchedRight' = matchedRight
         /\ pc # "done" /\ pc' = "done" => PairsOf(matchedRight') \in BestPairings(problem)
  <1>1. CASE EndSquare
    BY <1>1, SquareReturnsBest DEF EndSquare, call
  <1>2. CASE EndAuction
    BY <1>2, AuctionReturnsBest DEF EndAuction, call, LongInv
  <1>3. CASE NothingToPair \/ NothingToImprove
    <2>1. IInv' /\ problem' = problem /\ Compatible = {} /\ pc # "done" /\ pc' = "done"
      BY <1>3, NothingToPairStep, NothingToImproveStep
      DEF NothingToPair, NothingToImprove, Return, call
    <2>2. PairsOf(matchedRight') \subseteq Compatible
      BY <2>1 DEF IInv, ResultAgrees, PairsOf, Compatible
    <2> QED
      BY <2>1, <2>2, NobodyIsBest DEF IInv
  <1>4. CASE \/ BeginSquare \/ BeginRow \/ Scan \/ Flip \/ BeginLinear \/ Layers \/ NextRoot
             \/ TryRight \/ DeadEnd \/ BeginAuction \/ Bid
    BY <1>4 DEF BeginSquare, BeginRow, Scan, Flip, BeginLinear, Layers, NextRoot, TryRight,
           DeadEnd, BeginAuction, Bid, call
  <1>5. CASE UNCHANGED vars
    BY <1>5 DEF vars, call
  <1> QED
    BY <1>1, <1>2, <1>3, <1>4, <1>5 DEF Next, Returned

(* Both solvers implement the abstract pairing step by step, for lists of every *)
(* length, any scores and any seed: nothing is returned but a largest pairing   *)
(* of the highest score, once, and it stays (maximumCardinalityPairsInOrder,    *)
(* align.go).  This is ReturnsBestPairing without its fairness.                 *)
THEOREM PromiseIsKept ==
  Spec => Promise!Init
          /\ [][Promise!Solve]_<<problem, pc = "done",
                                 IF pc = "done" THEN PairsOf(matchedRight) ELSE {}>>
  <1>1. Init => LongInv /\ NoRegret
    BY DEF Init, LongInv, Largest, AuctionInv, Scaling, PricesAgree, StackComplete, NoRegret
  <1>2. Spec => [](IInv /\ SquareInv /\ NoRegret /\ LongInv)
    BY <1>1, SquareInvariance, LongStep, NoRegretStep, PTL DEF Spec
  <1>3. IInv /\ SquareInv /\ NoRegret /\ LongInv /\ [Next]_vars
          => [Promise!Solve]_<<problem, pc = "done",
                               IF pc = "done" THEN PairsOf(matchedRight) ELSE {}>>
    <2> SUFFICES ASSUME IInv, SquareInv, NoRegret, LongInv, [Next]_vars
                 PROVE  [Promise!Solve]_<<problem, pc = "done",
                               IF pc = "done" THEN PairsOf(matchedRight) ELSE {}>>
      OBVIOUS
    <2>1. /\ problem' = problem
          /\ pc = "done" => pc' = "done" /\ matchedRight' = matchedRight
          /\ pc # "done" /\ pc' = "done" => PairsOf(matchedRight') \in BestPairings(problem)
      BY StepKeepsPromise
    <2>2. CASE pc # "done" /\ pc' = "done"
      <3>1. BestPairings(problem) \subseteq Promise!BestPairings(problem)
        <4>1. Promise!Matchings(problem) = Matchings(problem)
          BY DEF Promise!Matchings, Matchings, Promise!IsMatching, IsMatching
        <4>2. \A score, pairs : Promise!Total(score, pairs) = Total(score, pairs)
          BY DEF Promise!Total, Total
        <4>3. \A pairs : Promise!Cardinality(pairs) = Cardinality(pairs)
          BY DEF Promise!Cardinality, Cardinality
        <4> QED
          BY <4>1, <4>2, <4>3 DEF Promise!BestPairings, BestPairings
      <3>2. PairsOf(matchedRight)' = PairsOf(matchedRight')
        BY DEF PairsOf
      <3> QED
        BY <2>1, <2>2, <3>1, <3>2 DEF Promise!Solve
    <2>3. CASE pc = "done" \/ pc' # "done"
      BY <2>1, <2>3 DEF PairsOf
    <2> QED
      BY <2>2, <2>3
  <1>4. Init => Promise!Init
    BY DEF Init, Promise!Init
  <1> QED
    BY <1>2, <1>3, <1>4, PTL DEF Spec
=============================================================================

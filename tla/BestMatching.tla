----------------------------- MODULE BestMatching -----------------------------
(***************************************************************************)
(* What pairing the entries of two lists promises: among the matchings of     *)
(* compatible entries that pair as many of them as possible, one whose        *)
(* scores add up to the most (the comments above                              *)
(* maximumWeightMaximumCardinalityPairs and improveMatchingScores,            *)
(* report/report/align.go).                                                   *)
(***************************************************************************)
EXTENDS Integers, FiniteSets

\* A problem is a record with a field score, a function from the compatible
\* pairs to numbers.
IsMatching(pairs) ==
  \A one, other \in pairs : (one[1] = other[1] \/ one[2] = other[2]) => one = other

Matchings(p) == {pairs \in SUBSET DOMAIN p.score : IsMatching(pairs)}

Total(score, pairs) ==
  LET total[some \in SUBSET pairs] ==
        IF some = {} THEN 0
        ELSE LET pair == CHOOSE pair \in some : TRUE
             IN score[pair] + total[some \ {pair}]
  IN total[pairs]

BestPairings(p) ==
  LET matchings == Matchings(p)
      largest == {pairs \in matchings :
                    \A other \in matchings : Cardinality(other) <= Cardinality(pairs)}
  IN {pairs \in largest :
        \A other \in largest : Total(p.score, other) <= Total(p.score, pairs)}
=============================================================================

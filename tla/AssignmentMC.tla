---------------------------- MODULE AssignmentMC ----------------------------
(* Small instances of Assignment: every score table of two and three entries *)
(* over a few scores, for both solvers, with the seeds of equal keys.        *)
EXTENDS Assignment

ProblemsOf(left, right, scores, limits, seeds) ==
  UNION {[left : {left}, right : {right}, limit : limits, seed : seeds,
          score : [edges -> scores]] : edges \in SUBSET ((1..left) \X (1..right))}

NoSeed(left) == {[l \in 1..left |-> 0]}

Seeds(left, right) ==
  {s \in [1..left -> 0..right] : \A k, l \in 1..left : s[k] = s[l] => k = l \/ s[k] = 0}

SmallProblems ==
  ProblemsOf(2, 2, {-1, 0, 2}, {4}, NoSeed(2)) \cup
  ProblemsOf(2, 2, {-1, 0, 2}, {0}, Seeds(2, 2)) \cup
  ProblemsOf(3, 2, {0, 2}, {5}, NoSeed(3)) \cup
  ProblemsOf(3, 2, {0, 2}, {0}, {<<0, 0, 0>>, <<2, 1, 0>>, <<0, 0, 1>>}) \cup
  ProblemsOf(2, 3, {0, 2}, {0, 5}, NoSeed(2)) \cup
  ProblemsOf(3, 3, {0}, {0, 6}, NoSeed(3) \cup {[l \in 1..3 |-> l]}) \cup
  ProblemsOf(0, 1, {0}, {0, 1}, NoSeed(0))
=============================================================================

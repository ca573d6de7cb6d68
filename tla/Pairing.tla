------------------------------- MODULE Pairing -------------------------------
(***************************************************************************)
(* The abstract pairing of two lists: a problem is given, and one of its best *)
(* pairings is returned.  Which of several is left open.                      *)
(***************************************************************************)
EXTENDS BestMatching

CONSTANT Problems  \* records with a field score

VARIABLES
  problem,  \* the two lists and their scores
  solved,   \* the pairing has been returned
  pairs     \* the pairing

Init ==
  /\ problem \in Problems
  /\ solved = FALSE
  /\ pairs = {}

Solve ==
  /\ ~solved
  /\ pairs' \in BestPairings(problem)
  /\ solved' = TRUE
  /\ UNCHANGED problem

\* Every pairing asked for is returned.
Spec == Init /\ [][Solve]_<<problem, solved, pairs>>
             /\ WF_<<problem, solved, pairs>>(Solve)
=============================================================================

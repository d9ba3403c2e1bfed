------------------------------ MODULE MCSubmission ------------------------------
(* A small instance of Submission for TLC.                                   *)
EXTENDS Submission, TLC

CONSTANTS c1, c2, t1, t2               \* model values: callers, transactions

MCCallers == {c1, c2}
MCTxs     == {t1, t2}
MCSymmetry == Permutations(MCCallers) \cup Permutations(MCTxs)
=============================================================================

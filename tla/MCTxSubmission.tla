--------------------------- MODULE MCTxSubmission ---------------------------
(* Instances of TxSubmission for TLC: a few requests served at the same    *)
(* time, every input for each of them.                                     *)
EXTENDS TxSubmission, TLC

\* Requests differ only in their input, which Init leaves open.
Symmetry == Permutations(Requests)

==============================================================================

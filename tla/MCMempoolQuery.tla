--------------------------- MODULE MCMempoolQuery ---------------------------
(* Instances of MempoolQuery for TLC: two queries for the same transaction *)
(* or for different ones, or with a path value that is not a hash.         *)
EXTENDS MempoolQuery, TLC

\* Queries differ only in what they ask, which Init leaves open; transactions
\* differ in nothing.
Symmetry == Permutations(Queries) \cup Permutations(Txs)

==============================================================================

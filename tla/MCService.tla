----------------------------- MODULE MCService ------------------------------
(* Instances of Service for TLC.                                           *)
EXTENDS Service, TLC

\* Every request submits the same transaction.
OneTx == [r \in Requests |-> "t"]

\* Queries differ only in what they ask, which ServiceInit leaves open.
Symmetry == Permutations(Queries)

==============================================================================

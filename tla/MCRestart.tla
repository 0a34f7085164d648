----------------------------- MODULE MCRestart ------------------------------
(* Instances of Restart for TLC.                                           *)
EXTENDS Restart

\* Two attempts for one transaction.
OneTx == [r \in Requests |-> "t"]

==============================================================================

------------------------------- MODULE Ledger --------------------------------
(***************************************************************************)
(* What the node's ledger adds to TxSubmission: several requests may       *)
(* submit one transaction, and the node takes it once.  A second           *)
(* submission of what is in its mempool, or was, is rejected, because the  *)
(* inputs it spends are gone.  Rollbacks of the chain are left out.        *)
(***************************************************************************)
EXTENDS TxSubmission

CONSTANT TxOf  \* the transaction a request submits

Txs == {TxOf[r] : r \in Requests}

\* The requests that submit the transaction of r.
Attempts(r) == {s \in Requests : TxOf[s] = TxOf[r]}

\* The node has taken the transaction of r, on whatever request.
Taken(r) == \E s \in Attempts(r) : link[s] = "accepted"

TakenTxs == {TxOf[r] : r \in {s \in Requests : link[s] = "accepted"}}

TakesOnce(r) ==
    /\ NodeVerdict(r)
    /\ link'[r] = "accepted" => ~Taken(r)

==============================================================================

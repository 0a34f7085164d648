------------------------------- MODULE Service -------------------------------
(***************************************************************************)
(* The two routes that talk to the node, together: submissions fill the    *)
(* node's mempool, blocks empty it, and clients ask GET /api/hastx for a   *)
(* transaction while its submissions are still running, or after them.     *)
(***************************************************************************)
EXTENDS Ledger

CONSTANTS Queries, NoHash

ASSUME NoHashAssumption == NoHash \notin Txs

VARIABLES
    qpc, asked, qconn, snapshot, qresponse, was,  \* MempoolQuery's
    gossip, \* transactions the node was given by others than this process
    left,   \* transactions that have left the mempool, in a block or expired
    told,   \* history: what clients knew to be accepted when a query arrived
    gone    \* history: what they knew to have left by then

historyVars == <<told, gone>>

\* What was ever in the mempool, and what is.
Entered == TakenTxs \cup gossip
mempool == Entered \ left

Query == INSTANCE MempoolQuery WITH
    pc <- qpc, conn <- qconn, response <- qresponse

queryVars == <<qpc, asked, qconn, snapshot, qresponse>>
serviceVars == <<vars, queryVars, was, gossip, left, historyVars>>

ServiceTypeOK ==
    /\ TypeOK
    /\ Query!TypeOK
    /\ gossip \in SUBSET Txs
    /\ left \in SUBSET Txs
    /\ told \in [Queries -> SUBSET Txs]
    /\ gone \in [Queries -> SUBSET Txs]

ServiceInit ==
    /\ Init
    /\ Query!QueryInit
    /\ gossip = {}
    /\ left = {}
    /\ told = [q \in Queries |-> {}]
    /\ gone = [q \in Queries |-> {}]

-----------------------------------------------------------------------------

\* The node rejects what it already has, from a request or from others.
Decision(r) ==
    /\ TakesOnce(r)
    /\ link'[r] = "accepted" => TxOf[r] \notin gossip

\* A step of a submission; queries see what it does to the mempool.
Submission(r) ==
    /\ \/ Handler(r) \/ Panic(r) \/ Drain(r)
       \/ Arrive(r) \/ Decision(r) \/ ConnError(r) \/ CloseChan(r)
    /\ UNCHANGED <<queryVars, gossip, left, historyVars>>
    /\ Query!Observe

\* The transactions a client has been told are in the mempool: by the 202 of a
\* submission, or by a query.
KnownAccepted ==
    {TxOf[r] : r \in AnsweredWith({202})}
      \cup {asked[q] : q \in {p \in Queries : qresponse[p] = 200}}

\* Those a client has been told are not, after it was told that they were.
KnownGone == {asked[q] : q \in {p \in Queries : qresponse[p] = 404 /\ asked[p] \in told[p]}}

Asked(q) ==
    /\ UNCHANGED <<vars, gossip, left>>
    /\ Query!Arrive(q)
    /\ told' = [told EXCEPT ![q] = KnownAccepted]
    /\ gone' = [gone EXCEPT ![q] = KnownGone]

QueryStep(q) ==
    /\ UNCHANGED <<vars, gossip, left, historyVars>>
    /\ Query!Handler(q) \/ Query!Panic(q)

\* A transaction reaches the node by another way: from its peers, or through
\* another process its client also gave it to.
Gossip ==
    /\ \E t \in Txs \ Entered : gossip' = gossip \cup {t}
    /\ UNCHANGED <<vars, queryVars, left, historyVars>>
    /\ Query!Observe

\* A block takes a transaction out of the mempool, or it expires.
Leave ==
    /\ \E t \in mempool : left' = left \cup {t}
    /\ UNCHANGED <<vars, queryVars, gossip, historyVars>>
    /\ Query!Observe

AllDone ==
    /\ \A r \in Requests : AtRest(r)
    /\ \A q \in Queries : qpc[q] = "done"
    /\ UNCHANGED serviceVars

ServiceNext ==
    \/ \E r \in Requests : Submission(r)
    \/ \E q \in Queries : Asked(q) \/ QueryStep(q)
    \/ Gossip \/ Leave
    \/ AllDone

ServiceSpec == ServiceInit /\ [][ServiceNext]_serviceVars

-----------------------------------------------------------------------------
(* What the two routes together tell a client.                             *)

\* A client that was told 202, or 200 by an earlier query, and then asks, is only
\* told 404 when the transaction has left the mempool: both answers are given for
\* what the node confirms later, whatever races with them.
AcceptedIsFound ==
    \A q \in Queries :
        qresponse[q] = 404 /\ asked[q] \in told[q] => asked[q] \in left

\* A client that was told that its transaction is in the mempool, and then that it
\* is not, may take it to be settled: no later query finds it again, though
\* another submission of it may run at that time and queries may fail.
GoneStaysGone ==
    \A q \in Queries : qresponse[q] = 200 => asked[q] \notin gone[q]

==============================================================================

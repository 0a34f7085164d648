--------------------------- MODULE SubmitContract ---------------------------
(***************************************************************************)
(* What POST /api/submit/tx promises, without connections, decoding,       *)
(* channels or goroutines: every request gets one verdict and one answer;  *)
(* "accepted" is only said of a transaction in the node's mempool, and     *)
(* only when it has been counted; "rejected" is only said of one the node  *)
(* turned down.  What is said of a failure says nothing of the mempool.    *)
(***************************************************************************)
EXTENDS Naturals, FiniteSets

CONSTANT Requests

VARIABLES
    verdict,    \* what the service concluded about a request
    mempool,    \* the requests whose transaction the node took
    refused,    \* the requests whose transaction the node turned down
    counted,    \* the requests in the totals
    tally,      \* tx_submit_requests_total, by result
    answered    \* the requests that have their response

vars == <<verdict, mempool, refused, counted, tally, answered>>

\* The verdicts that are counted; "uncounted" stands for the requests that
\* never became a submission attempt or that crashed.
Counted == {"accepted", "rejected", "error"}

Init ==
    /\ verdict = [r \in Requests |-> "pending"]
    /\ mempool = {}
    /\ refused = {}
    /\ counted = {}
    /\ tally = [v \in Counted |-> 0]
    /\ answered = {}

\* The node decides, once per request, before or after the service does.
Take(r) ==
    /\ r \notin mempool \cup refused
    /\ verdict[r] \notin {"accepted", "rejected"}
    /\ mempool' = mempool \cup {r}
    /\ UNCHANGED <<verdict, refused, counted, tally, answered>>

TurnDown(r) ==
    /\ r \notin mempool \cup refused
    /\ verdict[r] \notin {"accepted", "rejected"}
    /\ refused' = refused \cup {r}
    /\ UNCHANGED <<verdict, mempool, counted, tally, answered>>

Decide(r) ==
    /\ verdict[r] = "pending"
    /\ \E v \in Counted \cup {"uncounted"} :
          /\ v = "accepted" => r \in mempool
          /\ v = "rejected" => r \in refused
          /\ verdict' = [verdict EXCEPT ![r] = v]
    /\ UNCHANGED <<mempool, refused, counted, tally, answered>>

Count(r) ==
    /\ verdict[r] \in Counted
    /\ r \notin counted
    /\ counted' = counted \cup {r}
    /\ tally' = [tally EXCEPT ![verdict[r]] = @ + 1]
    /\ UNCHANGED <<verdict, mempool, refused, answered>>

Answer(r) ==
    /\ verdict[r] # "pending"
    /\ r \notin answered
    /\ verdict[r] = "accepted" => r \in counted
    /\ answered' = answered \cup {r}
    /\ UNCHANGED <<verdict, mempool, refused, counted, tally>>

Next == \E r \in Requests :
            Take(r) \/ TurnDown(r) \/ Decide(r) \/ Count(r) \/ Answer(r)

Spec == Init /\ [][Next]_vars

\* What was decided is counted and answered.
FairSpec ==
    /\ Spec
    /\ \A r \in Requests : WF_vars(Count(r)) /\ WF_vars(Answer(r))

==============================================================================

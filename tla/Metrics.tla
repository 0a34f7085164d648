------------------------------- MODULE Metrics -------------------------------
(***************************************************************************)
(* internal/metrics: the process-wide Prometheus collectors that the       *)
(* submission handler increments and the metrics listener exposes.  Each   *)
(* Inc() is atomic; a handler that makes several of them is interleaved    *)
(* with the other handlers and with scrapes between any two.               *)
(*                                                                         *)
(* A label value of a collector is abstracted to "one sample was added":   *)
(* contentTotal[f] is the sum over the labels of the collector of family f.*)
(***************************************************************************)
EXTENDS Naturals

VARIABLES
    submitCount,    \* gauge tx_submit_count
    failCount,      \* gauge tx_submit_fail_count
    requestsTotal,  \* counter tx_submit_requests_total, by its label "result"
    contentTotal    \* the three content counters, by family

metricsVars == <<submitCount, failCount, requestsTotal, contentTotal>>

\* The values RecordTxRequest is documented to take.
Results == {"accepted", "rejected", "error"}

\* The collectors RecordTxContent increments.
Families == {"script", "minting", "refs"}

MetricsTypeOK ==
    /\ submitCount \in Nat
    /\ failCount \in Nat
    /\ requestsTotal \in [Results -> Nat]
    /\ contentTotal \in [Families -> Nat]

MetricsInit ==
    /\ submitCount = 0
    /\ failCount = 0
    /\ requestsTotal = [v \in Results |-> 0]
    /\ contentTotal = [f \in Families |-> 0]

IncTxSubmitCount ==
    /\ submitCount' = submitCount + 1
    /\ UNCHANGED <<failCount, requestsTotal, contentTotal>>

IncTxSubmitFailCount ==
    /\ failCount' = failCount + 1
    /\ UNCHANGED <<submitCount, requestsTotal, contentTotal>>

RecordTxRequest(v) ==
    /\ requestsTotal' = [requestsTotal EXCEPT ![v] = @ + 1]
    /\ UNCHANGED <<submitCount, failCount, contentTotal>>

\* RecordTxContent is three increments; this is one of them.
RecordTxContent(f) ==
    /\ contentTotal' = [contentTotal EXCEPT ![f] = @ + 1]
    /\ UNCHANGED <<submitCount, failCount, requestsTotal>>

==============================================================================

---------------------------- MODULE TxSubmission ----------------------------
(***************************************************************************)
(* POST /api/submit/tx: the handler of internal/api/api.go, SubmitTx of    *)
(* submit/tx.go, the metrics they record, the recovery middleware around   *)
(* them and the goroutine that drains the error channel.  Every request is *)
(* served by a goroutine of its own; all of them share the collectors.     *)
(*                                                                         *)
(* The gouroboros connection and the Cardano node are outside the          *)
(* repository: NodeVerdict, Lose, ConnError and CloseChan say what the     *)
(* handler allows for.                                                     *)
(***************************************************************************)
EXTENDS Metrics, FiniteSets

CONSTANTS
    Requests,         \* the HTTP requests, each served once
    TimeoutTooLarge,  \* whether Node.Timeout exceeds math.MaxInt64
    ConnErrors        \* asynchronous errors one connection may raise

ASSUME RequestsAssumption == IsFiniteSet(Requests)
ASSUME TimeoutAssumption == TimeoutTooLarge \in BOOLEAN
ASSUME ConnErrorsAssumption == ConnErrors \in Nat

VARIABLES
    pc,        \* where the goroutine of a request is
    req,       \* what the client sent
    txInfo,    \* whether ParseTxInfo returned content signals
    result,    \* what the handler has concluded about the submission
    response,  \* the status code written, 0 before that
    conn,      \* the Ouroboros connection of the request
    link,      \* the submission on that connection, as the node sees it
    raised,    \* asynchronous errors the connection has sent to errorChan
    unread,    \* those of them nobody has received
    drain      \* the goroutine that drains errorChan after a success

handlerVars == <<pc, req, txInfo, result, response>>
nodeVars    == <<conn, link>>
chanVars    == <<raised, unread>>
vars == <<handlerVars, nodeVars, chanVars, drain, metricsVars>>

\* make(chan error, 1)
ErrorChanCap == 1

\* What the handler makes of a request: a Content-Type other than
\* application/cbor, a body io.ReadAll does not return, one the decoders do not
\* take, or a transaction.
Inputs == {"wrongType", "tooLarge", "broken", "garbage", "tx"}

\* The program points of the handler between two steps that others can see.
Points == {"idle", "contentType", "readBody", "parse", "validate", "dial",
           "send", "await", "close", "incSubmit", "incFail", "incResult",
           "reply", "recover", "done"} \cup Families

TypeOK ==
    /\ MetricsTypeOK
    /\ pc \in [Requests -> Points]
    /\ req \in [Requests -> Inputs]
    /\ txInfo \in [Requests -> BOOLEAN]
    /\ result \in [Requests -> Results \cup {"none", "refused", "panic"}]
    /\ response \in [Requests -> {0, 202, 400, 413, 415, 500}]
    /\ conn \in [Requests -> {"none", "open", "closing", "closed"}]
    /\ link \in [Requests -> {"none", "sent", "accepted", "rejected", "lost"}]
    /\ raised \in [Requests -> Nat]
    /\ unread \in [Requests -> Nat]
    /\ drain \in [Requests -> {"none", "waiting", "done"}]

Init ==
    /\ MetricsInit
    /\ pc = [r \in Requests |-> "idle"]
    /\ req \in [Requests -> Inputs]
    /\ txInfo = [r \in Requests |-> FALSE]
    /\ result = [r \in Requests |-> "none"]
    /\ response = [r \in Requests |-> 0]
    /\ conn = [r \in Requests |-> "none"]
    /\ link = [r \in Requests |-> "none"]
    /\ raised = [r \in Requests |-> 0]
    /\ unread = [r \in Requests |-> 0]
    /\ drain = [r \in Requests |-> "none"]

Goto(r, from, to) == pc[r] = from /\ pc' = [pc EXCEPT ![r] = to]

\* A step that only moves on, and one that also concludes the submission.
Move(r, from, to) ==
    /\ Goto(r, from, to)
    /\ UNCHANGED <<req, txInfo, result, response, nodeVars, chanVars, drain,
                   metricsVars>>

Conclude(r, from, to, v) ==
    /\ Goto(r, from, to)
    /\ result' = [result EXCEPT ![r] = v]
    /\ UNCHANGED <<req, txInfo, response, nodeVars, chanVars, drain, metricsVars>>

-----------------------------------------------------------------------------
(* The handler, from its entry to the call of SubmitTx.                    *)

Arrive(r) == Move(r, "idle", "contentType")

CheckContentType(r) ==
    \/ req[r] # "wrongType" /\ Move(r, "contentType", "readBody")
    \/ req[r] = "wrongType" /\ Conclude(r, "contentType", "reply", "refused")

ReadBody(r) ==
    \/ req[r] \in {"garbage", "tx"} /\ Move(r, "readBody", "parse")
    \/ req[r] \in {"tooLarge", "broken"} /\ Conclude(r, "readBody", "reply", "error")

\* The two decoding calls that ParseTxInfo and SubmitTx both make take the bytes.
Decodes(r) == req[r] = "tx"

\* Best effort: bytes that do not decode leave txInfo nil and go on.
ParseTxInfo(r) ==
    /\ Goto(r, "parse", "validate")
    /\ txInfo' = [txInfo EXCEPT ![r] = Decodes(r)]
    /\ UNCHANGED <<req, result, response, nodeVars, chanVars, drain, metricsVars>>

-----------------------------------------------------------------------------
(* SubmitTx.  Once the connection is open, the deferred Close runs before  *)
(* the handler sees the outcome.                                           *)

\* The timeout guard, then the decoding SubmitTx does for itself.
Submittable(r) == ~TimeoutTooLarge /\ Decodes(r)

Validate(r) ==
    \/ Submittable(r) /\ Move(r, "validate", "dial")
    \/ ~Submittable(r) /\ Conclude(r, "validate", "reply", "error")

DialNode(r) ==
    \/ /\ Goto(r, "dial", "send")
       /\ conn' = [conn EXCEPT ![r] = "open"]
       /\ UNCHANGED <<req, txInfo, result, response, link, chanVars, drain,
                      metricsVars>>
    \/ Conclude(r, "dial", "reply", "error")

Send(r) ==
    /\ Goto(r, "send", "await")
    /\ link' = [link EXCEPT ![r] = "sent"]
    /\ UNCHANGED <<req, txInfo, result, response, conn, chanVars, drain,
                   metricsVars>>

\* Mutants of Await: a timeout is taken for an acceptance; any error is taken
\* for the node's rejection; there is no timeout.
AwaitOptimistic(r) ==
    \E v \in {"accepted", "error"} : Conclude(r, "await", "close", v)

AwaitBlamesNode(r) ==
    \/ link[r] = "accepted" /\ Conclude(r, "await", "close", "accepted")
    \/ Conclude(r, "await", "close", "rejected")

AwaitForever(r) ==
    \E v \in {"accepted", "rejected"} :
        link[r] = v /\ Conclude(r, "await", "close", v)

\* Client.SubmitTx returns the node's verdict, or an error: its timeout, or a
\* connection that failed.  The error may come when the node has already
\* decided.
Await(r) ==
    \/ link[r] = "accepted" /\ Conclude(r, "await", "close", "accepted")
    \/ link[r] = "rejected" /\ Conclude(r, "await", "close", "rejected")
    \/ Conclude(r, "await", "close", "error")

\* Mutants of AfterClose: the submission is not counted; a success is answered
\* before it is counted.
UncountedSubmit(r) ==
    CASE result[r] = "accepted" -> "incResult"
      [] result[r] = "panic" -> "recover"
      [] OTHER -> "reply"

AnswerFirst(r) == IF result[r] = "panic" THEN "recover" ELSE "reply"

\* The deferred oConn.Close(), on return and on panic alike.
AfterClose(r) ==
    CASE result[r] = "accepted" -> "incSubmit"
      [] result[r] = "panic" -> "recover"
      [] OTHER -> "reply"

Close(r) ==
    /\ Goto(r, "close", AfterClose(r))
    /\ conn' = [conn EXCEPT ![r] = "closing"]
    /\ UNCHANGED <<req, txInfo, result, response, link, chanVars, drain,
                   metricsVars>>

-----------------------------------------------------------------------------
(* Outcome: a failure is answered and then counted, a success is counted   *)
(* and then answered.                                                      *)

\* The Accept header is read only for an error of SubmitTx: a client that
\* accepts CBOR is told 500, any other client 400.
ErrorStatuses(r) ==
    CASE req[r] = "tooLarge" -> {413}
      [] req[r] = "broken" -> {500}
      [] OTHER -> {400, 500}

Statuses(r) ==
    CASE result[r] = "refused" -> {415}
      [] result[r] = "accepted" -> {202}
      [] result[r] = "rejected" -> {400}
      [] result[r] = "error" -> ErrorStatuses(r)

\* The response is written; after a success the drain goroutine starts.
Reply(r) ==
    /\ pc[r] = "reply"
    /\ \E code \in Statuses(r) : response' = [response EXCEPT ![r] = code]
    /\ IF result[r] = "accepted"
         THEN /\ Goto(r, "reply", "done")
              /\ drain' = [drain EXCEPT ![r] = "waiting"]
         ELSE Goto(r, "reply", "incFail") /\ UNCHANGED drain
    /\ UNCHANGED <<req, txInfo, result, nodeVars, chanVars, metricsVars>>

\* A step that moves on and increments a collector.
Record(r, from, to, Increment) ==
    /\ Goto(r, from, to)
    /\ Increment
    /\ UNCHANGED <<req, txInfo, result, response, nodeVars, chanVars, drain>>

CountSubmit(r) == Record(r, "incSubmit", "incResult", IncTxSubmitCount)

\* Mutants of CountFail: a failure is not counted; a wrong content type is not.
UncountedFail(r) ==
    Move(r, "incFail", IF result[r] = "refused" THEN "done" ELSE "incResult")

UncountedRefusal(r) ==
    \/ result[r] = "refused" /\ Move(r, "incFail", "done")
    \/ result[r] # "refused" /\ Record(r, "incFail", "incResult", IncTxSubmitFailCount)

\* A wrong content type counts as a failure only.
CountFail(r) ==
    Record(r, "incFail", IF result[r] = "refused" THEN "done" ELSE "incResult",
           IncTxSubmitFailCount)

\* Where the handler goes when the metrics are recorded.
AfterMetrics(r) == IF result[r] = "accepted" THEN "reply" ELSE "done"

CountResult(r) ==
    Record(r, "incResult", IF txInfo[r] THEN "script" ELSE AfterMetrics(r),
           RecordTxRequest(result[r]))

\* Mutant of CountContent: the counters are incremented in another order.
ReorderedContent(r) ==
    \/ Record(r, "script", "minting", RecordTxContent("refs"))
    \/ Record(r, "minting", "refs", RecordTxContent("script"))
    \/ Record(r, "refs", AfterMetrics(r), RecordTxContent("minting"))

CountContent(r) ==
    \/ Record(r, "script", "minting", RecordTxContent("script"))
    \/ Record(r, "minting", "refs", RecordTxContent("minting"))
    \/ Record(r, "refs", AfterMetrics(r), RecordTxContent("refs"))

-----------------------------------------------------------------------------
(* A panic in the decoding or submission code: unwinding runs the deferred *)
(* Close of an open connection, then recoveryMiddleware answers 500.  No   *)
(* collector is touched.                                                   *)

\* Mutant of Panic: Close is called where SubmitTx returns, not deferred.
PanicSkipsClose(r) ==
    /\ pc[r] \in {"parse", "validate", "dial", "send", "await"}
    /\ Conclude(r, pc[r], "recover", "panic")

Panic(r) ==
    /\ pc[r] \in {"parse", "validate", "dial", "send", "await"}
    /\ Conclude(r, pc[r], IF conn[r] = "open" THEN "close" ELSE "recover", "panic")

Recover(r) ==
    /\ Goto(r, "recover", "done")
    /\ response' = [response EXCEPT ![r] = 500]
    /\ UNCHANGED <<req, txInfo, result, nodeVars, chanVars, drain, metricsVars>>

-----------------------------------------------------------------------------
(* The drain goroutine: one select over errorChan and time.After.          *)

EndDrain(r) ==
    /\ drain[r] = "waiting"
    /\ drain' = [drain EXCEPT ![r] = "done"]
    /\ UNCHANGED <<handlerVars, nodeVars, raised, metricsVars>>

\* Mutant of DrainReceive: an error after the submission turns the accepted result
\* into an error.
DrainRevises(r) ==
    /\ drain[r] = "waiting" /\ unread[r] > 0
    /\ drain' = [drain EXCEPT ![r] = "done"]
    /\ unread' = [unread EXCEPT ![r] = @ - 1]
    /\ result' = [result EXCEPT ![r] = "error"]
    /\ UNCHANGED <<pc, req, txInfo, response, nodeVars, raised, metricsVars>>

DrainReceive(r) ==
    /\ unread[r] > 0
    /\ unread' = [unread EXCEPT ![r] = @ - 1]
    /\ EndDrain(r)

\* The receive of a closed, empty channel.
DrainClosed(r) ==
    /\ conn[r] = "closed" /\ unread[r] = 0
    /\ EndDrain(r)
    /\ UNCHANGED unread

DrainTimeout(r) == EndDrain(r) /\ UNCHANGED unread

-----------------------------------------------------------------------------
(* The environment: the node and the connection's own goroutines.          *)

\* The node takes the transaction into its mempool or refuses it, or never
\* gets to it.  It may decide after the handler has given up.
NodeVerdict(r) ==
    /\ link[r] = "sent"
    /\ \E v \in {"accepted", "rejected", "lost"} : link' = [link EXCEPT ![r] = v]
    /\ UNCHANGED <<handlerVars, conn, chanVars, drain, metricsVars>>

\* A goroutine of the connection is blocked in a send on errorChan.
SenderBlocked(r) == unread[r] > ErrorChanCap

ConnError(r) ==
    /\ conn[r] \in {"open", "closing"}
    /\ ~SenderBlocked(r)
    /\ raised[r] < ConnErrors
    /\ raised' = [raised EXCEPT ![r] = @ + 1]
    /\ unread' = [unread EXCEPT ![r] = @ + 1]
    /\ UNCHANGED <<handlerVars, nodeVars, drain, metricsVars>>

\* The connection has shut down and closes errorChan; a goroutine still
\* blocked in a send holds it back.
CloseChan(r) ==
    /\ conn[r] = "closing"
    /\ ~SenderBlocked(r)
    /\ conn' = [conn EXCEPT ![r] = "closed"]
    /\ UNCHANGED <<handlerVars, link, chanVars, drain, metricsVars>>

-----------------------------------------------------------------------------

Handler(r) ==
    \/ CheckContentType(r) \/ ReadBody(r) \/ ParseTxInfo(r) \/ Validate(r)
    \/ DialNode(r) \/ Send(r) \/ Await(r) \/ Close(r) \/ Reply(r) \/ Recover(r)
    \/ CountSubmit(r) \/ CountFail(r) \/ CountResult(r) \/ CountContent(r)

\* Mutant of Drain: a bare receive of an error, without the timeout.
DrainErrorsOnly(r) == DrainReceive(r)

Drain(r) == DrainReceive(r) \/ DrainClosed(r) \/ DrainTimeout(r)

Environment(r) == Arrive(r) \/ NodeVerdict(r) \/ ConnError(r) \/ CloseChan(r)

AtRest(r) == pc[r] = "done" /\ drain[r] # "waiting"

\* Every request served: only the environment can still move.
Terminating == (\A r \in Requests : AtRest(r)) /\ UNCHANGED vars

Next ==
    \/ \E r \in Requests : Handler(r) \/ Panic(r) \/ Drain(r) \/ Environment(r)
    \/ Terminating

Spec == Init /\ [][Next]_vars

\* A goroutine that can run is scheduled.  Nothing is assumed of the node or
\* of the client: Await ends by the configured timeout.  The connection
\* finishes the shutdown that Close began.
Fairness ==
    \A r \in Requests :
        /\ WF_vars(Handler(r))
        /\ WF_vars(Drain(r))
        /\ WF_vars(CloseChan(r))

FairSpec == Spec /\ Fairness

-----------------------------------------------------------------------------
(* Where a request stands in the collectors, read off its program point.   *)

\* Its submission was counted by IncTxSubmitCount.
SubmitCounted(r) ==
    /\ result[r] = "accepted"
    /\ pc[r] \in {"incResult", "reply", "done"} \cup Families

\* Its failure was counted by IncTxSubmitFailCount.
FailCounted(r) ==
    /\ result[r] \in {"refused", "rejected", "error"}
    /\ pc[r] \in {"incResult", "done"} \cup Families

\* Its result was counted by RecordTxRequest.
ResultCounted(r) ==
    \/ result[r] = "accepted" /\ pc[r] \in {"reply", "done"} \cup Families
    \/ result[r] \in {"rejected", "error"} /\ pc[r] \in {"done"} \cup Families

\* Its content signals were counted in family f.
ContentCounted(r, f) ==
    /\ txInfo[r]
    /\ ResultCounted(r)
    /\ pc[r] \notin CASE f = "script" -> {"script"}
                      [] f = "minting" -> {"script", "minting"}
                      [] f = "refs" -> {"script", "minting", "refs"}

AnsweredWith(codes) == {r \in Requests : response[r] \in codes}

-----------------------------------------------------------------------------
(* Safety.                                                                 *)

\* api.go "AcceptTx received synchronously": a 202 is only ever written for a
\* transaction that is in the node's mempool, whatever errors the connection
\* raised meanwhile.
AcceptedMeansInMempool ==
    \A r \in Requests : response[r] = 202 => link[r] = "accepted"

\* "rejected" is counted only for a transaction the node itself turned down; a
\* timeout or a broken connection is never reported as the node's rejection,
\* although SubmitTx words all of them "transaction rejected".
RejectionIsTheNodes ==
    \A r \in Requests : result[r] = "rejected" => link[r] = "rejected"

\* api.go "Record success before responding so metrics always agree with the
\* HTTP status": at every moment the 202s seen by clients are at most the
\* accepted results counted, those at most the submissions counted, and those
\* at most the transactions in the mempool.
SuccessesAgree ==
    /\ Cardinality(AnsweredWith({202})) <= requestsTotal["accepted"]
    /\ requestsTotal["accepted"] <= submitCount
    /\ submitCount <= Cardinality({r \in Requests : link[r] = "accepted"})

\* A failure is answered first and counted after it: the results counted as
\* failures never exceed the failure gauge, and the gauge never exceeds the
\* failures answered.
FailuresAgree ==
    /\ requestsTotal["rejected"] + requestsTotal["error"] <= failCount
    /\ failCount <= Cardinality(AnsweredWith({400, 413, 415, 500}))

\* When every request has been served, the collectors say exactly what the
\* clients were told: one submission per 202, one failure per other answer that
\* did not come from the recovery middleware, and a result for each of these
\* but the 415s.
TotalsAtRest ==
    (\A r \in Requests : pc[r] \in {"idle", "done"}) =>
        LET panicked == {r \in Requests : result[r] = "panic"}
            failed == AnsweredWith({400, 413, 415, 500}) \ panicked
        IN  /\ submitCount = Cardinality(AnsweredWith({202}))
            /\ requestsTotal["accepted"] = submitCount
            /\ failCount = Cardinality(failed)
            /\ requestsTotal["rejected"] + requestsTotal["error"]
                 = Cardinality(failed \ AnsweredWith({415}))

\* RecordTxContent's three counters are incremented one after another: at a given
\* moment they may differ, but never in the wrong order, by more than the handlers
\* at work, or above the results counted.
ContentLagsResults ==
    /\ contentTotal["refs"] <= contentTotal["minting"]
    /\ contentTotal["minting"] <= contentTotal["script"]
    /\ contentTotal["script"]
         <= requestsTotal["accepted"] + requestsTotal["rejected"]
              + requestsTotal["error"]
    /\ contentTotal["script"] - contentTotal["refs"]
         <= Cardinality({r \in Requests : pc[r] \in {"minting", "refs"}})

\* The collectors agree with the answers, with the node and with each other while
\* handlers are between two increments, in both orders that the code has.
CollectorsAgree == SuccessesAgree /\ FailuresAgree /\ ContentLagsResults

\* tx.go "defer oConn.Close()": no answer is given, by the handler or by the
\* recovery middleware, while the connection of the request is still open.
NoAnswerWhileConnected ==
    \A r \in Requests : response[r] # 0 => conn[r] # "open"

\* With Node.Timeout beyond what SubmitTx takes, no node is ever dialled, and
\* nothing but a failure is counted.
HugeTimeoutNeverDials ==
    TimeoutTooLarge =>
        /\ \A r \in Requests : conn[r] = "none" /\ link[r] = "none"
        /\ submitCount + requestsTotal["accepted"] + requestsTotal["rejected"] = 0

\* A client is told once, and what it was told and what is counted about a
\* request is never revised: not by a late verdict of the node, nor by an error
\* the connection raises after the answer.
OutcomeIsFinal ==
    [][\A r \in Requests :
          /\ response[r] # 0 => response'[r] = response[r]
          /\ result[r] \in Results \cup {"refused"} => result'[r] = result[r]
          /\ AtRest(r) => AtRest(r)' /\ conn'[r] # "open"]_vars

-----------------------------------------------------------------------------
(* Liveness, under FairSpec.                                               *)

\* A request that reached the handler is answered and its handler returns,
\* whether or not the node ever speaks.
EveryRequestServed ==
    \A r \in Requests : pc[r] = "contentType" ~> pc[r] = "done" /\ response[r] # 0

\* The drain goroutine that outlives the handler ends, and a connection that
\* raises no more errors than errorChan holds is shut down completely, on every
\* path: no goroutine of it stays blocked on a channel that the failure paths
\* never read.
NothingLeftBehind ==
    \A r \in Requests :
        /\ drain[r] = "waiting" ~> drain[r] = "done"
        /\ ConnErrors <= ErrorChanCap => (conn[r] = "open" ~> conn[r] = "closed")

-----------------------------------------------------------------------------
(* The handler implements the contract.                                    *)

Verdict(r) ==
    CASE result[r] = "none" -> "pending"
      [] result[r] \in {"refused", "panic"} -> "uncounted"
      [] OTHER -> result[r]

Contract == INSTANCE SubmitContract WITH
    verdict  <- [r \in Requests |-> Verdict(r)],
    mempool  <- {r \in Requests : link[r] = "accepted"},
    refused  <- {r \in Requests : link[r] = "rejected"},
    counted  <- {r \in Requests : ResultCounted(r)},
    tally    <- requestsTotal,
    answered <- {r \in Requests : response[r] # 0}

\* The interleaved handlers behave as the contract says, and under the fairness
\* of the scheduler they keep its promise to count and to answer.
ImplementsContract == Contract!FairSpec

==============================================================================

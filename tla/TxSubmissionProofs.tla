------------------------- MODULE TxSubmissionProofs -------------------------
(***************************************************************************)
(* Proofs about TxSubmission for any finite set of requests, any timeout   *)
(* configuration and any number of connection errors.                      *)
(*                                                                         *)
(* The inductive invariant IInv says, of every request, what its program   *)
(* point tells about its result, connection and answer, and, of every      *)
(* collector, that it is the number of requests past the increment.        *)
(***************************************************************************)
EXTENDS TxSubmission, FiniteSetTheorems, TLAPS

Undecided == {"idle", "contentType", "readBody", "parse", "validate", "dial",
              "send", "await"}

\* The results a handler can hold at a program point.
ResultFitsPoint(r) ==
    /\ pc[r] \in Undecided <=> result[r] = "none"
    /\ pc[r] = "close" => result[r] \in Results \cup {"panic"}
    /\ pc[r] = "incSubmit" => result[r] = "accepted"
    /\ pc[r] = "incFail" => result[r] \in {"refused", "rejected", "error"}
    /\ pc[r] \in {"incResult"} \cup Families => result[r] \in Results
    /\ pc[r] = "reply" => result[r] \in Results \cup {"refused"}
    /\ pc[r] = "recover" => result[r] = "panic"

\* The connection is open exactly between DialNode and the deferred Close, and
\* a verdict the handler holds is the node's.
NodeFitsPoint(r) ==
    /\ conn[r] = "open" <=> pc[r] \in {"send", "await", "close"}
    /\ pc[r] \in Undecided \ {"await"} => link[r] = "none"
    /\ result[r] = "accepted" => link[r] = "accepted"
    /\ result[r] = "rejected" => link[r] = "rejected"

\* The points behind the write of the response.
Answered(r) ==
    \/ pc[r] \in {"incFail", "done"}
    \/ pc[r] \in {"incResult"} \cup Families /\ result[r] # "accepted"

AnswerFitsPoint(r) ==
    /\ response[r] # 0 <=> Answered(r)
    /\ response[r] # 0 => (response[r] = 202 <=> result[r] = "accepted")
    /\ response[r] # 0 => (response[r] = 415 <=> result[r] = "refused")
    /\ drain[r] # "none" => pc[r] = "done" /\ result[r] = "accepted"
    /\ pc[r] \in Families => txInfo[r]
    /\ unread[r] <= raised[r]

LocalInv ==
    \A r \in Requests : ResultFitsPoint(r) /\ NodeFitsPoint(r) /\ AnswerFitsPoint(r)

\* The same of one request, and what a step of it may change.
Fits(r) == ResultFitsPoint(r) /\ NodeFitsPoint(r) /\ AnswerFitsPoint(r)

RequestStep(r) == Handler(r) \/ Panic(r) \/ Drain(r) \/ Environment(r)

SameRequest(q) ==
    /\ pc'[q] = pc[q] /\ txInfo'[q] = txInfo[q] /\ result'[q] = result[q]
    /\ response'[q] = response[q] /\ conn'[q] = conn[q] /\ link'[q] = link[q]
    /\ raised'[q] = raised[q] /\ unread'[q] = unread[q] /\ drain'[q] = drain[q]

\* The requests of S that each collector counts.
SubmitSet(S)     == {r \in S : SubmitCounted(r)}
FailSet(S)       == {r \in S : FailCounted(r)}
ResultSet(S, v)  == {r \in S : ResultCounted(r) /\ result[r] = v}
ContentSet(S, f) == {r \in S : ContentCounted(r, f)}

\* The collectors count the requests of S, and no others.
Counts(S) ==
    /\ submitCount = Cardinality(SubmitSet(S))
    /\ failCount = Cardinality(FailSet(S))
    /\ \A v \in Results : requestsTotal[v] = Cardinality(ResultSet(S, v))
    /\ \A f \in Families : contentTotal[f] = Cardinality(ContentSet(S, f))

IInv == TypeOK /\ LocalInv /\ Counts(Requests)

-----------------------------------------------------------------------------
\* A 202 is written for "accepted" and nothing else, a 415 for "refused".
LEMMA StatusFitsResult ==
    ASSUME NEW r \in Requests, result[r] \in Results \cup {"refused"},
           NEW code \in Statuses(r)
    PROVE  /\ code \in {202, 400, 413, 415, 500}
           /\ code = 202 <=> result[r] = "accepted"
           /\ code = 415 <=> result[r] = "refused"
<1>1. CASE result[r] = "refused"
  BY <1>1 DEF Statuses
<1>2. CASE result[r] = "accepted"
  BY <1>2 DEF Statuses
<1>3. CASE result[r] = "rejected"
  BY <1>3 DEF Statuses
<1>4. CASE result[r] = "error"
  BY <1>4 DEF Statuses, ErrorStatuses
<1>5. QED BY <1>1, <1>2, <1>3, <1>4 DEF Results

-----------------------------------------------------------------------------
(* Types.                                                                  *)

\* A step of a request keeps the types; the label RecordTxRequest is given is a
\* result because of what the program point tells.
LEMMA TypesKept ==
    ASSUME TypeOK, NEW r \in Requests, ResultFitsPoint(r), RequestStep(r) PROVE TypeOK'
<1> USE DEF TypeOK, MetricsTypeOK, Results, Families, Points, Inputs
<1>1. CASE Handler(r)
  <2> USE DEF Goto, Move, Conclude, handlerVars, nodeVars, chanVars, metricsVars
  <2>1. CASE CheckContentType(r) \/ ReadBody(r) \/ Validate(r) \/ Await(r)
    BY <2>1 DEF CheckContentType, ReadBody, Validate, Await
  <2>2. CASE ParseTxInfo(r)
    BY <2>2 DEF ParseTxInfo, Decodes
  <2>3. CASE Send(r)
    BY <2>3 DEF Send
  <2>4. CASE Recover(r)
    BY <2>4 DEF Recover
  <2>5. CASE DialNode(r)
    BY <2>5 DEF DialNode
  <2>6. CASE Close(r)
    BY <2>6 DEF Close, AfterClose
  <2>7. CASE Reply(r)
    <3>1. PICK code \in Statuses(r) : response' = [response EXCEPT ![r] = code]
      BY <2>7 DEF Reply
    <3>2. result[r] \in Results \cup {"refused"}
      BY <2>7 DEF Reply, ResultFitsPoint
    <3>3. code \in {202, 400, 413, 415, 500}
      BY <3>1, <3>2, StatusFitsResult
    <3>4. QED BY <2>7, <3>1, <3>3 DEF Reply
  <2>8. CASE CountSubmit(r) \/ CountFail(r)
    BY <2>8 DEF CountSubmit, CountFail, Record, IncTxSubmitCount,
                IncTxSubmitFailCount
  <2>9. CASE CountResult(r)
    <3>1. result[r] \in Results
      BY <2>9 DEF CountResult, Record, ResultFitsPoint
    <3>2. QED BY <2>9, <3>1 DEF CountResult, Record, RecordTxRequest, AfterMetrics
  <2>10. CASE CountContent(r)
    BY <2>10 DEF CountContent, Record, RecordTxContent, AfterMetrics
  <2>11. QED
    BY <1>1, <2>1, <2>2, <2>3, <2>4, <2>5, <2>6, <2>7, <2>8, <2>9, <2>10 DEF Handler
<1>2. CASE Panic(r)
  BY <1>2 DEF Panic, Conclude, Goto, nodeVars, chanVars, metricsVars
<1>3. CASE Drain(r)
  BY <1>3 DEF Drain, DrainReceive, DrainClosed, DrainTimeout, EndDrain,
              handlerVars, nodeVars, chanVars, metricsVars
<1>4. CASE Environment(r)
  BY <1>4 DEF Environment, Arrive, Move, Goto, NodeVerdict, ConnError,
              CloseChan, handlerVars, nodeVars, chanVars, metricsVars
<1>5. QED BY <1>1, <1>2, <1>3, <1>4 DEF RequestStep

\* Every step keeps the types.
LEMMA TypeStep == ASSUME TypeOK, LocalInv, [Next]_vars PROVE TypeOK'
<1>1. CASE UNCHANGED vars
  BY <1>1 DEF TypeOK, MetricsTypeOK, vars, handlerVars, nodeVars, chanVars, metricsVars
<1>2. ASSUME NEW r \in Requests, RequestStep(r) PROVE TypeOK'
  BY <1>2, TypesKept DEF LocalInv
<1>3. QED BY <1>1, <1>2 DEF Next, Terminating, RequestStep

-----------------------------------------------------------------------------
(* What a program point tells.                                             *)

\* A step of a request keeps the relation between its program point and the rest
\* of its state.
LEMMA FitsStep ==
    ASSUME TypeOK, NEW r \in Requests, Fits(r), RequestStep(r) PROVE Fits(r)'
<1> USE DEF TypeOK, Results, Families, Undecided, Answered, Fits,
            ResultFitsPoint, NodeFitsPoint, AnswerFitsPoint
<1>1. CASE Handler(r)
  <2> USE DEF Goto, Move, Conclude, nodeVars, chanVars
  <2>1. CASE CheckContentType(r)
    BY <2>1 DEF CheckContentType
  <2>2. CASE ReadBody(r)
    BY <2>2 DEF ReadBody
  <2>3. CASE ParseTxInfo(r)
    BY <2>3 DEF ParseTxInfo, Decodes
  <2>4. CASE Validate(r)
    BY <2>4 DEF Validate
  <2>5. CASE DialNode(r)
    BY <2>5 DEF DialNode
  <2>6. CASE Send(r)
    BY <2>6 DEF Send
  <2>7. CASE Await(r)
    BY <2>7 DEF Await
  <2>8. CASE Close(r)
    BY <2>8 DEF Close, AfterClose
  <2>9. CASE Reply(r)
    <3>1. PICK code \in Statuses(r) : response' = [response EXCEPT ![r] = code]
      BY <2>9 DEF Reply
    <3>2. result[r] \in Results \cup {"refused"} /\ pc[r] = "reply"
      BY <2>9 DEF Reply
    <3>3. /\ code \in {202, 400, 413, 415, 500}
          /\ code = 202 <=> result[r] = "accepted"
          /\ code = 415 <=> result[r] = "refused"
      BY <3>1, <3>2, StatusFitsResult
    <3>4. CASE result[r] = "accepted"
      BY <2>9, <3>1, <3>3, <3>4 DEF Reply
    <3>5. CASE result[r] # "accepted"
      BY <2>9, <3>1, <3>2, <3>3, <3>5 DEF Reply
    <3>6. QED BY <3>4, <3>5
  <2>10. CASE Recover(r)
    BY <2>10 DEF Recover
  <2>11. CASE CountSubmit(r)
    BY <2>11 DEF CountSubmit, Record
  <2>12. CASE CountFail(r)
    BY <2>12 DEF CountFail, Record
  <2>13. CASE CountResult(r)
    BY <2>13 DEF CountResult, Record, AfterMetrics
  <2>14. CASE CountContent(r)
    BY <2>14 DEF CountContent, Record, AfterMetrics
  <2>15. QED
    BY <1>1, <2>1, <2>2, <2>3, <2>4, <2>5, <2>6, <2>7, <2>8, <2>9, <2>10, <2>11,
       <2>12, <2>13, <2>14 DEF Handler
<1>2. CASE Panic(r)
  BY <1>2 DEF Panic, Conclude, Goto, nodeVars, chanVars
<1>3. CASE Drain(r)
  <2> USE DEF EndDrain, handlerVars, nodeVars, chanVars
  <2>1. CASE DrainReceive(r)
    BY <2>1 DEF DrainReceive
  <2>2. CASE DrainClosed(r)
    BY <2>2 DEF DrainClosed
  <2>3. CASE DrainTimeout(r)
    BY <2>3 DEF DrainTimeout
  <2>4. QED BY <1>3, <2>1, <2>2, <2>3 DEF Drain
<1>4. CASE Environment(r)
  <2> USE DEF handlerVars, nodeVars, chanVars
  <2>1. CASE Arrive(r)
    BY <2>1 DEF Arrive, Move, Goto
  <2>2. CASE NodeVerdict(r)
    BY <2>2 DEF NodeVerdict
  <2>3. CASE ConnError(r)
    BY <2>3 DEF ConnError
  <2>4. CASE CloseChan(r)
    BY <2>4 DEF CloseChan
  <2>5. QED BY <1>4, <2>1, <2>2, <2>3, <2>4 DEF Environment
<1>5. QED BY <1>1, <1>2, <1>3, <1>4 DEF RequestStep

\* A step of one request changes nothing of another.
LEMMA OthersStand ==
    ASSUME TypeOK, NEW r \in Requests, RequestStep(r), NEW q \in Requests \ {r}
    PROVE  SameRequest(q)
<1> USE DEF TypeOK, SameRequest, Goto, Move, Conclude, Record, handlerVars, nodeVars,
            chanVars
<1>1. CASE CheckContentType(r) \/ ReadBody(r) \/ ParseTxInfo(r) \/ Validate(r)
  BY <1>1 DEF CheckContentType, ReadBody, ParseTxInfo, Validate
<1>2. CASE DialNode(r) \/ Send(r) \/ Await(r) \/ Close(r)
  BY <1>2 DEF DialNode, Send, Await, Close
<1>3. CASE Reply(r) \/ Recover(r) \/ Panic(r)
  BY <1>3 DEF Reply, Recover, Panic
<1>4. CASE CountSubmit(r) \/ CountFail(r) \/ CountResult(r) \/ CountContent(r)
  BY <1>4 DEF CountSubmit, CountFail, CountResult, CountContent
<1>5. CASE Drain(r)
  BY <1>5 DEF Drain, DrainReceive, DrainClosed, DrainTimeout, EndDrain
<1>6. CASE Environment(r)
  BY <1>6 DEF Environment, Arrive, NodeVerdict, ConnError, CloseChan
<1>7. QED
  BY <1>1, <1>2, <1>3, <1>4, <1>5, <1>6 DEF RequestStep, Handler

\* A request that nothing happens to fits as before.
LEMMA FitsKept == ASSUME NEW q \in Requests, Fits(q), SameRequest(q) PROVE Fits(q)'
BY DEF Fits, SameRequest, ResultFitsPoint, NodeFitsPoint, AnswerFitsPoint, Answered

\* Every step keeps what the program points tell, for all requests.
LEMMA LocalStep == ASSUME TypeOK, LocalInv, [Next]_vars PROVE LocalInv'
<1>1. CASE UNCHANGED vars
  <2>1. \A q \in Requests : SameRequest(q)
    BY <1>1 DEF vars, handlerVars, nodeVars, chanVars, SameRequest
  <2>2. QED BY <2>1, FitsKept DEF LocalInv, Fits
<1>2. ASSUME NEW r \in Requests, RequestStep(r) PROVE LocalInv'
  <2>1. \A q \in Requests : Fits(q)
    BY DEF LocalInv, Fits
  <2>2. Fits(r)'
    BY <1>2, <2>1, FitsStep
  <2>3. \A q \in Requests \ {r} : Fits(q)'
    BY <1>2, <2>1, OthersStand, FitsKept
  <2>4. \A q \in Requests : Fits(q)'
    BY <2>2, <2>3
  <2>5. QED BY <2>4 DEF LocalInv, Fits
<1>3. QED BY <1>1, <1>2 DEF Next, Terminating, RequestStep

-----------------------------------------------------------------------------
(* The collectors count the requests that are past the increment.          *)

\* A step that leaves every request where it stands in the collectors, and the
\* collectors alone, keeps Counts.
Unmoved(q) ==
    /\ SubmitCounted(q)' <=> SubmitCounted(q)
    /\ FailCounted(q)' <=> FailCounted(q)
    /\ \A v \in Results :
          ResultCounted(q)' /\ result'[q] = v <=> ResultCounted(q) /\ result[q] = v
    /\ \A f \in Families : ContentCounted(q, f)' <=> ContentCounted(q, f)

\* When no request crosses a counting point and no collector changes, the
\* agreement stands.
LEMMA CountsKept ==
    ASSUME NEW S \in SUBSET Requests, Counts(S), UNCHANGED metricsVars,
           \A q \in S : Unmoved(q)
    PROVE  Counts(S)'
<1>1. SubmitSet(S)' = SubmitSet(S) /\ FailSet(S)' = FailSet(S)
  BY DEF Unmoved, SubmitSet, FailSet
<1>2. \A v \in Results : ResultSet(S, v)' = ResultSet(S, v)
  BY DEF Unmoved, ResultSet
<1>3. \A f \in Families : ContentSet(S, f)' = ContentSet(S, f)
  BY DEF Unmoved, ContentSet
<1>4. QED BY <1>1, <1>2, <1>3 DEF Counts, metricsVars

\* One more request in a set is one more in its cardinality.
LEMMA OneMore ==
    ASSUME NEW S \in SUBSET Requests, NEW r \in Requests, r \notin S
    PROVE  Cardinality(S \cup {r}) = Cardinality(S) + 1
BY RequestsAssumption, FS_Subset, FS_AddElement

\* A request that does not move stands where it stood.
LEMMA StandsStill ==
    ASSUME NEW q \in Requests, pc'[q] = pc[q], result'[q] = result[q],
           txInfo'[q] = txInfo[q]
    PROVE  Unmoved(q)
BY DEF Unmoved, SubmitCounted, FailCounted, ResultCounted, ContentCounted, Families

\* A step of a request that is counted keeps the agreement of the collectors with
\* the program points, whatever other requests there are.
LEMMA CountsStep ==
    ASSUME TypeOK, NEW S \in SUBSET Requests, Counts(S), NEW r \in S, Fits(r),
           RequestStep(r)
    PROVE  Counts(S)'
<1> USE DEF TypeOK, MetricsTypeOK, Results, Families, Undecided
<1>1. CASE Handler(r)
  <2> DEFINE others == \A q \in Requests \ {r} :
                          pc'[q] = pc[q] /\ result'[q] = result[q] /\ txInfo'[q] = txInfo[q]
  <2>0. ASSUME others PROVE \A q \in S \ {r} : Unmoved(q)
    BY <2>0, StandsStill
  <2>1. ASSUME UNCHANGED metricsVars, others, Unmoved(r) PROVE Counts(S)'
    BY <2>0, <2>1, CountsKept
  <2> HIDE DEF others
  <2> USE DEF Goto, Move, Conclude
  <2>2. CASE CheckContentType(r) \/ ReadBody(r) \/ ParseTxInfo(r) \/ Validate(r)
    <3>1. UNCHANGED metricsVars /\ others
      BY <2>2 DEF CheckContentType, ReadBody, ParseTxInfo, Validate, others
    <3>2. /\ pc[r] \in {"contentType", "readBody", "parse", "validate"}
          /\ pc'[r] \in {"readBody", "parse", "validate", "dial", "reply"}
          /\ result'[r] # "accepted"
      BY <2>2 DEF CheckContentType, ReadBody, ParseTxInfo, Validate, Fits,
                  ResultFitsPoint
    <3>3. Unmoved(r)
      BY <3>2 DEF Unmoved, SubmitCounted, FailCounted, ResultCounted, ContentCounted,
                  Fits, ResultFitsPoint
    <3>4. QED BY <2>1, <3>1, <3>3
  <2>3. CASE DialNode(r) \/ Send(r) \/ Await(r)
    <3>1. UNCHANGED metricsVars /\ others
      BY <2>3 DEF DialNode, Send, Await, others
    <3>2. /\ pc[r] \in {"dial", "send", "await"}
          /\ \/ pc'[r] \in {"send", "await", "close"}
             \/ pc'[r] = "reply" /\ result'[r] = "error"
      BY <2>3 DEF DialNode, Send, Await
    <3>3. Unmoved(r)
      BY <3>2 DEF Unmoved, SubmitCounted, FailCounted, ResultCounted, ContentCounted
    <3>4. QED BY <2>1, <3>1, <3>3
  <2>4. CASE Close(r) \/ Reply(r) \/ Recover(r)
    <3>1. UNCHANGED metricsVars /\ others
      BY <2>4 DEF Close, Reply, Recover, others
    <3>2. /\ result'[r] = result[r] /\ txInfo'[r] = txInfo[r]
          /\ \/ pc[r] = "close" /\ pc'[r] = "incSubmit"
             \/ pc[r] = "close" /\ pc'[r] = "recover"
             \/ pc[r] = "close" /\ pc'[r] = "reply" /\ result[r] # "accepted"
             \/ pc[r] = "reply" /\ pc'[r] = "incFail" /\ result[r] # "accepted"
             \/ pc[r] = "reply" /\ pc'[r] = "done" /\ result[r] = "accepted"
             \/ pc[r] = "recover" /\ pc'[r] = "done" /\ result[r] = "panic"
      BY <2>4 DEF Close, AfterClose, Reply, Recover, Fits, ResultFitsPoint
    <3>3. Unmoved(r)
      BY <3>2 DEF Unmoved, SubmitCounted, FailCounted, ResultCounted, ContentCounted
    <3>4. QED BY <2>1, <3>1, <3>3
  <2>5. CASE CountSubmit(r)
    <3>1. /\ pc[r] = "incSubmit" /\ result[r] = "accepted"
          /\ pc' = [pc EXCEPT ![r] = "incResult"]
          /\ result' = result /\ txInfo' = txInfo
          /\ submitCount' = submitCount + 1
          /\ UNCHANGED <<failCount, requestsTotal, contentTotal>>
      BY <2>5 DEF CountSubmit, Record, IncTxSubmitCount, Fits, ResultFitsPoint
    <3>2. r \notin SubmitSet(S) /\ SubmitSet(S)' = SubmitSet(S) \cup {r}
      BY <3>1 DEF SubmitSet, SubmitCounted
    <3>3. FailSet(S)' = FailSet(S) /\ \A v \in Results : ResultSet(S, v)' = ResultSet(S, v)
      BY <3>1 DEF FailSet, FailCounted, ResultSet, ResultCounted
    <3>4. \A f \in Families : ContentSet(S, f)' = ContentSet(S, f)
      BY <3>1 DEF ContentSet, ContentCounted, ResultCounted
    <3>5. Cardinality(SubmitSet(S)') = Cardinality(SubmitSet(S)) + 1
      BY <3>2, OneMore DEF SubmitSet
    <3>6. QED BY <3>1, <3>3, <3>4, <3>5 DEF Counts
  <2>6. CASE CountFail(r)
    <3>1. /\ pc[r] = "incFail" /\ result[r] \in {"refused", "rejected", "error"}
          /\ pc' = [pc EXCEPT ![r] = IF result[r] = "refused" THEN "done" ELSE "incResult"]
          /\ result' = result /\ txInfo' = txInfo
          /\ failCount' = failCount + 1
          /\ UNCHANGED <<submitCount, requestsTotal, contentTotal>>
      BY <2>6 DEF CountFail, Record, IncTxSubmitFailCount, Fits, ResultFitsPoint
    <3>2. r \notin FailSet(S) /\ FailSet(S)' = FailSet(S) \cup {r}
      BY <3>1 DEF FailSet, FailCounted
    <3>3. SubmitSet(S)' = SubmitSet(S) /\ \A v \in Results : ResultSet(S, v)' = ResultSet(S, v)
      BY <3>1 DEF SubmitSet, SubmitCounted, ResultSet, ResultCounted
    <3>4. \A f \in Families : ContentSet(S, f)' = ContentSet(S, f)
      BY <3>1 DEF ContentSet, ContentCounted, ResultCounted
    <3>5. Cardinality(FailSet(S)') = Cardinality(FailSet(S)) + 1
      BY <3>2, OneMore DEF FailSet
    <3>6. QED BY <3>1, <3>3, <3>4, <3>5 DEF Counts
  <2>7. CASE CountResult(r)
    <3>1. PICK to \in {"script", AfterMetrics(r)} :
             /\ pc' = [pc EXCEPT ![r] = to]
             /\ to = "script" <=> txInfo[r]
             /\ to # "script" => to = IF result[r] = "accepted" THEN "reply" ELSE "done"
      BY <2>7 DEF CountResult, Record, AfterMetrics
    <3>2. /\ pc[r] = "incResult" /\ result[r] \in Results
          /\ result' = result /\ txInfo' = txInfo
          /\ requestsTotal' = [requestsTotal EXCEPT ![result[r]] = @ + 1]
          /\ UNCHANGED <<submitCount, failCount, contentTotal>>
      BY <2>7 DEF CountResult, Record, RecordTxRequest, Fits, ResultFitsPoint
    <3>3. SubmitSet(S)' = SubmitSet(S) /\ FailSet(S)' = FailSet(S)
      BY <3>1, <3>2 DEF SubmitSet, SubmitCounted, FailSet, FailCounted
    <3>4. \A f \in Families : ContentSet(S, f)' = ContentSet(S, f)
      BY <3>1, <3>2 DEF ContentSet, ContentCounted, ResultCounted
    <3>5. ASSUME NEW v \in Results PROVE requestsTotal'[v] = Cardinality(ResultSet(S, v)')
      <4>1. CASE v = result[r]
        <5>1. r \notin ResultSet(S, v) /\ ResultSet(S, v)' = ResultSet(S, v) \cup {r}
          BY <3>1, <3>2, <4>1 DEF ResultSet, ResultCounted
        <5>2. Cardinality(ResultSet(S, v)') = Cardinality(ResultSet(S, v)) + 1
          BY <5>1, OneMore DEF ResultSet
        <5>3. QED BY <3>2, <4>1, <5>2 DEF Counts
      <4>2. CASE v # result[r]
        <5>1. ResultSet(S, v)' = ResultSet(S, v)
          BY <3>1, <3>2, <4>2 DEF ResultSet, ResultCounted
        <5>2. QED BY <3>2, <4>2, <5>1 DEF Counts
      <4>3. QED BY <4>1, <4>2
    <3>6. QED BY <3>2, <3>3, <3>4, <3>5 DEF Counts
  <2>8. CASE CountContent(r)
    <3>1. PICK f \in Families :
             /\ pc[r] = f
             /\ pc' = [pc EXCEPT ![r] = CASE f = "script" -> "minting"
                                          [] f = "minting" -> "refs"
                                          [] f = "refs" -> AfterMetrics(r)]
             /\ contentTotal' = [contentTotal EXCEPT ![f] = @ + 1]
      BY <2>8 DEF CountContent, Record, RecordTxContent
    <3>2. /\ result[r] \in Results /\ txInfo[r]
          /\ result' = result /\ txInfo' = txInfo
          /\ UNCHANGED <<submitCount, failCount, requestsTotal>>
      BY <2>8 DEF CountContent, Record, RecordTxContent, Fits, ResultFitsPoint,
                  AnswerFitsPoint
    <3>3. SubmitSet(S)' = SubmitSet(S) /\ FailSet(S)' = FailSet(S)
      BY <3>1, <3>2 DEF SubmitSet, SubmitCounted, FailSet, FailCounted, AfterMetrics
    <3>4. \A v \in Results : ResultSet(S, v)' = ResultSet(S, v)
      BY <3>1, <3>2 DEF ResultSet, ResultCounted, AfterMetrics
    <3>5. ASSUME NEW g \in Families PROVE contentTotal'[g] = Cardinality(ContentSet(S, g)')
      <4>1. CASE g = f
        <5>1. r \notin ContentSet(S, g) /\ ContentSet(S, g)' = ContentSet(S, g) \cup {r}
          BY <3>1, <3>2, <4>1 DEF ContentSet, ContentCounted, ResultCounted, AfterMetrics
        <5>2. Cardinality(ContentSet(S, g)') = Cardinality(ContentSet(S, g)) + 1
          BY <5>1, OneMore DEF ContentSet
        <5>3. QED BY <3>1, <4>1, <5>2 DEF Counts
      <4>2. CASE g # f
        <5>1. ContentSet(S, g)' = ContentSet(S, g)
          BY <3>1, <3>2, <4>2 DEF ContentSet, ContentCounted, ResultCounted, AfterMetrics
        <5>2. QED BY <3>1, <4>2, <5>1 DEF Counts
      <4>3. QED BY <4>1, <4>2
    <3>6. QED BY <3>2, <3>3, <3>4, <3>5 DEF Counts
  <2>9. QED
    BY <1>1, <2>2, <2>3, <2>4, <2>5, <2>6, <2>7, <2>8 DEF Handler
<1>2. CASE Panic(r)
  <2>1. /\ pc[r] \in {"parse", "validate", "dial", "send", "await"}
        /\ pc'[r] \in {"close", "recover"}
        /\ result'[r] = "panic"
        /\ \A q \in Requests \ {r} : pc'[q] = pc[q] /\ result'[q] = result[q]
        /\ UNCHANGED txInfo /\ UNCHANGED metricsVars
    BY <1>2 DEF Panic, Conclude, Goto
  <2>2. Unmoved(r)
    BY <2>1 DEF Unmoved, SubmitCounted, FailCounted, ResultCounted, ContentCounted
  <2>3. QED BY <2>1, <2>2, StandsStill, CountsKept
<1>3. CASE Drain(r)
  BY <1>3, CountsKept, StandsStill
     DEF Drain, DrainReceive, DrainClosed, DrainTimeout, EndDrain, handlerVars
<1>4. CASE Environment(r)
  <2>1. CASE Arrive(r)
    <3>1. /\ pc[r] = "idle" /\ pc'[r] = "contentType"
          /\ \A q \in Requests \ {r} : pc'[q] = pc[q]
          /\ UNCHANGED <<result, txInfo>> /\ UNCHANGED metricsVars
      BY <2>1 DEF Arrive, Move, Goto
    <3>2. Unmoved(r)
      BY <3>1 DEF Unmoved, SubmitCounted, FailCounted, ResultCounted, ContentCounted
    <3>3. QED BY <3>1, <3>2, StandsStill, CountsKept
  <2>2. CASE NodeVerdict(r) \/ ConnError(r) \/ CloseChan(r)
    BY <2>2, CountsKept, StandsStill DEF NodeVerdict, ConnError, CloseChan, handlerVars
  <2>3. QED BY <1>4, <2>1, <2>2 DEF Environment
<1>5. QED BY <1>1, <1>2, <1>3, <1>4 DEF RequestStep

\* Every step of the submissions keeps the agreement.
LEMMA AllCountsStep ==
    ASSUME TypeOK, LocalInv, Counts(Requests), [Next]_vars PROVE Counts(Requests)'
<1>1. CASE UNCHANGED vars
  BY <1>1, CountsKept, StandsStill DEF vars, handlerVars
<1>2. ASSUME NEW r \in Requests, RequestStep(r) PROVE Counts(Requests)'
  BY <1>2, CountsStep DEF LocalInv, Fits
<1>3. QED BY <1>1, <1>2 DEF Next, Terminating, RequestStep

-----------------------------------------------------------------------------
(* The invariants of the runs.                                             *)

\* No request has started and every collector is zero.
LEMMA InitIInv == Init => IInv
<1> SUFFICES ASSUME Init PROVE IInv
  OBVIOUS
<1>1. TypeOK
  BY DEF Init, MetricsInit, TypeOK, MetricsTypeOK, Results, Families, Points, Inputs
<1>2. LocalInv
  BY DEF Init, LocalInv, ResultFitsPoint, NodeFitsPoint, AnswerFitsPoint, Answered,
         Undecided, Families, Results
<1>3. Counts(Requests)
  <2>1. SubmitSet(Requests) = {} /\ FailSet(Requests) = {}
    BY DEF Init, SubmitSet, SubmitCounted, FailSet, FailCounted
  <2>2. \A v \in Results : ResultSet(Requests, v) = {}
    BY DEF Init, ResultSet, Results
  <2>3. \A f \in Families : ContentSet(Requests, f) = {}
    BY DEF Init, ContentSet, ContentCounted
  <2>4. QED BY <2>1, <2>2, <2>3, FS_EmptySet DEF Counts, Init, MetricsInit
<1>4. QED BY <1>1, <1>2, <1>3 DEF IInv

\* What the program points tell of the results, the connections, the answers and
\* the collectors holds at every moment.
THEOREM Inductive == Spec => []IInv
<1>1. IInv /\ [Next]_vars => IInv'
  BY TypeStep, LocalStep, AllCountsStep DEF IInv
<1>2. QED BY InitIInv, <1>1, PTL DEF Spec

\* The state of the handler and the collectors keeps its types.
THEOREM TypeCorrect == Spec => []TypeOK
<1>1. IInv => TypeOK
  BY DEF IInv
<1>2. QED BY Inductive, <1>1, PTL

\* A 202 is only written for a transaction in the node's mempool.
THEOREM AcceptedIsInMempool == Spec => []AcceptedMeansInMempool
<1>1. IInv => AcceptedMeansInMempool
  BY DEF IInv, LocalInv, AnswerFitsPoint, NodeFitsPoint, AcceptedMeansInMempool
<1>2. QED BY Inductive, <1>1, PTL

\* A result "rejected" is only concluded from the node's own rejection.
THEOREM RejectedByTheNode == Spec => []RejectionIsTheNodes
<1>1. IInv => RejectionIsTheNodes
  BY DEF IInv, LocalInv, NodeFitsPoint, RejectionIsTheNodes
<1>2. QED BY Inductive, <1>1, PTL

\* No client has its answer while the connection made for it is open.
THEOREM AnswersAfterClose == Spec => []NoAnswerWhileConnected
<1>1. IInv => NoAnswerWhileConnected
  BY DEF IInv, LocalInv, NodeFitsPoint, AnswerFitsPoint, Answered, Families,
         NoAnswerWhileConnected
<1>2. QED BY Inductive, <1>1, PTL

\* Sets of requests are finite, and a subset has no more members.
LEMMA CardinalityOrder ==
    ASSUME NEW S \in SUBSET Requests, NEW T \in SUBSET S
    PROVE  /\ Cardinality(S) \in Nat /\ Cardinality(T) \in Nat
           /\ Cardinality(T) <= Cardinality(S)
BY RequestsAssumption, FS_Subset, FS_CardinalityType

\* Two disjoint sets of requests have together as many members as both.
LEMMA CardinalityDisjoint ==
    ASSUME NEW S \in SUBSET Requests, NEW T \in SUBSET Requests, S \cap T = {}
    PROVE  Cardinality(S \cup T) = Cardinality(S) + Cardinality(T)
<1>1. IsFiniteSet(S) /\ IsFiniteSet(T)
  BY RequestsAssumption, FS_Subset
<1>2. Cardinality(S \cup T) = Cardinality(S) + Cardinality(T) - Cardinality(S \cap T)
  BY <1>1, FS_Union
<1>3. Cardinality(S \cap T) = 0
  BY FS_EmptySet
<1>4. QED BY <1>1, <1>2, <1>3, FS_CardinalityType

\* Of the requests a collector counts, each set that SuccessesAgree compares is
\* part of the next.
LEMMA SuccessesFollow ==
    ASSUME NEW S \in SUBSET Requests, Counts(S), \A r \in S : Fits(r)
    PROVE  /\ Cardinality({r \in S : response[r] = 202}) <= requestsTotal["accepted"]
           /\ requestsTotal["accepted"] <= submitCount
           /\ submitCount <= Cardinality({r \in S : link[r] = "accepted"})
<1> DEFINE told == {r \in S : response[r] = 202}
           pool == {r \in S : link[r] = "accepted"}
<1>1. told \subseteq ResultSet(S, "accepted")
  BY DEF Fits, ResultFitsPoint, AnswerFitsPoint, Answered, ResultSet, ResultCounted, Families
<1>2. ResultSet(S, "accepted") \subseteq SubmitSet(S)
  BY DEF ResultSet, ResultCounted, SubmitSet, SubmitCounted
<1>3. SubmitSet(S) \subseteq pool
  BY DEF Fits, NodeFitsPoint, SubmitSet, SubmitCounted
<1>4. /\ requestsTotal["accepted"] = Cardinality(ResultSet(S, "accepted"))
      /\ submitCount = Cardinality(SubmitSet(S))
  BY DEF Counts, Results
<1>5. pool \subseteq Requests /\ SubmitSet(S) \subseteq Requests
      /\ ResultSet(S, "accepted") \subseteq Requests
  BY DEF SubmitSet, ResultSet
<1>6. QED BY <1>1, <1>2, <1>3, <1>4, <1>5, CardinalityOrder

\* The results counted as failures are counted by the gauge, and those answered.
LEMMA FailuresFollow ==
    ASSUME TypeOK, NEW S \in SUBSET Requests, Counts(S), \A r \in S : Fits(r)
    PROVE  FailuresAgree
<1> DEFINE byResult == ResultSet(S, "rejected") \cup ResultSet(S, "error")
           told == AnsweredWith({400, 413, 415, 500})
<1>1. Cardinality(byResult) = requestsTotal["rejected"] + requestsTotal["error"]
  <2>1. ResultSet(S, "rejected") \cap ResultSet(S, "error") = {}
    BY DEF ResultSet
  <2>2. ResultSet(S, "rejected") \subseteq Requests /\ ResultSet(S, "error") \subseteq Requests
    BY DEF ResultSet
  <2>3. QED BY <2>1, <2>2, CardinalityDisjoint DEF Counts, Results
<1>2. byResult \subseteq FailSet(S)
  BY DEF ResultSet, ResultCounted, FailSet, FailCounted
<1>3. FailSet(S) \subseteq told
  BY DEF TypeOK, Fits, AnswerFitsPoint, Answered, FailSet, FailCounted, AnsweredWith, Families
<1>4. failCount = Cardinality(FailSet(S))
  BY DEF Counts
<1>5. told \subseteq Requests /\ FailSet(S) \subseteq Requests
  BY DEF FailSet, AnsweredWith
<1>6. QED BY <1>1, <1>2, <1>3, <1>4, <1>5, CardinalityOrder DEF FailuresAgree

\* The content counters count in the order of their increments, and only
\* requests whose result is counted.
LEMMA ContentFollows ==
    ASSUME TypeOK, NEW S \in SUBSET Requests, Counts(S) PROVE ContentLagsResults
<1> DEFINE failures == ResultSet(S, "rejected") \cup ResultSet(S, "error")
           results == ResultSet(S, "accepted") \cup failures
           working == {r \in Requests : pc[r] \in {"minting", "refs"}}
           behind == ContentSet(S, "script") \ ContentSet(S, "refs")
<1>1. /\ ContentSet(S, "refs") \subseteq ContentSet(S, "minting")
      /\ ContentSet(S, "minting") \subseteq ContentSet(S, "script")
      /\ ContentSet(S, "script") \subseteq Requests
  BY DEF ContentSet, ContentCounted
<1>2. ContentSet(S, "script") \subseteq results
  BY DEF ContentSet, ContentCounted, ResultSet, ResultCounted
<1>3. Cardinality(results) = requestsTotal["accepted"] + requestsTotal["rejected"]
                               + requestsTotal["error"]
  <2>1. /\ ResultSet(S, "rejected") \cap ResultSet(S, "error") = {}
        /\ ResultSet(S, "accepted") \cap failures = {}
    BY DEF ResultSet
  <2>2. \A v \in Results : ResultSet(S, v) \subseteq Requests
    BY DEF ResultSet
  <2>3. Cardinality(failures) = Cardinality(ResultSet(S, "rejected"))
                                  + Cardinality(ResultSet(S, "error"))
    BY <2>1, <2>2, CardinalityDisjoint DEF Results
  <2>4. Cardinality(results) = Cardinality(ResultSet(S, "accepted")) + Cardinality(failures)
    BY <2>1, <2>2, CardinalityDisjoint DEF Results
  <2>5. QED BY <2>3, <2>4 DEF Counts, Results, TypeOK, MetricsTypeOK
<1>4. behind \subseteq working
  BY DEF ContentSet, ContentCounted
<1>5. Cardinality(ContentSet(S, "script"))
        = Cardinality(ContentSet(S, "refs")) + Cardinality(behind)
  <2>1. ContentSet(S, "script") = ContentSet(S, "refs") \cup behind
    BY <1>1
  <2>2. QED BY <1>1, <2>1, CardinalityDisjoint
<1>6. \A f \in Families : contentTotal[f] = Cardinality(ContentSet(S, f))
  BY DEF Counts
<1>7. results \subseteq Requests /\ working \subseteq Requests
  BY DEF ResultSet
<1> HIDE DEF results, failures, working, behind
<1>8. /\ Cardinality(ContentSet(S, "refs")) <= Cardinality(ContentSet(S, "minting"))
      /\ Cardinality(ContentSet(S, "minting")) <= Cardinality(ContentSet(S, "script"))
      /\ Cardinality(ContentSet(S, "script")) <= Cardinality(results)
      /\ Cardinality(behind) <= Cardinality(working)
      /\ Cardinality(ContentSet(S, "refs")) \in Nat
      /\ Cardinality(behind) \in Nat /\ Cardinality(working) \in Nat
  BY <1>1, <1>2, <1>4, <1>7, CardinalityOrder
<1>9. QED
  BY <1>3, <1>5, <1>6, <1>8 DEF ContentLagsResults, Families, working

\* Of a request at rest the collectors count what its client was told.
LEMMA RestIsCounted ==
    ASSUME TypeOK, NEW r \in Requests, Fits(r), pc[r] \in {"idle", "done"}
    PROVE  /\ SubmitCounted(r) <=> response[r] = 202
           /\ ResultCounted(r) /\ result[r] = "accepted" <=> response[r] = 202
           /\ FailCounted(r)
                <=> response[r] \in {400, 413, 415, 500} /\ result[r] # "panic"
           /\ ResultCounted(r) /\ result[r] \in {"rejected", "error"}
                <=> FailCounted(r) /\ response[r] # 415
BY DEF TypeOK, Fits, ResultFitsPoint, AnswerFitsPoint, Answered, Undecided, Families,
       Results, SubmitCounted, ResultCounted, FailCounted

\* The 202s, the accepted results, the submissions counted and the transactions
\* in the mempool are never out of order.
THEOREM SuccessesAlwaysAgree == Spec => []SuccessesAgree
<1>1. IInv => SuccessesAgree
  <2> SUFFICES ASSUME IInv PROVE SuccessesAgree
    OBVIOUS
  <2>1. AnsweredWith({202}) = {r \in Requests : response[r] = 202}
    BY DEF AnsweredWith
  <2>2. Counts(Requests) /\ \A r \in Requests : Fits(r)
    BY DEF IInv, LocalInv, Fits
  <2>3. QED BY <2>1, <2>2, SuccessesFollow DEF SuccessesAgree
<1>2. QED BY Inductive, <1>1, PTL

\* The failures counted by result, the failure gauge and the failures answered
\* are never out of order.
THEOREM FailuresAlwaysAgree == Spec => []FailuresAgree
<1>1. IInv => FailuresAgree
  BY FailuresFollow DEF IInv, LocalInv, Fits
<1>2. QED BY Inductive, <1>1, PTL

\* When all requests have been served the collectors say what the clients were
\* told.
THEOREM TotalsAgreeAtRest == Spec => []TotalsAtRest
<1>1. IInv => TotalsAtRest
  <2> SUFFICES ASSUME IInv, \A r \in Requests : pc[r] \in {"idle", "done"}
               PROVE  TotalsAtRest
    BY DEF TotalsAtRest
  <2> DEFINE panicked == {r \in Requests : result[r] = "panic"}
             failed == AnsweredWith({400, 413, 415, 500}) \ panicked
             rejected == ResultSet(Requests, "rejected")
             errors == ResultSet(Requests, "error")
  <2>1. ASSUME NEW r \in Requests
        PROVE  /\ SubmitCounted(r) <=> response[r] = 202
               /\ ResultCounted(r) /\ result[r] = "accepted" <=> response[r] = 202
               /\ FailCounted(r)
                    <=> response[r] \in {400, 413, 415, 500} /\ result[r] # "panic"
               /\ ResultCounted(r) /\ result[r] \in {"rejected", "error"}
                    <=> FailCounted(r) /\ response[r] # 415
    BY <2>1, RestIsCounted DEF IInv, LocalInv, Fits
  <2>2. /\ SubmitSet(Requests) = AnsweredWith({202})
        /\ ResultSet(Requests, "accepted") = AnsweredWith({202})
        /\ FailSet(Requests) = failed
        /\ rejected \cup errors = failed \ AnsweredWith({415})
    BY <2>1 DEF SubmitSet, ResultSet, FailSet, AnsweredWith
  <2>3. Cardinality(rejected \cup errors)
          = requestsTotal["rejected"] + requestsTotal["error"]
    <3>1. rejected \cap errors = {} /\ rejected \subseteq Requests /\ errors \subseteq Requests
      BY DEF ResultSet
    <3>2. QED BY <3>1, CardinalityDisjoint DEF IInv, Counts, Results
  <2>4. /\ submitCount = Cardinality(SubmitSet(Requests))
        /\ failCount = Cardinality(FailSet(Requests))
        /\ requestsTotal["accepted"] = Cardinality(ResultSet(Requests, "accepted"))
    BY DEF IInv, Counts, Results
  <2>5. QED BY <2>2, <2>3, <2>4 DEF TotalsAtRest
<1>2. QED BY Inductive, <1>1, PTL

\* A scrape sees the three content counters in the order they are incremented,
\* never above the results, and apart by no more than the handlers at work.
THEOREM ContentAlwaysLags == Spec => []ContentLagsResults
<1>1. IInv => ContentLagsResults
  BY ContentFollows DEF IInv
<1>2. QED BY Inductive, <1>1, PTL

\* The agreement of the collectors with the answers, the node and each other, for
\* any number of interleaved requests.
THEOREM CollectorsAlwaysAgree == Spec => []CollectorsAgree
<1>1. SuccessesAgree /\ FailuresAgree /\ ContentLagsResults => CollectorsAgree
  BY DEF CollectorsAgree
<1>2. QED BY SuccessesAlwaysAgree, FailuresAlwaysAgree, ContentAlwaysLags, <1>1, PTL

-----------------------------------------------------------------------------
(* Outcomes are final.                                                     *)

\* What OutcomeIsFinal says of one request.
Final(r) ==
    /\ response[r] # 0 => response'[r] = response[r]
    /\ result[r] \in Results \cup {"refused"} => result'[r] = result[r]
    /\ AtRest(r) => AtRest(r)' /\ conn'[r] # "open"

\* No step of a request revises its outcome.
LEMMA FinalStep ==
    ASSUME TypeOK, NEW r \in Requests, Fits(r), RequestStep(r) PROVE Final(r)
<1> USE DEF TypeOK, Fits, Final, AtRest, Results
<1>1. CASE Handler(r)
  <2> USE DEF Goto, Move, Conclude, nodeVars, ResultFitsPoint, NodeFitsPoint,
              AnswerFitsPoint, Answered, Undecided
  <2>1. CASE CheckContentType(r) \/ ReadBody(r) \/ ParseTxInfo(r) \/ Validate(r)
    BY <2>1 DEF CheckContentType, ReadBody, ParseTxInfo, Validate
  <2>2. CASE DialNode(r) \/ Send(r) \/ Await(r)
    BY <2>2 DEF DialNode, Send, Await
  <2>3. CASE Close(r) \/ Recover(r)
    BY <2>3 DEF Close, Recover
  <2>4. CASE Reply(r)
    BY <2>4 DEF Reply, Families
  <2>5. CASE CountSubmit(r) \/ CountFail(r) \/ CountResult(r) \/ CountContent(r)
    BY <2>5 DEF CountSubmit, CountFail, CountResult, CountContent, Record
  <2>6. QED BY <1>1, <2>1, <2>2, <2>3, <2>4, <2>5 DEF Handler
<1>2. CASE Panic(r)
  BY <1>2 DEF Panic, Conclude, Goto, nodeVars, ResultFitsPoint, NodeFitsPoint, Undecided
<1>3. CASE Drain(r)
  BY <1>3 DEF Drain, DrainReceive, DrainClosed, DrainTimeout, EndDrain, handlerVars,
              nodeVars, NodeFitsPoint
<1>4. CASE Environment(r)
  BY <1>4 DEF Environment, Arrive, Move, Goto, NodeVerdict, ConnError, CloseChan,
              handlerVars, nodeVars, NodeFitsPoint
<1>5. QED BY <1>1, <1>2, <1>3, <1>4 DEF RequestStep

\* Nor does a step that is not of that request.
LEMMA FinalKept ==
    ASSUME NEW q \in Requests, SameRequest(q), pc[q] = "done" => conn[q] # "open"
    PROVE  Final(q)
BY DEF SameRequest, Final, AtRest

\* What a client was told, a conclusion that is counted, and a request at rest
\* are never revised by any later step.
THEOREM OutcomesAreFinal == Spec => OutcomeIsFinal
<1>1. ASSUME IInv, [Next]_vars PROVE \A q \in Requests : Final(q)
  <2>1. TypeOK /\ \A q \in Requests : Fits(q) /\ (pc[q] = "done" => conn[q] # "open")
    BY <1>1 DEF IInv, LocalInv, Fits, NodeFitsPoint
  <2>2. CASE UNCHANGED vars
    BY <2>1, <2>2, FinalKept DEF vars, handlerVars, nodeVars, chanVars, SameRequest
  <2>3. ASSUME NEW r \in Requests, RequestStep(r) PROVE \A q \in Requests : Final(q)
    <3>1. Final(r)
      BY <2>1, <2>3, FinalStep
    <3>2. \A q \in Requests \ {r} : Final(q)
      BY <2>1, <2>3, OthersStand, FinalKept
    <3>3. QED BY <3>1, <3>2
  <2>4. QED BY <1>1, <2>2, <2>3 DEF Next, Terminating, RequestStep
<1>2. IInv /\ [Next]_vars => [\A r \in Requests :
              /\ response[r] # 0 => response'[r] = response[r]
              /\ result[r] \in Results \cup {"refused"} => result'[r] = result[r]
              /\ AtRest(r) => AtRest(r)' /\ conn'[r] # "open"]_vars
  BY <1>1 DEF Final
<1>3. QED BY Inductive, <1>2, PTL DEF Spec, OutcomeIsFinal

-----------------------------------------------------------------------------
(* A handler only goes forward.                                            *)

\* The most steps a handler has left: a success is counted first and a failure
\* answered first, so the result decides what is behind a point.
StepsLeft(r) ==
    LET ok == result[r] = "accepted"
    IN  CASE pc[r] = "idle" -> 15
          [] pc[r] = "contentType" -> 14
          [] pc[r] = "readBody" -> 13
          [] pc[r] = "parse" -> 12
          [] pc[r] = "validate" -> 11
          [] pc[r] = "dial" -> 10
          [] pc[r] = "send" -> 9
          [] pc[r] = "await" -> 8
          [] pc[r] = "close" -> 7
          [] pc[r] = "reply" -> IF ok THEN 1 ELSE 6
          [] pc[r] = "incSubmit" -> 6
          [] pc[r] = "incFail" -> 5
          [] pc[r] = "incResult" -> IF ok THEN 5 ELSE 4
          [] pc[r] = "script" -> IF ok THEN 4 ELSE 3
          [] pc[r] = "minting" -> IF ok THEN 3 ELSE 2
          [] pc[r] = "refs" -> IF ok THEN 2 ELSE 1
          [] pc[r] = "recover" -> 1
          [] pc[r] = "done" -> 0

\* The handler stays where it is, or has fewer steps left.
Advances(r) == pc'[r] = pc[r] \/ StepsLeft(r)' < StepsLeft(r)

\* No step of a request takes its handler back.
LEMMA AdvanceStep ==
    ASSUME TypeOK, NEW r \in Requests, Fits(r), RequestStep(r) PROVE Advances(r)
<1> USE DEF TypeOK, Fits, ResultFitsPoint, Undecided, Results, Families, Advances
<1>1. CASE Handler(r)
  <2> USE DEF Goto, Move, Conclude, StepsLeft
  <2>1. CASE CheckContentType(r) \/ ReadBody(r)
    BY <2>1 DEF CheckContentType, ReadBody
  <2>2. CASE ParseTxInfo(r) \/ Validate(r)
    BY <2>2 DEF ParseTxInfo, Validate
  <2>3. CASE DialNode(r) \/ Send(r) \/ Await(r)
    BY <2>3 DEF DialNode, Send, Await
  <2>4. CASE Close(r) \/ Recover(r)
    BY <2>4 DEF Close, AfterClose, Recover
  <2>5. CASE Reply(r)
    BY <2>5 DEF Reply
  <2>6. CASE CountSubmit(r) \/ CountFail(r)
    BY <2>6 DEF CountSubmit, CountFail, Record
  <2>7. CASE CountResult(r) \/ CountContent(r)
    BY <2>7 DEF CountResult, CountContent, Record, AfterMetrics
  <2>8. QED BY <1>1, <2>1, <2>2, <2>3, <2>4, <2>5, <2>6, <2>7 DEF Handler
<1>2. CASE Panic(r)
  BY <1>2 DEF Panic, Conclude, Goto, StepsLeft
<1>3. CASE Drain(r)
  BY <1>3 DEF Drain, DrainReceive, DrainClosed, DrainTimeout, EndDrain, handlerVars
<1>4. CASE Arrive(r)
  BY <1>4 DEF Arrive, Move, Goto, StepsLeft
<1>5. CASE NodeVerdict(r) \/ ConnError(r) \/ CloseChan(r)
  BY <1>5 DEF NodeVerdict, ConnError, CloseChan, handlerVars
<1>6. QED BY <1>1, <1>2, <1>3, <1>4, <1>5 DEF RequestStep, Environment

\* No handler goes in circles: each of its steps leaves it fewer of at most 15, so
\* that of EveryRequestServed only the scheduling is left to fairness.
THEOREM HandlersAdvance == Spec => [][\A r \in Requests : Advances(r)]_vars
<1>1. IInv /\ [Next]_vars => [\A r \in Requests : Advances(r)]_vars
  <2> SUFFICES ASSUME IInv, Next PROVE UNCHANGED vars \/ \A q \in Requests : Advances(q)
    BY DEF vars
  <2>1. TypeOK /\ \A q \in Requests : Fits(q)
    BY DEF IInv, LocalInv, Fits
  <2>2. ASSUME NEW r \in Requests, RequestStep(r) PROVE \A q \in Requests : Advances(q)
    <3>1. Advances(r)
      BY <2>1, <2>2, AdvanceStep
    <3>2. \A q \in Requests \ {r} : Advances(q)
      BY <2>1, <2>2, OthersStand DEF SameRequest, Advances
    <3>3. QED BY <3>1, <3>2
  <2>3. QED BY <2>2 DEF Next, Terminating, RequestStep
<1>2. QED BY Inductive, <1>1, PTL DEF Spec

-----------------------------------------------------------------------------
(* A timeout SubmitTx does not take.                                       *)

\* The handler has not gone beyond the timeout guard.
Grounded(r) ==
    pc[r] \notin {"dial", "send", "await"} /\ conn[r] = "none" /\ link[r] = "none"

\* With such a timeout no step goes beyond the guard.
LEMMA GroundedStep ==
    ASSUME TypeOK, TimeoutTooLarge, NEW r \in Requests, Fits(r), Grounded(r),
           RequestStep(r)
    PROVE  Grounded(r)'
<1> USE DEF TypeOK, Fits, NodeFitsPoint, Grounded
<1>1. CASE Handler(r)
  <2> USE DEF Goto, Move, Conclude, nodeVars
  <2>1. CASE CheckContentType(r) \/ ReadBody(r) \/ ParseTxInfo(r) \/ Validate(r)
    BY <2>1 DEF CheckContentType, ReadBody, ParseTxInfo, Validate, Submittable
  <2>2. CASE DialNode(r) \/ Send(r) \/ Await(r) \/ Close(r)
    BY <2>2 DEF DialNode, Send, Await, Close
  <2>3. CASE Reply(r) \/ Recover(r)
    BY <2>3 DEF Reply, Recover
  <2>4. CASE CountSubmit(r) \/ CountFail(r) \/ CountResult(r) \/ CountContent(r)
    BY <2>4 DEF CountSubmit, CountFail, CountResult, CountContent, Record, AfterMetrics
  <2>5. QED BY <1>1, <2>1, <2>2, <2>3, <2>4 DEF Handler
<1>2. CASE Panic(r)
  BY <1>2 DEF Panic, Conclude, Goto, nodeVars
<1>3. CASE Drain(r)
  BY <1>3 DEF Drain, DrainReceive, DrainClosed, DrainTimeout, EndDrain, handlerVars, nodeVars
<1>4. CASE Environment(r)
  BY <1>4 DEF Environment, Arrive, Move, Goto, NodeVerdict, ConnError, CloseChan,
              handlerVars, nodeVars
<1>5. QED BY <1>1, <1>2, <1>3, <1>4 DEF RequestStep

\* Of requests that never got to the node only failures are counted.
LEMMA GroundedCounts ==
    ASSUME NEW S \in SUBSET Requests, Counts(S), \A r \in S : Fits(r) /\ link[r] = "none"
    PROVE  submitCount + requestsTotal["accepted"] + requestsTotal["rejected"] = 0
<1>1. /\ SubmitSet(S) = {}
      /\ ResultSet(S, "accepted") = {} /\ ResultSet(S, "rejected") = {}
  BY DEF Fits, NodeFitsPoint, SubmitSet, SubmitCounted, ResultSet
<1>2. submitCount = 0 /\ requestsTotal["accepted"] = 0 /\ requestsTotal["rejected"] = 0
  BY <1>1, FS_EmptySet DEF Counts, Results
<1>3. QED BY <1>2

\* With Node.Timeout beyond math.MaxInt64 no connection is ever made and nothing
\* but failures is counted.
THEOREM HugeTimeoutFails == Spec => []HugeTimeoutNeverDials
<1> DEFINE AllGrounded == TimeoutTooLarge => \A r \in Requests : Grounded(r)
<1>1. Init => AllGrounded
  BY DEF Init, Grounded
<1>2. IInv /\ AllGrounded /\ [Next]_vars => AllGrounded'
  <2> SUFFICES ASSUME IInv, AllGrounded, [Next]_vars, TimeoutTooLarge
               PROVE  \A q \in Requests : Grounded(q)'
    OBVIOUS
  <2>1. CASE UNCHANGED vars
    BY <2>1 DEF vars, handlerVars, nodeVars, Grounded
  <2>2. ASSUME NEW r \in Requests, RequestStep(r) PROVE \A q \in Requests : Grounded(q)'
    <3>1. TypeOK /\ Fits(r)
      BY DEF IInv, LocalInv, Fits
    <3>2. Grounded(r)'
      BY <2>2, <3>1, GroundedStep
    <3>3. \A q \in Requests \ {r} : Grounded(q)'
      BY <2>2, <3>1, OthersStand DEF SameRequest, Grounded
    <3>4. QED BY <3>2, <3>3
  <2>3. QED BY <2>1, <2>2 DEF Next, Terminating, RequestStep
<1>3. IInv /\ AllGrounded => HugeTimeoutNeverDials
  BY GroundedCounts DEF IInv, LocalInv, Fits, Grounded, HugeTimeoutNeverDials
<1>4. QED BY Inductive, <1>1, <1>2, <1>3, PTL DEF Spec

-----------------------------------------------------------------------------
(* The handler implements the contract.                                    *)

\* What the contract sees of a request.
SameView(q) ==
    /\ Verdict(q)' = Verdict(q)
    /\ link'[q] = "accepted" <=> link[q] = "accepted"
    /\ link'[q] = "rejected" <=> link[q] = "rejected"
    /\ ResultCounted(q)' <=> ResultCounted(q)
    /\ response'[q] # 0 <=> response[q] # 0

\* A step that changes nothing the contract sees is a stutter of the contract.
LEMMA Stutter ==
    ASSUME \A q \in Requests : SameView(q), requestsTotal' = requestsTotal
    PROVE  UNCHANGED Contract!vars
BY DEF SameView, Contract!vars

\* A request none of whose state the contract reads is touched looks the same.
LEMMA SameWhenUntouched ==
    ASSUME NEW q \in Requests, pc'[q] = pc[q], result'[q] = result[q],
           link'[q] = link[q], response'[q] = response[q]
    PROVE  SameView(q)
BY DEF SameView, Verdict, ResultCounted

\* A step that concludes a submission, and nothing else, decides its verdict.
LEMMA ConcludeDecides ==
    ASSUME TypeOK, NEW r \in Requests, NEW from, NEW to, NEW v,
           Conclude(r, from, to, v), result[r] = "none", to \in {"close", "reply", "recover"},
           v \in Results \cup {"refused", "panic"},
           v = "accepted" => link[r] = "accepted" /\ to = "close",
           v = "rejected" => link[r] = "rejected"
    PROVE  Contract!Decide(r)
<1> DEFINE w == IF v \in {"refused", "panic"} THEN "uncounted" ELSE v
<1> USE DEF Conclude, Goto, TypeOK, Results
<1>1. [q \in Requests |-> Verdict(q)]' = [[q \in Requests |-> Verdict(q)] EXCEPT ![r] = w]
  <2>1. \A q \in Requests \ {r} : Verdict(q)' = Verdict(q)
    BY DEF Verdict
  <2>2. Verdict(r)' = w
    BY DEF Verdict
  <2>3. QED BY <2>1, <2>2
<1>2. {q \in Requests : ResultCounted(q)}' = {q \in Requests : ResultCounted(q)}
  BY DEF ResultCounted, Families
<1>3. /\ {q \in Requests : link[q] = "accepted"}' = {q \in Requests : link[q] = "accepted"}
      /\ {q \in Requests : link[q] = "rejected"}' = {q \in Requests : link[q] = "rejected"}
      /\ {q \in Requests : response[q] # 0}' = {q \in Requests : response[q] # 0}
      /\ requestsTotal' = requestsTotal
  BY DEF nodeVars, metricsVars
<1>4. [q \in Requests |-> Verdict(q)][r] = "pending"
  BY DEF Verdict
<1>5. w \in Contract!Counted \cup {"uncounted"}
  BY DEF Contract!Counted
<1>6. /\ w = "accepted" => r \in {q \in Requests : link[q] = "accepted"}
      /\ w = "rejected" => r \in {q \in Requests : link[q] = "rejected"}
  OBVIOUS
<1> HIDE DEF w, Conclude, Goto, TypeOK, Results
<1>7. QED BY <1>1, <1>2, <1>3, <1>4, <1>5, <1>6 DEF Contract!Decide

\* A step that only writes the response answers the request.
LEMMA WriteAnswers ==
    ASSUME TypeOK, LocalInv, NEW r \in Requests, pc[r] \in {"reply", "recover"},
           \A q \in Requests : response'[q] # 0 <=> response[q] # 0 \/ q = r,
           \A q \in Requests : ResultCounted(q)' <=> ResultCounted(q),
           UNCHANGED <<result, link, requestsTotal>>
    PROVE  Contract!Answer(r)
<1> USE DEF TypeOK, LocalInv, ResultFitsPoint, AnswerFitsPoint, Undecided, Families, Results
<1>1. [q \in Requests |-> Verdict(q)]' = [q \in Requests |-> Verdict(q)]
  BY DEF Verdict
<1>2. {q \in Requests : ResultCounted(q)}' = {q \in Requests : ResultCounted(q)}
  OBVIOUS
<1>3. /\ {q \in Requests : link[q] = "accepted"}' = {q \in Requests : link[q] = "accepted"}
      /\ {q \in Requests : link[q] = "rejected"}' = {q \in Requests : link[q] = "rejected"}
  OBVIOUS
<1>4. {q \in Requests : response[q] # 0}' = {q \in Requests : response[q] # 0} \cup {r}
  OBVIOUS
<1>5. r \notin {q \in Requests : response[q] # 0}
  BY DEF Answered
<1>6. [q \in Requests |-> Verdict(q)][r] # "pending"
  BY DEF Verdict
<1>7. [q \in Requests |-> Verdict(q)][r] = "accepted"
        => r \in {q \in Requests : ResultCounted(q)}
  BY DEF Verdict, ResultCounted
<1>8. QED BY <1>1, <1>2, <1>3, <1>4, <1>5, <1>6, <1>7 DEF Contract!Answer

\* Counting a result in the code is counting it in the contract.
LEMMA RecordCounts ==
    ASSUME TypeOK, LocalInv, NEW r \in Requests, CountResult(r)
    PROVE  Contract!Count(r)
<1> USE DEF TypeOK, Results, Families
<1>1. PICK to \in {"script", "reply", "done"} :
         /\ pc' = [pc EXCEPT ![r] = to]
         /\ to = "reply" => result[r] = "accepted"
         /\ to = "done" => result[r] # "accepted"
  BY DEF CountResult, Record, Goto, AfterMetrics
<1>2. /\ pc[r] = "incResult" /\ result[r] \in Results
      /\ requestsTotal' = [requestsTotal EXCEPT ![result[r]] = @ + 1]
      /\ UNCHANGED <<result, response, link>>
  BY DEF CountResult, Record, Goto, RecordTxRequest, LocalInv, ResultFitsPoint, nodeVars
<1>3. [q \in Requests |-> Verdict(q)]' = [q \in Requests |-> Verdict(q)]
  BY <1>2 DEF Verdict
<1>4. [q \in Requests |-> Verdict(q)][r] = result[r]
  BY <1>2 DEF Verdict
<1>5. /\ r \notin {q \in Requests : ResultCounted(q)}
      /\ {q \in Requests : ResultCounted(q)}' = {q \in Requests : ResultCounted(q)} \cup {r}
  BY <1>1, <1>2 DEF ResultCounted
<1>6. /\ {q \in Requests : link[q] = "accepted"}' = {q \in Requests : link[q] = "accepted"}
      /\ {q \in Requests : link[q] = "rejected"}' = {q \in Requests : link[q] = "rejected"}
      /\ {q \in Requests : response[q] # 0}' = {q \in Requests : response[q] # 0}
  BY <1>2
<1>7. QED BY <1>2, <1>3, <1>4, <1>5, <1>6 DEF Contract!Count, Contract!Counted

\* The node's verdict on a submission is the contract's, unless it is lost.
LEMMA VerdictTakes ==
    ASSUME TypeOK, LocalInv, NEW r \in Requests, NodeVerdict(r)
    PROVE  Contract!Take(r) \/ Contract!TurnDown(r) \/ UNCHANGED Contract!vars
<1> USE DEF TypeOK, LocalInv, NodeFitsPoint
<1>1. PICK v \in {"accepted", "rejected", "lost"} : link' = [link EXCEPT ![r] = v]
  BY DEF NodeVerdict
<1>2. link[r] = "sent" /\ UNCHANGED <<pc, result, response, requestsTotal>>
  BY DEF NodeVerdict, handlerVars, metricsVars
<1>3. /\ [q \in Requests |-> Verdict(q)]' = [q \in Requests |-> Verdict(q)]
      /\ {q \in Requests : ResultCounted(q)}' = {q \in Requests : ResultCounted(q)}
      /\ {q \in Requests : response[q] # 0}' = {q \in Requests : response[q] # 0}
  BY <1>2 DEF Verdict, ResultCounted
<1>4. [q \in Requests |-> Verdict(q)][r] \notin {"accepted", "rejected"}
  BY <1>2 DEF Verdict
<1>5. /\ {q \in Requests : link[q] = "accepted"}'
           = {q \in Requests : link[q] = "accepted"} \cup (IF v = "accepted" THEN {r} ELSE {})
      /\ {q \in Requests : link[q] = "rejected"}'
           = {q \in Requests : link[q] = "rejected"} \cup (IF v = "rejected" THEN {r} ELSE {})
      /\ r \notin {q \in Requests : link[q] \in {"accepted", "rejected"}}
  BY <1>1, <1>2
<1>6. QED
  BY <1>1, <1>2, <1>3, <1>4, <1>5 DEF Contract!Take, Contract!TurnDown, Contract!vars

\* Every step of the code is a step of the contract or changes nothing the
\* contract sees.
LEMMA ContractStep ==
    ASSUME IInv, [Next]_vars PROVE [Contract!Next]_Contract!vars
<1> USE DEF IInv
<1> SUFFICES \/ \E r \in Requests :
                   \/ Contract!Take(r) \/ Contract!TurnDown(r) \/ Contract!Decide(r)
                   \/ Contract!Count(r) \/ Contract!Answer(r)
             \/ UNCHANGED Contract!vars
  BY DEF Contract!Next
<1>1. CASE UNCHANGED vars
  BY <1>1, SameWhenUntouched, Stutter DEF vars, handlerVars, nodeVars, metricsVars
<1>2. ASSUME NEW r \in Requests, Handler(r)
      PROVE  \/ Contract!Decide(r) \/ Contract!Count(r) \/ Contract!Answer(r)
             \/ UNCHANGED Contract!vars
  <2> DEFINE others == \A q \in Requests \ {r} :
                 pc'[q] = pc[q] /\ result'[q] = result[q] /\ link'[q] = link[q]
                   /\ response'[q] = response[q]
  <2>0. ASSUME others, SameView(r), requestsTotal' = requestsTotal
        PROVE  UNCHANGED Contract!vars
    BY <2>0, SameWhenUntouched, Stutter
  <2> HIDE DEF others
  <2> USE DEF TypeOK, LocalInv, ResultFitsPoint, Undecided, Results, Families
  <2>1. ASSUME NEW from \in Undecided, NEW to \in Undecided, Move(r, from, to)
        PROVE  UNCHANGED Contract!vars
    BY <2>0, <2>1 DEF Move, Goto, others, SameView, Verdict, ResultCounted, nodeVars,
                      metricsVars
  <2>2. CASE CheckContentType(r)
    BY <2>1, <2>2, ConcludeDecides DEF CheckContentType, Conclude, Goto
  <2>3. CASE ReadBody(r)
    BY <2>1, <2>3, ConcludeDecides DEF ReadBody, Conclude, Goto
  <2>4. CASE ParseTxInfo(r)
    BY <2>0, <2>4 DEF ParseTxInfo, Goto, others, SameView, Verdict, ResultCounted,
                      nodeVars, metricsVars
  <2>5. CASE Validate(r)
    BY <2>1, <2>5, ConcludeDecides DEF Validate, Conclude, Goto
  <2>6. CASE DialNode(r)
    <3>1. CASE Conclude(r, "dial", "reply", "error")
      BY <3>1, ConcludeDecides DEF Conclude, Goto
    <3>2. CASE ~Conclude(r, "dial", "reply", "error")
      BY <2>0, <2>6, <3>2 DEF DialNode, Goto, others, SameView, Verdict, ResultCounted,
                              metricsVars
    <3>3. QED BY <3>1, <3>2
  <2>7. CASE Send(r)
    BY <2>0, <2>7 DEF Send, Goto, others, SameView, Verdict, ResultCounted, metricsVars,
                      NodeFitsPoint
  <2>8. CASE Await(r)
    BY <2>8, ConcludeDecides DEF Await, Conclude, Goto
  <2>9. CASE Close(r)
    BY <2>0, <2>9 DEF Close, AfterClose, Goto, others, SameView, Verdict, ResultCounted,
                      metricsVars
  <2>10. CASE Reply(r)
    <3>1. PICK code \in Statuses(r) : response' = [response EXCEPT ![r] = code]
      BY <2>10 DEF Reply
    <3>2. pc[r] = "reply" /\ code # 0
      BY <2>10, <3>1, StatusFitsResult DEF Reply, Goto
    <3>3. \A q \in Requests : response'[q] # 0 <=> response[q] # 0 \/ q = r
      BY <3>1, <3>2
    <3>4. \A q \in Requests : ResultCounted(q)' <=> ResultCounted(q)
      BY <2>10 DEF Reply, Goto, ResultCounted
    <3>5. UNCHANGED <<result, link, requestsTotal>>
      BY <2>10 DEF Reply, nodeVars, metricsVars
    <3>6. QED BY <3>2, <3>3, <3>4, <3>5, WriteAnswers
  <2>11. CASE Recover(r)
    <3>1. \A q \in Requests : ResultCounted(q)' <=> ResultCounted(q)
      BY <2>11 DEF Recover, Goto, ResultCounted
    <3>2. /\ pc[r] = "recover"
          /\ \A q \in Requests : response'[q] # 0 <=> response[q] # 0 \/ q = r
          /\ UNCHANGED <<result, link, requestsTotal>>
      BY <2>11 DEF Recover, Goto, nodeVars, metricsVars
    <3>3. QED BY <3>1, <3>2, WriteAnswers
  <2>12. CASE CountSubmit(r) \/ CountFail(r)
    <3>1. others /\ UNCHANGED <<result, link, response, requestsTotal>>
      BY <2>12 DEF CountSubmit, CountFail, Record, Goto, others, nodeVars,
                   IncTxSubmitCount, IncTxSubmitFailCount
    <3>2. ResultCounted(r)' <=> ResultCounted(r)
      BY <2>12 DEF CountSubmit, CountFail, Record, Goto, ResultCounted
    <3>3. QED BY <2>0, <3>1, <3>2 DEF SameView, Verdict
  <2>13. CASE CountResult(r)
    BY <2>13, RecordCounts
  <2>14. CASE CountContent(r)
    <3>1. others /\ UNCHANGED <<result, link, response, requestsTotal>>
      BY <2>14 DEF CountContent, Record, Goto, others, nodeVars, RecordTxContent
    <3>2. ResultCounted(r)' <=> ResultCounted(r)
      BY <2>14 DEF CountContent, Record, Goto, ResultCounted, AfterMetrics
    <3>3. QED BY <2>0, <3>1, <3>2 DEF SameView, Verdict
  <2>15. QED
    BY <1>2, <2>2, <2>3, <2>4, <2>5, <2>6, <2>7, <2>8, <2>9, <2>10, <2>11, <2>12,
       <2>13, <2>14 DEF Handler
<1>3. ASSUME NEW r \in Requests, Panic(r) PROVE Contract!Decide(r)
  BY <1>3, ConcludeDecides DEF Panic, Conclude, Goto, LocalInv, ResultFitsPoint, Undecided
<1>4. ASSUME NEW r \in Requests, Drain(r) PROVE UNCHANGED Contract!vars
  BY <1>4, SameWhenUntouched, Stutter
     DEF Drain, DrainReceive, DrainClosed, DrainTimeout, EndDrain, handlerVars,
         nodeVars, metricsVars
<1>5. ASSUME NEW r \in Requests, Environment(r)
      PROVE  Contract!Take(r) \/ Contract!TurnDown(r) \/ UNCHANGED Contract!vars
  <2>1. CASE Arrive(r)
    <3>1. \A q \in Requests : SameView(q)
      BY <2>1 DEF Arrive, Move, Goto, TypeOK, SameView, Verdict, ResultCounted,
                  Families, nodeVars
    <3>2. QED BY <2>1, <3>1, Stutter DEF Arrive, Move, metricsVars
  <2>2. CASE NodeVerdict(r)
    BY <2>2, VerdictTakes
  <2>3. CASE ConnError(r) \/ CloseChan(r)
    BY <2>3, SameWhenUntouched, Stutter
       DEF ConnError, CloseChan, handlerVars, nodeVars, metricsVars
  <2>4. QED BY <1>5, <2>1, <2>2, <2>3 DEF Environment
<1>6. QED BY <1>1, <1>2, <1>3, <1>4, <1>5 DEF Next, Terminating

\* The interleaved handlers, their connections and the recovery middleware do
\* nothing the contract does not allow.
THEOREM Implementation == Spec => Contract!Spec
<1>1. Init => Contract!Init
  BY DEF Init, MetricsInit, Results, Families, Verdict, ResultCounted, Contract!Init,
         Contract!Counted
<1>2. IInv /\ [Next]_vars => [Contract!Next]_Contract!vars
  BY ContractStep
<1>3. QED BY Inductive, <1>1, <1>2, PTL DEF Spec, Contract!Spec

==============================================================================

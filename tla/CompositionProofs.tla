--------------------------- MODULE CompositionProofs ---------------------------
(***************************************************************************)
(* Proofs about the two modules that put the submissions in company:       *)
(* Restart, where the process ends and clients try again, and Service,     *)
(* where queries run beside them.  Both extend TxSubmission, so what       *)
(* TxSubmissionProofs says of one step of a handler is used for both.      *)
(***************************************************************************)
EXTENDS Service, Restart, TxSubmissionProofs

-----------------------------------------------------------------------------
(* Restart: for any finite set of attempts, any assignment of them to      *)
(* transactions and any number of restarts.                                *)
(*                                                                         *)
(* A handler of the running process fits its program point as in           *)
(* TxSubmissionProofs.  A crash breaks that: a handler it ended may be     *)
(* "done" with any result, so of an earlier life only Told is left.  The   *)
(* collectors count the handlers of this life alone.                       *)

\* The requests whose handlers belong to the running process.
Mine == {r \in Requests : running /\ takenBy[r] = life}

\* What the result and the answer of a request tell of the node, also after the
\* process that concluded it has ended.
Told(r) ==
    /\ result[r] = "accepted" => link[r] = "accepted"
    /\ result[r] = "rejected" => link[r] = "rejected"
    /\ result[r] = "refused" => link[r] = "none"
    /\ response[r] # 0 =>
         /\ result[r] # "none"
         /\ response[r] = 202 <=> result[r] = "accepted"

\* A handler of an earlier life, or of a process that has ended: nothing of it is
\* open, and nobody waits to send an error.
Ended(r) ==
    /\ pc[r] = "done" /\ drain[r] # "waiting"
    /\ conn[r] \in {"none", "closed"} /\ unread[r] = 0

RequestInv(r) ==
    /\ takenBy[r] = 0 <=> pc[r] = "idle"
    /\ takenBy[r] = 0 \/ r \in Mine => Fits(r)
    /\ takenBy[r] # 0 /\ r \notin Mine => Ended(r)
    /\ Told(r)

\* A transaction is taken once, however often it is sent.
TakenOnce ==
    \A r, s \in Requests :
        TxOf[r] = TxOf[s] /\ link[r] = "accepted" /\ link[s] = "accepted" => r = s

RestartInv ==
    /\ RestartTypeOK
    /\ ~running => life <= MaxCrashes
    /\ \A r \in Requests : RequestInv(r)
    /\ TakenOnce
    /\ Counts(Mine)

-----------------------------------------------------------------------------
(* One handler.                                                            *)

\* Only a handler that is neither idle nor done moves, and it stays begun.
LEMMA MovesOn ==
    ASSUME TypeOK, NEW r \in Requests, Handler(r) \/ Panic(r)
    PROVE  pc[r] \notin {"idle", "done"} /\ pc'[r] # "idle"
<1> USE DEF TypeOK, Goto, Move, Conclude, Record, Families
<1>1. CASE CheckContentType(r) \/ ReadBody(r) \/ ParseTxInfo(r) \/ Validate(r)
  BY <1>1 DEF CheckContentType, ReadBody, ParseTxInfo, Validate
<1>2. CASE DialNode(r) \/ Send(r) \/ Await(r) \/ Close(r)
  BY <1>2 DEF DialNode, Send, Await, Close, AfterClose
<1>3. CASE Reply(r) \/ Recover(r) \/ Panic(r)
  BY <1>3 DEF Reply, Recover, Panic
<1>4. CASE CountSubmit(r) \/ CountFail(r) \/ CountResult(r) \/ CountContent(r)
  BY <1>4 DEF CountSubmit, CountFail, CountResult, CountContent, AfterMetrics
<1>5. QED BY <1>1, <1>2, <1>3, <1>4 DEF Handler

\* A step that no handler makes.
QuietStep(r) == Drain(r) \/ NodeVerdict(r) \/ ConnError(r) \/ CloseChan(r)

\* Such a step leaves handlers and collectors alone, changes nothing of an ended
\* handler's own, and decides only on what was sent.
LEMMA QuietKeeps ==
    ASSUME TypeOK, NEW r \in Requests, QuietStep(r)
    PROVE  /\ TypeOK'
           /\ UNCHANGED <<handlerVars, metricsVars>>
           /\ Ended(r) => Ended(r)'
           /\ link[r] # "sent" => link'[r] = link[r]
<1> USE DEF TypeOK, Ended, handlerVars, nodeVars, chanVars, metricsVars
<1>1. CASE Drain(r)
  BY <1>1 DEF Drain, DrainReceive, DrainClosed, DrainTimeout, EndDrain, MetricsTypeOK
<1>2. CASE NodeVerdict(r)
  BY <1>2 DEF NodeVerdict, MetricsTypeOK
<1>3. CASE ConnError(r)
  BY <1>3 DEF ConnError, MetricsTypeOK
<1>4. CASE CloseChan(r)
  BY <1>4 DEF CloseChan, MetricsTypeOK
<1>5. QED BY <1>1, <1>2, <1>3, <1>4 DEF QuietStep

\* A transaction that was refused for its content type is never sent.
LEMMA RefusedStays ==
    ASSUME TypeOK, NEW r \in Requests, Fits(r), RequestStep(r),
           result[r] = "refused" => link[r] = "none"
    PROVE  (result[r] = "refused" => link[r] = "none")'
<1> USE DEF TypeOK, Fits, ResultFitsPoint, NodeFitsPoint, Undecided, Results, Families,
            Goto, Move, Conclude, Record, handlerVars, nodeVars, chanVars
<1>1. CASE CheckContentType(r) \/ ReadBody(r) \/ ParseTxInfo(r) \/ Validate(r)
  BY <1>1 DEF CheckContentType, ReadBody, ParseTxInfo, Validate
<1>2. CASE DialNode(r) \/ Send(r) \/ Await(r) \/ Close(r)
  BY <1>2 DEF DialNode, Send, Await, Close
<1>3. CASE Reply(r) \/ Recover(r) \/ Panic(r)
  BY <1>3 DEF Reply, Recover, Panic
<1>4. CASE CountSubmit(r) \/ CountFail(r) \/ CountResult(r) \/ CountContent(r)
  BY <1>4 DEF CountSubmit, CountFail, CountResult, CountContent
<1>5. CASE Drain(r)
  BY <1>5 DEF Drain, DrainReceive, DrainClosed, DrainTimeout, EndDrain
<1>6. CASE Environment(r)
  BY <1>6 DEF Environment, Arrive, NodeVerdict, ConnError, CloseChan
<1>7. QED
  BY <1>1, <1>2, <1>3, <1>4, <1>5, <1>6 DEF RequestStep, Handler

\* What one step of the handlers, the connections or the node keeps of the
\* request it is about.
LEMMA ToldStep ==
    ASSUME TypeOK, NEW r \in Requests, Fits(r), Told(r), RequestStep(r)
    PROVE  Fits(r)' /\ Told(r)'
<1>1. Fits(r)'
  BY FitsStep
<1>2. (result[r] = "refused" => link[r] = "none")'
  BY RefusedStays DEF Told
<1>3. (Fits(r) /\ (result[r] = "refused" => link[r] = "none") => Told(r))'
  BY DEF Fits, ResultFitsPoint, NodeFitsPoint, AnswerFitsPoint, Answered, Told, Undecided,
         Families
<1>4. QED BY <1>1, <1>2, <1>3

-----------------------------------------------------------------------------
(* All requests.                                                           *)

\* A request that nothing happens to, in a life that goes on, is as before.
LEMMA RequestKept ==
    ASSUME NEW q \in Requests, RequestInv(q), SameRequest(q), takenBy'[q] = takenBy[q],
           UNCHANGED <<running, life>>
    PROVE  RequestInv(q)'
<1>1. q \in Mine' <=> q \in Mine
  BY DEF Mine
<1>2. Fits(q) => Fits(q)'
  BY FitsKept
<1>3. Told(q)' /\ (Ended(q) => Ended(q)')
  BY DEF RequestInv, Told, Ended, SameRequest
<1>4. QED BY <1>1, <1>2, <1>3 DEF RequestInv, SameRequest

\* A step of a handler, a connection or the node keeps types and requests: that
\* of an ended handler can only be quiet.
LEMMA WorkKeeps ==
    ASSUME RestartTypeOK, \A q \in Requests : RequestInv(q),
           NEW r \in Requests, Handler(r) \/ Panic(r) \/ QuietStep(r),
           UNCHANGED <<running, life, takenBy>>
    PROVE  TypeOK' /\ \A q \in Requests : RequestInv(q)'
<1>0. TypeOK /\ RequestInv(r) /\ RequestStep(r)
  BY DEF RestartTypeOK, RequestStep, Environment, QuietStep
<1>1. \A q \in Requests \ {r} : RequestInv(q)'
  BY <1>0, OthersStand, RequestKept
<1>2. r \in Mine' <=> r \in Mine
  BY DEF Mine
<1>3. CASE takenBy[r] = 0 \/ r \in Mine
  <2>1. Fits(r)' /\ Told(r)'
    BY <1>0, <1>3, ToldStep DEF RequestInv
  <2>2. TypeOK'
    BY <1>0, <1>3, TypesKept DEF RequestInv, Fits
  <2>3. pc[r] = "idle" <=> pc'[r] = "idle"
    BY <1>0, MovesOn, QuietKeeps DEF handlerVars
  <2>4. RequestInv(r)'
    BY <1>0, <1>2, <1>3, <2>1, <2>3 DEF RequestInv
  <2>5. QED BY <1>1, <2>2, <2>4
<1>4. CASE ~(takenBy[r] = 0 \/ r \in Mine)
  <2>1. pc[r] = "done" /\ Ended(r) /\ Told(r)
    BY <1>0, <1>4 DEF RequestInv, Ended
  <2>2. QuietStep(r)
    BY <1>0, <2>1, MovesOn
  <2>3. /\ TypeOK'
        /\ UNCHANGED handlerVars
        /\ Ended(r) => Ended(r)'
        /\ link[r] # "sent" => link'[r] = link[r]
    BY <1>0, <2>2, QuietKeeps
  <2>4. Ended(r)' /\ Told(r)'
    <3>1. pc'[r] = pc[r] /\ result'[r] = result[r] /\ response'[r] = response[r]
      BY <2>3 DEF handlerVars
    <3>2. link[r] = "sent" => result[r] \notin {"accepted", "rejected", "refused"}
      BY <2>1 DEF Told
    <3>3. QED BY <2>1, <2>3, <3>1, <3>2 DEF Ended, Told
  <2>5. RequestInv(r)'
    BY <1>0, <1>2, <1>4, <2>1, <2>3, <2>4 DEF RequestInv, handlerVars
  <2>6. QED BY <1>1, <2>3, <2>5
<1>5. QED BY <1>3, <1>4

\* An attempt begins a handler of this life.
LEMMA AttemptKeeps ==
    ASSUME RestartTypeOK, \A q \in Requests : RequestInv(q),
           NEW r \in Requests, Attempt(r)
    PROVE  RestartTypeOK' /\ \A q \in Requests : RequestInv(q)'
<1>0. TypeOK /\ RequestInv(r) /\ RequestStep(r) /\ pc[r] = "idle"
  BY DEF RestartTypeOK, RequestStep, Environment, Attempt, Arrive, Move, Goto
<1>1. /\ life \in Nat \ {0} /\ running
      /\ UNCHANGED <<running, life, heard>>
      /\ takenBy' = [takenBy EXCEPT ![r] = life]
      /\ takenBy \in [Requests -> 0 .. life]
  BY CrashesAssumption DEF Attempt, RestartTypeOK
<1>2. Fits(r) /\ Told(r)
  BY <1>0 DEF RequestInv
<1>3. Fits(r)' /\ Told(r)' /\ TypeOK'
  BY <1>0, <1>2, ToldStep, TypesKept DEF Fits
<1>4. pc'[r] = "contentType"
  BY <1>0 DEF Attempt, Arrive, Move, Goto, TypeOK
<1>5. r \in Mine' /\ takenBy'[r] # 0
  BY <1>1 DEF Mine
<1>6. RequestInv(r)'
  BY <1>3, <1>4, <1>5 DEF RequestInv
<1>7. \A q \in Requests \ {r} : takenBy'[q] = takenBy[q]
  BY <1>1
<1>8. \A q \in Requests \ {r} : RequestInv(q)'
  BY <1>0, <1>1, <1>7, OthersStand, RequestKept
<1>9. takenBy' \in [Requests -> 0 .. life']
  BY <1>1
<1>10. QED BY <1>1, <1>3, <1>6, <1>8, <1>9 DEF RestartTypeOK

\* A crash ends every handler; what was said stays true.
LEMMA CrashKeeps ==
    ASSUME RestartTypeOK, \A q \in Requests : RequestInv(q), Crash
    PROVE  RestartTypeOK' /\ \A q \in Requests : RequestInv(q)'
<1>1. RestartTypeOK'
  BY DEF RestartTypeOK, TypeOK, MetricsTypeOK, Crash, NewCollectors, Points, Results, Families
<1>2. ASSUME NEW q \in Requests PROVE RequestInv(q)'
  <2>1. /\ pc'[q] = IF pc[q] = "idle" THEN "idle" ELSE "done"
        /\ drain'[q] = IF drain[q] = "none" THEN "none" ELSE "done"
        /\ conn'[q] = IF conn[q] = "none" THEN "none" ELSE "closed"
        /\ unread'[q] = 0
        /\ UNCHANGED <<txInfo, result, response, link, raised, takenBy, life>>
        /\ running' = FALSE
    BY DEF Crash
  <2>2. RequestInv(q) /\ raised[q] \in Nat
    BY DEF RestartTypeOK, TypeOK
  <2>3. q \notin Mine'
    BY <2>1 DEF Mine
  <2>4. Told(q)' /\ (takenBy'[q] = 0 <=> pc'[q] = "idle")
    BY <2>1, <2>2 DEF RequestInv, Told
  <2>5. ASSUME takenBy'[q] = 0 PROVE Fits(q)'
    <3>1. pc[q] = "idle" /\ Fits(q)
      BY <2>1, <2>2, <2>5 DEF RequestInv
    <3>2. QED
      BY <2>1, <2>2, <3>1 DEF Fits, ResultFitsPoint, NodeFitsPoint, AnswerFitsPoint,
                              Answered, Undecided, Families
  <2>6. ASSUME takenBy'[q] # 0 PROVE Ended(q)'
    BY <2>1, <2>2, <2>4, <2>6 DEF Ended, RestartTypeOK, TypeOK
  <2>7. QED BY <2>3, <2>4, <2>5, <2>6 DEF RequestInv
<1>3. QED BY <1>1, <1>2

\* A new life has no handler yet.
LEMMA BootKeeps ==
    ASSUME RestartTypeOK, \A q \in Requests : RequestInv(q), Boot, life <= MaxCrashes
    PROVE  RestartTypeOK' /\ \A q \in Requests : RequestInv(q)'
<1>1. life \in Nat /\ life' = life + 1 /\ UNCHANGED <<vars, takenBy, heard>>
      /\ takenBy \in [Requests -> 0 .. life] /\ running' = TRUE /\ ~running
  BY CrashesAssumption DEF Boot, RestartTypeOK
<1>2. TypeOK'
  BY <1>1 DEF RestartTypeOK, TypeOK, MetricsTypeOK, vars, handlerVars, nodeVars, chanVars,
              metricsVars
<1>3. RestartTypeOK'
  BY <1>1, <1>2, CrashesAssumption DEF RestartTypeOK
<1>4. ASSUME NEW q \in Requests PROVE RequestInv(q)'
  <2>1. q \notin Mine /\ q \notin Mine'
    BY <1>1 DEF Mine
  <2>2. SameRequest(q)
    BY <1>1 DEF vars, handlerVars, nodeVars, chanVars, SameRequest
  <2>3. Fits(q) => Fits(q)'
    BY <2>2, FitsKept
  <2>4. QED BY <1>1, <2>1, <2>2, <2>3 DEF RequestInv, SameRequest, Told, Ended
<1>5. QED BY <1>3, <1>4

-----------------------------------------------------------------------------
(* Transactions.                                                           *)

\* Only the node's verdict puts a transaction into the mempool.
LEMMA OnlyVerdictsTake ==
    ASSUME TypeOK, NEW r \in Requests, NEW q \in Requests,
           Handler(r) \/ Panic(r) \/ Drain(r) \/ ConnError(r) \/ CloseChan(r) \/ Arrive(r),
           link'[q] = "accepted"
    PROVE  link[q] = "accepted"
<1> USE DEF TypeOK, Goto, Move, Conclude, Record, handlerVars, nodeVars, chanVars
<1>1. CASE CheckContentType(r) \/ ReadBody(r) \/ ParseTxInfo(r) \/ Validate(r)
  BY <1>1 DEF CheckContentType, ReadBody, ParseTxInfo, Validate
<1>2. CASE DialNode(r) \/ Send(r) \/ Await(r) \/ Close(r)
  BY <1>2 DEF DialNode, Send, Await, Close
<1>3. CASE Reply(r) \/ Recover(r) \/ Panic(r)
  BY <1>3 DEF Reply, Recover, Panic
<1>4. CASE CountSubmit(r) \/ CountFail(r) \/ CountResult(r) \/ CountContent(r)
  BY <1>4 DEF CountSubmit, CountFail, CountResult, CountContent
<1>5. CASE Drain(r) \/ ConnError(r) \/ CloseChan(r) \/ Arrive(r)
  BY <1>5 DEF Drain, DrainReceive, DrainClosed, DrainTimeout, EndDrain, ConnError,
              CloseChan, Arrive
<1>6. QED BY <1>1, <1>2, <1>3, <1>4, <1>5 DEF Handler

\* No step lets the node take a transaction twice.
LEMMA TakenOnceStep == ASSUME RestartInv, [RestartNext]_restartVars PROVE TakenOnce'
<1>0. TypeOK /\ TakenOnce
  BY DEF RestartInv, RestartTypeOK
<1>1. ASSUME \A q \in Requests : link'[q] = "accepted" => link[q] = "accepted"
      PROVE  TakenOnce'
  BY <1>0, <1>1 DEF TakenOnce
<1>2. ASSUME NEW r \in Requests, Attempt(r) \/ Work(r) PROVE TakenOnce'
  BY <1>0, <1>1, <1>2, OnlyVerdictsTake DEF Attempt, Work
<1>3. ASSUME NEW r \in Requests, Decide(r) PROVE TakenOnce'
  <2>1. PICK v \in {"accepted", "rejected", "lost"} : link' = [link EXCEPT ![r] = v]
    BY <1>3 DEF Decide, TakesOnce, NodeVerdict
  <2>2. \A q \in Requests \ {r} : link'[q] = link[q]
    BY <2>1, <1>0 DEF TypeOK
  <2>3. link'[r] = "accepted" =>
          \A s \in Requests : TxOf[s] = TxOf[r] => link[s] # "accepted"
    BY <1>3 DEF Decide, TakesOnce, Taken, Attempts
  <2>4. QED BY <1>0, <2>2, <2>3 DEF TakenOnce
<1>4. ASSUME NEW r \in Requests, Deliver(r) \/ Lose(r) PROVE TakenOnce'
  BY <1>1, <1>4 DEF Deliver, Lose, Hear, vars, nodeVars
<1>5. CASE Crash \/ Boot
  BY <1>1, <1>5 DEF Crash, Boot, vars, nodeVars
<1>6. CASE UNCHANGED restartVars
  BY <1>1, <1>6 DEF restartVars, vars, nodeVars
<1>7. QED BY <1>2, <1>3, <1>4, <1>5, <1>6 DEF RestartNext, AllHeard

-----------------------------------------------------------------------------
(* Collectors.                                                             *)

\* When nothing that is counted changes, the collectors count the same life.
LEMMA LifeKept ==
    ASSUME Counts(Mine), UNCHANGED <<handlerVars, metricsVars>>, Mine' = Mine
    PROVE  Counts(Mine)'
<1>1. PICK S \in SUBSET Requests : S = Mine
  BY DEF Mine
<1>2. \A q \in S : Unmoved(q)
  BY <1>1, StandsStill DEF handlerVars
<1>3. Counts(S)
  BY <1>1
<1>4. Counts(S)'
  BY <1>2, <1>3, CountsKept
<1>5. QED BY <1>1, <1>4

\* A handler that moves belongs to this life, and its increments are counted.
LEMMA LifeMoves ==
    ASSUME TypeOK, Counts(Mine), Mine' = Mine, NEW r \in Mine, Fits(r), RequestStep(r)
    PROVE  Counts(Mine)'
<1>1. PICK S \in SUBSET Requests : S = Mine
  BY DEF Mine
<1>2. Counts(S)
  BY <1>1
<1>3. Counts(S)'
  BY <1>1, <1>2, CountsStep
<1>4. QED BY <1>1, <1>3

\* Every step keeps the collectors with the handlers of this life.
LEMMA LifeStep == ASSUME RestartInv, [RestartNext]_restartVars PROVE Counts(Mine)'
<1>0. /\ TypeOK /\ Counts(Mine)
      /\ \A q \in Requests : RequestInv(q)
      /\ life \in Nat \ {0} /\ takenBy \in [Requests -> 0 .. life]
      /\ Mine \subseteq Requests
  BY CrashesAssumption DEF RestartInv, RestartTypeOK, Mine
<1>1. ASSUME UNCHANGED <<handlerVars, metricsVars, running, life, takenBy>>
      PROVE  Counts(Mine)'
  BY <1>0, <1>1, LifeKept DEF Mine
<1>2. ASSUME NEW r \in Requests, Work(r) PROVE Counts(Mine)'
  <2>0. UNCHANGED <<running, life, takenBy>> /\ Mine' = Mine
    BY <1>2 DEF Work, Mine
  <2>1. CASE Drain(r) \/ ConnError(r) \/ CloseChan(r)
    BY <1>0, <1>1, <2>0, <2>1, QuietKeeps DEF QuietStep
  <2>2. CASE Handler(r) \/ Panic(r)
    <3>1. pc[r] \notin {"idle", "done"}
      BY <1>0, <2>2, MovesOn
    <3>2. r \in Mine
      BY <1>0, <3>1 DEF RequestInv, Ended
    <3>3. Fits(r) /\ RequestStep(r)
      BY <1>0, <2>2, <3>2 DEF RequestInv, RequestStep
    <3>4. QED BY <1>0, <2>0, <3>2, <3>3, LifeMoves
  <2>3. QED BY <1>2, <2>1, <2>2 DEF Work
<1>3. ASSUME NEW r \in Requests, Decide(r) PROVE Counts(Mine)'
  BY <1>1, <1>3 DEF Decide, TakesOnce, NodeVerdict
<1>4. ASSUME NEW r \in Requests, Deliver(r) \/ Lose(r) PROVE Counts(Mine)'
  BY <1>1, <1>4 DEF Deliver, Lose, Hear, vars
<1>5. ASSUME NEW r \in Requests, Attempt(r) PROVE Counts(Mine)'
  <2>1. /\ running /\ UNCHANGED <<running, life, metricsVars, result, txInfo>>
        /\ takenBy' = [takenBy EXCEPT ![r] = life]
        /\ pc[r] = "idle" /\ pc' = [pc EXCEPT ![r] = "contentType"]
    BY <1>5 DEF Attempt, Arrive, Move, Goto
  <2>2. takenBy[r] = 0 /\ result[r] = "none"
    BY <1>0, <2>1 DEF RequestInv, Fits, ResultFitsPoint, Undecided
  <2>3. r \notin Mine /\ Mine' = Mine \cup {r}
    BY <1>0, <2>1, <2>2 DEF Mine
  <2>4. \A q \in Mine : Unmoved(q)
    BY <1>0, <2>1, <2>3, StandsStill DEF TypeOK
  <2>5. /\ ~SubmitCounted(r)' /\ ~FailCounted(r)' /\ ~ResultCounted(r)'
        /\ \A f \in Families : ~ContentCounted(r, f)'
    BY <2>1, <2>2 DEF SubmitCounted, FailCounted, ResultCounted, ContentCounted
  <2>6. PICK S \in SUBSET Requests, T \in SUBSET Requests : S = Mine /\ T = Mine \cup {r}
    BY <1>0
  <2>7. Counts(S)'
    BY <1>0, <2>1, <2>4, <2>6, CountsKept
  <2>8. /\ SubmitSet(T)' = SubmitSet(S)' /\ FailSet(T)' = FailSet(S)'
        /\ \A v \in Results : ResultSet(T, v)' = ResultSet(S, v)'
        /\ \A f \in Families : ContentSet(T, f)' = ContentSet(S, f)'
    BY <2>5, <2>6 DEF SubmitSet, FailSet, ResultSet, ContentSet
  <2>9. Counts(T)'
    BY <2>7, <2>8 DEF Counts
  <2>10. QED BY <2>3, <2>6, <2>9
<1>6. CASE Crash
  <2>1. Mine' = {}
    BY <1>6 DEF Crash, Mine
  <2>2. Counts({})'
    BY <1>6, FS_EmptySet DEF Crash, NewCollectors, Counts, SubmitSet, FailSet, ResultSet,
                             ContentSet
  <2>3. QED BY <2>1, <2>2
<1>7. CASE Boot
  <2>1. Mine = {} /\ Mine' = {}
    BY <1>0, <1>7 DEF Boot, Mine
  <2>2. UNCHANGED <<handlerVars, metricsVars>>
    BY <1>7 DEF Boot, vars
  <2>3. QED BY <1>0, <2>1, <2>2, LifeKept
<1>8. CASE UNCHANGED restartVars
  BY <1>1, <1>8 DEF restartVars, vars
<1>9. QED
  BY <1>2, <1>3, <1>4, <1>5, <1>6, <1>7, <1>8 DEF RestartNext, AllHeard

-----------------------------------------------------------------------------
(* The whole.                                                              *)

\* Nothing was attempted, taken or counted at first.
LEMMA RestartInitInv == RestartInit => RestartInv
<1> SUFFICES ASSUME RestartInit PROVE RestartInv
  OBVIOUS
<1>1. IInv /\ Init
  BY InitIInv DEF RestartInit
<1>2. Mine = {} /\ life = 1 /\ running /\ takenBy = [r \in Requests |-> 0]
  BY DEF RestartInit, Mine
<1>3. RestartTypeOK
  BY <1>1, <1>2, CrashesAssumption DEF RestartInit, RestartTypeOK, IInv
<1>4. ASSUME NEW q \in Requests PROVE RequestInv(q)
  <2>1. Fits(q)
    BY <1>1 DEF IInv, LocalInv, Fits
  <2>2. Told(q) /\ pc[q] = "idle"
    BY <1>1 DEF Init, Told
  <2>3. QED BY <1>2, <2>1, <2>2 DEF RequestInv
<1>5. TakenOnce
  BY <1>1 DEF Init, TakenOnce
<1>6. Counts(Mine)
  BY <1>1, <1>2, FS_EmptySet DEF Init, MetricsInit, Counts, SubmitSet, FailSet, ResultSet,
                                 ContentSet
<1>7. QED BY <1>2, <1>3, <1>4, <1>5, <1>6 DEF RestartInv

\* Every step keeps the types, the requests and the count of lives.
LEMMA RequestsStep ==
    ASSUME RestartInv, [RestartNext]_restartVars
    PROVE  /\ RestartTypeOK' /\ \A q \in Requests : RequestInv(q)'
           /\ (~running => life <= MaxCrashes)'
<1>0. RestartTypeOK /\ (\A q \in Requests : RequestInv(q)) /\ TypeOK
  BY DEF RestartInv, RestartTypeOK
<1>1. ASSUME NEW r \in Requests, Attempt(r)
      PROVE  /\ RestartTypeOK' /\ \A q \in Requests : RequestInv(q)'
             /\ (~running => life <= MaxCrashes)'
  BY <1>0, <1>1, AttemptKeeps DEF Attempt
<1>2. ASSUME NEW r \in Requests, Work(r) \/ Decide(r)
      PROVE  /\ RestartTypeOK' /\ \A q \in Requests : RequestInv(q)'
             /\ (~running => life <= MaxCrashes)'
  <2>1. /\ Handler(r) \/ Panic(r) \/ QuietStep(r)
        /\ UNCHANGED <<running, life, takenBy, heard>>
    BY <1>2 DEF Work, Decide, TakesOnce, QuietStep
  <2>2. TypeOK' /\ \A q \in Requests : RequestInv(q)'
    BY <1>0, <2>1, WorkKeeps
  <2>3. QED BY <1>0, <2>1, <2>2 DEF RestartTypeOK, RestartInv
<1>3. ASSUME UNCHANGED <<vars, running, life, takenBy>>,
             heard' \in [Requests -> {"waiting", "answer", "lost"}]
      PROVE  /\ RestartTypeOK' /\ \A q \in Requests : RequestInv(q)'
             /\ (~running => life <= MaxCrashes)'
  <2>1. TypeOK'
    BY <1>0, <1>3 DEF TypeOK, MetricsTypeOK, vars, handlerVars, nodeVars, chanVars,
                      metricsVars
  <2>2. \A q \in Requests : SameRequest(q)
    BY <1>3 DEF vars, handlerVars, nodeVars, chanVars, SameRequest
  <2>3. \A q \in Requests : RequestInv(q)'
    BY <1>0, <1>3, <2>2, RequestKept
  <2>4. QED BY <1>0, <1>3, <2>1, <2>3 DEF RestartTypeOK, RestartInv
<1>4. ASSUME NEW r \in Requests, Deliver(r) \/ Lose(r)
      PROVE  /\ RestartTypeOK' /\ \A q \in Requests : RequestInv(q)'
             /\ (~running => life <= MaxCrashes)'
  <2>1. heard' \in [Requests -> {"waiting", "answer", "lost"}]
    BY <1>0, <1>4 DEF Deliver, Lose, Hear, RestartTypeOK
  <2>2. QED BY <1>3, <1>4, <2>1 DEF Deliver, Lose, Hear
<1>5. CASE Crash
  BY <1>0, <1>5, CrashKeeps DEF Crash
<1>6. CASE Boot
  BY <1>0, <1>6, BootKeeps DEF Boot, RestartInv
<1>7. CASE UNCHANGED restartVars
  BY <1>0, <1>3, <1>7 DEF restartVars, RestartTypeOK
<1>8. QED
  BY <1>1, <1>2, <1>4, <1>5, <1>6, <1>7 DEF RestartNext, AllHeard

\* The invariant holds over all lives of the process.
THEOREM RestartInductive == RestartSpec => []RestartInv
<1>1. RestartInv /\ [RestartNext]_restartVars => RestartInv'
  BY RequestsStep, TakenOnceStep, LifeStep DEF RestartInv
<1>2. QED BY RestartInitInv, <1>1, PTL DEF RestartSpec

\* The state keeps its types over crashes and restarts.
THEOREM RestartTypes == RestartSpec => []RestartTypeOK
<1>1. RestartInv => RestartTypeOK
  BY DEF RestartInv
<1>2. QED BY RestartInductive, <1>1, PTL

\* Trying again is safe, with any number of attempts in any number of lives: one
\* 202 per transaction, and no life counts more than the node took.
THEOREM RetriesAreSafe == RestartSpec => []OneAcceptancePerTx
<1>1. RestartInv => OneAcceptancePerTx
  <2> SUFFICES ASSUME RestartInv PROVE OneAcceptancePerTx
    OBVIOUS
  <2>1. \A r \in Requests :
          /\ response[r] = 202 => link[r] = "accepted"
          /\ result[r] = "accepted" => link[r] = "accepted"
    BY DEF RestartInv, RequestInv, Told
  <2>2. \A r, s \in Requests :
          TxOf[r] = TxOf[s] /\ response[r] = 202 /\ response[s] = 202 => r = s
    BY <2>1 DEF RestartInv, TakenOnce
  <2> DEFINE now == ResultSet(Mine, "accepted")
             taken == TakenTxs
             f == [r \in now |-> TxOf[r]]
  <2>3. /\ now \subseteq Requests
        /\ \A r \in now : link[r] = "accepted"
    BY <2>1 DEF ResultSet, Mine
  <2>4. f \in Injection(now, taken)
    <3>1. f \in [now -> taken]
      BY <2>3 DEF TakenTxs
    <3>2. \A r, s \in now : f[r] = f[s] => r = s
      BY <2>3 DEF RestartInv, TakenOnce
    <3>3. QED BY <3>1, <3>2 DEF Injection, IsInjective
  <2>5. IsFiniteSet(taken)
    <3> DEFINE accepted == {s \in Requests : link[s] = "accepted"}
               g == [r \in accepted |-> TxOf[r]]
    <3>1. IsFiniteSet(accepted)
      BY RequestsAssumption, FS_Subset
    <3>2. g \in Surjection(accepted, taken)
      BY DEF Surjection, TakenTxs
    <3>3. QED BY <3>1, <3>2, FS_Surjection
  <2>6. Cardinality(now) <= Cardinality(taken)
    BY <2>4, <2>5, FS_Injection
  <2>7. QED BY <2>2, <2>6 DEF OneAcceptancePerTx, RestartInv, Counts, Results
<1>2. QED BY RestartInductive, <1>1, PTL

\* What entered the mempool without a 202 ended in an error, a panic or a crash.
THEOREM AcceptancesExplained == RestartSpec => []SilentAcceptanceExplained
<1>1. RestartInv => SilentAcceptanceExplained
  <2> SUFFICES ASSUME RestartInv, NEW r \in Requests,
                      link[r] = "accepted", pc[r] = "done", response[r] # 202
               PROVE  \/ result[r] \in {"error", "panic"}
                      \/ response[r] = 0 /\ (takenBy[r] < life \/ ~running)
    BY DEF SilentAcceptanceExplained
  <2>1. /\ RequestInv(r) /\ takenBy[r] \in 0 .. life /\ life \in Nat
        /\ result[r] \in Results \cup {"none", "refused", "panic"}
    BY CrashesAssumption DEF RestartInv, RestartTypeOK, TypeOK
  <2>2. result[r] \notin {"rejected", "refused"}
    BY <2>1 DEF RequestInv, Told
  <2>3. CASE r \in Mine
    <3>1. Fits(r)
      BY <2>1, <2>3 DEF RequestInv
    <3>2. response[r] # 0 /\ result[r] # "none" /\ result[r] # "accepted"
      BY <3>1 DEF Fits, AnswerFitsPoint, Answered, ResultFitsPoint, Undecided
    <3>3. QED BY <2>1, <2>2, <3>2 DEF Results
  <2>4. CASE r \notin Mine
    <3>1. takenBy[r] < life \/ ~running
      BY <2>1, <2>4 DEF Mine
    <3>2. response[r] # 0 => result[r] \notin {"none", "accepted"}
      BY <2>1 DEF RequestInv, Told
    <3>3. QED BY <2>1, <2>2, <3>1, <3>2 DEF Results
  <2>5. QED BY <2>3, <2>4
<1>2. QED BY RestartInductive, <1>1, PTL

\* The handlers of this life fit their program points.
LEMMA MineFit == ASSUME RestartInv PROVE \A r \in Mine : Fits(r)
BY DEF RestartInv, RequestInv, Mine

\* At rest the collectors tell what this life answered, whatever was before it.
LEMMA RestOfThisLife == ASSUME RestartInv PROVE TotalsOfThisLife
<1> DEFINE mine == {r \in Requests : takenBy[r] = life}
           said == {r \in mine : response[r] = 202}
           failed == {r \in mine : response[r] # 202 /\ result[r] # "panic"}
<1> SUFFICES ASSUME running, \A r \in mine : pc[r] = "done"
             PROVE  /\ submitCount = Cardinality(said)
                    /\ requestsTotal["accepted"] = submitCount
                    /\ failCount = Cardinality(failed)
  BY DEF TotalsOfThisLife
<1>1. Mine = mine
  BY DEF Mine
<1>2. ASSUME NEW r \in mine
      PROVE  /\ SubmitCounted(r) <=> response[r] = 202
             /\ ResultCounted(r) /\ result[r] = "accepted" <=> response[r] = 202
             /\ FailCounted(r) <=> response[r] # 202 /\ result[r] # "panic"
  <2>1. TypeOK /\ Fits(r) /\ pc[r] = "done" /\ r \in Requests
    BY <1>1, <1>2, MineFit DEF RestartInv, RestartTypeOK
  <2>2. response[r] \in {202, 400, 413, 415, 500}
    BY <2>1 DEF TypeOK, Fits, AnswerFitsPoint, Answered
  <2>3. QED BY <2>1, <2>2, RestIsCounted
<1>3. /\ SubmitSet(Mine) = said /\ FailSet(Mine) = failed
      /\ ResultSet(Mine, "accepted") = said
  BY <1>1, <1>2 DEF SubmitSet, FailSet, ResultSet
<1>4. QED BY <1>3 DEF RestartInv, Counts, Results

\* In every life the collectors agree with its answers, with the node and with each
\* other, while its handlers run and when they are at rest.
THEOREM CollectorsPerLife == RestartSpec => []CollectorsOfThisLife
<1>1. RestartInv => CollectorsOfThisLife
  <2> SUFFICES ASSUME RestartInv PROVE CollectorsOfThisLife
    OBVIOUS
  <2>1. /\ TypeOK /\ Mine \in SUBSET Requests /\ Counts(Mine)
        /\ \A r \in Mine : Fits(r)
    BY MineFit DEF RestartInv, RestartTypeOK, Mine
  <2>2. FailuresAgree /\ ContentLagsResults
    BY <2>1, FailuresFollow, ContentFollows
  <2>3. SuccessesOfThisLife
    <3>1. running => Mine = {r \in Requests : takenBy[r] = life}
      BY DEF Mine
    <3>2. QED BY <2>1, <3>1, SuccessesFollow DEF SuccessesOfThisLife
  <2>4. QED BY <2>2, <2>3, RestOfThisLife DEF CollectorsOfThisLife
<1>2. QED BY RestartInductive, <1>1, PTL

-----------------------------------------------------------------------------
(* What TxSubmission promises holds over all lives.                        *)

\* A 202 stands for a transaction in the mempool also when the process that wrote
\* it has ended.
THEOREM AcceptedSurvives == RestartSpec => []AcceptedMeansInMempool
<1>1. RestartInv => AcceptedMeansInMempool
  BY DEF RestartInv, RequestInv, Told, AcceptedMeansInMempool
<1>2. QED BY RestartInductive, <1>1, PTL

\* "rejected" is the node's own word, whatever life concluded it.
THEOREM RejectionSurvives == RestartSpec => []RejectionIsTheNodes
<1>1. RestartInv => RejectionIsTheNodes
  BY DEF RestartInv, RequestInv, Told, RejectionIsTheNodes
<1>2. QED BY RestartInductive, <1>1, PTL

\* A connection is never open behind an answer, nor left open by a crash.
THEOREM ClosedOverLives == RestartSpec => []NoAnswerWhileConnected
<1>1. RestartInv => NoAnswerWhileConnected
  <2> SUFFICES ASSUME RestartInv, NEW r \in Requests, response[r] # 0
               PROVE  conn[r] # "open"
    BY DEF NoAnswerWhileConnected
  <2>1. Fits(r) \/ Ended(r)
    BY DEF RestartInv, RequestInv
  <2>2. QED
    BY <2>1 DEF Fits, NodeFitsPoint, AnswerFitsPoint, Answered, Ended, Families
<1>2. QED BY RestartInductive, <1>1, PTL

\* What a client was told and what was concluded is not revised by a crash, by a
\* new life or by another attempt, and what is at rest stays at rest.
THEOREM OutcomesSurvive == RestartSpec => OutcomeIsFinal
<1>1. ASSUME RestartInv, [RestartNext]_restartVars PROVE \A q \in Requests : Final(q)
  <2>0. TypeOK /\ \A q \in Requests : RequestInv(q)
    BY <1>1 DEF RestartInv, RestartTypeOK
  <2>1. \A q \in Requests : pc[q] = "done" => conn[q] # "open"
    BY <2>0 DEF RequestInv, Ended, Fits, NodeFitsPoint
  <2>2. ASSUME UNCHANGED vars PROVE \A q \in Requests : Final(q)
    BY <2>1, <2>2, FinalKept DEF vars, handlerVars, nodeVars, chanVars, SameRequest
  <2>3. ASSUME NEW r \in Requests, Attempt(r) \/ Work(r) \/ Decide(r)
        PROVE  \A q \in Requests : Final(q)
    <3>1. RequestStep(r)
      BY <2>3 DEF Attempt, Work, Decide, TakesOnce, RequestStep, Environment
    <3>2. \A q \in Requests \ {r} : Final(q)
      BY <2>0, <2>1, <3>1, OthersStand, FinalKept
    <3>3. CASE Fits(r)
      BY <2>0, <3>1, <3>2, <3>3, FinalStep
    <3>4. CASE ~Fits(r)
      <4>1. Ended(r)
        BY <2>0, <3>4 DEF RequestInv
      <4>2. QuietStep(r)
        BY <2>0, <2>3, <4>1, MovesOn
           DEF Attempt, Arrive, Move, Goto, Work, Decide, TakesOnce, QuietStep, Ended
      <4>3. Ended(r)' /\ UNCHANGED handlerVars
        BY <2>0, <4>1, <4>2, QuietKeeps
      <4>4. Final(r)
        BY <4>3 DEF Final, AtRest, Ended, handlerVars
      <4>5. QED BY <3>2, <4>4
    <3>5. QED BY <3>3, <3>4
  <2>4. CASE Crash
    BY <2>0, <2>4 DEF Crash, Final, AtRest, TypeOK
  <2>5. CASE Boot \/ UNCHANGED restartVars \/ \E r \in Requests : Deliver(r) \/ Lose(r)
    BY <2>2, <2>5 DEF Boot, restartVars, Deliver, Lose, Hear
  <2>6. QED BY <1>1, <2>3, <2>4, <2>5 DEF RestartNext, AllHeard
<1>2. RestartInv /\ [RestartNext]_restartVars => [\A r \in Requests :
              /\ response[r] # 0 => response'[r] = response[r]
              /\ result[r] \in Results \cup {"refused"} => result'[r] = result[r]
              /\ AtRest(r) => AtRest(r)' /\ conn'[r] # "open"]_vars
  BY <1>1 DEF Final
<1>3. QED BY RestartInductive, <1>2, PTL DEF RestartSpec, OutcomeIsFinal

\* A handler goes forward in every life, and a crash takes none back: an attempt is
\* served once, and to try again a client needs a new request.
THEOREM HandlersAdvanceOverLives ==
    RestartSpec => [][\A r \in Requests : Advances(r)]_vars
<1>1. RestartInv /\ [RestartNext]_restartVars => [\A r \in Requests : Advances(r)]_vars
  <2> SUFFICES ASSUME RestartInv, RestartNext
               PROVE  UNCHANGED vars \/ \A q \in Requests : Advances(q)
    BY DEF restartVars
  <2>0. TypeOK /\ \A q \in Requests : RequestInv(q)
    BY DEF RestartInv, RestartTypeOK
  <2>1. ASSUME NEW r \in Requests, Attempt(r) \/ Work(r) \/ Decide(r)
        PROVE  \A q \in Requests : Advances(q)
    <3>1. RequestStep(r)
      BY <2>1 DEF Attempt, Work, Decide, TakesOnce, RequestStep, Environment
    <3>2. \A q \in Requests \ {r} : Advances(q)
      BY <2>0, <3>1, OthersStand DEF SameRequest, Advances
    <3>3. CASE Fits(r)
      BY <2>0, <3>1, <3>2, <3>3, AdvanceStep
    <3>4. CASE ~Fits(r)
      <4>1. Ended(r)
        BY <2>0, <3>4 DEF RequestInv
      <4>2. QuietStep(r)
        BY <2>0, <2>1, <4>1, MovesOn
           DEF Attempt, Arrive, Move, Goto, Work, Decide, TakesOnce, QuietStep, Ended
      <4>3. UNCHANGED handlerVars
        BY <2>0, <4>2, QuietKeeps
      <4>4. QED BY <3>2, <4>3 DEF handlerVars, Advances
    <3>5. QED BY <3>3, <3>4
  <2>2. CASE Crash
    <3>1. ASSUME NEW q \in Requests PROVE Advances(q)
      <4>1. /\ result'[q] = result[q]
            /\ pc'[q] = IF pc[q] = "idle" THEN "idle" ELSE "done"
        BY <2>2 DEF Crash
      <4>2. pc[q] \in Points
        BY <2>0 DEF TypeOK
      <4>3. QED BY <4>1, <4>2 DEF Advances, StepsLeft, Points, Families
    <3>2. QED BY <3>1
  <2>3. CASE Boot \/ AllHeard \/ \E r \in Requests : Deliver(r) \/ Lose(r)
    BY <2>3 DEF Boot, AllHeard, restartVars, Deliver, Lose, Hear
  <2>4. QED BY <2>1, <2>2, <2>3 DEF RestartNext
<1>2. QED BY RestartInductive, <1>1, PTL DEF RestartSpec

\* Between two ends of the process a life is one of TxSubmission: new attempts, lost
\* answers and a node that takes a transaction once add no step of their own.
THEOREM LivesAreSubmissions == RestartSpec => Init /\ [][Next \/ Crash]_vars
<1>1. RestartInit => Init
  BY DEF RestartInit
<1>2. [RestartNext]_restartVars => [Next \/ Crash]_vars
  <2> SUFFICES ASSUME RestartNext PROVE [Next \/ Crash]_vars
    BY DEF restartVars
  <2>1. ASSUME NEW r \in Requests, Attempt(r) \/ Work(r) \/ Decide(r) PROVE Next
    BY <2>1 DEF Attempt, Work, Decide, TakesOnce, Next, Environment
  <2>2. ASSUME NEW r \in Requests, Deliver(r) \/ Lose(r) PROVE UNCHANGED vars
    BY <2>2 DEF Deliver, Lose, Hear
  <2>3. CASE Boot \/ AllHeard
    BY <2>3 DEF Boot, AllHeard, restartVars
  <2>4. QED BY <2>1, <2>2, <2>3 DEF RestartNext
<1>3. QED BY <1>1, <1>2, PTL DEF RestartSpec

\* A timeout beyond math.MaxInt64 keeps every life from dialling.
THEOREM HugeTimeoutFailsAlways == RestartSpec => []HugeTimeoutNeverDials
<1> DEFINE AllGrounded == TimeoutTooLarge => \A r \in Requests : Grounded(r)
<1>1. RestartInit => AllGrounded
  BY DEF RestartInit, Init, Grounded
<1>2. RestartInv /\ AllGrounded /\ [RestartNext]_restartVars => AllGrounded'
  <2> SUFFICES ASSUME RestartInv, AllGrounded, [RestartNext]_restartVars, TimeoutTooLarge
               PROVE  \A q \in Requests : Grounded(q)'
    OBVIOUS
  <2>0. TypeOK /\ \A q \in Requests : RequestInv(q)
    BY DEF RestartInv, RestartTypeOK
  <2>1. ASSUME UNCHANGED vars PROVE \A q \in Requests : Grounded(q)'
    BY <2>1 DEF vars, handlerVars, nodeVars, Grounded
  <2>2. ASSUME NEW r \in Requests, Attempt(r) \/ Work(r) \/ Decide(r)
        PROVE  \A q \in Requests : Grounded(q)'
    <3>1. RequestStep(r)
      BY <2>2 DEF Attempt, Work, Decide, TakesOnce, RequestStep, Environment
    <3>2. \A q \in Requests \ {r} : Grounded(q)'
      BY <2>0, <3>1, OthersStand DEF SameRequest, Grounded
    <3>3. CASE Fits(r)
      BY <2>0, <3>1, <3>2, <3>3, GroundedStep
    <3>4. CASE ~Fits(r)
      <4>1. Ended(r)
        BY <2>0, <3>4 DEF RequestInv
      <4>2. QuietStep(r)
        BY <2>0, <2>2, <4>1, MovesOn
           DEF Attempt, Arrive, Move, Goto, Work, Decide, TakesOnce, QuietStep, Ended
      <4>3. UNCHANGED <<pc, conn, link>>
        BY <2>2, <4>2 DEF QuietStep, Drain, DrainReceive, DrainClosed, DrainTimeout, EndDrain,
           NodeVerdict, ConnError, CloseChan, handlerVars, nodeVars, Grounded
      <4>4. QED BY <4>3 DEF Grounded
    <3>5. QED BY <3>3, <3>4
  <2>3. CASE Crash
    BY <2>3 DEF Crash, Grounded
  <2>4. CASE Boot \/ UNCHANGED restartVars \/ \E r \in Requests : Deliver(r) \/ Lose(r)
    BY <2>1, <2>4 DEF Boot, restartVars, Deliver, Lose, Hear
  <2>5. QED BY <2>2, <2>3, <2>4 DEF RestartNext, AllHeard
<1>3. RestartInv /\ AllGrounded => HugeTimeoutNeverDials
  <2> SUFFICES ASSUME RestartInv, AllGrounded PROVE HugeTimeoutNeverDials
    OBVIOUS
  <2>1. Mine \in SUBSET Requests /\ Counts(Mine) /\ \A r \in Mine : Fits(r)
    BY MineFit DEF RestartInv, Mine
  <2>2. QED BY <2>1, GroundedCounts DEF Grounded, HugeTimeoutNeverDials
<1>4. QED BY RestartInductive, <1>1, <1>2, <1>3, PTL DEF RestartSpec

-----------------------------------------------------------------------------
(* Service: a step of it is a step of the submissions or leaves them       *)
(* alone, so what TxSubmissionProofs proves holds here too; an invariant   *)
(* ties what the queries hold to what the node has taken, from whomever.   *)

\* The types of what Service adds to TxSubmission.
QueryTypeOK ==
    /\ Query!TypeOK
    /\ gossip \in SUBSET Txs
    /\ left \in SUBSET Txs
    /\ told \in [Queries -> SUBSET Txs]
    /\ gone \in [Queries -> SUBSET Txs]

\* What query q was told before, holds from its snapshot, or has answered.
Consistent(q) ==
    /\ qpc[q] \in {"idle", "decode", "dial", "acquire", "ask", "recover"}
         => qresponse[q] = 0
    /\ told[q] \subseteq Entered
    /\ gone[q] \subseteq left
    /\ qpc[q] = "ask" /\ snapshot[q] = "in" =>
         asked[q] \in Entered /\ asked[q] \notin gone[q]
    /\ qresponse[q] = 200 => asked[q] \in Entered /\ asked[q] \notin gone[q]
    /\ qpc[q] = "ask" /\ snapshot[q] = "out" /\ asked[q] \in told[q]
         => asked[q] \in left
    /\ qresponse[q] = 404 /\ asked[q] \in told[q] => asked[q] \in left

SInv == QueryTypeOK /\ \A q \in Queries : Consistent(q)

-----------------------------------------------------------------------------
(* The submissions are unchanged by the queries.                           *)

\* A step of the service is one of the submissions, or leaves them alone.
LEMMA SubmissionsStep == [ServiceNext]_serviceVars => [Next]_vars
<1>1. ASSUME NEW r \in Requests, Submission(r) PROVE Next
  BY <1>1 DEF Submission, Decision, TakesOnce, Next, Environment
<1>2. ASSUME NEW q \in Queries, Asked(q) \/ QueryStep(q) PROVE UNCHANGED vars
  BY <1>2 DEF Asked, QueryStep
<1>3. CASE Gossip \/ Leave \/ AllDone \/ UNCHANGED serviceVars
  BY <1>3 DEF Gossip, Leave, AllDone, serviceVars
<1>4. QED BY <1>1, <1>2, <1>3 DEF ServiceNext

\* The composition keeps the behaviour of the submissions alone, so each of
\* their theorems holds of it.
THEOREM SubmissionsUnchanged == ServiceSpec => Spec
<1>1. ServiceInit => Init
  BY DEF ServiceInit
<1>2. QED BY <1>1, SubmissionsStep, PTL DEF ServiceSpec, Spec

\* So does the contract that they implement.
THEOREM ContractUnchanged == ServiceSpec => Contract!Spec
BY SubmissionsUnchanged, Implementation

\* What the node has taken stays taken.
LEMMA TakenStays == ASSUME IInv, [Next]_vars PROVE TakenTxs \subseteq TakenTxs'
<1>1. link' = link \/ \E r \in Requests : Send(r) \/ NodeVerdict(r)
  BY DEF Next, Handler, Panic, Drain, Environment, Terminating, vars, nodeVars,
     Arrive, Move, Conclude, CheckContentType, ReadBody, ParseTxInfo, Validate,
     DialNode, Await, Close, Reply, Recover, CountSubmit, CountFail, CountResult,
     CountContent, Record, DrainReceive, DrainClosed, DrainTimeout, EndDrain,
     ConnError, CloseChan
<1>2. ASSUME NEW q \in Requests, link[q] = "accepted" PROVE link'[q] = "accepted"
  <2>1. ASSUME NEW r \in Requests, Send(r) PROVE link'[q] = "accepted"
    BY <1>2, <2>1 DEF Send, Goto, IInv, TypeOK, LocalInv, NodeFitsPoint, Undecided
  <2>2. ASSUME NEW r \in Requests, NodeVerdict(r) PROVE link'[q] = "accepted"
    BY <1>2, <2>2 DEF NodeVerdict, IInv, TypeOK
  <2>3. QED BY <1>1, <1>2, <2>1, <2>2
<1>3. QED BY <1>2 DEF TakenTxs

-----------------------------------------------------------------------------
(* The queries are unchanged by the submissions.                           *)

\* A step of one request is about its own link.
LEMMA OneLink ==
    ASSUME TypeOK, NEW r \in Requests, RequestStep(r)
    PROVE  \A q \in Requests \ {r} : link'[q] = link[q]
BY OthersStand DEF SameRequest

\* To the queries a submission is a mempool that takes one transaction, or none;
\* every other step is one of theirs, or none.
LEMMA QueriesStep ==
    IInv /\ left \subseteq Txs /\ gossip \subseteq Txs /\ [ServiceNext]_serviceVars
        => [Query!Next]_(Query!vars)
<1> SUFFICES ASSUME IInv, left \subseteq Txs, gossip \subseteq Txs,
                    [ServiceNext]_serviceVars
             PROVE  [Query!Next]_(Query!vars)
  OBVIOUS
<1>0. TypeOK /\ TakenTxs \subseteq TakenTxs'
  BY SubmissionsStep, TakenStays DEF IInv
<1>1. ASSUME NEW r \in Requests, Submission(r) PROVE Query!MempoolChanges
  <2>1. RequestStep(r)
    BY <1>1 DEF Submission, RequestStep, Environment, Decision, TakesOnce
  <2>2. /\ UNCHANGED <<left, gossip>> /\ UNCHANGED queryVars /\ Query!Observe
    BY <1>1 DEF Submission
  <2>3. \A q \in Requests \ {r} : link'[q] = link[q]
    BY <1>0, <2>1, OneLink
  <2>4. TakenTxs' \subseteq TakenTxs \cup {TxOf[r]}
    BY <2>3 DEF TakenTxs
  <2>5. mempool' \in {mempool, mempool \cup {TxOf[r]}}
    <3>1. Entered' \in {Entered, Entered \cup {TxOf[r]}}
      BY <1>0, <2>2, <2>4 DEF Entered
    <3>2. QED BY <2>2, <3>1 DEF mempool
  <2>6. TxOf[r] \in Txs
    BY DEF Txs
  <2>7. mempool' \in {mempool \cup {TxOf[r]}, mempool \ {TxOf[r]}} \/ mempool' = mempool
    BY <2>5
  <2>8. QED BY <2>2, <2>6, <2>7 DEF Query!MempoolChanges, Query!queryVars, queryVars
<1>2. CASE Leave
  <2>1. PICK t \in mempool : left' = left \cup {t}
    BY <1>2 DEF Leave
  <2>2. t \in Txs /\ UNCHANGED <<link, gossip>>
    BY <1>2, <2>1 DEF Leave, mempool, Entered, TakenTxs, Txs, vars, nodeVars
  <2>3. mempool' = mempool \ {t}
    BY <2>1, <2>2 DEF mempool, Entered, TakenTxs
  <2>4. Query!MempoolChanges
    BY <1>2, <2>2, <2>3 DEF Leave, Query!MempoolChanges, Query!queryVars, queryVars
  <2>5. QED BY <2>4 DEF Query!Next
<1>3. CASE Gossip
  <2>1. PICK t \in Txs \ Entered : gossip' = gossip \cup {t}
    BY <1>3 DEF Gossip
  <2>2. UNCHANGED <<link, left>>
    BY <1>3 DEF Gossip, vars, nodeVars
  <2>3. mempool' = mempool \cup {t} \/ mempool' = mempool \ {t}
    BY <2>1, <2>2 DEF mempool, Entered, TakenTxs
  <2>4. Query!MempoolChanges
    BY <1>3, <2>1, <2>3 DEF Gossip, Query!MempoolChanges, Query!queryVars, queryVars
  <2>5. QED BY <2>4 DEF Query!Next
<1>4. CASE \E q \in Queries : Asked(q) \/ QueryStep(q)
  BY <1>4 DEF Asked, QueryStep, Query!Next
<1>5. CASE AllDone \/ UNCHANGED serviceVars
  BY <1>5 DEF AllDone, serviceVars, vars, nodeVars, queryVars, mempool, Entered, TakenTxs,
              Query!vars, Query!queryVars
<1>6. QED BY <1>1, <1>2, <1>3, <1>4, <1>5 DEF ServiceNext, Query!Next

-----------------------------------------------------------------------------
(* The invariant.                                                          *)

\* Nobody has asked or been told anything.
LEMMA InitSInv == ServiceInit => SInv
BY DEF ServiceInit, Query!QueryInit, SInv, QueryTypeOK, Query!TypeOK, Consistent

\* When only the mempool changes, the queries stay consistent with it.
LEMMA MempoolStep ==
    ASSUME SInv, Entered \subseteq Entered', Query!Observe,
           UNCHANGED <<queryVars, told, gone>>, left \subseteq left', left' \subseteq Txs,
           gossip' \subseteq Txs
    PROVE  SInv'
<1>1. Query!TypeOK'
  BY DEF SInv, QueryTypeOK, Query!TypeOK, Query!Observe, Query!Presence, queryVars
<1>2. ASSUME NEW q \in Queries PROVE Consistent(q)'
  BY DEF SInv, Consistent, queryVars
<1>3. QED BY <1>1, <1>2 DEF SInv, QueryTypeOK

\* A client that asks knows nothing but what the node has had, and what has left it.
LEMMA KnownIsTrue ==
    ASSUME SInv, AcceptedMeansInMempool
    PROVE  KnownAccepted \subseteq Entered /\ KnownGone \subseteq left
<1>1. KnownAccepted \subseteq Entered
  BY DEF SInv, Consistent, AcceptedMeansInMempool, KnownAccepted, AnsweredWith, Entered,
         TakenTxs
<1>2. KnownGone \subseteq left
  BY DEF SInv, Consistent, KnownGone
<1>3. QED BY <1>1, <1>2

\* So the consistency of a query that arrives is not disturbed.
LEMMA AskedStep ==
    ASSUME SInv, AcceptedMeansInMempool, NEW q \in Queries, Asked(q) PROVE SInv'
<1> USE DEF Asked, Query!Arrive, Query!Goto
<1>1. QueryTypeOK'
  <2>1. KnownAccepted \in SUBSET Txs /\ KnownGone \in SUBSET Txs
    BY KnownIsTrue DEF Entered, TakenTxs, Txs, SInv, QueryTypeOK
  <2>2. Query!TypeOK'
    BY DEF SInv, QueryTypeOK, Query!TypeOK, Query!Presence
  <2>3. QED BY <2>1, <2>2 DEF SInv, QueryTypeOK
<1>2. Entered' = Entered
  BY DEF Entered, TakenTxs, vars, nodeVars
<1>3. ASSUME NEW p \in Queries PROVE Consistent(p)'
  BY <1>2, KnownIsTrue DEF SInv, QueryTypeOK, Query!TypeOK, Consistent
<1>4. QED BY <1>1, <1>3 DEF SInv

\* An answer of 200 or 404 agrees with the snapshot, which was the mempool.
LEMMA QueryAnswers ==
    ASSUME SInv, NEW q \in Queries, QueryStep(q) PROVE SInv'
<1> USE DEF QueryStep, Query!Handler, Query!Panic, Query!DecodeHash, Query!DialNode,
        Query!Acquire, Query!Ask, Query!Close, Query!Recover, Query!Move,
        Query!Answer, Query!Goto
<1>1. Entered' = Entered
  BY DEF Entered, TakenTxs, vars, nodeVars
<1>2. QueryTypeOK'
  BY DEF SInv, QueryTypeOK, Query!TypeOK, Query!Presence, historyVars
<1>3. ASSUME NEW p \in Queries PROVE Consistent(p)'
  <2>1. QueryTypeOK /\ Consistent(p) /\ Consistent(q)
    BY DEF SInv
  <2>2. UNCHANGED <<left, told, gone>>
    BY DEF historyVars
  <2>3. QED
    BY <1>1, <2>1, <2>2 DEF QueryTypeOK, Query!TypeOK, Consistent, Query!Presence, mempool
<1>4. QED BY <1>2, <1>3 DEF SInv

\* Every step of the service keeps the invariant.
LEMMA NextSInv ==
    IInv /\ AcceptedMeansInMempool /\ SInv /\ [ServiceNext]_serviceVars => SInv'
<1> SUFFICES ASSUME IInv, AcceptedMeansInMempool, SInv, [ServiceNext]_serviceVars
             PROVE  SInv'
  OBVIOUS
<1>1. TakenTxs \subseteq TakenTxs'
  BY SubmissionsStep, TakenStays
<1>2. CASE \E r \in Requests : Submission(r)
  BY <1>1, <1>2, MempoolStep DEF Submission, Entered, historyVars, SInv, QueryTypeOK
<1>3. CASE \E q \in Queries : Asked(q) \/ QueryStep(q)
  BY <1>3, AskedStep, QueryAnswers
<1>4. CASE Gossip \/ Leave
  <2>1. mempool \subseteq Txs
    BY DEF mempool, Entered, TakenTxs, Txs, SInv, QueryTypeOK
  <2>2. QED
    BY <1>1, <1>4, <2>1, MempoolStep
    DEF Gossip, Leave, Entered, historyVars, SInv, QueryTypeOK
<1>5. CASE AllDone \/ UNCHANGED serviceVars
  BY <1>5 DEF AllDone, serviceVars, vars, nodeVars, queryVars, historyVars, SInv,
     QueryTypeOK, Query!TypeOK, Consistent, Entered, TakenTxs
<1>6. QED BY <1>2, <1>3, <1>4, <1>5 DEF ServiceNext

\* What the queries hold agrees with what the node has accepted.
THEOREM ServiceInductive == ServiceSpec => []SInv
<1>1. Spec => []IInv /\ []AcceptedMeansInMempool
  BY Inductive, AcceptedIsInMempool
<1>2. QED BY <1>1, SubmissionsUnchanged, InitSInv, NextSInv, PTL DEF ServiceSpec

\* The state of both routes keeps its types.
THEOREM ServiceTypes == ServiceSpec => []ServiceTypeOK
<1>1. TypeOK /\ SInv => ServiceTypeOK
  BY DEF SInv, QueryTypeOK, ServiceTypeOK
<1>2. QED BY <1>1, TypeCorrect, SubmissionsUnchanged, ServiceInductive, PTL

\* The queries behave as MempoolQuery says, with the mempool that the submissions
\* fill and blocks empty.
THEOREM QueriesUnchanged == ServiceSpec => Query!Spec
<1>1. ServiceInit => Query!Init
  BY DEF ServiceInit, Init, Query!Init, mempool, Entered, TakenTxs
<1>2. ServiceTypeOK => left \subseteq Txs /\ gossip \subseteq Txs
  BY DEF ServiceTypeOK
<1>3. QED
  BY <1>1, <1>2, ServiceTypes, SubmissionsUnchanged, Inductive, QueriesStep, PTL
  DEF ServiceSpec, Query!Spec

\* What is proved of the queries alone.
QueryProofs == INSTANCE MempoolQueryProofs WITH
    pc <- qpc, conn <- qconn, response <- qresponse

\* It is about the same queries.
LEMMA SameQueries == Query!Spec => QueryProofs!Spec
<1>1. Query!Init => QueryProofs!Init
  BY DEF Query!Init, Query!QueryInit, QueryProofs!Init, QueryProofs!QueryInit
<1>2. [Query!Next]_(Query!vars) => [QueryProofs!Next]_(QueryProofs!vars)
  <2> USE DEF Query!vars, QueryProofs!vars, Query!queryVars, QueryProofs!queryVars,
          Query!Goto, QueryProofs!Goto, Query!Answer, QueryProofs!Answer,
          Query!Move, QueryProofs!Move, Query!Presence, QueryProofs!Presence
  <2>1. ASSUME NEW q \in Queries PROVE Query!Arrive(q) => QueryProofs!Arrive(q)
    BY DEF Query!Arrive, QueryProofs!Arrive
  <2>2. ASSUME NEW q \in Queries PROVE Query!Handler(q) => QueryProofs!Handler(q)
    BY DEF Query!Handler, QueryProofs!Handler, Query!DecodeHash, QueryProofs!DecodeHash,
       Query!DialNode, QueryProofs!DialNode, Query!Acquire, QueryProofs!Acquire,
       Query!Ask, QueryProofs!Ask, Query!Close, QueryProofs!Close, Query!Recover,
       QueryProofs!Recover
  <2>3. ASSUME NEW q \in Queries PROVE Query!Panic(q) => QueryProofs!Panic(q)
    BY DEF Query!Panic, QueryProofs!Panic
  <2>4. Query!MempoolChanges => QueryProofs!MempoolChanges
    BY DEF Query!MempoolChanges, QueryProofs!MempoolChanges, Query!Observe,
           QueryProofs!Observe, Query!Running, QueryProofs!Running
  <2>5. QED
    BY <2>1, <2>2, <2>3, <2>4
       DEF Query!Next, QueryProofs!Next, Query!Terminating, QueryProofs!Terminating
<1>3. QED BY <1>1, <1>2, PTL DEF Query!Spec, QueryProofs!Spec

\* An answer about a transaction was true while its query ran, also with
\* submissions filling the mempool.
THEOREM AnswersTrueInService == ServiceSpec => []Query!AnswerWasTrue
<1>1. QueryProofs!Spec => []QueryProofs!AnswerWasTrue
  BY NoHashAssumption, QueryProofs!AnswersWereTrue
<1>2. QueryProofs!AnswerWasTrue => Query!AnswerWasTrue
  BY DEF QueryProofs!AnswerWasTrue, Query!AnswerWasTrue
<1>3. QED BY <1>1, <1>2, SameQueries, QueriesUnchanged, PTL

\* Nor does a query that is done leave a connection, beside submissions.
THEOREM NoQueryConnectedInService == ServiceSpec => []Query!NoConnectionLeft
<1>1. QueryProofs!Spec => []QueryProofs!NoConnectionLeft
  BY NoHashAssumption, QueryProofs!NoQueryConnected
<1>2. QueryProofs!NoConnectionLeft => Query!NoConnectionLeft
  BY DEF QueryProofs!NoConnectionLeft, Query!NoConnectionLeft
<1>3. QED BY <1>1, <1>2, SameQueries, QueriesUnchanged, PTL

\* A client told that its transaction is in the mempool is only told 404 when
\* the transaction has left it.
THEOREM AcceptedAlwaysFound == ServiceSpec => []AcceptedIsFound
<1>1. SInv => AcceptedIsFound
  BY DEF SInv, Consistent, AcceptedIsFound
<1>2. QED BY <1>1, ServiceInductive, PTL

\* A transaction of which a client was told that it is in the mempool and then
\* that it is not is never found again.
THEOREM GoneAlwaysGone == ServiceSpec => []GoneStaysGone
<1>1. SInv => GoneStaysGone
  BY DEF SInv, Consistent, GoneStaysGone
<1>2. QED BY <1>1, ServiceInductive, PTL

==============================================================================

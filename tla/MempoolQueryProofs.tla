------------------------- MODULE MempoolQueryProofs --------------------------
(***************************************************************************)
(* Proofs about MempoolQuery for any queries and any transactions.         *)
(***************************************************************************)
EXTENDS MempoolQuery, TLAPS

\* A running query's history holds what is true now and what its snapshot
\* says; an answer was in it.
HistoryInv ==
    \A q \in Queries :
        /\ Running(q) => Presence(q) \in was[q]
        /\ pc[q] = "ask" => snapshot[q] \in was[q]

\* The connection is open exactly between the dial and the deferred Close, and
\* the answer is written exactly when the program point says so.
PointInv ==
    \A q \in Queries :
        /\ conn[q] = "open" <=> pc[q] \in {"acquire", "ask", "close"}
        /\ pc[q] \in {"idle", "decode", "dial", "acquire", "ask", "recover"}
             => response[q] = 0
        /\ pc[q] = "done" => response[q] # 0

IInv == TypeOK /\ HistoryInv /\ PointInv /\ AnswerWasTrue

\* No query has arrived.
LEMMA InitIInv == Init => IInv
BY DEF Init, QueryInit, IInv, TypeOK, HistoryInv, Running, Presence, PointInv, AnswerWasTrue

\* A step that moves on without an answer keeps the invariant if the points
\* agree on the connection.
LEMMA MoveStep ==
    ASSUME IInv, NEW q \in Queries, NEW from, NEW to, Move(q, from, to),
           from \in {"decode", "dial", "acquire", "ask"},
           to \in {"dial", "close", "recover"},
           conn[q] = "open" <=> to = "close"
    PROVE  IInv'
<1> USE DEF Move, Goto
<1>1. TypeOK'
  BY DEF IInv, TypeOK
<1>2. HistoryInv'
  BY DEF IInv, TypeOK, HistoryInv, PointInv, Running, Presence
<1>3. PointInv'
  BY DEF IInv, TypeOK, PointInv
<1>4. AnswerWasTrue'
  BY DEF IInv, AnswerWasTrue
<1>5. QED BY <1>1, <1>2, <1>3, <1>4 DEF IInv

\* So does an answer, when the history holds what it says.
LEMMA AnswerStep ==
    ASSUME IInv, NEW q \in Queries, NEW from, NEW to, NEW code,
           Answer(q, from, to, code),
           from # "idle",
           code \in {200, 400, 404, 500}, to \in {"close", "done"},
           conn[q] = "open" <=> to = "close",
           code = 200 => "in" \in was[q],
           code = 404 => "out" \in was[q]
    PROVE  IInv'
<1> USE DEF Answer, Goto
<1>1. TypeOK'
  BY DEF IInv, TypeOK
<1>2. HistoryInv'
  BY DEF IInv, TypeOK, HistoryInv, Running, Presence
<1>3. PointInv'
  BY DEF IInv, TypeOK, PointInv
<1>4. AnswerWasTrue'
  BY DEF IInv, TypeOK, AnswerWasTrue
<1>5. QED BY <1>1, <1>2, <1>3, <1>4 DEF IInv

\* Every step of a query and of the mempool keeps the invariant.
LEMMA NextIInv == IInv /\ [Next]_vars => IInv'
<1> SUFFICES ASSUME IInv, [Next]_vars PROVE IInv'
  OBVIOUS
<1>1. ASSUME NEW q \in Queries, Arrive(q) PROVE IInv'
  <2> USE <1>1 DEF Arrive, Goto
  <2>1. TypeOK'
    BY DEF IInv, TypeOK, Presence
  <2>2. HistoryInv'
    BY DEF IInv, TypeOK, HistoryInv, Running, Presence
  <2>3. PointInv'
    BY DEF IInv, TypeOK, PointInv
  <2>4. AnswerWasTrue'
    BY DEF IInv, TypeOK, PointInv, AnswerWasTrue
  <2>5. QED BY <2>1, <2>2, <2>3, <2>4 DEF IInv
<1>2. ASSUME NEW q \in Queries, DecodeHash(q) PROVE IInv'
  <2>1. CASE Answer(q, "decode", "done", 400)
    <3>1. conn[q] = "open" <=> "done" = "close"
      BY <2>1 DEF IInv, PointInv, Answer, Goto
    <3>2. QED BY <2>1, <3>1, AnswerStep
  <2>2. CASE Move(q, "decode", "dial")
    BY <2>2, MoveStep DEF IInv, PointInv, Move, Goto
  <2>3. QED BY <1>2, <2>1, <2>2 DEF DecodeHash
<1>3. ASSUME NEW q \in Queries, DialNode(q) PROVE IInv'
  <2>1. CASE Answer(q, "dial", "done", 500)
    <3>1. conn[q] = "open" <=> "done" = "close"
      BY <2>1 DEF IInv, PointInv, Answer, Goto
    <3>2. QED BY <2>1, <3>1, AnswerStep
  <2>2. CASE /\ Goto(q, "dial", "acquire")
             /\ conn' = [conn EXCEPT ![q] = "open"]
             /\ UNCHANGED <<asked, snapshot, response, was, mempool>>
    <3> USE <2>2 DEF Goto
    <3>1. TypeOK'
      BY DEF IInv, TypeOK
    <3>2. HistoryInv'
      BY DEF IInv, TypeOK, HistoryInv, Running, Presence
    <3>3. PointInv'
      BY DEF IInv, TypeOK, PointInv
    <3>4. AnswerWasTrue'
      BY DEF IInv, AnswerWasTrue
    <3>5. QED BY <3>1, <3>2, <3>3, <3>4 DEF IInv
  <2>3. QED BY <1>3, <2>1, <2>2 DEF DialNode
<1>4. ASSUME NEW q \in Queries, Acquire(q) PROVE IInv'
  <2>1. CASE Answer(q, "acquire", "close", 500)
    <3>1. conn[q] = "open" <=> "close" = "close"
      BY <2>1 DEF IInv, PointInv, Answer, Goto
    <3>2. QED BY <2>1, <3>1, AnswerStep
  <2>2. CASE /\ Goto(q, "acquire", "ask")
             /\ snapshot' = [snapshot EXCEPT ![q] = Presence(q)]
             /\ UNCHANGED <<asked, conn, response, was, mempool>>
    <3> USE <2>2 DEF Goto
    <3>1. TypeOK'
      BY DEF IInv, TypeOK, Presence
    <3>2. HistoryInv'
      BY DEF IInv, TypeOK, HistoryInv, PointInv, Running, Presence
    <3>3. PointInv'
      BY DEF IInv, TypeOK, PointInv
    <3>4. AnswerWasTrue'
      BY DEF IInv, AnswerWasTrue
    <3>5. QED BY <3>1, <3>2, <3>3, <3>4 DEF IInv
  <2>3. QED BY <1>4, <2>1, <2>2 DEF Acquire
<1>5. ASSUME NEW q \in Queries, Ask(q) PROVE IInv'
  <2>1. pc[q] = "ask" /\ conn[q] = "open" /\ snapshot[q] \in was[q]
    BY <1>5 DEF Ask, Answer, Goto, IInv, HistoryInv, PointInv
  <2>3. CASE snapshot[q] = "in" /\ Answer(q, "ask", "close", 200)
    BY <2>1, <2>3, AnswerStep
  <2>4. CASE snapshot[q] = "out" /\ Answer(q, "ask", "close", 404)
    BY <2>1, <2>4, AnswerStep
  <2>5. CASE Answer(q, "ask", "close", 500)
    BY <2>1, <2>5, AnswerStep
  <2>6. QED BY <1>5, <2>3, <2>4, <2>5 DEF Ask
<1>6. ASSUME NEW q \in Queries, Close(q) PROVE IInv'
  <2> USE <1>6 DEF Close, Goto
  <2>1. TypeOK'
    BY DEF IInv, TypeOK
  <2>2. HistoryInv'
    BY DEF IInv, TypeOK, HistoryInv, Running, Presence
  <2>3. PointInv'
    BY DEF IInv, TypeOK, PointInv
  <2>4. AnswerWasTrue'
    BY DEF IInv, AnswerWasTrue
  <2>5. QED BY <2>1, <2>2, <2>3, <2>4 DEF IInv
<1>7. ASSUME NEW q \in Queries, Panic(q) PROVE IInv'
  BY <1>7, MoveStep DEF Panic, IInv, PointInv
<1>8. ASSUME NEW q \in Queries, Recover(q) PROVE IInv'
  <2>1. conn[q] # "open" /\ Answer(q, "recover", "done", 500)
    BY <1>8 DEF Recover, Answer, Goto, IInv, PointInv
  <2>2. QED BY <2>1, AnswerStep
<1>9. CASE MempoolChanges
  <2> USE <1>9 DEF MempoolChanges, Observe, queryVars
  <2>1. TypeOK'
    BY DEF IInv, TypeOK, Presence
  <2>2. HistoryInv'
    BY DEF IInv, TypeOK, HistoryInv, PointInv, Running, Presence
  <2>3. PointInv'
    BY DEF IInv, PointInv
  <2>4. AnswerWasTrue'
    BY DEF IInv, TypeOK, AnswerWasTrue, Running
  <2>5. QED BY <2>1, <2>2, <2>3, <2>4 DEF IInv
<1>10. CASE UNCHANGED vars
  BY <1>10 DEF vars, queryVars, IInv, TypeOK, HistoryInv, Running, Presence, PointInv,
     AnswerWasTrue
<1>11. QED
  BY <1>1, <1>2, <1>3, <1>4, <1>5, <1>6, <1>7, <1>8, <1>9, <1>10
  DEF Next, Handler, Terminating

\* History, program points, connections and answers agree at every moment.
THEOREM Inductive == Spec => []IInv
BY InitIInv, NextIInv, PTL DEF Spec

\* The state of the queries keeps its types.
THEOREM TypeCorrect == Spec => []TypeOK
<1>1. IInv => TypeOK
  BY DEF IInv
<1>2. QED BY Inductive, <1>1, PTL

\* A 200 and a 404 were true at some moment while their query ran.
THEOREM AnswersWereTrue == Spec => []AnswerWasTrue
<1>1. IInv => AnswerWasTrue
  BY DEF IInv
<1>2. QED BY Inductive, <1>1, PTL

\* A query that is done has been answered and holds no connection.
THEOREM NoQueryConnected == Spec => []NoConnectionLeft
<1>1. IInv => NoConnectionLeft
  BY DEF IInv, PointInv, NoConnectionLeft
<1>2. QED BY Inductive, <1>1, PTL

-----------------------------------------------------------------------------
(* A query goes forward, and its answer stands.                            *)

\* The most steps a handler has left: behind a panic Close is followed by Recover.
StepsLeft(q) ==
    CASE pc[q] = "idle" -> 7
      [] pc[q] = "decode" -> 6
      [] pc[q] = "dial" -> 5
      [] pc[q] = "acquire" -> 4
      [] pc[q] = "ask" -> 3
      [] pc[q] = "close" -> 2
      [] pc[q] = "recover" -> 1
      [] pc[q] = "done" -> 0

\* The handler stays where it is, or has fewer steps left; what it answered stands.
Advances(q) ==
    /\ pc'[q] = pc[q] \/ StepsLeft(q)' < StepsLeft(q)
    /\ response[q] # 0 => response'[q] = response[q]

\* Each step of a query leaves it fewer of at most 7, and no step revises an answer:
\* not the deferred Close, which runs behind it, nor the recovery.
THEOREM QueriesAdvance == Spec => [][\A q \in Queries : Advances(q)]_vars
<1>1. IInv /\ [Next]_vars => [\A q \in Queries : Advances(q)]_vars
  <2> SUFFICES ASSUME IInv, Next, NEW q \in Queries PROVE UNCHANGED vars \/ Advances(q)
    BY DEF vars
  <2> USE DEF IInv, TypeOK, PointInv, Advances
  <2>1. ASSUME NEW p \in Queries, Arrive(p) \/ DecodeHash(p) \/ DialNode(p) PROVE Advances(q)
    BY <2>1 DEF Arrive, DecodeHash, DialNode, Goto, Move, Answer, StepsLeft
  <2>2. ASSUME NEW p \in Queries, Acquire(p) \/ Ask(p) PROVE Advances(q)
    BY <2>2 DEF Acquire, Ask, Goto, Answer, StepsLeft
  <2>3. ASSUME NEW p \in Queries, Close(p) \/ Recover(p) PROVE Advances(q)
    BY <2>3 DEF Close, Recover, Goto, Answer, StepsLeft
  <2>4. ASSUME NEW p \in Queries, Panic(p) PROVE Advances(q)
    BY <2>4 DEF Panic, Goto, Move, StepsLeft
  <2>5. CASE MempoolChanges
    BY <2>5 DEF MempoolChanges, queryVars
  <2>6. QED BY <2>1, <2>2, <2>3, <2>4, <2>5 DEF Next, Handler, Terminating
<1>2. QED BY Inductive, <1>1, PTL DEF Spec

==============================================================================

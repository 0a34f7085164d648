---------------------------- MODULE MempoolQuery ----------------------------
(***************************************************************************)
(* GET /api/hastx/{tx_hash}: handleHasTx of internal/api/api.go.  Every    *)
(* query dials a connection of its own, has the node acquire a snapshot of *)
(* its mempool and asks whether the transaction is in it.                  *)
(*                                                                         *)
(* The mempool is the node's and changes at any time.  The module is used  *)
(* alone, where it changes freely, and by Service, where the submissions   *)
(* fill it.                                                                *)
(***************************************************************************)
EXTENDS Naturals

CONSTANTS
    Queries,  \* the HTTP requests, each served once
    Txs,      \* the transactions asked for
    NoHash    \* a path value that is not hex-encoded

ASSUME NoHashAssumption == NoHash \notin Txs

VARIABLES
    pc,        \* where the goroutine of a query is
    asked,     \* the tx_hash in its path
    conn,      \* its connection to the node
    snapshot,  \* what the snapshot the node acquired says of the transaction
    response,  \* the status code written, 0 before that
    was,       \* history: what was true of the transaction while the query ran
    mempool    \* the node's mempool

queryVars == <<pc, asked, conn, snapshot, response>>
vars == <<queryVars, was, mempool>>

TypeOK ==
    /\ pc \in [Queries -> {"idle", "decode", "dial", "acquire", "ask", "close",
                           "recover", "done"}]
    /\ asked \in [Queries -> Txs \cup {NoHash}]
    /\ conn \in [Queries -> {"none", "open", "closed"}]
    /\ snapshot \in [Queries -> {"none", "in", "out"}]
    /\ response \in [Queries -> {0, 200, 400, 404, 500}]
    /\ was \in [Queries -> SUBSET {"in", "out"}]

QueryInit ==
    /\ pc = [q \in Queries |-> "idle"]
    /\ asked \in [Queries -> Txs \cup {NoHash}]
    /\ conn = [q \in Queries |-> "none"]
    /\ snapshot = [q \in Queries |-> "none"]
    /\ response = [q \in Queries |-> 0]
    /\ was = [q \in Queries |-> {}]

Init == QueryInit /\ mempool \in SUBSET Txs

Goto(q, from, to) == pc[q] = from /\ pc' = [pc EXCEPT ![q] = to]

\* A step of a query that answers with a status code, and one that does not.
Answer(q, from, to, code) ==
    /\ Goto(q, from, to)
    /\ response' = [response EXCEPT ![q] = code]
    /\ UNCHANGED <<asked, conn, snapshot, was, mempool>>

Move(q, from, to) ==
    /\ Goto(q, from, to)
    /\ UNCHANGED <<asked, conn, snapshot, response, was, mempool>>

\* What the node would say of the transaction now.
Presence(q) == IF asked[q] \in mempool THEN "in" ELSE "out"

-----------------------------------------------------------------------------
(* The handler.                                                            *)

Arrive(q) ==
    /\ Goto(q, "idle", "decode")
    /\ was' = [was EXCEPT ![q] = {Presence(q)}]
    /\ UNCHANGED <<asked, conn, snapshot, response, mempool>>

\* hex.DecodeString; the route does not match an empty hash.
DecodeHash(q) ==
    \/ asked[q] = NoHash /\ Answer(q, "decode", "done", 400)
    \/ asked[q] # NoHash /\ Move(q, "decode", "dial")

DialNode(q) ==
    \/ /\ Goto(q, "dial", "acquire")
       /\ conn' = [conn EXCEPT ![q] = "open"]
       /\ UNCHANGED <<asked, snapshot, response, was, mempool>>
    \/ Answer(q, "dial", "done", 500)

\* Mutant of Acquire: no WithAcquireTimeout, and a node that never answers.
AcquireForever(q) == FALSE

\* HasTx first makes the node acquire a snapshot, or fails: an error of the
\* connection, or the acquire timeout.
Acquire(q) ==
    \/ /\ Goto(q, "acquire", "ask")
       /\ snapshot' = [snapshot EXCEPT ![q] = Presence(q)]
       /\ UNCHANGED <<asked, conn, response, was, mempool>>
    \/ Answer(q, "acquire", "close", 500)

\* Mutant of Ask: an error of the query is taken for an absent transaction.
AskErrorIsAbsent(q) ==
    \/ snapshot[q] = "in" /\ Answer(q, "ask", "close", 200)
    \/ Answer(q, "ask", "close", 404)

\* The node answers from the snapshot, or HasTx fails: an error of the
\* connection, or the query timeout.
Ask(q) ==
    \/ snapshot[q] = "in" /\ Answer(q, "ask", "close", 200)
    \/ snapshot[q] = "out" /\ Answer(q, "ask", "close", 404)
    \/ Answer(q, "ask", "close", 500)

\* The deferred oConn.Close(), after the response or while a panic unwinds.
Close(q) ==
    /\ Goto(q, "close", IF response[q] = 0 THEN "recover" ELSE "done")
    /\ conn' = [conn EXCEPT ![q] = "closed"]
    /\ UNCHANGED <<asked, snapshot, response, was, mempool>>

\* Mutant of Panic: Close is called after the answer, not deferred.
PanicSkipsClose(q) ==
    pc[q] \in {"dial", "acquire", "ask"} /\ Move(q, pc[q], "recover")

\* The protocol code panics; a connection that is open is closed on the way to
\* recoveryMiddleware, which answers 500.  A panic of Close itself, behind the
\* answer, is in Routing: it changes no status.
Panic(q) ==
    /\ pc[q] \in {"dial", "acquire", "ask"}
    /\ Move(q, pc[q], IF conn[q] = "open" THEN "close" ELSE "recover")

Recover(q) == Answer(q, "recover", "done", 500)

Handler(q) ==
    \/ DecodeHash(q) \/ DialNode(q) \/ Acquire(q) \/ Ask(q) \/ Close(q)
    \/ Recover(q)

-----------------------------------------------------------------------------
(* The node.                                                               *)

Running(q) == pc[q] # "idle" /\ response[q] = 0

\* What a running query could be told now joins its history.
Observe ==
    was' = [q \in Queries |->
              IF Running(q) THEN was[q] \cup {Presence(q)'} ELSE was[q]]

\* A transaction enters the mempool, or leaves it: in a block, or expired.
MempoolChanges ==
    /\ \E t \in Txs : mempool' \in {mempool \cup {t}, mempool \ {t}}
    /\ UNCHANGED queryVars
    /\ Observe

Terminating == (\A q \in Queries : pc[q] = "done") /\ UNCHANGED vars

Next ==
    \/ \E q \in Queries : Arrive(q) \/ Handler(q) \/ Panic(q)
    \/ MempoolChanges
    \/ Terminating

Spec == Init /\ [][Next]_vars

\* A handler that can run is scheduled; the two timeouts end its waits.
FairSpec == Spec /\ \A q \in Queries : WF_vars(Handler(q))

-----------------------------------------------------------------------------
(* Properties.                                                             *)

\* handleHasTx answers from a snapshot that is acquired for the query: a 200 was
\* true, and a 404 was true, at some moment between the query and its answer,
\* however the mempool changes and whatever fails.  No failure is ever told as
\* an absent transaction.
AnswerWasTrue ==
    \A q \in Queries :
        /\ response[q] = 200 => "in" \in was[q]
        /\ response[q] = 404 => "out" \in was[q]

\* api.go "defer oConn.Close()": a handler that has returned, by an answer or
\* through the recovery middleware, leaves no connection open.
NoConnectionLeft ==
    \A q \in Queries : pc[q] = "done" => response[q] # 0 /\ conn[q] # "open"

\* A query is answered whether or not the node ever does.
EveryQueryServed ==
    \A q \in Queries : pc[q] = "decode" ~> pc[q] = "done" /\ response[q] # 0

==============================================================================

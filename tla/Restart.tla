------------------------------ MODULE Restart -------------------------------
(***************************************************************************)
(* Submissions, the end of the process and clients that try again.  The    *)
(* process may end at any step: os.Exit when the debug or the API listener *)
(* fails (main.go), or a signal.  Nothing is written down, so its memory   *)
(* and its connections are gone, and the node keeps what it took.          *)
(*                                                                         *)
(* An answer may not reach its client: WriteTimeout is 60s while the node  *)
(* timeout is configurable, and a client may give up before.  The handler  *)
(* does not watch the request's context, so it goes on either way, and a   *)
(* second attempt for the same transaction runs beside it.                 *)
(***************************************************************************)
EXTENDS Ledger

CONSTANT MaxCrashes  \* how often the process ends

\* Requests are numbered in the order in which clients try.
ASSUME AttemptsAssumption == Requests \subseteq Nat
ASSUME CrashesAssumption == MaxCrashes \in Nat

VARIABLES
    running,  \* whether the process is up
    life,     \* how often it was started
    takenBy,  \* the life whose handler took a request, 0 before that
    heard     \* "waiting", or how a request ended for its client

restartVars == <<vars, running, life, takenBy, heard>>

RestartTypeOK ==
    /\ TypeOK
    /\ running \in BOOLEAN
    /\ life \in 1 .. MaxCrashes + 1
    /\ takenBy \in [Requests -> 0 .. life]
    /\ heard \in [Requests -> {"waiting", "answer", "lost"}]

RestartInit ==
    /\ Init
    /\ \A r \in Requests : \A s \in Attempts(r) : req[s] = req[r]
    /\ running = TRUE
    /\ life = 1
    /\ takenBy = [r \in Requests |-> 0]
    /\ heard = [r \in Requests |-> "waiting"]

-----------------------------------------------------------------------------
(* The clients.                                                            *)

\* An attempt after the first is made when the earlier ones have ended for the
\* client without a 202.
Attempt(r) ==
    /\ running
    /\ \A s \in Attempts(r) : s < r =>
         heard[s] = "lost" \/ (heard[s] = "answer" /\ response[s] # 202)
    /\ Arrive(r)
    /\ takenBy' = [takenBy EXCEPT ![r] = life]
    /\ UNCHANGED <<running, life, heard>>

Hear(r, how) ==
    /\ takenBy[r] # 0 /\ heard[r] = "waiting"
    /\ heard' = [heard EXCEPT ![r] = how]
    /\ UNCHANGED <<vars, running, life, takenBy>>

Deliver(r) == response[r] # 0 /\ Hear(r, "answer")

\* The client gives up, or the answer comes after WriteTimeout.
Lose(r) == Hear(r, "lost")

-----------------------------------------------------------------------------
(* The process and the node.                                               *)

Work(r) ==
    /\ running
    /\ Handler(r) \/ Panic(r) \/ Drain(r) \/ ConnError(r) \/ CloseChan(r)
    /\ UNCHANGED <<running, life, takenBy, heard>>

\* The node decides whether or not the process still runs.
Decide(r) ==
    /\ TakesOnce(r)
    /\ UNCHANGED <<running, life, takenBy, heard>>

\* Collectors live in the process: they start again from zero.
NewCollectors ==
    /\ submitCount' = 0
    /\ failCount' = 0
    /\ requestsTotal' = [v \in Results |-> 0]
    /\ contentTotal' = [f \in Families |-> 0]

\* Mutant of Crash: the collectors survive.
CrashKeepsMetrics ==
    /\ running /\ life <= MaxCrashes
    /\ running' = FALSE
    /\ pc' = [r \in Requests |-> IF pc[r] = "idle" THEN "idle" ELSE "done"]
    /\ conn' = [r \in Requests |-> IF conn[r] = "none" THEN "none" ELSE "closed"]
    /\ unread' = [r \in Requests |-> 0]
    /\ drain' = [r \in Requests |-> IF drain[r] = "none" THEN "none" ELSE "done"]
    /\ heard' = [r \in Requests |->
                   IF takenBy[r] # 0 /\ heard[r] = "waiting" /\ response[r] = 0
                     THEN "lost" ELSE heard[r]]
    /\ UNCHANGED <<req, txInfo, result, response, link, raised, life, takenBy, metricsVars>>

\* Every goroutine is gone and the system closes what it had open.  An answer
\* that was written may still be on its way.
Crash ==
    /\ running /\ life <= MaxCrashes
    /\ running' = FALSE
    /\ pc' = [r \in Requests |-> IF pc[r] = "idle" THEN "idle" ELSE "done"]
    /\ conn' = [r \in Requests |-> IF conn[r] = "none" THEN "none" ELSE "closed"]
    /\ unread' = [r \in Requests |-> 0]
    /\ drain' = [r \in Requests |-> IF drain[r] = "none" THEN "none" ELSE "done"]
    /\ heard' = [r \in Requests |->
                   IF takenBy[r] # 0 /\ heard[r] = "waiting" /\ response[r] = 0
                     THEN "lost" ELSE heard[r]]
    /\ NewCollectors
    /\ UNCHANGED <<req, txInfo, result, response, link, raised, life, takenBy>>

\* A supervisor starts the process again; its initVars made new collectors.
Boot ==
    /\ ~running
    /\ running' = TRUE
    /\ life' = life + 1
    /\ UNCHANGED <<vars, takenBy, heard>>

\* Nothing more is attempted.
AllHeard ==
    /\ running
    /\ \A r \in Requests : takenBy[r] # 0 => AtRest(r) /\ heard[r] # "waiting"
    /\ UNCHANGED restartVars

RestartNext ==
    \/ \E r \in Requests :
         Attempt(r) \/ Deliver(r) \/ Lose(r) \/ Work(r) \/ Decide(r)
    \/ Crash \/ Boot
    \/ AllHeard

RestartSpec == RestartInit /\ [][RestartNext]_restartVars

-----------------------------------------------------------------------------
(* What still agrees.                                                      *)

\* Trying again is safe: over all attempts for one transaction, overlapping or
\* in different lives, at most one is answered 202, and the accepted results
\* counted in any life are not more than the transactions the node took.
OneAcceptancePerTx ==
    /\ \A r, s \in Requests :
         TxOf[r] = TxOf[s] /\ response[r] = 202 /\ response[s] = 202 => r = s
    /\ requestsTotal["accepted"]
         <= Cardinality(TakenTxs)

\* A transaction that entered the mempool without a 202 has left a trace: its
\* handler ended in an error or a panic, or with the process.  "rejected" is
\* never what hides it.
SilentAcceptanceExplained ==
    \A r \in Requests :
        link[r] = "accepted" /\ pc[r] = "done" /\ response[r] # 202 =>
            \/ result[r] \in {"error", "panic"}
            \/ response[r] = 0 /\ (takenBy[r] < life \/ ~running)

\* While handlers run, in whatever life, the collectors agree with the answers, the
\* node and each other as they do without crashes, counted over this life alone.
SuccessesOfThisLife ==
    LET mine == {r \in Requests : takenBy[r] = life}
    IN  running =>
            /\ Cardinality({r \in mine : response[r] = 202}) <= requestsTotal["accepted"]
            /\ requestsTotal["accepted"] <= submitCount
            /\ submitCount <= Cardinality({r \in mine : link[r] = "accepted"})

\* When the handlers of this life have come to rest, the collectors tell what
\* this life answered, no more and no less: nothing of an earlier life, and
\* also what did not reach its client.
TotalsOfThisLife ==
    LET mine == {r \in Requests : takenBy[r] = life}
        failed == {r \in mine : response[r] # 202 /\ result[r] # "panic"}
    IN  running /\ (\A r \in mine : pc[r] = "done") =>
            /\ submitCount = Cardinality({r \in mine : response[r] = 202})
            /\ requestsTotal["accepted"] = submitCount
            /\ failCount = Cardinality(failed)

CollectorsOfThisLife ==
    SuccessesOfThisLife /\ TotalsOfThisLife /\ FailuresAgree /\ ContentLagsResults

==============================================================================

------------------------------ MODULE Routing -------------------------------
(***************************************************************************)
(* The API listener of internal/api/api.go around its handlers: Start      *)
(* wraps newMux in logging, recovery and CORS, from the inside out.  Every *)
(* request runs through them on a goroutine of its own.                    *)
(*                                                                         *)
(* What a handler does is told in TxSubmission, MempoolQuery and           *)
(* NodeHealth; here it is the set of statuses it may answer with.          *)
(* http.ServeMux, http.FileServer and the browser are outside the          *)
(* repository.                                                             *)
(***************************************************************************)
EXTENDS Naturals, FiniteSets, Sequences

CONSTANTS
    Requests,     \* the requests
    Healthchecks  \* Logging.Healthchecks

ASSUME HealthchecksAssumption == Healthchecks \in BOOLEAN

VARIABLES
    at,        \* where the goroutine of a request is
    req,       \* its method and path
    cors,      \* whether the CORS headers are set
    recorded,  \* the status responseWriter keeps, 0 before the wrapper is made
    wire,      \* the status the client gets, 0 before that
    content,   \* what was written to the body it gets
    logged,    \* the status in the access log, 0 without an entry
    panicked,  \* whether recoveryMiddleware saw a panic
    hops       \* the redirects followed

vars == <<at, req, cors, recorded, wire, content, logged, panicked, hops>>

Methods == {"GET", "HEAD", "POST", "DELETE", "OPTIONS"}

\* Paths by the way they are routed; "/other" is any path not named.
Paths == {"/", "/ui", "/ui/", "/ui/other", "/health", "/healthz", "/swagger/",
          "/metrics", "/api/submit/tx", "/api/hastx/", "/api/hastx/hash",
          "/other"}

NoRequest == [method |-> "none", path |-> "none"]

Statuses == {200, 202, 204, 301, 400, 404, 405, 413, 415, 500, 503}

TypeOK ==
    /\ at \in [Requests -> {"idle", "cors", "logging", "mux", "answered",
                            "recovery", "done"}]
    /\ req \in [Requests -> [method : Methods, path : Paths] \cup {NoRequest}]
    /\ cors \in [Requests -> BOOLEAN]
    /\ recorded \in [Requests -> {0} \cup Statuses]
    /\ wire \in [Requests -> {0} \cup Statuses]
    /\ content \in [Requests -> {"none", "answer", "mixed"}]
    /\ logged \in [Requests -> {0} \cup Statuses]
    /\ panicked \in [Requests -> BOOLEAN]
    /\ hops \in [Requests -> Nat]

Init ==
    /\ at = [r \in Requests |-> "idle"]
    /\ req = [r \in Requests |-> NoRequest]
    /\ cors = [r \in Requests |-> FALSE]
    /\ recorded = [r \in Requests |-> 0]
    /\ wire = [r \in Requests |-> 0]
    /\ content = [r \in Requests |-> "none"]
    /\ logged = [r \in Requests |-> 0]
    /\ panicked = [r \in Requests |-> FALSE]
    /\ hops = [r \in Requests |-> 0]

Goto(r, from, to) == at[r] = from /\ at' = [at EXCEPT ![r] = to]

-----------------------------------------------------------------------------
(* newMux.                                                                 *)

\* A pattern with GET takes HEAD too.
Gets(q) == q.method \in {"GET", "HEAD"}

\* The handler of a request.  A method that no pattern of the path takes leaves
\* the request to "/", whose handler answers 404 to every other path, never 405.
\* The wildcard {tx_hash} takes no empty segment.
Route(q) ==
    CASE q.path \in {"/ui/", "/ui/other"} -> "static"
      [] q.path = "/ui" -> "addSlash"
      [] q.path = "/" -> "root"
      [] q.path = "/health" /\ Gets(q) -> "liveness"
      [] q.path = "/healthz" /\ Gets(q) -> "readiness"
      [] q.path = "/swagger/" -> "swagger"
      [] q.path = "/api/submit/tx" /\ q.method = "POST" -> "submit"
      [] q.path = "/api/hastx/hash" /\ Gets(q) -> "hastx"
      [] OTHER -> "notFound"

\* The statuses of a handler.  The file server has the page and no "/ui/other".
Answers(q) ==
    CASE Route(q) = "liveness" -> {200}
      [] Route(q) = "readiness" -> {200, 503}
      [] Route(q) = "submit" -> {202, 400, 413, 415, 500}
      [] Route(q) = "hastx" -> {200, 400, 404, 500}
      [] Route(q) \in {"root", "addSlash"} -> {301}
      [] Route(q) = "static" -> {IF q.path = "/ui/" THEN 200 ELSE 404}
      [] Route(q) = "swagger" -> {200, 301, 404, 405}
      [] Route(q) = "notFound" -> {404}

\* Mutant of Location: the root points to a page that is not served.
LocationElsewhere(q) == IF Route(q) = "root" THEN "/other" ELSE "/ui/"

\* Where a redirect points.
Location(q) == IF Route(q) = "root" THEN "/ui" ELSE "/ui/"

-----------------------------------------------------------------------------
(* The middleware.                                                         *)

Arrive(r, q) ==
    /\ Goto(r, "idle", "cors")
    /\ req' = [req EXCEPT ![r] = q]
    /\ UNCHANGED <<cors, recorded, wire, content, logged, panicked, hops>>

\* Mutant of Cors: the headers are set for a preflight only.
CorsPreflightOnly(r) ==
    /\ cors' = [cors EXCEPT ![r] = req[r].method = "OPTIONS"]
    /\ IF req[r].method = "OPTIONS"
         THEN Goto(r, "cors", "done") /\ wire' = [wire EXCEPT ![r] = 204]
         ELSE Goto(r, "cors", "logging") /\ UNCHANGED wire
    /\ UNCHANGED <<req, recorded, content, logged, panicked, hops>>

\* corsMiddleware answers an OPTIONS request itself.
Cors(r) ==
    /\ cors' = [cors EXCEPT ![r] = TRUE]
    /\ IF req[r].method = "OPTIONS"
         THEN Goto(r, "cors", "done") /\ wire' = [wire EXCEPT ![r] = 204]
         ELSE Goto(r, "cors", "logging") /\ UNCHANGED wire
    /\ UNCHANGED <<req, recorded, content, logged, panicked, hops>>

\* loggingMiddleware wraps the writer: 200 unless a handler says otherwise.
Wrap(r) ==
    /\ Goto(r, "logging", "mux")
    /\ recorded' = [recorded EXCEPT ![r] = 200]
    /\ UNCHANGED <<req, cors, wire, content, logged, panicked, hops>>

\* Mutant of WriteHeader: the status is not kept.
WriteHeaderThrough(r, status) ==
    /\ wire' = [wire EXCEPT ![r] = status]
    /\ UNCHANGED recorded

\* responseWriter.WriteHeader: kept for the log and sent.
WriteHeader(r, status) ==
    /\ wire' = [wire EXCEPT ![r] = status]
    /\ recorded' = [recorded EXCEPT ![r] = status]

\* A write to the body appends; to HEAD net/http sends none.
Write(r) ==
    content' = [content EXCEPT ![r] =
                  IF req[r].method = "HEAD" THEN @
                  ELSE IF @ = "none" THEN "answer" ELSE "mixed"]

\* A handler answers, which each of them does once.
Answer(r) ==
    /\ Goto(r, "mux", "answered")
    /\ \E status \in Answers(req[r]) : WriteHeader(r, status)
    /\ Write(r)
    /\ UNCHANGED <<req, cors, logged, panicked, hops>>

\* Mutant of Panic: the Close of a submission is deferred by its handler, so that it
\* runs after the answer too.
PanicAfterAnswer(r) ==
    /\ at[r] \in {"mux", "answered"} /\ Route(req[r]) \in {"submit", "hastx"}
    /\ Goto(r, at[r], "recovery")
    /\ panicked' = [panicked EXCEPT ![r] = TRUE]
    /\ UNCHANGED <<req, cors, recorded, wire, content, logged, hops>>

\* The handlers that talk to the node may panic before they answer.  The deferred
\* Close of handleHasTx runs after its answer, but for a hash that does not decode,
\* which is answered before anything is dialled.
Panic(r) ==
    /\ \/ at[r] = "mux" /\ Route(req[r]) \in {"submit", "hastx"}
       \/ at[r] = "answered" /\ Route(req[r]) = "hastx" /\ wire[r] # 400
    /\ Goto(r, at[r], "recovery")
    /\ panicked' = [panicked EXCEPT ![r] = TRUE]
    /\ UNCHANGED <<req, cors, recorded, wire, content, logged, hops>>

\* Mutant of Recover: the 500 replaces an answer already given.
RecoverAnyway(r) ==
    /\ Goto(r, "recovery", "done")
    /\ wire' = [wire EXCEPT ![r] = 500]
    /\ Write(r)
    /\ UNCHANGED <<req, cors, recorded, logged, panicked, hops>>

\* http.Error: its status is ignored where one was sent, but its text is written in
\* any case and then ends up behind the answer.
Recover(r) ==
    /\ Goto(r, "recovery", "done")
    /\ wire' = [wire EXCEPT ![r] = IF @ = 0 THEN 500 ELSE @]
    /\ Write(r)
    /\ UNCHANGED <<req, cors, recorded, logged, panicked, hops>>

SkipPaths == IF Healthchecks THEN {} ELSE {"/health", "/healthz"}

\* Mutant of Log: requests that failed are left out.
LogSuccesses(r) ==
    /\ Goto(r, "answered", "done")
    /\ IF recorded[r] >= 400
         THEN UNCHANGED logged
         ELSE logged' = [logged EXCEPT ![r] = recorded[r]]
    /\ UNCHANGED <<req, cors, recorded, wire, content, panicked, hops>>

\* A panic goes past the logging, which is inside the recovery.
Log(r) ==
    /\ Goto(r, "answered", "done")
    /\ IF req[r].path \in SkipPaths
         THEN UNCHANGED logged
         ELSE logged' = [logged EXCEPT ![r] = recorded[r]]
    /\ UNCHANGED <<req, cors, recorded, wire, content, panicked, hops>>

\* The client of a redirect asks again; after a 301 what is not HEAD becomes GET.
Follow(r) ==
    /\ at[r] = "done" /\ wire[r] = 301 /\ Route(req[r]) # "swagger"
    /\ at' = [at EXCEPT ![r] = "cors"]
    /\ req' = [req EXCEPT ![r] =
                 [method |-> IF @.method = "HEAD" THEN "HEAD" ELSE "GET",
                  path |-> Location(@)]]
    /\ cors' = [cors EXCEPT ![r] = FALSE]
    /\ recorded' = [recorded EXCEPT ![r] = 0]
    /\ wire' = [wire EXCEPT ![r] = 0]
    /\ content' = [content EXCEPT ![r] = "none"]
    /\ logged' = [logged EXCEPT ![r] = 0]
    /\ hops' = [hops EXCEPT ![r] = @ + 1]
    /\ UNCHANGED panicked

-----------------------------------------------------------------------------

Serve(r) == Cors(r) \/ Wrap(r) \/ Answer(r) \/ Recover(r) \/ Log(r)

Served ==
    /\ \A r \in Requests : at[r] = "done"
    /\ UNCHANGED vars

Next ==
    \/ \E r \in Requests :
         \/ \E q \in [method : Methods, path : Paths] : Arrive(r, q)
         \/ Serve(r) \/ Panic(r) \/ Follow(r)
    \/ Served

Spec == Init /\ [][Next]_vars

\* The goroutines of the server are scheduled.  A client that follows redirects
\* does so.
FairSpec ==
    Spec /\ \A r \in Requests : WF_vars(Serve(r)) /\ WF_vars(Follow(r))

-----------------------------------------------------------------------------

\* Every answer can be read by a page of any origin: also the 204 of a preflight
\* and the 500 of a panic, which leaves the handler on another path.
AnswersCarryCors == \A r \in Requests : wire[r] # 0 => cors[r]

\* The access log tells the answer: an entry has the status that the client got,
\* though the one comes from the wrapper and the other from the connection, and
\* an entry is missing only for a preflight, a panic or a health check.
LogTellsTheAnswer ==
    \A r \in Requests :
        /\ logged[r] # 0 => logged[r] = wire[r]
        /\ at[r] = "done" /\ logged[r] = 0 =>
             \/ req[r].method = "OPTIONS"
             \/ panicked[r]
             \/ ~Healthchecks /\ req[r].path \in {"/health", "/healthz"}

\* What a client was told stands until it sends a new request: no panic changes the
\* status of an answer.  The recovery does append its text to the body of one, but
\* only where handleHasTx panics in its deferred Close; the answers of a submission,
\* whose Close runs before them, stay whole.
AnswerStands ==
    [][\A r \in Requests : wire[r] # 0 /\ hops'[r] = hops[r] =>
          /\ wire'[r] = wire[r]
          /\ content'[r] # content[r] =>
               content'[r] = "mixed" /\ panicked[r] /\ Route(req[r]) = "hastx"]_vars

\* Every request is answered, and "/" and "/ui" take a browser to the page.
EveryRequestAnswered ==
    \A r \in Requests :
        /\ at[r] = "cors" ~> at[r] = "done" /\ wire[r] # 0
        /\ at[r] = "cors" /\ req[r].method = "GET" /\ req[r].path \in {"/", "/ui"}
             ~> wire[r] = 200 /\ req[r].path = "/ui/"

\* README "There is a metrics web user interface running on the service's API
\* port": the page asks the same origin for /metrics (hx-get in index.html), so
\* that must be answered with them.
DashboardGetsMetrics ==
    \A r \in Requests :
        req[r].path = "/metrics" /\ req[r].method = "GET" /\ at[r] = "done" => wire[r] = 200

==============================================================================

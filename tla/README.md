# Verification of tx-submit-api

TLA+ models of the transaction submission service in this repository, checked
with TLC on small instances and, where a theorem is listed, proved with TLAPS
for every value of the constants. Every definition is translated from the Go
source; `PROJECT.json` maps each one to its lines.

## The system

The service is one process that takes Cardano transactions over HTTP and hands
each to a `cardano-node` over an Ouroboros connection made for it.

| Component | Source | State | Operations | Talks to |
|---|---|---|---|---|
| Transaction submission | `internal/api/api.go` `handleSubmitTx`, `submit/tx.go`, `submit/txinfo.go` | per request: program point, conclusion, response, connection, `errorChan`; a drain goroutine after a success | check the content type, read and decode the body, dial, submit, close, answer, count | the node, the collectors, the client |
| Metrics | `internal/metrics/metrics.go` | two gauges and four counter vectors, process-wide | `Inc...`, `Record...`, `Register` | incremented by handlers, scraped on a port of its own |
| Node health | `internal/api/api.go` `startNodeHealthPoller`, `handleReadiness` | `nodeHealth` under an RWMutex, a ticker | probe, publish, `GET /healthz` | the node's transport, readers |
| Mempool query | `internal/api/api.go` `handleHasTx` | none beyond the request | decode the hash, dial, ask, answer | the node |
| Start-up and lifecycle | `cmd/tx-submit-api/main.go`, `internal/config`, `internal/logging`, `api.Start` | the global configuration, the listeners | load, check the node, start listeners and poller | every other part |
| Routing and middleware | `internal/api/api.go` | none | routes, CORS, logging, recovery | wraps every handler |
| Generated client | `openapi/` | client configuration | choose a server, build and send a request, decode the response | the HTTP API |
| Web interface | `internal/api/static/index.html` | chart data in the page | poll the metrics, submit a file | the HTTP API |

What makes it hard:

- **Concurrency.** Every request has its own goroutine, and all share the
  collectors. A response and the metrics of a request are separate steps, in one
  order for a success and in the other for a failure. A goroutine outlives the
  handler to drain `errorChan`, which connection goroutines write to. The
  health poller and the readers of its state run beside them.
- **Failure and timing.** The node may be slow, gone, or decide after the
  handler has given up. Decoding and protocol code may panic. The process has no
  orderly shutdown: some listener failures exit it, others are only logged.
- **Correctness.** Submission: a 202 only for a transaction in the mempool, a
  rejection only from the node, totals that agree with the answers, no
  connection or goroutine left behind, every request served. Health: what
  `/healthz` says is recent. Query: the answer was true when the node gave it.
  Start-up: never serve a node that was not checked unless told to, one
  transport everywhere. Client: a response is neither lost nor misread.

## Modules

| Module | Models |
|---|---|
| `Metrics` | the collectors and their increments |
| `TxSubmission` (EXTENDS `Metrics`) | the submission handler, `SubmitTx`, `DialNode`, the recovery middleware, the drain goroutine; the connection and the node as environment |
| `SubmitContract` | what the route promises, without any of that |
| `TxSubmissionProofs` | theorems about `TxSubmission`, including that it implements `SubmitContract` |
| `MCTxSubmission` | the symmetry set for TLC |
| `MempoolQuery` | `GET /api/hastx/{tx_hash}`: the handler, its snapshot and a mempool that changes |
| `MempoolQueryProofs` | theorems about `MempoolQuery` |
| `MCMempoolQuery` | its symmetry set for TLC |
| `Ledger` (EXTENDS `TxSubmission`) | several requests for one transaction, and a node that takes it once |
| `Service` (EXTENDS `Ledger`, INSTANCE of `MempoolQuery`) | both routes on one mempool, the node's other peers that fill it, and the blocks that empty it |
| `MCService` | one transaction and its symmetry set for TLC |
| `NodeHealth` | the poller, its ticker, the published state, `GET /healthz`, in discrete time |
| `NodeHealthProofs` | theorems about `NodeHealth` |
| `Startup` | `main`, `config.Load` with the node check, `logging.Setup`, `api.Start` with its listeners, and what ends the process |
| `Lifecycle` | what the process promises to its supervisor, without any of that |
| `StartupProofs` | theorems about `Startup`, including that it implements `Lifecycle` |
| `MCStartup` | the layers of settings for TLC |
| `Restart` (EXTENDS `Ledger`) | a process that ends at any step and starts again, answers that are lost, clients that try again |
| `CompositionProofs` (EXTENDS `TxSubmissionProofs`) | theorems about `Service` and `Restart` |
| `MCRestart` | two attempts for one transaction, for TLC |
| `Durations` | the two settings in seconds as words of fixed width, and who takes them |
| `DurationsProofs` | theorems about `Durations` |
| `ContentLabels` | the labels of the content counters, their three increments, and scrapes |
| `ContentLabelsProofs` | theorems about `ContentLabels` |
| `MCContentLabels` | the transactions for TLC |
| `Routing` | the API mux, CORS, recovery and access log around the handlers |
| `ApiClient` (EXTENDS `Routing`) | the generated client's `Execute` of both operations, against the routed server |
| `ApiClientProofs` | theorems about `Routing` and `ApiClient` |
| `MCApiClient` | calls and configurations for TLC |

### TxSubmission

`pc[r]` names the points of the handler of request `r` between two steps that
someone else can see; an action is the code from one point to the next.

| Code | Actions |
|---|---|
| `handleSubmitTx` up to the call of `SubmitTx` | `Arrive`, `CheckContentType`, `ReadBody`, `ParseTxInfo` |
| `SubmitTx` | `Validate` (timeout guard, decoding), `DialNode`, `Send`, `Await`, `Close` (deferred) |
| the error branch | `Reply`, `CountFail`, `CountResult`, `CountContent` (three steps) |
| the success branch | `CountSubmit`, `CountResult`, `CountContent`, `Reply` |
| `recoveryMiddleware` | `Panic` (at any point inside decoding or submission), `Recover` |
| the drain goroutine's `select` | `DrainReceive`, `DrainClosed`, `DrainTimeout` |
| outside the repository | `NodeVerdict` (also after the handler gave up, or never), `ConnError` (a send on `errorChan`), `CloseChan` |

Data are abstracted to what the handler tells apart. `req[r]` is the class of
the request. The bytes of a body are the same for `ParseTxInfo` and for
`SubmitTx`, which make the same two decoding calls, so one operator `Decodes`
decides both. The Accept header is read only when an error of `SubmitTx` is
answered, so that action allows 400 and 500. `Config.Network` is never set by
the handler, so `populateNetworkMagic` cannot fail there. `link[r]` is the
submission as the node sees it and `result[r]` what the handler concluded; the
gap between the two is the late verdict. `unread[r]` counts the errors sent on
`errorChan` and not received; beyond `ErrorChanCap` a sender is blocked, and
`ConnErrors` bounds how many errors one connection raises. "Response written"
means written by the handler. net/http may hold a small response until the
handler returns, so a client may see it later than the model says and never
earlier.

Panics are allowed where library code works on the request's bytes or on the
connection (points `parse` to `await`). A panic leaves no count: this is in the
model, and `TotalsAtRest` says exactly which answers are not in the totals.

### SubmitContract

Its state is the verdict on each request, the node's mempool and refusals, the
requests counted and answered and the totals by result. The refinement mapping
(the `INSTANCE` in `TxSubmission`) reads the verdict off `result`, the mempool
off `link`, the requests counted off the program points, and takes
`requestsTotal` as it is.

### MempoolQuery

`DecodeHash`, `DialNode`, `Acquire`, `Ask` and `Close` are `handleHasTx` from one
call to the next; `Panic` and `Recover` are the recovery middleware around it.
The library's `HasTx` is two exchanges with the node, each with its own timeout:
acquire a snapshot of the mempool, then ask. Here the response is written first
and the deferred `Close` runs after it, the other way round than for a
submission. The route does not match an empty `tx_hash`, so that early return of
the handler is not an input; a hash the node has never heard of is one that is
not in `mempool`. `was[q]` is a history variable: what was true of the
transaction at some moment since the query arrived.

### Service

`TxOf` of `Ledger` gives each request the transaction it submits. The node takes
a transaction once: with `Decision` a request for one that the node has, from
another request or from elsewhere (`Gossip`), can only be rejected, so a client
may be told of a rejection while its transaction is found. What is in the
mempool is then no variable: it is what was accepted or gossiped (`Entered`)
without what has `left`, and `MempoolQuery` is instantiated with that
expression. A step of a submission is a step of `TxSubmission`, and the queries
that are running observe what it does to the mempool. `told[q]` and `gone[q]`
are history variables: which transactions clients had been told are in the
mempool when query `q` arrived, and which they had been told are not, after
being told that they were. A transaction that left does not come back: a chain
that rolls back and returns transactions to the mempool is left out, and with it
`GoneStaysGone` would not hold.

### NodeHealth

`Elapse` lets one unit of time pass, and only when the goroutine waits for the
network or for a tick: computing takes no time, which neglects scheduling delays
against seconds. The ticker's channel holds one tick and drops the others, as
`time.Ticker` does. A dial succeeds only while the node accepts connections,
fails at once when it does not, or is given up after `Timeout`. The ticker is
created after the first probe. Writing the state under the lock and logging the
transition are one step: there is one writer, and a reader sees only the state.
`sinceUp` is a history variable; it and `age` stop counting at
`Interval + Timeout + 1`.
`handleReadiness` reads one field under the lock, so it is one action. The
interval is the effective one (0 becomes 30 in the code), and the
timeout is assumed positive: with 0 a dial has no limit and none of the bounds
holds.

### Startup

`main` is the point of the main goroutine; `debug`, `metrics` and `api` are the
listeners. `Load` merges three layers (defaults, file, environment), each a
function from the fields it sets; `WithMagic` is the look-up of the named
network. `SkipCheck`, `BeginCheck`, `NothingToCheck`, `CheckSucceeds` and
`CheckFails` are `checkNode`. `CheckTransport`, `ProbeTransport` and
`DialTransport` are the three places that choose between TCP and a socket.
`StartDebug`, `ListenDebug`, `ListenMetrics`, `StartApi`, `ListenApi` and
`LoadCertificate` take the ports one after another from three goroutines:
`owner` says who has which, and `faulty` marks a listener whose later failure
the environment chose. A debug listener that fails exits the process, a metrics
listener that fails is logged, and an API listener that fails makes `Start`
return its error to `main`, which exits. Of the interval, which `Durations` has in
full, only whether its product with `time.Second` is positive is kept: if not,
`TickerPanics` ends the process after the first probe, whatever else serves
(`api.go:109`). The library's dial in the check is assumed to end.

`Lifecycle` has a phase and whether the node was verified. The refinement maps
the phase to `api` and `main`, and the check, done or waived, to `verified`.

### Restart

`Crash` ends the process between any two steps: handlers, drains and collectors
are gone, connections are closed, and the node keeps what it took and may still
decide on what was sent. `Boot` starts it again. `Deliver` and `Lose` are the
two ends of an answer for its client; a lost one is a server that passed
`WriteTimeout` or a client that gave up, and the handler goes on either way
because it never looks at the request's context. `Attempt` is a client trying
again when an earlier attempt ended without a 202. `Decide` is `NodeVerdict` of
a node that takes a transaction once.

### Durations

`Seconds(n)` is `time.Duration(n) * time.Second` modulo the word. `Probe` and
`EndDial`, `NewTicker`, `Submit` and `HasTx` hand durations to `net.DialTimeout`,
`time.NewTicker` and the protocol timeouts; `handed` keeps what each got. A dial
with a duration of 0 has no limit, and a ticker with one that is not positive
panics in a goroutine that nothing recovers.

### ContentLabels

`RecordTxContent` is one labelled increment of three; `Scrape` reads one family
and `ScrapeEnds` completes the page. `ScriptType` is the precedence in
`ParseTxInfo`. `Total` is the sum of the labels of one family, which is what
`TxSubmission` counts; `PageCountsTransactions` bounds how far the families of
one page can differ.

### Routing and ApiClient

A request goes `cors`, `logging`, `mux`, `answered` and `done`; a panic goes to
`recovery` past the log. `Route` is the mux of `newMux` as `http.ServeMux`
resolves it; `Answers` is the set of statuses a handler may give, which
`TxSubmission`, `MempoolQuery` and `NodeHealth` explain. `WriteHeader` is the
wrapper that keeps a status for the log, `Write` what a handler or the recovery
adds to the body. `http.Error` in the recovery loses its status to an answer
that was given but still writes its text, so `content` becomes `mixed`. `Follow`
is a browser.

In `ApiClient` a call goes through `ServerURLWithContext` (with `Setting`, the
precedence of context values), `CheckUsage`, `PrepareRequest`, `Send` or
`SendFails`, `Receive` or `LoseAnswer`, `ReadBody` and `Conclude`. `ServerStep`
is `Routing`'s server, with the answers that this client's requests can get:
its submissions have no body. `Visit` is a request of anybody else, so one run
checks the server for browsers and for the client.

## Runs

| Run | Instance | Shows |
|---|---|---|
| `submission_safety` | 2 requests of any kind, up to 2 errors per connection, symmetry | the safety and action properties of `TxSubmission` |
| `submission_liveness` | 2 requests, 1 error per connection, `FairSpec` | every request is served, nothing is left behind, and `FairSpec` implements `SubmitContract!FairSpec` |
| `query` | 2 queries, 2 transactions, `FairSpec` | 200 and 404 were true while the query ran, no connection is left, every query is answered |
| `service` | 1 submission, 2 queries, 1 error per connection, a node that may have the transaction already, symmetry | a 404 after a 202 or 200 means that the transaction has left, and no 200 follows it |
| `health` | interval 2, timeout 5, `FairSpec` | bounds on the age of what `/healthz` says; a lasting loss is noticed |
| `startup` | node settings in a file, listener settings in the environment, ports that collide, an interval that overflows, `FairSpec` | nothing before the check, one transport, what may end an API that serves, the debug listener or the exit, `FairSpec` implements `Lifecycle!FairSpec` |
| `restart` | 2 attempts for one transaction, 2 ends of the process | trying again is safe; what entered the mempool without a 202 is explained; the collectors of a life agree with its answers and the node |
| `durations` | words of 6 bits, a second of 12 units, `FairSpec` | settings that fit are exact everywhere; the poller gets to its ticker |
| `durations_docs` | same | violation: a timeout that passes the guard wraps |
| `api` | 1 request: a call with every context and configuration, or any method and path, `ClientFairSpec` | headers, log, answer and the client's outcome agree, everybody returns |
| `routing_docs` | 1 request | violation: the dashboard's request for `/metrics` is answered 404 |
| `labels` | 2 handlers, 17 transactions, scrapes at any time, symmetry | labels tell the content, a scrape lies between, every family of a page counts the transactions |

**Bounds.** Requests share nothing but the collectors, and no guard reads a
collector, so a property of one request or of a pair shows with two. The
theorems cover any finite number. Two errors on a connection are one more than
`errorChan` holds, which is what blocks a sender; one is what the channel is
made for. Queries share nothing at all; in `service` the second one is there
because what the first was told constrains it. One submission is enough there:
what a second one adds for the first and for the queries is a node that has the
transaction already, which `Gossip` gives. The theorems hold for any number of
submissions of each transaction. In `health` the dial outlasts two
ticks, so ticks are dropped, and shorter dials of the same run await them.
In `startup`, how a network is named and how a node is reached share no code,
so a file sets one of the two; ports are few, so that each pair of listeners
collides. In `restart` both attempts may lose their process and the second may
overlap the first or outlive it; connection errors, which the submission runs
cover, are left out. With 6 bits and 12 units, settings up to 2 fit, 3 wraps
to a negative duration, 6 to a positive one, 16 to exactly 0, and 32 is above
the guard, so that each class of the 64-bit case has a member. Requests of `Routing` share nothing, and a client's
calls nothing but a configuration that no call writes: one suffices. The
transactions of `labels` have every set of script kinds; native scripts come
with a mint and the others with references, because the three labels are
computed apart.

**Fairness.** Weak fairness of a handler and of a drain goroutine: Go schedules
a goroutine that can run. A handler in `Await` can always go on because
`WithTimeout` ends the wait; nothing is assumed of the node, the client or the
network, and arriving and panicking are not fair. The same holds for queries,
whose waits `WithAcquireTimeout` and `WithQueryTimeout` end. Weak fairness of `CloseChan`:
a connection completes the shutdown that `Close` began, unless one of its
goroutines is blocked. For health, the poller runs and time passes. For the start, `main` and the listeners'
goroutines run, and nothing has to fail. The client's `Execute` runs in its
caller's goroutine, and a browser follows a redirect; answers may be lost.

**Findings.** (1) `durations_docs`: `SubmitTx` compares the timeout in seconds
with `math.MaxInt64` ("Fail fast if timeout is too large") and multiplies by
`time.Second` afterwards; from about 9.2e9 seconds on the product wraps, and a
submission runs with another timeout, possibly 0 or negative. (2)
`routing_docs`: the page at `/ui` asks its own origin for `/metrics`, which
only the metrics listener serves, so the "metrics web user interface running on
the service's API port" gets 404.

Differences met while modelling that no run is spent on: the handler answers
413 above `maxTxBodyBytes`, which its annotations and `docs/swagger.yaml:61-73`
do not list; the comment of `startNodeHealthPoller` (`api.go:66-67`) says
`/healthz` is "never stale on first request", while nobody awaits the initial
check (a reader before it gets 503, never 200: `HealthyIsRecent`); a certificate
without its key is ignored and plain HTTP is served, against `README.md:52`;
`ApiSubmitTxPost` of the client has no way to pass a transaction, so its request
is empty; when the deferred `Close` of `handleHasTx` panics, `http.Error` (`api.go:197`)
appends "Internal Server Error" to the JSON already written (`AnswerStands` says
that this is the only way an answer changes, and that no submission's does);
and `NewConfiguration` has a server with the URL "", so a client made
from it sends nothing until a host and a scheme are set.

Every property of a passing run has a mutant of a modelled definition that
breaks it; mutants stand before the definition they change.

## Proofs

Assumptions: `Requests` and `Handlers` are finite, `ConnErrors` is a natural
number, `TimeoutTooLarge` is a Boolean, a
value that is no hash is no transaction; `Interval` and `Timeout` are positive;
a word has an even number of values and holds two seconds; `MaxCrashes` is a
natural number; a client's configuration lists servers, and its calls have the
parameters and context values that the API of the client admits.

`TxSubmissionProofs` rests on one inductive invariant, `IInv`:

- `TypeOK`;
- `LocalInv`: what a program point tells of the rest of a request. The
  connection is open exactly from `DialNode` to `Close`; a verdict the handler
  holds is the node's; the response is written exactly behind the write; and so
  on. The safety properties are not inductive alone: `AcceptedMeansInMempool`
  speaks of the response, but whether it stays true depends on what the handler
  holds several steps earlier;
- `Counts(Requests)`: each collector is the cardinality of the set of requests
  past its increment. This is what turns the agreement of counters into
  inclusions of sets: the 202s are among the accepted results, those among the
  submissions counted, and those in the mempool.

`TypeStep`, `LocalStep` and `AllCountsStep` prove the three parts preserved, one
step per action. `Counts(S)` is stated of any set of requests, and `CountsStep`,
`SuccessesFollow`, `FailuresFollow` and `ContentFollows` with it, because a
process that was started again counts the requests of its own life only.
`TypesKept`, `FitsStep` and `OthersStand` are the step lemmas for one
request. All invariants of `submission_safety` and
`HugeTimeoutNeverDials` follow, as does the action property `OutcomeIsFinal`.
`HandlersAdvance` is the part of liveness that is not about fairness: `StepsLeft`
falls with each step of a handler, so it takes 15 at most.
`Implementation` proves `Spec => Contract!Spec`: `ConcludeDecides`,
`WriteAnswers`, `RecordCounts` and `VerdictTakes` say which contract step a kind
of step is, and every other step is a stutter.

`MempoolQueryProofs`: the history of a running query holds what is true now and
what its snapshot says, so an answer is in the history when it is written;
`AnswerWasTrue` alone is not inductive because it says nothing before that.
`QueriesAdvance` says that a query takes 7 steps at most and that the `Close`
and the recovery behind an answer do not revise it.

`CompositionProofs`, for `Restart`: a crash breaks `LocalInv`, because a handler
it ended is `done`
with whatever it held. `RequestInv` keeps it for the handlers of the running
process and requests that have not come, and for all others only `Told`, what
their results and answers say of the node, and `Ended`, that nothing of them is
open. `TakenOnce` says that the node takes
a transaction on one attempt only, and `Counts(Mine)` counts the handlers of
this life, a set that is empty after a crash. `RetriesAreSafe` follows because
the accepted results of a life are mapped one to one to transactions that the
node took; `AcceptancesExplained` follows directly, and `CollectorsPerLife` from
the counting lemmas. What `TxSubmission` promises of answers holds over all lives
(`AcceptedSurvives`, `RejectionSurvives`, `ClosedOverLives`, `OutcomesSurvive`,
 `HugeTimeoutFailsAlways`, `HandlersAdvanceOverLives`).
`LivesAreSubmissions` says that every step but a crash is one of
`TxSubmission` or a stutter. All hold for any number of attempts, transactions
and restarts.

For `Service`: `SubmissionsUnchanged` shows that a behaviour of the
composition is one of `TxSubmission`, so every theorem of `TxSubmissionProofs`
holds of it, the contract included (`ContractUnchanged`); `QueriesUnchanged` shows
that it is one of `MempoolQuery` on the mempool the submissions fill. So the
theorems about queries carry over (`AnswersTrueInService`,
`NoQueryConnectedInService`). `TakenStays` says that the set of accepted
transactions only grows. With that, `SInv` relates what a query was told before,
what its snapshot holds and what it answers to `Entered` and to `left`:
what a client knows to be accepted has entered, what it knows to be gone has
left. `AcceptedAlwaysFound` and `GoneAlwaysGone` follow for any number of
requests, transactions and queries.

`NodeHealthProofs`: `AgeInv` bounds the age of the last check by where the
poller is between two ticks (waiting: age plus time to the next tick is at most
the interval; dialling: the age is at most the interval plus the time the dial
has taken), and `SignInv` says that a healthy state is no older than the node's
last sign of life. The bounds `CheckIsRecent` and `HealthyIsRecent` follow for
every interval and positive timeout.

`StartupProofs`: `CheckInv` says what has not happened before the check,
`ListenInv` which listeners can be up at which point of `main`, `ConfigInv` that
the configuration after `Load` has a magic or an empty network. None of the properties is inductive alone: that the
transport served was checked rests on the configuration being fixed after
`Load`, on the check having ended and on no listener being up before.
`CheckedFirst`, `TransportsAgree` and `ApiGoesOn` follow for every
set of layers, networks and ports. `StartGoesOneWay` says that `main` never goes
back, that the configuration is not touched after `Load` and that nothing
follows an exit; `TlsAsConfigured`, that the API speaks TLS exactly when it has
both a certificate and a key. `Implementation` proves `Spec => Lifecycle!Spec`.

`ContentLabelsProofs`: every label of a family is the cardinality of the handlers
that are past the family's increment and whose transaction has the label; each
handler's script type is one of the labels (`ScriptTypeIsHighest`). When all
handlers are done, these sets are the ones `LabelsTellContent` names. A page
that is being read lies between two such states, because labels only grow.
For `PagesCountTransactions`, `TotalsInv` counts the handlers past each family by
the sum of its labels, now (`TotalsCountStep`) and when the scrape began: "refs"
is incremented last (`RefsAreLast`), so its sum counts no more transactions than
the sum of any family read later, and none is counted before its handler begins.

`DurationsProofs`: `HandedInv` says that a duration handed over is `Seconds` of
its setting and that only an interval that is none ends the process.
`SecondsAreExact` is the arithmetic: up to `Limit` neither conversion nor product
wraps. `SmallAlwaysExact` follows for words and seconds of every size: with
64 bits and 10^9 the limit is 9,223,372,036 seconds. `ExactNoFurther` is the
converse: above `Limit` every taker is given something else than its setting.
Hence `GuardMissesTheMiddle`: the submissions for which the finding of
`durations_docs` holds are exactly those with a timeout above `Limit` and up to
the guard's `math.MaxInt64`.

`ApiClientProofs`: `PathInv` says what the place of a request tells of its
headers, status and log entry. `LogTellsTheAnswer` is not inductive alone: it
needs that the wrapper's status is the connection's from the answer to the log.
`AnswersAlwaysCarryCors` and `LogAlwaysTells` follow for any set of requests.
`BodyInv` says that a body is begun with its status and that only a query's
recovery finds one to append to; `AnswersStand` follows. `WayInv` says where a request that was redirected can be, and
`NoRedirectLoop` follows: after two redirects at most, a browser has the page.
`ServedAsRouting` shows that a behaviour of `ApiClient` is one of
`Routing`, which carries them over to its client. `CallInv` says what the place
of a call tells: before it sends nothing has come to the server, from `Receive`
on it holds the answer that stands, and its server is the one `Resolves` found.
`OutcomesTell` and `SpecificAlwaysWins` follow for every list of servers and
every context, and `CallsProceed`: a call sends one request at most, and an answer
that comes after it gave up changes nothing.

Model-checked only, since this prover has no fairness and no ENABLED:
`EveryRequestServed`, `NothingLeftBehind`, `EveryQueryServed`, `LossIsNoticed`,
`DebugOrExit`, `PollerGetsToTicker`, `EverybodyReturns`, and the fairness part of
`ImplementsContract` and `ImplementsLifecycle`. What `HandlersAdvance`,
`QueriesAdvance`, `StartGoesOneWay`, `NoRedirectLoop` and `CallsProceed` prove is
that nothing goes in circles; that a step is always possible where the fairness
asks for one is what the runs add. `TooLargeFailsFast` and `DashboardGetsMetrics` are
violated.

Stated by theorems and by no run: `HugeTimeoutNeverDials`, `LogMatchesHealth`,
`LogAlternates`, `MagicIsKnown`, `ExactUpToLimit`, `SchemeIsConfigured`,
`RedirectsLeadToThePage`, the theorems above of going forward, and
the type invariants of the proved modules but `ApiClient` and `ContentLabels`.

## Not modelled, and the plan

- `realClientIP` decides what address is logged; it is a pure function with a
  table of unit tests, and logging is left out.
- `openapi/utils.go` and `response.go`: generic value holders that no operation
  uses. Of `openapi/client.go`: forms, files, XML, query parameters and cache
  headers, which no operation reaches, and the text of URLs and headers.
- Charts and layout of the web interface, log formats, version strings, and the
  generated API documents beyond the statuses they list.
- The inside of gouroboros, of net/http and of the node: what a Dial that fails
  in the handshake leaves behind, what a protocol timeout that is not positive
  does, how long the dial of the node check may take.
- The text of a configuration file. `Startup` takes the fields it sets.
- Reading as a client that follows redirects of a POST, and base paths of a
  client's server.

Every safety invariant and action property that a run checks is stated by a
theorem. What is left is liveness, as listed above.

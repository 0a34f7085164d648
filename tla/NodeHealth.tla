----------------------------- MODULE NodeHealth -----------------------------
(***************************************************************************)
(* startNodeHealthPoller and handleReadiness of internal/api/api.go: one   *)
(* goroutine dials the node at every tick of a time.Ticker and publishes   *)
(* whether it could; GET /healthz answers from what was published last.    *)
(*                                                                         *)
(* Time is discrete: Elapse lets one unit pass.  A goroutine with work to  *)
(* do takes no time over it; only a dial and a wait for a tick take time.  *)
(***************************************************************************)
EXTENDS Naturals

CONSTANTS
    Interval,  \* the effective HealthCheckInterval: never 0, 30 stands in for it
    Timeout    \* Node.Timeout; 0 would mean a dial without a limit

ASSUME IntervalAssumption == Interval \in Nat \ {0}
ASSUME TimeoutAssumption == Timeout \in Nat \ {0}

VARIABLES
    up,         \* whether the node accepts connections now
    poller,     \* what the polling goroutine is doing
    reached,    \* the outcome of the dial that just ended
    elapsed,    \* how long the current dial has taken
    untilTick,  \* time to the ticker's next tick
    pending,    \* an undelivered tick in ticker.C, which holds one
    healthy,    \* nodeHealth.healthy
    checked,    \* whether nodeHealth.lastCheck was ever set
    age,        \* time since nodeHealth.lastCheck, once set, up to Bound + 1
    logged,     \* the last transition logged
    told,       \* the last answer of /healthz, 0 before the first
    sinceUp     \* history: time since the node last accepted connections

dialVars   == <<reached, elapsed>>
tickerVars == <<untilTick, pending>>
healthVars == <<healthy, checked, age, logged>>
vars == <<up, poller, dialVars, tickerVars, healthVars, told, sinceUp>>

\* What is published is at most this old; ages are counted up to one more.
Bound == Interval + Timeout

TypeOK ==
    /\ up \in BOOLEAN
    /\ poller \in {"start", "dialing", "publish", "waiting"}
    /\ reached \in BOOLEAN
    /\ elapsed \in 0 .. Timeout
    /\ untilTick \in 1 .. Interval
    /\ pending \in BOOLEAN
    /\ healthy \in BOOLEAN
    /\ checked \in BOOLEAN
    /\ age \in 0 .. Bound + 1
    /\ logged \in {"nothing", "reachable", "unreachable"}
    /\ told \in {0, 200, 503}
    /\ sinceUp \in 0 .. Bound + 1

Init ==
    /\ up \in BOOLEAN
    /\ poller = "start"
    /\ reached = FALSE
    /\ elapsed = 0
    /\ untilTick = Interval
    /\ pending = FALSE
    /\ healthy = FALSE
    /\ checked = FALSE
    /\ age = 0
    /\ logged = "nothing"
    /\ told = 0
    /\ sinceUp \in {0, Bound + 1} /\ (up => sinceUp = 0)

-----------------------------------------------------------------------------
(* The polling goroutine.                                                  *)

\* The initial probe, before the ticker exists.
FirstProbe ==
    /\ poller = "start"
    /\ poller' = "dialing"
    /\ elapsed' = 0
    /\ UNCHANGED <<up, reached, tickerVars, healthVars, told, sinceUp>>

TickProbe ==
    /\ poller = "waiting" /\ pending
    /\ pending' = FALSE
    /\ poller' = "dialing"
    /\ elapsed' = 0
    /\ UNCHANGED <<up, reached, untilTick, healthVars, told, sinceUp>>

EndDial(ok) ==
    /\ poller = "dialing"
    /\ poller' = "publish"
    /\ reached' = ok
    /\ UNCHANGED <<up, elapsed, tickerVars, healthVars, told, sinceUp>>

DialSucceeds == up /\ EndDial(TRUE)

\* Refused, or given up after the timeout even if the node is there.  A node
\* that is down may also leave the dial waiting until the timeout.
DialFails == (~up \/ elapsed = Timeout) /\ EndDial(FALSE)

\* Mutant of Publish: a failed dial leaves the old state in place.
PublishSuccess ==
    /\ poller = "publish"
    /\ poller' = "waiting"
    /\ healthy' = (healthy \/ reached)
    /\ checked' = TRUE
    /\ age' = 0
    /\ logged' = IF reached = healthy THEN logged
                 ELSE IF reached THEN "reachable" ELSE "unreachable"
    /\ untilTick' = IF checked THEN untilTick ELSE Interval
    /\ UNCHANGED <<up, dialVars, pending, told, sinceUp>>

\* The fields are set under the lock, the transition is logged, and after the
\* initial probe the ticker is created.
Publish ==
    /\ poller = "publish"
    /\ poller' = "waiting"
    /\ healthy' = reached
    /\ checked' = TRUE
    /\ age' = 0
    /\ logged' = IF reached = healthy THEN logged
                 ELSE IF reached THEN "reachable" ELSE "unreachable"
    /\ untilTick' = IF checked THEN untilTick ELSE Interval
    /\ UNCHANGED <<up, dialVars, pending, told, sinceUp>>

Poller == FirstProbe \/ TickProbe \/ DialSucceeds \/ DialFails \/ Publish

-----------------------------------------------------------------------------
(* GET /healthz, the node and the clock.                                   *)

Readiness ==
    /\ told' = IF healthy THEN 200 ELSE 503
    /\ UNCHANGED <<up, poller, dialVars, tickerVars, healthVars, sinceUp>>

NodeChanges ==
    /\ up' = ~up
    /\ sinceUp' = 0
    /\ UNCHANGED <<poller, dialVars, tickerVars, healthVars, told>>

\* Mutant of Idle: net.Dial instead of net.DialTimeout.
IdleUnlimited == poller = "dialing" \/ (poller = "waiting" /\ ~pending)

\* The goroutine is waiting for the network or for the ticker.
Idle ==
    \/ poller = "dialing" /\ elapsed < Timeout
    \/ poller = "waiting" /\ ~pending

\* A tick that finds one undelivered is dropped.
TickerRuns ==
    LET fires == checked /\ untilTick = 1
    IN  /\ untilTick' = IF checked /\ ~fires THEN untilTick - 1 ELSE Interval
        /\ pending' = (pending \/ fires)

Elapse ==
    /\ Idle
    /\ TickerRuns
    /\ elapsed' = IF poller = "dialing" THEN elapsed + 1 ELSE elapsed
    /\ age' = IF checked /\ age <= Bound THEN age + 1 ELSE age
    /\ sinceUp' = IF up THEN 0 ELSE IF sinceUp <= Bound THEN sinceUp + 1 ELSE sinceUp
    /\ UNCHANGED <<up, poller, reached, healthy, checked, logged, told>>

Next == Poller \/ Readiness \/ NodeChanges \/ Elapse

Spec == Init /\ [][Next]_vars

\* The goroutine runs when it can and time goes on.
FairSpec == Spec /\ WF_vars(Poller) /\ WF_vars(Elapse)

-----------------------------------------------------------------------------
(* Properties.                                                             *)

\* nodeHealth.lastCheck is never older than one interval and one timeout, even
\* when dials outlast the interval and ticks are dropped.
CheckIsRecent == checked => age <= Interval + Timeout

\* /healthz only says the node is reachable if it was within the last interval
\* and timeout, and never before a check has ended: a reader may come before the
\* initial one, which nobody awaits.
HealthyIsRecent ==
    /\ healthy => sinceUp <= Interval + Timeout
    /\ told = 200 => checked

\* "Log only on state transitions": when the goroutine waits, the last
\* transition logged is the state published, and a node that was never reached
\* has not been logged as lost.
LogMatchesHealth ==
    /\ healthy <=> logged = "reachable"
    /\ logged = "unreachable" => checked

\* A transition is logged at most once: "unreachable" only ever follows
\* "reachable".
LogAlternates == [][logged' = "unreachable" => logged # "nothing"]_vars

\* A node that stays down is reported so for good.
LossIsNoticed == (<>[]~up) => <>[](~healthy)

==============================================================================

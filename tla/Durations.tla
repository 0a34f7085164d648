----------------------------- MODULE Durations ------------------------------
(***************************************************************************)
(* Settings in seconds and what becomes of them.  Node.Timeout and         *)
(* Node.HealthCheckInterval are unsigned words; api.go and tx.go convert   *)
(* them to the signed time.Duration and multiply by time.Second, both      *)
(* modulo the width of the word.  A word is scaled down here: it has       *)
(* Modulus values, and a second has Second units.                          *)
(*                                                                         *)
(* What a duration means is up to its taker: net.DialTimeout has no limit  *)
(* for 0 and fails at once below it; time.NewTicker panics for anything    *)
(* not above 0, in a goroutine that nothing recovers.                      *)
(***************************************************************************)
EXTENDS Integers

CONSTANTS
    Modulus,  \* the number of values of a word, 2^64
    Second    \* time.Second, 10^9

ASSUME ModulusAssumption == Modulus \in Nat /\ Modulus > 1 /\ Modulus % 2 = 0
ASSUME SecondAssumption == Second \in Nat \ {0} /\ 2 * Second < Modulus

VARIABLES
    timeout,   \* Node.Timeout
    interval,  \* Node.HealthCheckInterval
    silent,    \* whether the node never answers
    up,        \* whether the process runs
    poller,    \* where the polling goroutine is
    handed     \* the durations handed over last, by taker

vars == <<timeout, interval, silent, up, poller, handed>>

Uint == 0 .. Modulus - 1

MaxInt == Modulus \div 2 - 1

\* The value of a word that is read as signed.
Signed(n) ==
    IF n % Modulus <= MaxInt THEN n % Modulus ELSE (n % Modulus) - Modulus

\* time.Duration(n) * time.Second
Seconds(n) == Signed(Signed(n) * Second)

\* The settings whose seconds a duration can hold.
Limit == MaxInt \div Second

Takers == {"dial", "ticker", "submission", "query", "drain"}

\* Nothing was handed over; no duration is that large.
Nothing == Modulus

\* The default of a zero interval, scaled as the words are.
DefaultInterval == 1

TypeOK ==
    /\ timeout \in Uint /\ interval \in Uint
    /\ silent \in BOOLEAN /\ up \in BOOLEAN
    /\ poller \in {"start", "dialling", "dialled", "ticking"}
    /\ handed \in [Takers -> (0 - Modulus) .. Modulus]

Init ==
    /\ timeout \in Uint /\ interval \in Uint
    /\ silent \in BOOLEAN
    /\ up = TRUE
    /\ poller = "start"
    /\ handed = [t \in Takers |-> Nothing]

HandOver(t, d) == handed' = [handed EXCEPT ![t] = d]

settings == <<timeout, interval, silent>>

-----------------------------------------------------------------------------
(* startNodeHealthPoller: a probe, the ticker, and a probe per tick.       *)

\* Mutant of Probe: net.Dial, without a timeout.
ProbeUnlimited ==
    /\ up /\ poller \in {"start", "ticking"}
    /\ poller' = "dialling"
    /\ HandOver("dial", 0)
    /\ UNCHANGED <<settings, up>>

Probe ==
    /\ up /\ poller \in {"start", "ticking"}
    /\ poller' = "dialling"
    /\ HandOver("dial", Seconds(timeout))
    /\ UNCHANGED <<settings, up>>

\* A silent node is given up when the limit has passed, if there is one.
EndDial ==
    /\ up /\ poller = "dialling"
    /\ silent => handed["dial"] # 0
    /\ poller' = IF handed["ticker"] = Nothing THEN "dialled" ELSE "ticking"
    /\ UNCHANGED <<settings, up, handed>>

\* Mutant of EffectiveInterval: an interval of 0 is handed on.
GivenInterval == interval

EffectiveInterval == IF interval = 0 THEN DefaultInterval ELSE interval

NewTicker ==
    /\ up /\ poller = "dialled"
    /\ HandOver("ticker", Seconds(EffectiveInterval))
    /\ IF Seconds(EffectiveInterval) > 0
         THEN poller' = "ticking" /\ UNCHANGED up
         ELSE up' = FALSE /\ UNCHANGED poller
    /\ UNCHANGED settings

-----------------------------------------------------------------------------
(* The handlers.                                                           *)

\* SubmitTx's guard.
Admitted == timeout <= MaxInt

\* The timeout of the protocol; after a 202 the drain goroutine waits as long.
Submit ==
    /\ up /\ Admitted
    /\ \E drained \in BOOLEAN :
         handed' = [handed EXCEPT !["submission"] = Seconds(timeout),
                                  !["drain"] = IF drained THEN Seconds(timeout) ELSE @]
    /\ UNCHANGED <<settings, up, poller>>

\* handleHasTx has no guard.
HasTx ==
    /\ up
    /\ HandOver("query", Seconds(timeout))
    /\ UNCHANGED <<settings, up, poller>>

\* A panic in the polling goroutine takes the process with it.
Dead == ~up /\ UNCHANGED vars

Next == Probe \/ EndDial \/ NewTicker \/ Submit \/ HasTx \/ Dead

Spec == Init /\ [][Next]_vars

FairSpec == Spec /\ WF_vars(Probe) /\ WF_vars(EndDial) /\ WF_vars(NewTicker)

-----------------------------------------------------------------------------

\* What a taker was asked for, in units, had the words no width.
Asked(t) == Second * (IF t = "ticker" THEN EffectiveInterval ELSE timeout)

\* A setting up to Limit seconds means what it says to every taker: nothing
\* wraps, no dial is without a limit but for a timeout of 0, a zero interval is
\* the default one, and the poller does not take the process down.
SmallSettingsAreExact ==
    /\ \A t \in Takers :
         LET n == IF t = "ticker" THEN interval ELSE timeout
         IN  n <= Limit /\ handed[t] # Nothing =>
                 handed[t] = Asked(t) /\ (n > 0 \/ t = "ticker" => handed[t] > 0)
    /\ interval <= Limit => up

\* The timeouts that leave a dial without a limit: 0, and some that wrap.
Unlimited == {n \in Uint : Seconds(n) = 0}

\* After the first probe the poller gets as far as its ticker, or the process
\* ends over it.  Only a dial without any limit, to a silent node, holds it up.
PollerGetsToTicker ==
    ~silent \/ timeout \notin Unlimited ~> handed["ticker"] # Nothing

\* tx.go "Fail fast if timeout is too large": no submission waits for something
\* else than its timeout.
TooLargeFailsFast ==
    handed["submission"] # Nothing => handed["submission"] = Asked("submission")

==============================================================================

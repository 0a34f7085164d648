-------------------------- MODULE NodeHealthProofs --------------------------
(***************************************************************************)
(* Proofs about NodeHealth for every interval and every positive timeout.  *)
(***************************************************************************)
EXTENDS NodeHealth, TLAPS

\* Before the first check nothing was published and no ticker runs.  After it,
\* the age of the check is bounded by where the poller is between two ticks.
AgeInv ==
    /\ poller = "start" => ~checked
    /\ ~checked => poller # "waiting" /\ ~pending /\ age = 0
    /\ checked /\ poller = "waiting" =>
          age <= Interval /\ (pending \/ age + untilTick <= Interval)
    /\ checked /\ poller = "dialing" => age <= Interval + elapsed
    /\ poller = "publish" => age <= Bound

\* A healthy state is no older than the node's last sign of life.
SignInv ==
    /\ up => sinceUp = 0
    /\ poller = "publish" /\ reached => sinceUp = 0
    /\ healthy => sinceUp <= age /\ checked
    /\ told = 200 => checked

LogInv == LogMatchesHealth /\ (~checked => logged = "nothing")

IInv == TypeOK /\ AgeInv /\ SignInv /\ LogInv

\* main publishes nothing and has checked nothing before the poller starts.
LEMMA InitIInv == Init => IInv
<1> SUFFICES ASSUME Init PROVE IInv
  OBVIOUS
<1>1. TypeOK
  <2>1. /\ elapsed \in 0 .. Timeout /\ untilTick \in 1 .. Interval
        /\ age \in 0 .. Bound + 1 /\ sinceUp \in 0 .. Bound + 1
    BY IntervalAssumption, TimeoutAssumption DEF Init, Bound
  <2>2. QED BY <2>1 DEF Init, TypeOK
<1>2. AgeInv /\ SignInv /\ LogInv
  BY DEF Init, AgeInv, SignInv, LogInv, LogMatchesHealth
<1>3. QED BY <1>1, <1>2 DEF IInv

\* Every step of the poller, of a reader, of the node and of the clock keeps the
\* bounds.
LEMMA NextIInv == IInv /\ [Next]_vars => IInv'
<1> SUFFICES ASSUME IInv, [Next]_vars PROVE IInv'
  OBVIOUS
<1> USE IntervalAssumption, TimeoutAssumption
    DEF IInv, TypeOK, Bound, vars, dialVars, tickerVars, healthVars
<1>1. CASE FirstProbe
  <2>1. TypeOK'
    BY <1>1 DEF FirstProbe
  <2>2. AgeInv' /\ SignInv' /\ LogInv'
    BY <1>1 DEF FirstProbe, AgeInv, SignInv, LogInv, LogMatchesHealth
  <2>3. QED BY <2>1, <2>2
<1>2. CASE TickProbe
  <2>1. TypeOK'
    <3>1. pending' \in BOOLEAN
      BY <1>2, Zenon DEF TickProbe
    <3>2. QED BY <1>2, <3>1 DEF TickProbe
  <2>2. AgeInv' /\ SignInv' /\ LogInv'
    BY <1>2 DEF TickProbe, AgeInv, SignInv, LogInv, LogMatchesHealth
  <2>3. QED BY <2>1, <2>2
<1>3. CASE DialSucceeds \/ DialFails
  <2>1. TypeOK'
    <3>1. reached' \in BOOLEAN
      BY <1>3, Zenon DEF DialSucceeds, DialFails, EndDial
    <3>2. QED BY <1>3, <3>1 DEF DialSucceeds, DialFails, EndDial
  <2>2. AgeInv' /\ LogInv'
    BY <1>3 DEF DialSucceeds, DialFails, EndDial, AgeInv, LogInv, LogMatchesHealth
  <2>3. SignInv'
    BY <1>3 DEF DialSucceeds, DialFails, EndDial, SignInv
  <2>4. QED BY <2>1, <2>2, <2>3
<1>4. CASE Publish
  <2>1. TypeOK'
    BY <1>4 DEF Publish
  <2>2. AgeInv'
    BY <1>4 DEF Publish, AgeInv
  <2>3. SignInv'
    BY <1>4 DEF Publish, SignInv
  <2>4. LogInv'
    BY <1>4 DEF Publish, LogInv, LogMatchesHealth
  <2>5. QED BY <2>1, <2>2, <2>3, <2>4
<1>5. CASE Readiness
  <2>1. TypeOK'
    BY <1>5 DEF Readiness
  <2>2. AgeInv' /\ SignInv' /\ LogInv'
    BY <1>5 DEF Readiness, AgeInv, SignInv, LogInv, LogMatchesHealth
  <2>3. QED BY <2>1, <2>2
<1>6. CASE NodeChanges
  <2>1. TypeOK'
    BY <1>6 DEF NodeChanges
  <2>2. AgeInv' /\ SignInv' /\ LogInv'
    BY <1>6 DEF NodeChanges, AgeInv, SignInv, LogInv, LogMatchesHealth
  <2>3. QED BY <2>1, <2>2
<1>7. CASE Elapse
  <2>1. age <= Interval + Timeout - 1
    BY <1>7 DEF Elapse, Idle, AgeInv
  <2>2. TypeOK'
    BY <1>7, <2>1 DEF Elapse, Idle, TickerRuns
  <2>3. AgeInv'
    BY <1>7 DEF Elapse, Idle, TickerRuns, AgeInv
  <2>4. SignInv'
    BY <1>7 DEF Elapse, Idle, SignInv
  <2>5. LogInv'
    BY <1>7 DEF Elapse, LogInv, LogMatchesHealth
  <2>6. QED BY <2>2, <2>3, <2>4, <2>5
<1>8. CASE UNCHANGED vars
  BY <1>8 DEF AgeInv, SignInv, LogInv, LogMatchesHealth
<1>9. QED
  BY <1>1, <1>2, <1>3, <1>4, <1>5, <1>6, <1>7, <1>8 DEF Next, Poller

\* The age of the last check, of the node's sign of life and the log stay within
\* their bounds in every behaviour.
THEOREM Inductive == Spec => []IInv
BY InitIInv, NextIInv, PTL DEF Spec

\* The state of the poller keeps its types, whatever the interval and timeout.
THEOREM TypeCorrect == Spec => []TypeOK
<1>1. IInv => TypeOK
  BY DEF IInv
<1>2. QED BY Inductive, <1>1, PTL

\* The last check is never older than one interval and one timeout.
THEOREM CheckAlwaysRecent == Spec => []CheckIsRecent
<1>1. IInv => CheckIsRecent
  BY IntervalAssumption, TimeoutAssumption DEF IInv, TypeOK, AgeInv, Bound, CheckIsRecent
<1>2. QED BY Inductive, <1>1, PTL

\* /healthz never calls reachable a node that has been gone for longer than one
\* interval and one timeout.
THEOREM HealthyAlwaysRecent == Spec => []HealthyIsRecent
<1>1. IInv => HealthyIsRecent
  BY IntervalAssumption, TimeoutAssumption DEF IInv, TypeOK, AgeInv, SignInv, Bound,
         HealthyIsRecent
<1>2. QED BY Inductive, <1>1, PTL

\* The log tells the state that is published, and only its transitions.
THEOREM LogTells == Spec => []LogMatchesHealth /\ LogAlternates
<1>1. IInv => LogMatchesHealth
  BY DEF IInv, LogInv
<1>2. IInv /\ [Next]_vars => [logged' = "unreachable" => logged # "nothing"]_vars
  BY DEF IInv, LogInv, LogMatchesHealth, TypeOK, Next, Poller, FirstProbe, TickProbe,
         DialSucceeds, DialFails, EndDial, Publish, Readiness, NodeChanges, Elapse,
         healthVars
<1>3. QED BY Inductive, <1>1, <1>2, PTL DEF Spec, LogAlternates

==============================================================================

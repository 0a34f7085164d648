-------------------------- MODULE DurationsProofs --------------------------
(***************************************************************************)
(* What holds of the durations for words and seconds of every size.        *)
(***************************************************************************)
EXTENDS Durations, TLAPS

LEMMA Sizes ==
    /\ MaxInt \in Nat \ {0}
    /\ Modulus = 2 * MaxInt + 2
    /\ Second <= MaxInt
BY ModulusAssumption, SecondAssumption DEF MaxInt

LEMMA SignedRange == ASSUME NEW n \in Int PROVE Signed(n) \in (0 - Modulus) .. Modulus - 1
<1>1. n % Modulus \in 0 .. Modulus - 1
  BY ModulusAssumption
<1>2. QED BY <1>1, Sizes DEF Signed

\* A value that fits is kept.
LEMMA SignedKeeps == ASSUME NEW n \in 0 .. MaxInt PROVE Signed(n) = n
<1>1. n % Modulus = n
  BY ModulusAssumption, Sizes
<1>2. QED BY <1>1 DEF Signed

LEMMA QuotientFits ==
    ASSUME NEW a \in Nat, NEW s \in Nat \ {0}, NEW n \in 0 .. (a \div s)
    PROVE  n * s \in 0 .. a
<1>1. (a \div s) * s <= a /\ a \div s \in Nat
  OBVIOUS
<1>2. n * s <= (a \div s) * s
  BY <1>1
<1>3. QED BY <1>1, <1>2

LEMMA LimitFits ==
    /\ Limit \in Nat /\ Limit >= 1 /\ Limit <= MaxInt
    /\ \A n \in 0 .. Limit : Second * n \in 0 .. MaxInt
  BY QuotientFits, Sizes, SecondAssumption DEF Limit

LEMMA SecondsAreDurations ==
    ASSUME NEW n \in Int PROVE Seconds(n) \in (0 - Modulus) .. Modulus - 1
<1>1. Signed(n) * Second \in Int
  BY SignedRange, SecondAssumption
<1>2. QED BY <1>1, SignedRange DEF Seconds

\* A setting up to Limit is not touched by the words.
LEMMA SecondsAreExact == ASSUME NEW n \in 0 .. Limit PROVE Seconds(n) = Second * n
<1>1. Signed(n) = n
  <2>1. n \in 0 .. MaxInt
    BY LimitFits, Sizes
  <2>2. QED BY <2>1, SignedKeeps
<1>2. Signed(n) * Second = Second * n /\ Second * n \in 0 .. MaxInt
  BY <1>1, LimitFits, SecondAssumption
<1>3. QED BY <1>2, SignedKeeps DEF Seconds

-----------------------------------------------------------------------------

\* The setting in seconds that a taker is given.
SettingOf(t) == IF t = "ticker" THEN EffectiveInterval ELSE timeout

\* Whatever was handed over comes from the setting, and only an interval that is
\* no interval ends the process.
HandedInv ==
    /\ \A t \in Takers : handed[t] = Nothing \/ handed[t] = Seconds(SettingOf(t))
    /\ up \/ ~(Seconds(EffectiveInterval) > 0)

IInv == TypeOK /\ HandedInv

LEMMA SettingsAreWords ==
    ASSUME TypeOK PROVE EffectiveInterval \in Uint /\ timeout \in Uint
BY ModulusAssumption DEF TypeOK, EffectiveInterval, DefaultInterval, Uint

\* The duration of a setting keeps the type of what is handed over.
LEMMA HandedTypes ==
    ASSUME TypeOK
    PROVE  /\ Seconds(timeout) \in (0 - Modulus) .. Modulus
           /\ Seconds(EffectiveInterval) \in (0 - Modulus) .. Modulus
<1>1. timeout \in Int /\ EffectiveInterval \in Int
  BY SettingsAreWords, ModulusAssumption DEF Uint
<1>2. Seconds(timeout) \in (0 - Modulus) .. Modulus - 1
  BY <1>1, SecondsAreDurations
<1>3. Seconds(EffectiveInterval) \in (0 - Modulus) .. Modulus - 1
  BY <1>1, SecondsAreDurations
<1>4. QED BY <1>2, <1>3, ModulusAssumption

LEMMA InitIInv == Init => IInv
BY ModulusAssumption DEF Init, IInv, TypeOK, HandedInv, Takers, Nothing

LEMMA StepIInv == ASSUME IInv, [Next]_vars PROVE IInv'
<1> USE DEF IInv, TypeOK, HandedInv, Takers, SettingOf, EffectiveInterval, settings, HandOver
<1>0. /\ Seconds(timeout) \in (0 - Modulus) .. Modulus
      /\ Seconds(EffectiveInterval) \in (0 - Modulus) .. Modulus
  BY HandedTypes
<1>1. CASE Probe
  BY <1>0, <1>1 DEF Probe
<1>2. CASE EndDial
  BY <1>2 DEF EndDial
<1>3. CASE NewTicker
  <2>1. TypeOK'
    BY <1>0, <1>3 DEF NewTicker
  <2>2. EffectiveInterval' = EffectiveInterval /\ timeout' = timeout
    BY <1>3 DEF NewTicker
  <2>3. handed' = [handed EXCEPT !["ticker"] = Seconds(EffectiveInterval)]
    BY <1>3 DEF NewTicker
  <2>4. \A t \in Takers :
          handed'[t] = IF t = "ticker" THEN Seconds(EffectiveInterval) ELSE handed[t]
    BY <2>3
  <2>5. \A t \in Takers : handed'[t] = Nothing \/ handed'[t] = Seconds(SettingOf(t)')
    BY <2>2, <2>4
  <2>6. up' \/ ~(Seconds(EffectiveInterval) > 0)
    BY <1>3 DEF NewTicker
  <2>7. HandedInv'
    BY <2>2, <2>5, <2>6
  <2>8. QED BY <2>1, <2>7
<1>4. CASE Submit
  <2>1. PICK drained \in BOOLEAN :
          handed' = [handed EXCEPT !["submission"] = Seconds(timeout),
                                   !["drain"] = IF drained THEN Seconds(timeout) ELSE @]
    BY <1>4 DEF Submit
  <2>2. handed' \in [Takers -> (0 - Modulus) .. Modulus]
    BY <1>0, <2>1
  <2>3. \A t \in Takers :
          \/ handed'[t] = handed[t]
          \/ t # "ticker" /\ handed'[t] = Seconds(timeout)
    BY <2>1
  <2>4. /\ EffectiveInterval' = EffectiveInterval /\ timeout' = timeout
        /\ interval' = interval /\ silent' = silent
        /\ up' = up /\ poller' = poller
    BY <1>4 DEF Submit
  <2>5. HandedInv'
    BY <2>3, <2>4
  <2>6. QED BY <2>2, <2>4, <2>5
<1>5. CASE HasTx
  BY <1>0, <1>5 DEF HasTx
<1>6. CASE UNCHANGED vars
  BY <1>6 DEF vars
<1>7. QED
  BY <1>1, <1>2, <1>3, <1>4, <1>5, <1>6 DEF Next, Dead

\* The words keep their types, and what was handed over comes from the settings,
\* for words and seconds of every size.
THEOREM Inductive == Spec => []IInv
<1>1. IInv /\ [Next]_vars => IInv'
  BY StepIInv
<1>2. QED BY InitIInv, <1>1, PTL DEF Spec

\* A taker whose setting is at most Limit is given exactly that many seconds.
LEMMA HandedExact ==
    ASSUME IInv, NEW t \in Takers, handed[t] # Nothing,
           (IF t = "ticker" THEN interval ELSE timeout) <= Limit
    PROVE  /\ handed[t] = Asked(t)
           /\ (IF t = "ticker" THEN interval ELSE timeout) > 0 \/ t = "ticker"
                => handed[t] > 0
<1>1. SettingOf(t) \in 0 .. Limit
  BY LimitFits, ModulusAssumption
  DEF IInv, TypeOK, Uint, SettingOf, EffectiveInterval, DefaultInterval
<1>2. handed[t] = Seconds(SettingOf(t))
  BY DEF IInv, HandedInv
<1>3. handed[t] = Second * SettingOf(t)
  BY <1>1, <1>2, SecondsAreExact
<1>4. SettingOf(t) > 0 => handed[t] > 0
  BY <1>1, <1>3, LimitFits, SecondAssumption
<1>5. (IF t = "ticker" THEN interval ELSE timeout) > 0 \/ t = "ticker" => SettingOf(t) > 0
  BY <1>1, ModulusAssumption DEF IInv, TypeOK, Uint, SettingOf, EffectiveInterval, DefaultInterval
<1>6. QED BY <1>3, <1>4, <1>5 DEF Asked, SettingOf

\* Settings up to Limit mean what they say to every taker, and such an interval
\* never ends the process: at 2^64 and 10^9 that is more than 292 years.
THEOREM SmallAlwaysExact == Spec => []SmallSettingsAreExact
<1>1. IInv => SmallSettingsAreExact
  <2> SUFFICES ASSUME IInv PROVE SmallSettingsAreExact
    OBVIOUS
  <2>1. ASSUME NEW t \in Takers,
               (IF t = "ticker" THEN interval ELSE timeout) <= Limit,
               handed[t] # Nothing
        PROVE  /\ handed[t] = Asked(t)
               /\ (IF t = "ticker" THEN interval ELSE timeout) > 0 \/ t = "ticker"
                    => handed[t] > 0
    BY <2>1, HandedExact
  <2>2. ASSUME interval <= Limit PROVE up
    <3>1. EffectiveInterval \in 0 .. Limit /\ EffectiveInterval > 0
      BY <2>2, LimitFits, ModulusAssumption
      DEF IInv, TypeOK, Uint, EffectiveInterval, DefaultInterval
    <3>2. Seconds(EffectiveInterval) = Second * EffectiveInterval
      BY <3>1, SecondsAreExact
    <3>3. Seconds(EffectiveInterval) > 0
      BY <3>1, <3>2, LimitFits, SecondAssumption
    <3>4. QED BY <3>3 DEF IInv, HandedInv
  <2>3. QED BY <2>1, <2>2 DEF SmallSettingsAreExact
<1>2. QED BY Inductive, <1>1, PTL

-----------------------------------------------------------------------------
(* Limit is the right bound, and how far the guard of SubmitTx goes.       *)

LEMMA QuotientIsLargest ==
    ASSUME NEW a \in Nat, NEW s \in Nat \ {0}, NEW n \in Nat, n * s <= a
    PROVE  n <= a \div s
<1>1. (a \div s) \in Nat /\ a < ((a \div s) + 1) * s
  OBVIOUS
<1>2. SUFFICES ASSUME n >= (a \div s) + 1 PROVE FALSE
  BY <1>1
<1>3. n * s >= ((a \div s) + 1) * s
  BY <1>1, <1>2
<1>4. QED BY <1>1, <1>3

\* A product that is not touched by the words fits them.
LEMMA OnlySmallAreExact ==
    ASSUME NEW n \in Nat, Seconds(n) = Second * n PROVE n <= Limit
<1>1. Seconds(n) <= MaxInt
  <2>1. Signed(n) * Second \in Int
    BY SignedRange, SecondAssumption
  <2>2. (Signed(n) * Second) % Modulus \in 0 .. Modulus - 1
    BY <2>1, ModulusAssumption
  <2>3. QED BY <2>2, Sizes DEF Seconds, Signed
<1>2. n * Second <= MaxInt
  BY <1>1, SecondAssumption
<1>3. QED BY <1>2, QuotientIsLargest, Sizes, SecondAssumption DEF Limit

\* What a taker is given is what it asked for exactly up to Limit.
ExactUpToLimit ==
    \A t \in Takers :
        handed[t] # Nothing => (handed[t] = Asked(t) <=> SettingOf(t) <= Limit)

\* SmallAlwaysExact cannot be improved: a duration handed to a dial, a ticker, a
\* protocol or the drain goroutine is wrong for every setting above Limit.
THEOREM ExactNoFurther == Spec => []ExactUpToLimit
<1>1. IInv => ExactUpToLimit
  <2> SUFFICES ASSUME IInv, NEW t \in Takers, handed[t] # Nothing
               PROVE  handed[t] = Asked(t) <=> SettingOf(t) <= Limit
    BY DEF ExactUpToLimit
  <2>1. handed[t] = Seconds(SettingOf(t)) /\ Asked(t) = Second * SettingOf(t)
    BY DEF IInv, HandedInv, Asked, SettingOf
  <2>2. SettingOf(t) \in Nat
    BY SettingsAreWords, ModulusAssumption DEF IInv, SettingOf, Uint
  <2>3. SettingOf(t) <= Limit => SettingOf(t) \in 0 .. Limit
    BY <2>2, LimitFits
  <2>4. QED BY <2>1, <2>2, <2>3, SecondsAreExact, OnlySmallAreExact
<1>2. QED BY Inductive, <1>1, PTL

\* Behind the guard, and before anything was submitted.
GuardInv == handed["submission"] # Nothing => Admitted

\* The timeouts for which "fail fast if timeout is too large" is wrong lie between
\* Limit and the bound of the guard, and there every submission is: with
\* 64 bits from 9,223,372,037 seconds on, up to math.MaxInt64.
THEOREM GuardMissesTheMiddle ==
    Spec => [](handed["submission"] # Nothing =>
                  (TooLargeFailsFast <=> timeout \notin Limit + 1 .. MaxInt))
<1>1. Init => GuardInv
  BY DEF Init, GuardInv, Takers
<1>2. IInv /\ GuardInv /\ [Next]_vars => GuardInv'
  <2> SUFFICES ASSUME IInv, GuardInv, [Next]_vars PROVE GuardInv'
    OBVIOUS
  <2>1. timeout' = timeout
    BY DEF Next, Probe, EndDial, NewTicker, Submit, HasTx, Dead, settings, vars
  <2>2. handed'["submission"] = handed["submission"] \/ Admitted
    BY DEF IInv, TypeOK, Takers, Next, Probe, EndDial, NewTicker, Submit, HasTx, Dead, HandOver, vars
  <2>3. QED BY <2>1, <2>2 DEF GuardInv, Admitted
<1>3. IInv /\ GuardInv =>
        (handed["submission"] # Nothing =>
           (TooLargeFailsFast <=> timeout \notin Limit + 1 .. MaxInt))
  <2> SUFFICES ASSUME IInv, GuardInv, handed["submission"] # Nothing
               PROVE  TooLargeFailsFast <=> timeout \notin Limit + 1 .. MaxInt
    OBVIOUS
  <2>1. /\ handed["submission"] = Seconds(timeout)
        /\ Asked("submission") = Second * timeout
    BY DEF IInv, HandedInv, Takers, SettingOf, Asked
  <2>2. timeout \in Nat /\ timeout <= MaxInt
    BY SettingsAreWords, ModulusAssumption DEF IInv, Uint, GuardInv, Admitted
  <2>3. timeout <= Limit <=> handed["submission"] = Asked("submission")
    <3>1. timeout <= Limit => timeout \in 0 .. Limit
      BY <2>2, LimitFits
    <3>2. QED BY <2>1, <2>2, <3>1, SecondsAreExact, OnlySmallAreExact
  <2>4. QED BY <2>2, <2>3, LimitFits, Sizes DEF TooLargeFailsFast
<1>4. QED BY Inductive, <1>1, <1>2, <1>3, PTL DEF Spec

===========================================================================

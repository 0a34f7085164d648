---------------------------- MODULE StartupProofs ----------------------------
(***************************************************************************)
(* Theorems about Startup, for every set of layers, every set of ports and *)
(* every behaviour of the node, the ports and the listeners.               *)
(***************************************************************************)
EXTENDS Startup, TLAPS

BeforeCheck == {"load", "check", "dial"}
BeforeDebug == BeforeCheck \cup {"logging", "maxprocs", "debug"}
BeforeApi == BeforeDebug \cup {"start"}

\* What the point main has reached says of the check.
CheckInv ==
    /\ main = "dial" => cfg.skip # "yes" /\ CheckTransport(cfg) # "none"
    /\ main \in BeforeCheck => checked = "no"
    /\ main \notin BeforeCheck \cup {"exited"} /\ cfg.skip # "yes" =>
         /\ checked = CheckTransport(cfg) /\ checked # "none"
         /\ cfg.magic = NodeMagic

\* What it says of the listeners and the poller.
ListenInv ==
    /\ main \in BeforeDebug \cup {"exited"} => debug = "off"
    /\ main \in BeforeApi \cup {"exited"} =>
         /\ metrics = "off" /\ api = "off"
         /\ probed = "no" /\ healthy = FALSE
    /\ api = "listening" => main = "serve"

\* What it says of the configuration.
ConfigInv ==
    /\ cfg.apiPort \in Ports /\ cfg.metricsPort \in Ports
    /\ cfg.debugPort \in Ports \cup {0}
    /\ debug \in {"starting", "listening"} => cfg.debugPort \in Ports
    /\ main = "load" => cfg.skip # "yes"
    /\ main \notin {"load", "exited"} /\ cfg.magic = 0 => cfg.network = ""

IInv ==
    TypeOK /\ CheckInv /\ ListenInv /\ ConfigInv
    /\ HealthSpeaksOfDial

\* An exit keeps the invariant wherever it happens.
LEMMA ExitKeeps == ASSUME IInv, Exit PROVE IInv'
<1>1. TypeOK'
  BY DEF IInv, TypeOK, Exit, States, Steps
<1>2. CheckInv' /\ ListenInv' /\ ConfigInv'
  BY DEF IInv, CheckInv, ListenInv, ConfigInv, Exit, BeforeCheck, BeforeDebug, BeforeApi
<1>3. HealthSpeaksOfDial'
  BY DEF Exit, HealthSpeaksOfDial
<1> QED
  BY <1>1, <1>2, <1>3 DEF IInv

\* What is read off the defaults.
LEMMA DefaultConfig ==
  /\ DOMAIN Defaults = Fields
  /\ Defaults["apiPort"] \in Ports /\ Defaults["metricsPort"] \in Ports
  /\ Defaults["debugPort"] \in Ports \cup {0}
  /\ Defaults["skip"] = "no"
<1>1. DOMAIN Defaults = Fields
  BY DEF Defaults, Fields
<1>2. /\ Defaults["apiPort"] = 8090 /\ Defaults["metricsPort"] = 8081
      /\ Defaults["debugPort"] = 0 /\ Defaults["skip"] = "no"
  BY DEF Defaults
<1> QED
  BY <1>1, <1>2, PortsAssumption

\* The initial states satisfy the invariant.
LEMMA InitInv == Init => IInv
<1> SUFFICES ASSUME Init PROVE IInv
  OBVIOUS
<1>1. /\ DOMAIN cfg = Fields
      /\ cfg.apiPort \in Ports /\ cfg.metricsPort \in Ports
      /\ cfg.debugPort \in Ports \cup {0}
  BY DefaultConfig DEF Init
<1>2. TypeOK
  BY <1>1 DEF Init, TypeOK, Steps, States
<1>3. CheckInv /\ ListenInv /\ ConfigInv
  BY <1>1, DefaultConfig DEF Init, CheckInv, ListenInv, ConfigInv, BeforeCheck, BeforeDebug, BeforeApi
<1>4. HealthSpeaksOfDial
  BY DEF Init, HealthSpeaksOfDial
<1> QED
  BY <1>2, <1>3, <1>4 DEF IInv

\* What Load makes of any two layers: the fields are all there, the ports are
\* known and a magic of 0 means an empty network name.
LEMMA LoadedConfig ==
  ASSUME NEW file \in FileLayers, NEW env \in EnvLayers, NEW c,
         c = WithMagic(Over(env, Over(file, Defaults))),
         ~Unresolvable(Over(env, Over(file, Defaults)))
  PROVE  /\ DOMAIN c = Fields
         /\ c.apiPort \in Ports /\ c.metricsPort \in Ports
         /\ c.debugPort \in Ports \cup {0}
         /\ c.magic = 0 => c.network = ""
<1> DEFINE low == Over(file, Defaults)
           mid == Over(env, low)
<1>1. /\ DOMAIN low = Fields
      /\ low["apiPort"] \in Ports /\ low["metricsPort"] \in Ports
      /\ low["debugPort"] \in Ports \cup {0}
  BY DefaultConfig, PortsAssumption DEF Over, Fields
<1>2. /\ DOMAIN mid = Fields
      /\ mid["apiPort"] \in Ports /\ mid["metricsPort"] \in Ports
      /\ mid["debugPort"] \in Ports \cup {0}
  BY <1>1, PortsAssumption DEF Over, Fields
<1>3. CASE mid.magic = 0 /\ mid.network \in DOMAIN Magics
  <2>1. c = [mid EXCEPT !.magic = Magics[mid.network]]
    BY <1>3 DEF WithMagic
  <2> QED
    BY <1>2, <1>3, <2>1, MagicsAssumption DEF Fields
<1>4. CASE ~(mid.magic = 0 /\ mid.network \in DOMAIN Magics)
  <2>1. c = mid
    BY <1>4 DEF WithMagic
  <2> QED
    BY <1>2, <1>4, <2>1 DEF Unresolvable
<1> QED
  BY <1>3, <1>4

\* Every step keeps the invariant.
LEMMA StepInv == ASSUME IInv, [Next]_vars PROVE IInv'
<1> USE DEF Goto
<1>1. CASE Load
  <2>1. PICK file \in FileLayers, env \in EnvLayers :
          /\ ~Unresolvable(Over(env, Over(file, Defaults)))
          /\ cfg' = WithMagic(Over(env, Over(file, Defaults)))
    BY <1>1 DEF Load
  <2>2. /\ DOMAIN cfg' = Fields
        /\ cfg'.apiPort \in Ports /\ cfg'.metricsPort \in Ports
        /\ cfg'.debugPort \in Ports \cup {0}
        /\ cfg'.magic = 0 => cfg'.network = ""
    BY <2>1, LoadedConfig
  <2>3. /\ main = "load" /\ main' = "check"
        /\ UNCHANGED <<checked, debug, metrics, api, owner, scheme, probed, healthy, faulty>>
    BY <1>1 DEF Load, listeners, health
  <2>4. /\ checked = "no" /\ debug = "off" /\ metrics = "off" /\ api = "off"
        /\ probed = "no" /\ healthy = FALSE
    BY <2>3 DEF IInv, CheckInv, ListenInv, BeforeCheck, BeforeDebug, BeforeApi
  <2>5. TypeOK'
    BY <2>2, <2>3 DEF IInv, TypeOK, Steps
  <2>6. CheckInv' /\ ListenInv' /\ ConfigInv'
    BY <2>2, <2>3, <2>4 DEF CheckInv, ListenInv, ConfigInv, BeforeCheck, BeforeDebug, BeforeApi
  <2>7. HealthSpeaksOfDial'
    BY <2>3, <2>4 DEF HealthSpeaksOfDial
  <2> QED
    BY <2>5, <2>6, <2>7 DEF IInv
<1>2. CASE LoadFails \/ NothingToCheck \/ CheckFails \/ ApiFails \/ DebugFails
         \/ TickerPanics
  BY <1>2, ExitKeeps DEF LoadFails, NothingToCheck, CheckFails, ApiFails, DebugFails,
     TickerPanics
<1>3. CASE SkipCheck
  BY <1>3 DEF SkipCheck, IInv, TypeOK, CheckInv, ListenInv, ConfigInv, HealthSpeaksOfDial, Steps, BeforeCheck, BeforeDebug, BeforeApi, listeners, health,
     CheckTransport, DialTransport, Dialable, HasTcp
<1>4. CASE BeginCheck
  BY <1>4 DEF BeginCheck, IInv, TypeOK, CheckInv, ListenInv, ConfigInv, HealthSpeaksOfDial, Steps, BeforeCheck, BeforeDebug, BeforeApi, listeners, health,
     CheckTransport, DialTransport, Dialable, HasTcp
<1>5. CASE CheckSucceeds
  BY <1>5 DEF CheckSucceeds, IInv, TypeOK, CheckInv, ListenInv, ConfigInv,
     HealthSpeaksOfDial, Steps, BeforeCheck, BeforeDebug,
     BeforeApi, listeners, health, CheckTransport, DialTransport, Dialable, HasTcp
<1>6. CASE SetupLogging \/ SetMaxProcs
  <2>1. CASE Exit
    BY <2>1, ExitKeeps
  <2>2. CASE ~Exit
    <3>1. /\ main \in {"logging", "maxprocs"} /\ main' \in {"maxprocs", "debug"}
          /\ UNCHANGED <<cfg, checked, listeners, health, faulty>>
      BY <1>6, <2>2 DEF SetupLogging, SetMaxProcs
    <3> QED
      BY <3>1 DEF IInv, TypeOK, CheckInv, ListenInv, ConfigInv, HealthSpeaksOfDial, Steps, BeforeCheck, BeforeDebug, BeforeApi, listeners,
         health, CheckTransport, DialTransport, Dialable, HasTcp
  <2> QED
    BY <2>1, <2>2
<1>7. CASE StartDebug
  <2>1. TypeOK'
    BY <1>7 DEF StartDebug, health, IInv, TypeOK, Steps, States, ConfigInv
  <2>2. CheckInv' /\ ListenInv'
    BY <1>7 DEF StartDebug, health, IInv, CheckInv, ListenInv, BeforeCheck, BeforeDebug,
       BeforeApi, CheckTransport, HasTcp
  <2>5. debug' \in {"starting", "listening"} => cfg.debugPort \in Ports
    <3>1. cfg.debugPort \in Ports \cup {0}
      BY DEF IInv, ConfigInv
    <3>2. CASE cfg.debugPort = 0
      BY <1>7, <3>2 DEF StartDebug
    <3> QED
      BY <3>1, <3>2
  <2>6. ConfigInv'
    BY <1>7, <2>5 DEF StartDebug, IInv, ConfigInv
  <2>3. HealthSpeaksOfDial'
    BY <1>7 DEF StartDebug, health, IInv, HealthSpeaksOfDial, DialTransport, Dialable, HasTcp
  <2> QED
    BY <2>1, <2>2, <2>3, <2>6 DEF IInv
<1>8. CASE StartApi
  <2>1. TypeOK'
    BY <1>8 DEF StartApi, health, IInv, TypeOK, Steps, States, ConfigInv
  <2>2. CheckInv' /\ ListenInv' /\ ConfigInv'
    BY <1>8 DEF StartApi, health, IInv, CheckInv, ListenInv, ConfigInv, BeforeCheck,
       BeforeDebug, BeforeApi, CheckTransport, HasTcp
  <2>3. HealthSpeaksOfDial'
    BY <1>8 DEF StartApi, health, IInv, HealthSpeaksOfDial, DialTransport, Dialable, HasTcp
  <2> QED
    BY <2>1, <2>2, <2>3 DEF IInv
<1>9. CASE ListenApi \/ LoadCertificate
  <2>1. TypeOK'
    BY <1>9 DEF ListenApi, LoadCertificate, Bind, health, IInv, TypeOK, Steps, States, ConfigInv
  <2>2. CheckInv' /\ ListenInv' /\ ConfigInv'
    BY <1>9 DEF ListenApi, LoadCertificate, Bind, health, IInv, CheckInv, ListenInv, ConfigInv, BeforeCheck,
       BeforeDebug, BeforeApi, CheckTransport, HasTcp
  <2>3. HealthSpeaksOfDial'
    BY <1>9 DEF ListenApi, LoadCertificate, Bind, health, IInv, HealthSpeaksOfDial, DialTransport, Dialable, HasTcp
  <2> QED
    BY <2>1, <2>2, <2>3 DEF IInv
<1>10. CASE ListenDebug
  <2>1. CASE Exit
    BY <2>1, ExitKeeps
  <2>2. CASE ~Exit
    <3>1. TypeOK'
      BY <1>10, <2>2 DEF ListenDebug, Bind, health, IInv, TypeOK, Steps, States, ConfigInv
    <3>2. CheckInv' /\ ListenInv' /\ ConfigInv'
      BY <1>10, <2>2 DEF ListenDebug, Bind, health, IInv, CheckInv, ListenInv, ConfigInv, BeforeCheck,
         BeforeDebug, BeforeApi, CheckTransport, HasTcp
    <3>3. HealthSpeaksOfDial'
      BY <1>10, <2>2 DEF ListenDebug, Bind, health, IInv, HealthSpeaksOfDial, DialTransport, Dialable, HasTcp
    <3> QED
      BY <3>1, <3>2, <3>3 DEF IInv
  <2> QED
    BY <2>1, <2>2
<1>11. CASE ListenMetrics \/ MetricsFails
  <2>1. /\ metrics \in {"starting", "listening"} /\ metrics' \in {"listening", "failed"}
        /\ UNCHANGED <<main, cfg, checked, debug, api, scheme, probed, healthy, faulty>>
    BY <1>11 DEF ListenMetrics, MetricsFails, health
  <2>2. /\ cfg.metricsPort \in Ports /\ cfg.apiPort \in Ports
        /\ owner \in [Ports -> {"free", "other", "debug", "metrics", "api"}]
    BY DEF IInv, TypeOK, ConfigInv
  <2>3. \/ owner' = [owner EXCEPT ![cfg.metricsPort] = "metrics"]
        \/ owner' = owner
        \/ owner' = [owner EXCEPT ![cfg.metricsPort] = "free"]
    BY <1>11 DEF ListenMetrics, MetricsFails, Bind
  <2>4. owner' \in [Ports -> {"free", "other", "debug", "metrics", "api"}]
    BY <2>2, <2>3
  <2>5. TypeOK'
    <3>1. healthy' \in BOOLEAN
      BY <2>1 DEF IInv, TypeOK
    <3> QED
      BY <2>1, <2>4, <3>1 DEF IInv, TypeOK, States
  <2>6. CheckInv' /\ ListenInv' /\ ConfigInv'
    BY <2>1 DEF IInv, CheckInv, ListenInv, ConfigInv, BeforeCheck, BeforeDebug, BeforeApi,
       CheckTransport, HasTcp
  <2>7. HealthSpeaksOfDial'
    BY <2>1 DEF IInv, HealthSpeaksOfDial, DialTransport, Dialable, HasTcp
  <2> QED
    BY <2>5, <2>6, <2>7 DEF IInv
<1>12. CASE Probe
  <2>1. /\ main \in {"listen", "tls", "serve"} /\ UNCHANGED <<main, cfg, checked, listeners, faulty>>
        /\ healthy' \in BOOLEAN /\ probed' = ProbeTransport(cfg)
        /\ healthy' => Dialable(cfg, ProbeTransport(cfg))
    BY <1>12 DEF Probe
  <2>2. TypeOK'
    BY <2>1 DEF IInv, TypeOK, listeners, ProbeTransport
  <2>4. CheckInv' /\ ListenInv' /\ ConfigInv'
    BY <2>1 DEF IInv, CheckInv, ListenInv, ConfigInv,
       listeners, BeforeCheck, BeforeDebug, BeforeApi, CheckTransport, HasTcp
  <2>3. HealthSpeaksOfDial'
    BY <2>1 DEF HealthSpeaksOfDial, DialTransport, ProbeTransport, Dialable, HasTcp
  <2> QED
    BY <2>2, <2>3, <2>4 DEF IInv
<1>13. CASE UNCHANGED vars
  <2>1. TypeOK'
    <3>1. /\ main' = main /\ cfg' = cfg /\ checked' = checked /\ debug' = debug
          /\ metrics' = metrics /\ api' = api /\ owner' = owner /\ probed' = probed
          /\ scheme' = scheme /\ faulty' = faulty
      BY <1>13 DEF vars, listeners, health
    <3>2. healthy' \in BOOLEAN
      BY <1>13 DEF vars, health, IInv, TypeOK
    <3> QED
      BY <3>1, <3>2 DEF IInv, TypeOK
  <2>2. CheckInv' /\ ListenInv' /\ ConfigInv'
    BY <1>13 DEF vars, listeners, health, IInv, CheckInv, ListenInv, ConfigInv, BeforeCheck,
       BeforeDebug, BeforeApi, CheckTransport, HasTcp
  <2>3. HealthSpeaksOfDial'
    BY <1>13 DEF vars, listeners, health, IInv, HealthSpeaksOfDial, DialTransport, Dialable, HasTcp
  <2> QED
    BY <2>1, <2>2, <2>3 DEF IInv
<1> QED
  BY <1>1, <1>2, <1>3, <1>4, <1>5, <1>6, <1>7, <1>8, <1>9, <1>10, <1>11, <1>12, <1>13
  DEF Next, Main, Background, Exited

\* The invariant holds always.
LEMMA Invariant == Spec => []IInv
  BY InitInv, StepInv, PTL DEF Spec

\* The state of the start keeps its types.
THEOREM TypeCorrect == Spec => []TypeOK
<1>1. IInv => TypeOK
  BY DEF IInv
<1> QED
  BY <1>1, Invariant, PTL

\* No listener is up and nothing has probed before the node was checked, unless
\* the check is waived.
THEOREM CheckedFirst == Spec => []NothingBeforeCheck
<1>1. IInv => NothingBeforeCheck
  BY DEF IInv, NothingBeforeCheck, CheckInv, ListenInv, CheckTransport, BeforeCheck,
     BeforeDebug, BeforeApi, TypeOK
<1> QED
  BY <1>1, Invariant, PTL

\* Whoever serves has checked the transport that DialNode dials, with its magic.
THEOREM CheckedServes == Spec => []ServesWhatWasChecked
<1>1. IInv => ServesWhatWasChecked
  BY DEF IInv, ServesWhatWasChecked, CheckInv, ListenInv, CheckTransport, DialTransport,
     BeforeCheck
<1> QED
  BY <1>1, Invariant, PTL

\* Readiness speaks of the transport of the submissions.
THEOREM HealthAgrees == Spec => []HealthSpeaksOfDial
<1>1. IInv => HealthSpeaksOfDial
  BY DEF IInv
<1> QED
  BY <1>1, Invariant, PTL

\* The node check, the probe and the handlers agree on the transport.
THEOREM TransportsAgree == Spec => []OneTransport
<1>1. ServesWhatWasChecked /\ HealthSpeaksOfDial => OneTransport
  BY DEF OneTransport
<1> QED
  BY CheckedServes, HealthAgrees, <1>1, PTL

\* Nobody serves without a magic unless the network name is empty.
THEOREM MagicAlwaysKnown == Spec => []MagicIsKnown
<1>1. IInv => MagicIsKnown
  BY DEF IInv, MagicIsKnown, ListenInv, ConfigInv
<1> QED
  BY <1>1, Invariant, PTL

\* With an interval that has a ticker, an API that listens is ended by itself or by
\* a debug listener only.
THEOREM ApiGoesOn == Spec => OnlyDebugEndsTheApi
<1> DEFINE Good == api = "listening" /\ "api" \notin faulty /\ cfg.interval = "fits"
                   /\ (debug = "off" \/ (debug = "listening" /\ "debug" \notin faulty))
<1>1. IInv /\ [Next]_vars => [Good => api' = "listening"]_vars
  <2> SUFFICES ASSUME IInv, Next, Good PROVE api' = "listening"
    BY DEF vars
  <2>1. main = "serve"
    BY DEF IInv, ListenInv
  <2> QED
    BY <2>1 DEF Next, Main, Background, Load, LoadFails, SkipCheck, BeginCheck,
       NothingToCheck, CheckSucceeds, CheckFails, SetupLogging, SetMaxProcs, StartDebug,
       StartApi, ListenApi, LoadCertificate, ApiFails, ListenDebug, ListenMetrics,
       DebugFails, MetricsFails, Probe, TickerPanics, Exited, Goto, listeners, vars
<1> QED
  BY <1>1, Invariant, PTL DEF Spec, OnlyDebugEndsTheApi

\* How far main is.
Stage(m) ==
    CASE m = "load" -> 0
      [] m = "check" -> 1
      [] m = "dial" -> 2
      [] m = "logging" -> 3
      [] m = "maxprocs" -> 4
      [] m = "debug" -> 5
      [] m = "start" -> 6
      [] m = "listen" -> 7
      [] m = "tls" -> 8
      [] m = "serve" -> 9
      [] m = "exited" -> 10

\* main moves on or stays, the configuration is not touched once it was loaded, and
\* a process that exited does nothing more.
Starts ==
    /\ main' = main \/ Stage(main') > Stage(main)
    /\ main # "load" => cfg' = cfg
    /\ main = "exited" => UNCHANGED vars

\* The start goes one way, in at most ten steps of main, and whatever was read from
\* the configuration still stands when it is used: the check, the probe, the ports
\* and the magic speak of one configuration.
THEOREM StartGoesOneWay == Spec => [][Starts]_vars
<1>1. IInv /\ [Next]_vars => [Starts]_vars
  <2> SUFFICES ASSUME IInv, Next PROVE UNCHANGED vars \/ Starts
    BY DEF vars
  <2>0. /\ main \in Steps
        /\ main = "exited" => debug = "off" /\ metrics = "off"
    BY DEF IInv, TypeOK, ListenInv, BeforeApi
  <2>1. CASE Exit /\ main # "exited"
    BY <2>0, <2>1 DEF Exit, Steps, Starts, Stage
  <2>2. ASSUME NEW from \in Steps \ {"exited"}, NEW to \in Steps, Goto(from, to),
               Stage(to) > Stage(from), from = "load" \/ UNCHANGED cfg
        PROVE  Starts
    BY <2>2 DEF Goto, Starts
  <2>3. CASE (Load \/ LoadFails) /\ ~Exit
    BY <2>2, <2>3 DEF Load, LoadFails, Steps, Stage
  <2>4. CASE (SkipCheck \/ BeginCheck \/ NothingToCheck) /\ ~Exit
    BY <2>2, <2>4 DEF SkipCheck, BeginCheck, NothingToCheck, Steps, Stage
  <2>5. CASE (CheckSucceeds \/ CheckFails \/ SetupLogging \/ SetMaxProcs) /\ ~Exit
    BY <2>2, <2>5 DEF CheckSucceeds, CheckFails, SetupLogging, SetMaxProcs, Steps, Stage
  <2>6. CASE StartDebug \/ StartApi \/ ListenApi \/ LoadCertificate
    BY <2>2, <2>6 DEF StartDebug, StartApi, ListenApi, LoadCertificate, Steps, Stage
  <2>7. CASE (ApiFails \/ ListenDebug \/ DebugFails \/ TickerPanics) /\ ~Exit
    BY <2>0, <2>7 DEF ApiFails, ListenDebug, DebugFails, TickerPanics, Starts
  <2>8. CASE ListenMetrics \/ MetricsFails \/ Probe
    BY <2>0, <2>8 DEF ListenMetrics, MetricsFails, Probe, Starts
  <2>9. main # "exited" \/ ~Exit \/ UNCHANGED vars
    BY <2>0 DEF Next, Main, Background, Load, LoadFails, SkipCheck, BeginCheck,
       NothingToCheck, CheckSucceeds, CheckFails, SetupLogging, SetMaxProcs, StartDebug,
       StartApi, ListenApi, LoadCertificate, ApiFails, ListenDebug, ListenMetrics,
       DebugFails, MetricsFails, Probe, TickerPanics, Exited, Goto
  <2>10. QED
    BY <2>1, <2>3, <2>4, <2>5, <2>6, <2>7, <2>8, <2>9 DEF Next, Main, Background, Exited
<1>2. QED BY Invariant, <1>1, PTL DEF Spec

\* What the API listener speaks is what is configured: it never falls back to plain
\* HTTP when it was given a certificate and a key, and nobody else serves.
SchemeIsConfigured ==
    /\ api = "listening" => scheme = IF Tls THEN "https" ELSE "http"
    /\ api # "listening" => scheme = "none"
    /\ main = "tls" => Tls

\* So it is for every configuration; a certificate without its key is no TLS.
THEOREM TlsAsConfigured == Spec => []SchemeIsConfigured
<1>1. Init => SchemeIsConfigured
  BY DEF Init, SchemeIsConfigured
<1>2. IInv /\ SchemeIsConfigured /\ [Next]_vars => SchemeIsConfigured'
  <2> SUFFICES ASSUME IInv, SchemeIsConfigured, [Next]_vars PROVE SchemeIsConfigured'
    OBVIOUS
  <2> USE DEF SchemeIsConfigured, Goto, listeners, Tls
  <2>0. /\ api = "listening" => main = "serve"
        /\ main \in BeforeApi \cup {"exited"} => api = "off"
    BY DEF IInv, ListenInv
  <2>1. ASSUME Exit PROVE SchemeIsConfigured'
    BY <2>1 DEF Exit
  <2>2. CASE Load \/ LoadFails
    BY <2>0, <2>1, <2>2 DEF Load, LoadFails, BeforeApi, BeforeDebug, BeforeCheck
  <2>3. CASE SkipCheck \/ BeginCheck \/ NothingToCheck
    BY <2>1, <2>3 DEF SkipCheck, BeginCheck, NothingToCheck
  <2>4. CASE CheckSucceeds \/ CheckFails \/ SetupLogging \/ SetMaxProcs
    BY <2>1, <2>4 DEF CheckSucceeds, CheckFails, SetupLogging, SetMaxProcs
  <2>5. CASE StartDebug
    BY <2>5 DEF StartDebug
  <2>6. CASE StartApi
    BY <2>0, <2>6 DEF StartApi, BeforeApi, BeforeDebug, BeforeCheck
  <2>7. CASE ListenApi
    BY <2>0, <2>7 DEF ListenApi
  <2>8. CASE LoadCertificate
    BY <2>8 DEF LoadCertificate
  <2>9. CASE ApiFails \/ TickerPanics
    BY <2>1, <2>9 DEF ApiFails, TickerPanics
  <2>10. CASE ListenDebug \/ ListenMetrics \/ DebugFails \/ MetricsFails
    BY <2>1, <2>10 DEF ListenDebug, ListenMetrics, DebugFails, MetricsFails
  <2>11. CASE Probe \/ Exited \/ UNCHANGED vars
    BY <2>11 DEF Probe, Exited, vars
  <2>12. QED
    BY <2>2, <2>3, <2>4, <2>5, <2>6, <2>7, <2>8, <2>9, <2>10, <2>11
    DEF Next, Main, Background
<1>3. QED BY Invariant, <1>1, <1>2, PTL DEF Spec

\* Every step of the start is a step of Lifecycle or a stutter.
THEOREM Implementation == Spec => Abstract!Spec
<1>1. Init => Abstract!Init
  BY DefaultConfig DEF Init, Abstract!Init
<1>2. ASSUME IInv, [Next]_vars
      PROVE  [Abstract!Verify \/ Abstract!Serve \/ Abstract!Stop]_(Abstract!vars)
  <2> USE DEF Abstract!Verify, Abstract!Serve, Abstract!Stop, Abstract!vars, Goto
  <2>1. CASE Exit
    <3>1. CASE main = "exited"
      BY <2>1, <3>1 DEF Exit
    <3>2. CASE main # "exited" /\ main # "check"
      BY <2>1, <3>2 DEF Exit, IInv, ListenInv
    <3>3. CASE main = "check"
      <4>1. cfg.skip # "yes"
        BY <1>2, <2>1, <3>3
        DEF Next, Main, Background, Exit, Load, LoadFails, SkipCheck, BeginCheck,
            NothingToCheck, CheckSucceeds, CheckFails, SetupLogging, SetMaxProcs, StartDebug,
            StartApi, ListenApi, LoadCertificate, ApiFails, ListenDebug, ListenMetrics,
            DebugFails, MetricsFails, Probe, TickerPanics, Exited, vars, IInv, ListenInv, BeforeDebug,
            BeforeApi, BeforeCheck
      <4> QED
        BY <2>1, <3>3, <4>1 DEF Exit, IInv, ListenInv
    <3> QED
      BY <3>1, <3>2, <3>3
  <2>2. CASE ~Exit
    <3>1. CASE Load \/ SkipCheck \/ BeginCheck
      BY <1>2, <3>1 DEF Load, SkipCheck, BeginCheck, IInv, CheckInv, ListenInv, ConfigInv, BeforeCheck,
         BeforeDebug, BeforeApi, listeners
    <3>2. CASE CheckSucceeds
      BY <1>2, <3>2 DEF CheckSucceeds, IInv, CheckInv, ListenInv, BeforeCheck,
         BeforeDebug, BeforeApi, CheckTransport, listeners
    <3>3. CASE SetupLogging \/ SetMaxProcs \/ StartDebug \/ StartApi
      BY <1>2, <2>2, <3>3 DEF SetupLogging, SetMaxProcs, StartDebug, StartApi, IInv,
         CheckInv, ListenInv, BeforeCheck, BeforeDebug, BeforeApi, listeners
    <3>4. CASE ListenApi \/ LoadCertificate
      <4>1. /\ main \in {"listen", "tls"} /\ main' \in {"tls", "serve"}
            /\ UNCHANGED <<cfg, checked>>
            /\ api' = api \/ api' = "listening"
        BY <3>4 DEF ListenApi, LoadCertificate
      <4>2. checked # "no" \/ cfg.skip = "yes"
        BY <1>2, <4>1 DEF IInv, CheckInv, CheckTransport, BeforeCheck
      <4>3. api # "listening"
        BY <1>2, <4>1 DEF IInv, ListenInv
      <4> QED
        BY <4>1, <4>2, <4>3
    <3>5. CASE ListenDebug \/ ListenMetrics \/ MetricsFails \/ Probe \/ UNCHANGED vars
      BY <2>2, <3>5 DEF ListenDebug, ListenMetrics, MetricsFails, Probe, vars, listeners
    <3> QED
      BY <1>2, <2>2, <3>1, <3>2, <3>3, <3>4, <3>5
      DEF Next, Main, Background, LoadFails, NothingToCheck, CheckFails, ApiFails,
          DebugFails, TickerPanics, Exited
  <2> QED
    BY <2>1, <2>2
<1> QED
  BY <1>1, <1>2, Invariant, PTL DEF Spec, Abstract!Spec

==============================================================================

------------------------------ MODULE Startup -------------------------------
(***************************************************************************)
(* From main to the listeners: main.go, config.Load with                   *)
(* populateNetworkMagic and checkNode, logging.Setup, api.Start.  main is  *)
(* one goroutine; the debug listener, the metrics listener and the health  *)
(* poller are goroutines it leaves behind.  Some failures exit the         *)
(* process, others are only logged.                                        *)
(*                                                                         *)
(* The node, the ports that other processes hold and the operator's        *)
(* settings are the environment.                                           *)
(***************************************************************************)
EXTENDS Naturals

CONSTANTS
    FileLayers,  \* what a config file may set: functions on subsets of Fields
    EnvLayers,   \* what the environment may set, likewise
    Magics,      \* the named networks: a function from their names
    NodeMagic,   \* the network magic of the node
    Ports        \* the ports in play; 0 is none

\* The fields of Config that the start reads.  The interval of the health check
\* "fits", or it "overflows": in nanoseconds it wraps to nothing positive
\* (Durations tells which intervals do).
Fields == {"network", "magic", "address", "port", "socket", "skip", "level",
           "debugPort", "metricsPort", "apiPort", "cert", "key", "interval"}

ASSUME LayersAssumption == \A l \in FileLayers \cup EnvLayers : DOMAIN l \subseteq Fields
ASSUME MagicsAssumption == \A n \in DOMAIN Magics : Magics[n] # 0
ASSUME PortsAssumption ==
    /\ Ports \subseteq Nat \ {0} /\ {8081, 8090} \subseteq Ports
    /\ \A l \in FileLayers \cup EnvLayers :
         /\ \A f \in {"metricsPort", "apiPort"} \cap DOMAIN l : l[f] \in Ports
         /\ "debugPort" \in DOMAIN l => l["debugPort"] \in Ports \cup {0}

VARIABLES
    main,      \* the call main is in
    cfg,       \* globalConfig
    checked,   \* the transport on which checkNode reached the node, or "no"
    debug, metrics, api,  \* the listeners: "off", "starting", "listening", "failed"
    owner,     \* who has bound a port
    probed,    \* the transport of the last probe of the health poller
    healthy,   \* nodeHealth.healthy
    scheme,    \* what the API listener speaks
    faulty     \* the listeners that may fail once they listen

listeners == <<debug, metrics, api, owner, scheme>>
health == <<probed, healthy>>
vars == <<main, cfg, checked, listeners, health, faulty>>

Defaults ==
    [network |-> "mainnet", magic |-> 0, address |-> "", port |-> 0,
     socket |-> "/node-ipc/node.socket", skip |-> "no", level |-> "info",
     debugPort |-> 0, metricsPort |-> 8081, apiPort |-> 8090,
     cert |-> "", key |-> "", interval |-> "fits"]

States == {"off", "starting", "listening", "failed"}

Steps == {"load", "check", "dial", "logging", "maxprocs", "debug", "start",
          "listen", "tls", "serve", "exited"}

TypeOK ==
    /\ main \in Steps
    /\ DOMAIN cfg = Fields
    /\ checked \in {"no", "tcp", "unix"}
    /\ debug \in States /\ metrics \in States /\ api \in {"off", "starting", "listening"}
    /\ owner \in [Ports -> {"free", "other", "debug", "metrics", "api"}]
    /\ probed \in {"no", "tcp", "unix"}
    /\ healthy \in BOOLEAN
    /\ scheme \in {"none", "http", "https"}
    /\ faulty \in SUBSET {"debug", "metrics", "api"}

Init ==
    /\ main = "load"
    /\ cfg = Defaults
    /\ checked = "no"
    /\ debug = "off" /\ metrics = "off" /\ api = "off"
    /\ owner \in [Ports -> {"free", "other"}]
    /\ probed = "no" /\ healthy = FALSE
    /\ scheme = "none"
    /\ faulty \in SUBSET {"debug", "metrics", "api"}

-----------------------------------------------------------------------------
(* The transport to the node, chosen in three places.                      *)

HasTcp(c) == c.address # "" /\ c.port > 0

\* Mutant of CheckTransport: the socket is preferred.
CheckSocketFirst(c) ==
    IF c.socket # "" THEN "unix" ELSE IF HasTcp(c) THEN "tcp" ELSE "none"

\* checkNode refuses a configuration without either.
CheckTransport(c) ==
    IF HasTcp(c) THEN "tcp" ELSE IF c.socket # "" THEN "unix" ELSE "none"

\* submit.DialNode takes the socket path for granted.
DialTransport(c) == IF HasTcp(c) THEN "tcp" ELSE "unix"

\* Mutant of ProbeTransport: the socket is preferred.
ProbeSocketFirst(c) == IF c.socket # "" THEN "unix" ELSE "tcp"

\* The probe of startNodeHealthPoller.
ProbeTransport(c) == IF HasTcp(c) THEN "tcp" ELSE "unix"

\* There is something to dial: the path of a UNIX socket is not empty.
Dialable(c, transport) == transport = "tcp" \/ c.socket # ""

-----------------------------------------------------------------------------
(* main.                                                                   *)

\* os.Exit takes the listeners, their ports and the other goroutines along.
Exit ==
    /\ main' = "exited"
    /\ debug' = "off" /\ metrics' = "off" /\ api' = "off"
    /\ owner' = [p \in Ports |-> IF owner[p] = "other" THEN "other" ELSE "free"]
    /\ scheme' = "none"
    /\ probed' = "no" /\ healthy' = FALSE
    /\ UNCHANGED <<cfg, checked, faulty>>

Goto(from, to) == main = from /\ main' = to

Over(upper, lower) ==
    [f \in Fields |-> IF f \in DOMAIN upper THEN upper[f] ELSE lower[f]]

Unresolvable(c) ==
    c.magic = 0 /\ c.network # "" /\ c.network \notin DOMAIN Magics

\* populateNetworkMagic: a magic that is set wins over any network name.
WithMagic(c) ==
    IF c.magic = 0 /\ c.network \in DOMAIN Magics
      THEN [c EXCEPT !.magic = Magics[c.network]] ELSE c

\* Load, before checkNode: the file over the defaults, the environment over
\* both, then the network magic.
Load ==
    /\ Goto("load", "check")
    /\ \E file \in FileLayers, env \in EnvLayers :
         LET loaded == Over(env, Over(file, Defaults))
         IN  ~Unresolvable(loaded) /\ cfg' = WithMagic(loaded)
    /\ UNCHANGED <<checked, listeners, health, faulty>>

\* A file or a variable that cannot be read, or an unknown network.
LoadFails == main = "load" /\ Exit

\* Mutant of SkipCheck: the check is only made over TCP.
SkipCheckOnSocket ==
    /\ cfg.skip = "yes" \/ CheckTransport(cfg) = "unix"
    /\ Goto("check", "logging")
    /\ UNCHANGED <<cfg, checked, listeners, health, faulty>>

SkipCheck ==
    /\ cfg.skip = "yes"
    /\ Goto("check", "logging")
    /\ UNCHANGED <<cfg, checked, listeners, health, faulty>>

\* The transport is chosen; for a socket, os.Stat has found the path.
BeginCheck ==
    /\ cfg.skip # "yes"
    /\ CheckTransport(cfg) # "none"
    /\ Goto("check", "dial")
    /\ UNCHANGED <<cfg, checked, listeners, health, faulty>>

\* No transport is configured, or the socket path does not exist.
NothingToCheck ==
    /\ main = "check" /\ cfg.skip # "yes" /\ CheckTransport(cfg) # "tcp"
    /\ Exit

\* Dial includes the handshake, in which the node compares the magic.
CheckSucceeds ==
    /\ cfg.magic = NodeMagic
    /\ Goto("dial", "logging")
    /\ checked' = CheckTransport(cfg)
    /\ UNCHANGED <<cfg, listeners, health, faulty>>

CheckFails == main = "dial" /\ Exit

\* The levels parseLevel knows, an empty one included.
Levels == {"", "debug", "info", "warn", "warning", "error"}

SetupLogging ==
    \/ /\ cfg.level \in Levels
       /\ Goto("logging", "maxprocs")
       /\ UNCHANGED <<cfg, checked, listeners, health, faulty>>
    \/ main = "logging" /\ cfg.level \notin Levels /\ Exit

SetMaxProcs ==
    \/ /\ Goto("maxprocs", "debug")
       /\ UNCHANGED <<cfg, checked, listeners, health, faulty>>
    \/ main = "maxprocs" /\ Exit

StartDebug ==
    /\ Goto("debug", "start")
    /\ debug' = IF cfg.debugPort > 0 THEN "starting" ELSE "off"
    /\ UNCHANGED <<cfg, checked, metrics, api, owner, scheme, health, faulty>>

\* api.Start up to its own listener: the poller, the routes, the collectors and
\* the metrics listener.
StartApi ==
    /\ Goto("start", "listen")
    /\ metrics' = "starting" /\ api' = "starting"
    /\ UNCHANGED <<cfg, checked, debug, owner, scheme, health, faulty>>

\* A listener binds its port when nobody holds it.
Bind(who, port) == owner[port] = "free" /\ owner' = [owner EXCEPT ![port] = who]

Tls == cfg.cert # "" /\ cfg.key # ""

\* net/http binds the port first and then reads the certificate.
ListenApi ==
    /\ Bind("api", cfg.apiPort)
    /\ IF Tls THEN Goto("listen", "tls") /\ UNCHANGED <<api, scheme>>
              ELSE Goto("listen", "serve") /\ api' = "listening" /\ scheme' = "http"
    /\ UNCHANGED <<cfg, checked, debug, metrics, health, faulty>>

LoadCertificate ==
    /\ Goto("tls", "serve")
    /\ api' = "listening" /\ scheme' = "https"
    /\ UNCHANGED <<cfg, checked, debug, metrics, owner, health, faulty>>

\* The port is held, the certificate does not load, or Accept fails: Start
\* returns the error.
ApiFails ==
    \/ main = "listen" /\ owner[cfg.apiPort] # "free" /\ Exit
    \/ main = "tls" /\ Exit
    \/ main = "serve" /\ "api" \in faulty /\ Exit

Main ==
    \/ Load \/ LoadFails \/ SkipCheck \/ BeginCheck \/ NothingToCheck
    \/ CheckSucceeds \/ CheckFails \/ SetupLogging \/ SetMaxProcs
    \/ StartDebug \/ StartApi \/ ListenApi \/ LoadCertificate
    \/ (main # "serve" /\ ApiFails)

-----------------------------------------------------------------------------
(* The goroutines main leaves behind.                                      *)

\* Mutant of ListenDebug: a port that is held is only logged.
ListenDebugOrLog ==
    /\ debug = "starting"
    /\ \/ Bind("debug", cfg.debugPort) /\ debug' = "listening"
       \/ owner[cfg.debugPort] # "free" /\ debug' = "failed" /\ UNCHANGED owner
    /\ UNCHANGED <<main, cfg, checked, metrics, api, scheme, health, faulty>>

ListenDebug ==
    /\ debug = "starting"
    /\ \/ /\ Bind("debug", cfg.debugPort)
          /\ debug' = "listening"
          /\ UNCHANGED <<main, cfg, checked, metrics, api, scheme, health, faulty>>
       \/ owner[cfg.debugPort] # "free" /\ Exit

\* Whatever ends the debug listener ends the process.
DebugFails == debug = "listening" /\ "debug" \in faulty /\ Exit

ListenMetrics ==
    /\ metrics = "starting"
    /\ \/ Bind("metrics", cfg.metricsPort) /\ metrics' = "listening"
       \/ owner[cfg.metricsPort] # "free" /\ metrics' = "failed" /\ UNCHANGED owner
    /\ UNCHANGED <<main, cfg, checked, debug, api, scheme, health, faulty>>

\* Mutant of MetricsFails: handled as main handles the debug listener.
MetricsFailureExits == metrics = "listening" /\ "metrics" \in faulty /\ Exit

\* The error is logged and the goroutine ends.
MetricsFails ==
    /\ metrics = "listening" /\ "metrics" \in faulty
    /\ metrics' = "failed"
    /\ owner' = [owner EXCEPT ![cfg.metricsPort] = "free"]
    /\ UNCHANGED <<main, cfg, checked, debug, api, scheme, health, faulty>>

\* A dial of the poller: it goes no further than the transport, so the magic
\* plays no part.  The first comes before the ticker, the others from it.
Probe ==
    /\ main \in {"listen", "tls", "serve"}
    /\ probed = "no" \/ cfg.interval = "fits"
    /\ probed' = ProbeTransport(cfg)
    /\ healthy' \in BOOLEAN
    /\ healthy' => Dialable(cfg, ProbeTransport(cfg))
    /\ UNCHANGED <<main, cfg, checked, listeners, faulty>>

\* After the first probe time.NewTicker panics for an interval that is not
\* positive; nobody recovers the poller's goroutine, so the process ends.
TickerPanics ==
    /\ main \in {"listen", "tls", "serve"}
    /\ probed # "no" /\ cfg.interval = "overflows"
    /\ Exit

Background == ListenDebug \/ ListenMetrics

Exited == main = "exited" /\ UNCHANGED vars

Next ==
    \/ Main \/ Background
    \/ (main = "serve" /\ ApiFails) \/ DebugFails \/ MetricsFails
    \/ Probe \/ TickerPanics \/ Exited

Spec == Init /\ [][Next]_vars

\* main and the listeners' goroutines run; the check's dial ends, by the node
\* or by the connection's own limits.  Nothing has to fail.
FairSpec == Spec /\ WF_vars(Main) /\ WF_vars(Background)

-----------------------------------------------------------------------------
(* Properties.                                                             *)

\* config.Load comes first in main: until the node was reached, or unless the
\* operator waived it, no listener is up and nothing has probed.
NothingBeforeCheck ==
    checked = "no" /\ cfg.skip # "yes" =>
        /\ debug = "off" /\ metrics = "off" /\ api = "off"
        /\ probed = "no"

\* "On startup, we connect to the configured cardano-node and exit on failure":
\* whoever serves has checked the transport that submissions and queries dial,
\* with the magic they dial with.
ServesWhatWasChecked ==
    api = "listening" /\ cfg.skip # "yes" =>
        checked = DialTransport(cfg) /\ cfg.magic = NodeMagic

\* /healthz speaks of the transport that submissions use, and never says
\* reachable where DialNode would dial an empty path.
HealthSpeaksOfDial ==
    healthy => probed = DialTransport(cfg) /\ Dialable(cfg, DialTransport(cfg))

\* Three places choose the transport, by the same condition, and they agree.
OneTransport == ServesWhatWasChecked /\ HealthSpeaksOfDial

\* "default: automatically determined from named network": nobody serves without
\* a magic unless the network name was set to empty.
MagicIsKnown == api = "listening" /\ cfg.magic = 0 => cfg.network = ""

\* With an interval that has a ticker, an API that listens goes on for as long as
\* neither it nor a debug listener fails.  A debug listener may still lose its port
\* when the API already serves; the metrics listener may lose its port to the API or
\* fail at any time.
OnlyDebugEndsTheApi ==
    [][/\ api = "listening" /\ "api" \notin faulty /\ cfg.interval = "fits"
       /\ debug = "off" \/ (debug = "listening" /\ "debug" \notin faulty)
       => api' = "listening"]_vars

\* A process asked for a debug listener has it or is gone.
DebugOrExit == debug = "starting" ~> debug = "listening" \/ main = "exited"

-----------------------------------------------------------------------------

Abstract == INSTANCE Lifecycle WITH
    phase <- CASE main = "exited" -> "exited"
               [] api = "listening" -> "serving"
               [] OTHER -> "starting",
    verified <- IF checked # "no" \/ (cfg.skip = "yes" /\ main # "check")
                  THEN "yes" ELSE "no"

\* The start keeps the promise of Lifecycle, its liveness included.
ImplementsLifecycle == Abstract!FairSpec

==============================================================================

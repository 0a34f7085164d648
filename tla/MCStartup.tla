----------------------------- MODULE MCStartup ------------------------------
(* Instances of Startup for TLC.                                           *)
EXTENDS Startup, TLC

MCMagics == [mainnet |-> 1, preview |-> 2]
MCPorts == {6060, 8081, 8090}

Only(field, values) == {[f \in {field} |-> v] : v \in values}
Nothing == [f \in {} |-> 0]

\* Layers that set one thing each of a and one of b.
Both(a, b) == {l @@ k : l \in a \cup {Nothing}, k \in b \cup {Nothing}}

\* Which network, and how to reach the node, which share no code.
NodeLayers ==
    Both(Only("network", {"", "preview", "bogus"}), Only("magic", {2}))
    \cup Both(Only("socket", {""}),
              {("address" :> "node") @@ ("port" :> p) : p \in {0, 3001}})

\* The listeners, and a network against the file's.
ListenLayers ==
    Both(Both(Only("debugPort", {6060, 8090}),
              Only("metricsPort", {8090})),
         Only("cert", {"c"}) \cup {("cert" :> "c") @@ ("key" :> "k")})
    \cup Both(Only("skip", {"yes"}),
              Only("level", {"loud"}) \cup Only("network", {"preview"})
                \cup Only("metricsPort", {8090}) \cup Only("interval", {"overflows"}))

==============================================================================

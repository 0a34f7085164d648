\* Every node setting against every listener setting, with ports that collide.
CONSTANTS
    FileLayers <- NodeLayers
    EnvLayers <- ListenLayers
    Magics <- MCMagics
    NodeMagic = 2
    Ports <- MCPorts
SPECIFICATION FairSpec
INVARIANTS
    NothingBeforeCheck
    OneTransport
PROPERTIES
    OnlyDebugEndsTheApi
    DebugOrExit
    ImplementsLifecycle

SPECIFICATION Spec
CONSTANTS
    USA = USA
    Europe = Europe
    DEX = DEX
    NoId = NoId
    Regions = {USA, Europe}
    Plugins = 2
    MaxFaults = 2
CHECK_DEADLOCK FALSE
INVARIANTS
    TypeOK
    TargetKept
    OneLossPerFault
    KernelChanged
    CexTargetHasCexKernel
    PluginsFollowTarget
    RefusalReported

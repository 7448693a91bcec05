CONSTANTS
    c1 = c1
    c2 = c2
    Cmds <- MCCmds
    Pids <- MCPids
    Scenes <- MachineScenes
    Binary <- MCBinary
    Hook <- MCHook
    SessionHook <- MCSessionHook
    Machines <- AllMachines
    UserHooks <- MCUserHooks
    UserLines <- MCUserLines
    MaxEdits = 1
SPECIFICATION MachineSpec
INVARIANTS
    TypeOK
    OutcomeHolds
PROPERTIES
    OrderlyEnds
    OnlyOursChanges
    CommandsTakeEffect

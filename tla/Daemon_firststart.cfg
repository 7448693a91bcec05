CONSTANTS
    c1 = c1
    c2 = c2
    Cmds <- MCCmds
    Pids <- MCPids
    Scenes <- FirstStartOnly
SPECIFICATION Spec
INVARIANT FirstRunIsZeroConfig

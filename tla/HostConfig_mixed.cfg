CONSTANTS
    Binary <- MCBinary
    Hook <- MCHook
    SessionHook <- MCSessionHook
    Machines <- Mixed
    UserHooks <- MCUserHooks
    UserLines <- MCUserLines
    MaxEdits = 1
SPECIFICATION HostSpec
PROPERTY OnlyWiringGoes

CONSTANTS
    FanoutCap = 1
    Walk <- MCWalk
    Load <- MCLoad
    Aliases <- MCAliases
    Versions <- MCVersions
    PackageVersions <- MCPackageVersions
    MaxDepth = 3
    MaxPathDepth = 2
    MaxNeighbors = 2
    MaxMatches = 2
    MaxPkgSymbols = 2
    BlastCap = 3
    Lower <- MCLower
    Graphs <- MCGraphs
    Requests <- MCRequests
    PackageNames <- MCPackageNames
SPECIFICATION GraphSpec
INVARIANTS
    SymbolsAreTrue
    CallsAreTrue
    AnswerIsTrue

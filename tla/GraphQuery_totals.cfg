CONSTANTS
    MaxDepth = 3
    MaxPathDepth = 2
    MaxNeighbors = 1
    MaxMatches = 2
    MaxPkgSymbols = 2
    BlastCap = 3
    Lower <- MCLower
    Graphs <- MCGraphs
    Requests <- MCRequests
    PackageNames <- MCPackageNames
SPECIFICATION QuerySpec
INVARIANT TotalsAreComparable

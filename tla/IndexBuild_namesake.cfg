CONSTANTS
    FanoutCap = 8
    Walk <- MCWalk
    Load <- MCLoad
    Aliases <- MCAliases
    Versions <- MCVersions
    PackageVersions <- MCPackageVersions
SPECIFICATION MCSpec
INVARIANT ReadFilesShowTheirCalls

CONSTANTS
    c1 = c1
    c2 = c2
    Cmds = {c1, c2}
    Projects <- MCProjects
    Targets <- MCTargets
    Requests <- MCRequests
    ReadLimit = 1
    MaxMishaps = 1
    MaxChanges = 1
    MaxEvents = 3
    Units <- MCUnits
    MaxSvcMishaps = 2
    Services <- MCServices
    MaxWinMishaps = 2
    Profiles <- MCProfiles
    MaxCodexMishaps = 1
    MaxCodexEdits = 1
SPECIFICATION MCSpec
INVARIANTS TypeOK OneEventZero
PROPERTIES StepsAreTrue DependenciesFirst RerunFinishes ServicesAreTrue ReceiptsAreTrue CodexReportsAreTrue

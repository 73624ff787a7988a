CONSTANTS
    Components <- MCComponents
    Spine = "regista"
    Shared <- MCShared
    Profiles <- MCProfiles
    Asks <- MCAsks
    Moods <- MCMoods
    Uncertain <- MCUncertain
    Locks <- NoLocks
    MaxChanges = 2
    MaxFaults = 0
SPECIFICATION Spec
INVARIANTS
    AlertAgreesWithDoctor

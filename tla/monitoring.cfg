CONSTANTS
    Components <- MCComponents
    Spine = "regista"
    Shared <- MCShared
    Profiles <- MCProfiles
    Asks <- MCAsks
    Moods <- MCMoods
    Uncertain <- MCUncertain
    Locks <- MCLocks
    MaxChanges = 2
    MaxFaults = 1
SPECIFICATION LiveSpec
INVARIANTS
    TypeOK
    GreenWasSeen
    VerdictIsDeserved
    StateIsTold
    NoticeIsNews
PROPERTIES
    Returns
    ColourIsTold

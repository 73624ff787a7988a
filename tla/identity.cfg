CONSTANTS
    alice = alice
    bob = bob
    k1 = k1
    k2 = k2
    k3 = k3
    p1 = p1
    p2 = p2
    home = home
    other = other
    NoOne = NoOne
    NoEntry = NoEntry
    Principals = {alice, bob}
    Keys = {k1, k2, k3}
    OwnerOf <- MCOwnerOf
    Custody <- MixedCustody
    Users = {alice}
    UserOf <- MCUserOf
    Paths = {home}
    PathOf <- OnePath
    Backends = {"local", "unset", "ldap", "none"}
    Procs = {p1}
    MaxFaults = 2
SPECIFICATION FairSpec
INVARIANTS
    TypeOK
    ReportsAreTrue
    DeletedOnlyIfRevoked
PROPERTIES
    OffboardingConverges

CONSTANTS
    alice = alice
    bob = bob
    k1 = k1
    k2 = k2
    k3 = k3
    p1 = p1
    p2 = p2
    home = home
    other = other
    NoOne = NoOne
    NoEntry = NoEntry
    Principals = {alice, bob}
    Keys = {k1}
    OwnerOf <- MCOwnerOf
    Custody <- MixedCustody
    Users = {alice}
    UserOf <- MCUserOf
    Paths = {home}
    PathOf <- OnePath
    Backends = {"local"}
    Procs = {p1, p2}
    MaxFaults = 1
SYMMETRY Symmetry
SPECIFICATION Spec
PROPERTIES
    BindingsStay

CONSTANTS
    alice = alice
    bob = bob
    carol = carol
    rotate = rotate
    d1 = d1
    d2 = d2
    ta = ta
    tb = tb
    tc = tc
    tweak = tweak
    r1 = r1
    r2 = r2
    h1 = h1
    h2 = h2
    c1 = c1
    c2 = c2
    Ids = {r1, r2}
    Principals = {alice, bob, carol}
    Operations = {rotate}
    Digests = {d1, d2}
    Hashes = {h1, h2}
    Tokens = {ta, tb, tc, tweak}
    TokenOf <- MCTokenOf
    MinLevel <- MCMinLevel
    Callers = {c1, c2}
    Asked <- MCAsked
    Presented <- MCPresented
    TTL = 1
    MaxTime = 2
SYMMETRY Symmetry
SPECIFICATION Spec
INVARIANTS
    TypeOK
    TwoPrincipals
    AtMostOnce
    GrantIsMine
PROPERTIES
    ImplementsSingleUse

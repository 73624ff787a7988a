----------------------------- MODULE GateProofs -----------------------------
(***************************************************************************)
(* What the verdicts rest on that gate an epoch, a release and a host: an  *)
(* open genesis gate, exit status 0 of the two release checks, a manifest, *)
(* a binding and a green attestation.  They are about every report, reply, *)
(* lock, checkout, spine, directory of wheels and host.                    *)
(***************************************************************************)
EXTENDS GenesisGate, LockAgreement, SpineSymbols, Attestation,
        WellFoundedInduction, TLAPS

-----------------------------------------------------------------------------
(* GenesisGate *)

\* All that is assumed of a report or a reply: its checks are numbered.
Numbered(checks) == DOMAIN checks \subseteq Nat
IsReport(report) ==
    /\ DOMAIN report.probes \subseteq Nat
    /\ \A p \in DOMAIN report.probes : Numbered(report.probes[p].checks)

LEMMA LastOfOne ==
  ASSUME NEW i \in Nat
  PROVE  LastOf({i}) = i
  BY DEF LastOf

LEMMA PlaceOf ==
  ASSUME NEW report, NEW p \in DOMAIN report.probes,
         NEW i \in DOMAIN report.probes[p].checks
  PROVE  <<p, i>> \in Places(report) /\ At(report, <<p, i>>) = report.probes[p].checks[i]
  BY DEF Places, At

LEMMA PlaceIs ==
  ASSUME NEW report, NEW pl \in Places(report)
  PROVE  /\ pl = <<pl[1], pl[2]>>
         /\ pl[1] \in DOMAIN report.probes
         /\ pl[2] \in DOMAIN report.probes[pl[1]].checks
  BY DEF Places

LEMMA OwnedIds ==
  ASSUME NEW id \in GenesisRequired
  PROVE  id.of \in Components /\ id \in Required[id.of] /\ id # Measurements
  BY DEF GenesisRequired, Components, Required, Measurements, Boundary, Id

\* Without a contract finding, what the evaluator looks up under a component and
\* an identifier is at the only place of the report that carries the identifier.
LEMMA FoundAtOnePlace ==
  ASSUME NEW report, IsReport(report), NoContractFinding(report),
         NEW id, ChecksOf(report, id.of, id) # {}
  PROVE  \E pl \in Places(report) :
            /\ OnlyAt(report, id, pl)
            /\ At(report, pl) = Found(report, id.of, id)
            /\ report.probes[pl[1]] = Owner(report, id.of)
  <1> DEFINE c == id.of
  <1>1. PICK p \in DOMAIN report.probes : report.probes[p].component = c
    BY DEF ChecksOf, ProbesOf
  <1>2. ProbesOf(report, c) = {p}
    BY <1>1 DEF ProbesOf, NoContractFinding
  <1>3. Owner(report, c) = report.probes[p]
    BY <1>2, LastOfOne DEF Owner, IsReport
  <1>4. PICK i \in DOMAIN report.probes[p].checks : report.probes[p].checks[i].id = id
    BY <1>2, <1>3 DEF ChecksOf
  <1>5. <<p, i>> \in Places(report) /\ At(report, <<p, i>>).id = id
    BY <1>4, PlaceOf
  <1>6. \A other \in Places(report) : At(report, other).id = id => other = <<p, i>>
    BY <1>5 DEF NoContractFinding
  <1>7. ChecksOf(report, c, id) = {i}
    <2>1. ASSUME NEW j \in DOMAIN report.probes[p].checks,
                 report.probes[p].checks[j].id = id
          PROVE  j = i
      <3>1. <<p, j>> = <<p, i>>
        BY <2>1, <1>6, PlaceOf
      <3>2. QED
        BY <3>1
    <2>2. QED
      BY <2>1, <1>2, <1>3, <1>4 DEF ChecksOf
  <1>8. Found(report, c, id) = report.probes[p].checks[i]
    BY <1>3, <1>7, LastOfOne DEF Found, IsReport, Numbered
  <1>9. OnlyAt(report, id, <<p, i>>)
    BY <1>1, <1>2, <1>5, <1>6 DEF OnlyAt
  <1>10. QED
    BY <1>3, <1>4, <1>5, <1>8, <1>9, PlaceOf

\* Whoever made the report (evaluate_genesis_gate is public): if the epoch may
\* open, each required behavioural check occurs exactly once in it, in the only
\* entry of the component that owns it, passed, in a probe that passed, and the
\* actor boundary claims no more than its scope; and the store's measurements,
\* which also occur once, are of the configured store and project, empty.
THEOREM OpensOnEvidence ==
  ASSUME NEW report, IsReport(report), NEW store, NEW project,
         EpochMayOpen(report, store, project)
  PROVE  /\ \A id \in GenesisRequired : \E pl \in Places(report) :
               /\ OnlyAt(report, id, pl)
               /\ At(report, pl).status = "pass"
               /\ report.probes[pl[1]].status = "pass"
               /\ id = Boundary => At(report, pl).scoped
         /\ \E pl \in Places(report) :
               /\ OnlyAt(report, Measurements, pl)
               /\ NoMeasurementFinding(At(report, pl), store, project)
  <1>1. ASSUME NEW id \in GenesisRequired
        PROVE  \E pl \in Places(report) :
                  /\ OnlyAt(report, id, pl)
                  /\ At(report, pl).status = "pass"
                  /\ report.probes[pl[1]].status = "pass"
                  /\ id = Boundary => At(report, pl).scoped
    <2>1. BehaviourPassed(report, id)
      BY DEF EpochMayOpen
    <2>2. PICK pl \in Places(report) : /\ OnlyAt(report, id, pl)
                                       /\ At(report, pl) = Found(report, id.of, id)
                                       /\ report.probes[pl[1]] = Owner(report, id.of)
      BY <2>1, FoundAtOnePlace DEF BehaviourPassed, EpochMayOpen
    <2>3. QED
      BY <2>1, <2>2 DEF BehaviourPassed
  <1>2. Measurements.of = "regista"
    BY DEF Measurements, Id
  <1>3. \E pl \in Places(report) :
            /\ OnlyAt(report, Measurements, pl)
            /\ At(report, pl) = Found(report, Measurements.of, Measurements)
    BY <1>2, FoundAtOnePlace DEF EpochMayOpen
  <1>4. QED
    BY <1>1, <1>2, <1>3 DEF EpochMayOpen

-----------------------------------------------------------------------------
(* The gate over the probes the suite runs itself *)

IsWorld(world) == \A c \in Components : Numbered(world[c].reply.checks)

LEMMA Indices ==
  /\ DOMAIN Specs = {1, 2, 3}
  /\ \A p \in DOMAIN Specs : Specs[p] \in Components
  /\ \A c \in Components : \E p \in DOMAIN Specs : Specs[p] = c
  /\ \A p, q \in DOMAIN Specs : Specs[p] = Specs[q] => p = q
  BY DEF Specs, Components

LEMMA RunProbes ==
  ASSUME NEW world
  PROVE  /\ DOMAIN Run(world).probes = DOMAIN Specs
         /\ Run(world).probes # <<>>
         /\ \A p \in DOMAIN Specs : Run(world).probes[p] = Probe(Specs[p], world[Specs[p]])
         /\ Run(world).ok = AllPass(Run(world).probes)
  <1>1. Run(world).probes = [i \in DOMAIN Specs |-> Probe(Specs[i], world[Specs[i]])]
    BY DEF Run
  <1>2. 1 \in DOMAIN Run(world).probes
    BY <1>1, Indices
  <1>3. Run(world).probes # <<>>
    BY <1>2
  <1>4. QED
    BY <1>1, <1>3 DEF Run

LEMMA RunIsReport ==
  ASSUME NEW world, IsWorld(world)
  PROVE  IsReport(Run(world))
  <1>1. DOMAIN Run(world).probes \subseteq Nat
    BY RunProbes, Indices
  <1>2. ASSUME NEW p \in DOMAIN Run(world).probes
        PROVE  Numbered(Run(world).probes[p].checks)
    <2>1. \A c, w : Probe(c, w).checks \in {w.reply.checks, <<>>}
      BY DEF Probe
    <2>2. Numbered(<<>>)
      BY DEF Numbered
    <2>3. QED
      <3>1. Specs[p] \in Components /\ Run(world).probes[p] = Probe(Specs[p], world[Specs[p]])
        BY RunProbes, Indices
      <3>2. Run(world).probes[p].checks \in {world[Specs[p]].reply.checks, <<>>}
        BY <2>1, <3>1
      <3>3. Numbered(world[Specs[p]].reply.checks)
        BY <3>1 DEF IsWorld
      <3>4. QED
        BY <2>2, <3>2, <3>3
  <1>3. QED
    BY <1>1, <1>2 DEF IsReport

\* A probe passed exactly if its component is there, answered in contract and
\* claims success in its exit status, its body and each of its checks.
Sound(c, w) ==
    /\ w.installed /\ ~w.raised
    /\ w.reply.readable /\ InContract(c, w.reply)
    /\ Passes(w.reply)

LEMMA ProbePasses ==
  ASSUME NEW c, NEW w
  PROVE  /\ Probe(c, w).component = c
         /\ Probe(c, w).status = "pass" <=> Sound(c, w)
         /\ Sound(c, w) => Probe(c, w).checks = w.reply.checks
  BY DEF Probe, ParseStatus, Sound, Passes

LEMMA AllSound ==
  ASSUME NEW world
  PROVE  AllPass(Run(world).probes) <=> \A c \in Components : Sound(c, world[c])
  <1>1. \A p \in DOMAIN Specs :
            Run(world).probes[p].status = "pass" <=> Sound(Specs[p], world[Specs[p]])
    BY RunProbes, ProbePasses
  <1>2. AllPass(Run(world).probes) <=>
            \A p \in DOMAIN Specs : Sound(Specs[p], world[Specs[p]])
    BY <1>1, RunProbes DEF AllPass
  <1>3. QED
    BY <1>2, Indices

\* What the report holds of a component when every probe passed.
LEMMA SoundReport ==
  ASSUME NEW world, IsWorld(world), \A c \in Components : Sound(c, world[c]),
         NEW p \in DOMAIN Specs
  PROVE  /\ Run(world).probes[p].component = Specs[p]
         /\ Run(world).probes[p].status = "pass"
         /\ Run(world).probes[p].checks = world[Specs[p]].reply.checks
         /\ ProbesOf(Run(world), Specs[p]) = {p}
         /\ Owner(Run(world), Specs[p]) = Run(world).probes[p]
  <1>1. \A q \in DOMAIN Specs : Run(world).probes[q].component = Specs[q]
    BY RunProbes, ProbePasses
  <1>2. ProbesOf(Run(world), Specs[p]) = {p}
    <2>1. \A q \in DOMAIN Run(world).probes : Run(world).probes[q].component = Specs[p] <=> q = p
      BY <1>1, RunProbes, Indices
    <2>2. p \in DOMAIN Run(world).probes
      BY RunProbes
    <2>3. QED
      BY <2>1, <2>2 DEF ProbesOf
  <1>3. Owner(Run(world), Specs[p]) = Run(world).probes[p]
    BY <1>2, LastOfOne, Indices DEF Owner
  <1>4. Sound(Specs[p], world[Specs[p]])
    BY Indices
  <1>5. /\ Run(world).probes[p] = Probe(Specs[p], world[Specs[p]])
        /\ Probe(Specs[p], world[Specs[p]]).status = "pass"
        /\ Probe(Specs[p], world[Specs[p]]).checks = world[Specs[p]].reply.checks
    BY <1>4, RunProbes, ProbePasses
  <1>6. QED
    BY <1>1, <1>2, <1>3, <1>5

LEMMA SoundFinds ==
  ASSUME NEW world, IsWorld(world), \A c \in Components : Sound(c, world[c]),
         NEW id, id.of \in Components,
         NEW i \in DOMAIN world[id.of].reply.checks,
         world[id.of].reply.checks[i].id = id
  PROVE  /\ ChecksOf(Run(world), id.of, id) = {i}
         /\ Found(Run(world), id.of, id) = world[id.of].reply.checks[i]
  <1>1. PICK p \in DOMAIN Specs : Specs[p] = id.of
    BY Indices
  <1>2. /\ ProbesOf(Run(world), id.of) = {p}
        /\ Owner(Run(world), id.of).checks = world[id.of].reply.checks
    BY <1>1, SoundReport
  <1>3. \A j \in DOMAIN world[id.of].reply.checks :
            world[id.of].reply.checks[j].id = id => j = i
    BY DEF Sound, InContract
  <1>4. ChecksOf(Run(world), id.of, id) = {i}
    BY <1>2, <1>3 DEF ChecksOf
  <1>5. QED
    BY <1>2, <1>4, LastOfOne DEF Found, IsWorld, Numbered

\* Replies in contract leave no contract finding but one for a padded name: a
\* name belongs to one component, and the reply of each was checked for repeats.
LEMMA SoundContract ==
  ASSUME NEW world, IsWorld(world), \A c \in Components : Sound(c, world[c])
  PROVE  NoContractFinding(Run(world)) <=>
            \A c \in Components : \A i \in DOMAIN world[c].reply.checks :
                ~world[c].reply.checks[i].id.padded
  <1> DEFINE R == Run(world)
  <1>1. \A p \in DOMAIN R.probes :
            /\ R.probes[p].component = Specs[p]
            /\ R.probes[p].checks = world[Specs[p]].reply.checks
    BY RunProbes, SoundReport
  <1>2. \A p \in DOMAIN R.probes :
            /\ R.probes[p].component # ""
            /\ \A q \in DOMAIN R.probes : R.probes[p].component = R.probes[q].component => p = q
    <2>1. \A p \in DOMAIN Specs : Specs[p] # ""
      BY Indices DEF Components
    <2>2. DOMAIN R.probes = DOMAIN Specs
      BY RunProbes
    <2>3. ASSUME NEW p \in DOMAIN R.probes, NEW q \in DOMAIN R.probes,
                 R.probes[p].component = R.probes[q].component
          PROVE  p = q
      BY <1>1, <2>2, <2>3, Indices
    <2>4. QED
      BY <1>1, <2>1, <2>2, <2>3
  <1>3. ASSUME NEW pl \in Places(R)
        PROVE  /\ At(R, pl) = world[Specs[pl[1]]].reply.checks[pl[2]]
               /\ pl[1] \in DOMAIN Specs
               /\ pl[2] \in DOMAIN world[Specs[pl[1]]].reply.checks
               /\ At(R, pl).id.of = Specs[pl[1]]
               /\ At(R, pl).status \in Known \ {"fail"}
    <2>1. /\ pl[1] \in DOMAIN Specs
          /\ Specs[pl[1]] \in Components
          /\ pl[2] \in DOMAIN world[Specs[pl[1]]].reply.checks
          /\ At(R, pl) = world[Specs[pl[1]]].reply.checks[pl[2]]
      <3>1. pl[1] \in DOMAIN R.probes /\ pl[2] \in DOMAIN R.probes[pl[1]].checks
        BY PlaceIs
      <3>2. R.probes[pl[1]].checks = world[Specs[pl[1]]].reply.checks
        BY <1>1, <3>1
      <3>3. pl[1] \in DOMAIN Specs /\ Specs[pl[1]] \in Components
        BY <3>1, RunProbes, Indices
      <3>4. QED
        BY <3>1, <3>2, <3>3 DEF At
    <2>2. Sound(Specs[pl[1]], world[Specs[pl[1]]])
      BY <2>1
    <2> DEFINE checks == world[Specs[pl[1]]].reply.checks
    <2>4. /\ checks[pl[2]].id.of = Specs[pl[1]]
          /\ checks[pl[2]].status \in Known
          /\ checks[pl[2]].status # "fail"
      BY <2>1, <2>2 DEF Sound, InContract, Passes
    <2>5. QED
      BY <2>1, <2>4
  <1>4. ASSUME NEW pl \in Places(R), NEW other \in Places(R), At(R, other).id = At(R, pl).id
        PROVE  other = pl
    <2>1. Specs[other[1]] = Specs[pl[1]] /\ other[1] = pl[1]
      BY <1>3, <1>4, Indices
    <2>2. Sound(Specs[pl[1]], world[Specs[pl[1]]])
      BY <1>3, Indices
    <2>3. other[2] = pl[2]
      <3> DEFINE checks == world[Specs[pl[1]]].reply.checks
      <3>1. \A i, j \in DOMAIN checks : checks[i].id = checks[j].id => i = j
        BY <2>2 DEF Sound, InContract
      <3>2. /\ pl[2] \in DOMAIN checks /\ At(R, pl) = checks[pl[2]]
            /\ other[2] \in DOMAIN checks /\ At(R, other) = checks[other[2]]
        BY <1>3, <2>1
      <3> HIDE DEF checks
      <3>3. QED
        BY <1>4, <3>1, <3>2
    <2>4. QED
      BY <2>1, <2>3, PlaceIs
  <1>5. NoContractFinding(R) <=> \A pl \in Places(R) : ~At(R, pl).id.padded
    <2>1. \A pl \in Places(R) : /\ At(R, pl).id.of = R.probes[pl[1]].component
                                /\ At(R, pl).status \in Known \ {"fail"}
      BY <1>1, <1>3, PlaceIs
    <2>2. \A pl, other \in Places(R) : At(R, other).id = At(R, pl).id => other = pl
      BY <1>4
    <2> HIDE DEF R
    <2>3. QED
      BY <1>2, <2>1, <2>2 DEF NoContractFinding
  <1>6. (\A pl \in Places(R) : ~At(R, pl).id.padded) <=>
            \A c \in Components : \A i \in DOMAIN world[c].reply.checks :
                ~world[c].reply.checks[i].id.padded
    <2>1. ASSUME \A pl \in Places(R) : ~At(R, pl).id.padded,
                 NEW c \in Components, NEW i \in DOMAIN world[c].reply.checks
          PROVE  ~world[c].reply.checks[i].id.padded
      <3>1. PICK p \in DOMAIN Specs : Specs[p] = c
        BY Indices
      <3>2. p \in DOMAIN R.probes /\ R.probes[p].checks = world[c].reply.checks
        BY <1>1, <3>1, RunProbes
      <3>3. <<p, i>> \in Places(R) /\ At(R, <<p, i>>) = world[c].reply.checks[i]
        BY <3>2, PlaceOf
      <3>4. QED
        BY <2>1, <3>3
    <2>2. QED
      BY <2>1, <1>3, Indices
  <1>7. QED
    BY <1>5, <1>6

\* A required behavioural check of a sound reply passed, in its scope.
LEMMA SoundBehaviour ==
  ASSUME NEW world, IsWorld(world), \A c \in Components : Sound(c, world[c]),
         NEW id \in GenesisRequired
  PROVE  BehaviourPassed(Run(world), id)
  <1> DEFINE r == world[id.of].reply
  <1>1. id.of \in Components /\ id \in Required[id.of] /\ id # Measurements
    BY OwnedIds
  <1>2. InContract(id.of, r) /\ r.ok
    BY <1>1 DEF Sound, Passes
  <1>3. PICK i \in DOMAIN r.checks : r.checks[i].id = id
    BY <1>1, <1>2 DEF InContract, Carried
  <1>4. r.checks[i].status = "pass" /\ (id = Boundary => r.checks[i].scoped)
    BY <1>1, <1>2, <1>3 DEF InContract, Success
  <1>5. /\ ChecksOf(Run(world), id.of, id) = {i}
        /\ Found(Run(world), id.of, id) = r.checks[i]
    BY <1>1, <1>3, SoundFinds
  <1>6. Owner(Run(world), id.of).status = "pass"
    BY <1>1, SoundReport, Indices
  <1>7. QED
    BY <1>4, <1>5, <1>6 DEF BehaviourPassed

\* `agent-suite genesis-gate` opens the epoch exactly when the components deserve
\* it: every one is installed, ran, exited 0 and answered in contract, no check
\* failed, and the one set of measurements is of the configured store and
\* project, empty. Nothing more and nothing less: the evaluator's second look at
\* ownership refuses no honest report but one whose extra check names are padded.
THEOREM OpensWhenAdmissible ==
  ASSUME NEW world, IsWorld(world), NEW store, NEW project
  PROVE  EpochMayOpen(Run(world), store, project) <=> Admissible(world, store, project)
  <1> DEFINE AllIn == \A c \in Components : Sound(c, world[c])
             Clean == \A c \in Components : \A i \in DOMAIN world[c].reply.checks :
                          ~world[c].reply.checks[i].id.padded
             Measured == \E i \in DOMAIN world["regista"].reply.checks :
                /\ world["regista"].reply.checks[i].id = Measurements
                /\ NoMeasurementFinding(world["regista"].reply.checks[i], store, project)
  <1>1. Admissible(world, store, project) <=> AllIn /\ Clean /\ Measured
    BY DEF Admissible, Sound, Passes
  <1>2. AllIn <=> Run(world).ok /\ AllPass(Run(world).probes)
    BY AllSound, RunProbes
  <1>3. AllIn => (NoContractFinding(Run(world)) <=> Clean)
    BY SoundContract
  <1>4. AllIn => \A id \in GenesisRequired : BehaviourPassed(Run(world), id)
    BY SoundBehaviour
  <1>5. ASSUME AllIn
        PROVE  Measured <=>
                  /\ ChecksOf(Run(world), "regista", Measurements) # {}
                  /\ NoMeasurementFinding(Found(Run(world), "regista", Measurements),
                                          store, project)
    <2>1. "regista" \in Components /\ Measurements.of = "regista"
          /\ Measurements \in Required["regista"]
      BY DEF Components, Measurements, Id, Required
    <2>2. PICK i \in DOMAIN world["regista"].reply.checks :
              world["regista"].reply.checks[i].id = Measurements
      BY <1>5, <2>1 DEF Sound, InContract, Carried
    <2>3. \A j \in DOMAIN world["regista"].reply.checks :
              world["regista"].reply.checks[j].id = Measurements => j = i
      BY <1>5, <2>1, <2>2 DEF Sound, InContract
    <2>4. /\ ChecksOf(Run(world), "regista", Measurements) = {i}
          /\ Found(Run(world), "regista", Measurements) = world["regista"].reply.checks[i]
      BY <1>5, <2>1, <2>2, SoundFinds
    <2>5. QED
      BY <2>2, <2>3, <2>4
  <1>6. QED
    BY <1>1, <1>2, <1>3, <1>4, <1>5 DEF EpochMayOpen

-----------------------------------------------------------------------------
(* LockAgreement and SpineSymbols *)

\* Each member's directory holds at most one lock.
OneLock(locks, umbrella) ==
    \A m \in Members(umbrella) : \A k, l \in locks[m] : k = l

LEMMA MemberFails ==
  ASSUME NEW member, NEW pin, NEW entry, NEW locks, NEW strict \in BOOLEAN,
         \A k, l \in locks : k = l
  PROVE  CheckMember(member, pin, entry, locks, strict)
              \notin {"disagree", "missing-lock", "identity-mismatch"}
         <=> /\ strict /\ entry # {} => locks # {}
             /\ InAgreement(member, pin, entry, locks)
  <1>1. CASE locks = {}
    BY <1>1 DEF CheckMember, InAgreement
  <1>2. CASE locks # {}
    <2>1. PICK l : l \in locks
      BY <1>2
    <2>2. locks = {l}
      BY <2>1
    <2>3. InAgreement(member, pin, entry, locks) <=>
              l.spine \subseteq pin /\ ~IdentityProblem(member, entry, l)
      BY <2>2 DEF InAgreement, IdentityProblem
    <2>4. (\E k \in locks : IdentityProblem(member, entry, k)) <=>
              IdentityProblem(member, entry, l)
      BY <2>2
    <2>5. /\ (\A k \in locks : k.spine = {}) <=> l.spine = {}
          /\ (\A k \in locks : k.spine \subseteq pin) <=> l.spine \subseteq pin
      BY <2>2
    <2>6. QED
      BY <1>2, <2>3, <2>4, <2>5 DEF CheckMember
  <1>3. QED
    BY <1>1, <1>2

\* check-lock-agreement exits 0 exactly when the umbrella pins a spine, at least
\* one lock was there to check, no lock found pins another spine or names another
\* member or version than the umbrella, and, with --strict, every member with an
\* entry has a lock.
THEOREM AgreementMeansThePin ==
  ASSUME NEW umbrella, NEW locks, NEW strict \in BOOLEAN, OneLock(locks, umbrella)
  PROVE  CheckExit(umbrella, locks, strict) = 0 <=>
            /\ Pin(umbrella) # {}
            /\ Members(umbrella) # {} => \E m \in Members(umbrella) : locks[m] # {}
            /\ \A m \in Members(umbrella) :
                  /\ strict /\ umbrella[m] # {} => locks[m] # {}
                  /\ InAgreement(m, Pin(umbrella), umbrella[m], locks[m])
  <1> DEFINE Bad == {"disagree", "missing-lock", "identity-mismatch"}
             S(m) == CheckMember(m, Pin(umbrella), umbrella[m], locks[m], strict)
  <1>1. HasFailure(CheckAll(umbrella, locks, strict)) <=> \E m \in Members(umbrella) : S(m) \in Bad
    BY DEF HasFailure, CheckAll
  <1>2. \A m \in Members(umbrella) :
            S(m) \notin Bad <=> /\ strict /\ umbrella[m] # {} => locks[m] # {}
                                /\ InAgreement(m, Pin(umbrella), umbrella[m], locks[m])
    BY MemberFails DEF OneLock
  <1>3. CheckExit(umbrella, locks, strict) = 0 <=>
            /\ ~(Members(umbrella) # {} /\ \A m \in Members(umbrella) : locks[m] = {})
            /\ Pin(umbrella) # {}
            /\ ~HasFailure(CheckAll(umbrella, locks, strict))
    BY DEF CheckExit
  <1> HIDE DEF S
  <1>4. QED
    BY <1>1, <1>2, <1>3

-----------------------------------------------------------------------------
(* The spine's symbols *)

LEMMA NeededCandidates ==
  ASSUME NEW top, NEW imports, NEW imp \in imports
  PROVE  /\ Kind(imp) \in {"module", "from_module"}
               => imp.module \in CandidateSubmodules(top, imports)
         /\ Kind(imp) = "from_package" /\ imp.name \notin top
               => <<imp.name>> \in CandidateSubmodules(top, imports)
  BY DEF CandidateSubmodules, Kind

\* The wrapper imports only the submodules candidate_submodules names. Whatever
\* else it might try, as long as it tries these, no verdict changes: not for one
\* sibling's imports, judged with the attributes collected for all of them.
THEOREM CandidatesSuffice ==
  ASSUME NEW spine, NEW all, NEW imports \in SUBSET all, NEW tried,
         CandidateSubmodules(spine.dir, all) \subseteq tried
  PROVE  LET few == Introspected(spine, CandidateSubmodules(spine.dir, all))
             many == Introspected(spine, tried)
         IN  /\ Missing(spine.dir, few, imports) = Missing(spine.dir, many, imports)
             /\ Unverified(few, imports) = Unverified(many, imports)
  <1> DEFINE C == CandidateSubmodules(spine.dir, all)
             few == Introspected(spine, C)
             many == Introspected(spine, tried)
  <1>1. /\ DOMAIN few = C \cap DOMAIN spine.modules
        /\ DOMAIN many = tried \cap DOMAIN spine.modules
        /\ \A m \in DOMAIN few : m \in DOMAIN many /\ few[m] = many[m]
    BY DEF Introspected
  <1>2. ASSUME NEW imp \in imports, Kind(imp) \in {"module", "from_module"}
        PROVE  imp.module \in DOMAIN few <=> imp.module \in DOMAIN many
    BY <1>1, <1>2, NeededCandidates
  <1>3. ASSUME NEW imp \in imports, Kind(imp) = "from_package", imp.name \notin spine.dir
        PROVE  <<imp.name>> \in DOMAIN few <=> <<imp.name>> \in DOMAIN many
    BY <1>1, <1>3, NeededCandidates
  <1> HIDE DEF few, many, C
  <1>4. Unverified(few, imports) = Unverified(many, imports)
    BY <1>2 DEF Unverified
  <1>5. Missing(spine.dir, few, imports) = Missing(spine.dir, many, imports)
    BY <1>1, <1>2, <1>3 DEF Missing
  <1>6. QED
    BY <1>4, <1>5 DEF few, many, C
-----------------------------------------------------------------------------
LEMMA Triedness ==
  ASSUME NEW spine, NEW scanned, NEW member \in DOMAIN scanned, NEW imp \in scanned[member]
  PROVE  LET attrs == Introspected(spine, CandidateSubmodules(spine.dir, AllImports(scanned)))
         IN  /\ Kind(imp) \in {"module", "from_module"} =>
                   (imp.module \in DOMAIN attrs <=> imp.module \in DOMAIN spine.modules)
             /\ Kind(imp) = "from_package" /\ imp.name \notin spine.dir =>
                   (<<imp.name>> \in DOMAIN attrs <=> <<imp.name>> \in DOMAIN spine.modules)
             /\ \A m \in DOMAIN attrs : attrs[m] = spine.modules[m].dir
  <1>1. imp \in AllImports(scanned)
    BY DEF AllImports
  <1>2. QED
    BY <1>1, NeededCandidates DEF Introspected

\* What the gate has against one import, said of the spine itself.
Objection(spine, imp, strict) ==
    \/ /\ Kind(imp) = "module"
       /\ imp.module \notin DOMAIN spine.modules
       /\ ~OnlyReexported(spine, imp)
    \/ Kind(imp) = "from_package" /\ ~Resolves(spine, imp)
    \/ BelowSubmodule(spine, imp)
    \/ strict /\ Kind(imp) = "from_module" /\ imp.module \notin DOMAIN spine.modules

LEMMA FailsAre ==
  ASSUME NEW spine, IsSpine(spine), NEW scanned, NEW member \in DOMAIN scanned,
         NEW strict \in BOOLEAN
  PROVE  LET attrs == Introspected(spine, CandidateSubmodules(spine.dir, AllImports(scanned)))
         IN  Fails(spine, attrs, scanned[member], strict) <=>
                \E imp \in scanned[member] : Objection(spine, imp, strict)
  <1> DEFINE attrs == Introspected(spine, CandidateSubmodules(spine.dir, AllImports(scanned)))
  <1>1. ASSUME NEW imp \in scanned[member]
        PROVE  \/ /\ imp \in Missing(spine.dir, attrs, scanned[member])
                  /\ ActuallyMissing(spine, attrs, imp)
               \/ strict /\ imp \in Unverified(attrs, scanned[member])
               <=> Objection(spine, imp, strict)
    <2>1. /\ Kind(imp) \in {"module", "from_module"} =>
                (imp.module \in DOMAIN attrs <=> imp.module \in DOMAIN spine.modules)
          /\ Kind(imp) = "from_package" /\ imp.name \notin spine.dir =>
                (<<imp.name>> \in DOMAIN attrs <=> <<imp.name>> \in DOMAIN spine.modules)
          /\ \A m \in DOMAIN attrs : attrs[m] = spine.modules[m].dir
      BY Triedness
    <2>2. Kind(imp) \in {"package", "module", "from_package", "from_module"}
      BY DEF Kind
    <2> HIDE DEF attrs
    <2>3. CASE Kind(imp) = "package"
      BY <2>3 DEF Missing, Unverified, Objection, BelowSubmodule
    <2>4. CASE Kind(imp) = "module"
      <3>1. imp.module # Package
        BY <2>4 DEF Kind
      <3>2. imp.module \notin DOMAIN attrs => ActuallyMissing(spine, attrs, imp)
        BY <3>1 DEF ActuallyMissing
      <3>3. imp \in Missing(spine.dir, attrs, scanned[member]) <=>
               /\ imp.module \notin DOMAIN attrs
               /\ imp.module \notin {<<x>> : x \in spine.dir}
        BY <2>4 DEF Missing
      <3>4. imp \notin Unverified(attrs, scanned[member])
        BY <2>4 DEF Unverified
      <3>5. Objection(spine, imp, strict) <=>
               /\ imp.module \notin DOMAIN spine.modules
               /\ imp.module \notin {<<x>> : x \in spine.dir}
        BY <2>4 DEF Objection, BelowSubmodule, OnlyReexported
      <3>6. QED
        BY <2>1, <2>4, <3>2, <3>3, <3>4, <3>5
    <2>5. CASE Kind(imp) = "from_package"
      <3>1. imp.name # Nameless /\ imp.module = Package
        BY <2>5 DEF Kind
      <3>2. ActuallyMissing(spine, attrs, imp) <=> imp.name \notin spine.has
        BY <3>1 DEF ActuallyMissing
      <3>3. imp \in Missing(spine.dir, attrs, scanned[member]) <=>
               imp.name \notin spine.dir /\ <<imp.name>> \notin DOMAIN attrs
        BY <2>5 DEF Missing
      <3>4. imp \notin Unverified(attrs, scanned[member])
        BY <2>5 DEF Unverified
      <3>5. Objection(spine, imp, strict) <=>
               imp.name \notin spine.has /\ <<imp.name>> \notin DOMAIN spine.modules
        BY <2>5 DEF Objection, BelowSubmodule, Resolves
      <3>6. imp.name \in spine.dir => imp.name \in spine.has
        BY DEF IsSpine
      <3>7. QED
        BY <2>1, <2>5, <3>2, <3>3, <3>4, <3>5, <3>6
    <2>6. CASE Kind(imp) = "from_module"
      <3>1. imp.name # Nameless /\ imp.module # Package
        BY <2>6 DEF Kind
      <3>2. ActuallyMissing(spine, attrs, imp) <=>
               ~(imp.module \in DOMAIN attrs /\ imp.name \in spine.modules[imp.module].has)
        BY <3>1 DEF ActuallyMissing
      <3>3. imp \in Missing(spine.dir, attrs, scanned[member]) <=>
               imp.module \in DOMAIN attrs /\ imp.name \notin attrs[imp.module]
        BY <2>6 DEF Missing
      <3>4. imp \in Unverified(attrs, scanned[member]) <=> imp.module \notin DOMAIN attrs
        BY <2>6 DEF Unverified
      <3>5. Objection(spine, imp, strict) <=>
               \/ /\ imp.module \in DOMAIN spine.modules
                  /\ imp.name \notin spine.modules[imp.module].has
               \/ strict /\ imp.module \notin DOMAIN spine.modules
        BY <2>6 DEF Objection, BelowSubmodule
      <3>6. imp.module \in DOMAIN attrs /\ imp.name \in attrs[imp.module]
               => imp.name \in spine.modules[imp.module].has
        BY <2>1, <2>6 DEF IsSpine
      <3>7. QED
        BY <2>1, <2>6, <3>2, <3>3, <3>4, <3>5, <3>6
    <2>7. QED
      BY <2>2, <2>3, <2>4, <2>5, <2>6
  <1>2. \A imp : imp \in Missing(spine.dir, attrs, scanned[member])
                    \/ imp \in Unverified(attrs, scanned[member]) => imp \in scanned[member]
    BY DEF Missing, Unverified
  <1> HIDE DEF attrs
  <1>3. QED
    BY <1>1, <1>2 DEF Fails, attrs

LEMMA ExitIs ==
  ASSUME NEW spine, IsSpine(spine), NEW gone, NEW scanned, NEW strict \in BOOLEAN
  PROVE  GateExit(spine, gone, scanned, strict) = 0 <=>
            /\ AllImports(scanned) # {} => spine.importable
            /\ strict => gone = {}
            /\ \A m \in DOMAIN scanned : \A imp \in scanned[m] : ~Objection(spine, imp, strict)
  <1> DEFINE attrs == Introspected(spine, CandidateSubmodules(spine.dir, AllImports(scanned)))
             Bad(m) == Fails(spine, attrs, scanned[m], strict)
  <1>1. \A m \in DOMAIN scanned :
            Bad(m) <=> \E imp \in scanned[m] : Objection(spine, imp, strict)
    BY FailsAre
  <1>2. GateExit(spine, gone, scanned, strict) = 0 <=>
            /\ ~(AllImports(scanned) # {} /\ ~spine.importable)
            /\ ~(strict /\ gone # {})
            /\ ~\E m \in DOMAIN scanned : Bad(m)
    BY DEF GateExit
  <1> HIDE DEF Bad
  <1>3. QED
    BY <1>1, <1>2

\* Exit status 0 lets a sibling import only what Python finds in the spine, with
\* two exceptions: `import regista.x` where x is an attribute and no module, and,
\* without --strict, a name of a submodule that could not be imported. The first
\* is not how Python resolves it, as missing_symbols says its rules do.
THEOREM ZeroMeansImportable ==
  ASSUME NEW spine, IsSpine(spine), NEW gone, NEW scanned, NEW strict \in BOOLEAN,
         GateExit(spine, gone, scanned, strict) = 0,
         NEW m \in DOMAIN scanned, NEW imp \in scanned[m]
  PROVE  \/ Resolves(spine, imp)
         \/ OnlyReexported(spine, imp)
         \/ ~strict /\ Kind(imp) = "from_module" /\ imp.module \notin DOMAIN spine.modules
  <1>1. ~Objection(spine, imp, strict)
    BY ExitIs
  <1>2. Kind(imp) \in {"package", "module", "from_package", "from_module"}
    BY DEF Kind
  <1>3. QED
    BY <1>1, <1>2 DEF Objection, Resolves, BelowSubmodule

\* It stops no sibling whose imports Python resolves, unless one names, from a
\* submodule, a submodule below it (or, with --strict, a checkout is missing).
THEOREM NoFalseAlarm ==
  ASSUME NEW spine, IsSpine(spine), spine.importable,
         NEW gone, NEW scanned, NEW strict \in BOOLEAN, strict => gone = {},
         \A m \in DOMAIN scanned : \A imp \in scanned[m] :
            Resolves(spine, imp) /\ ~BelowSubmodule(spine, imp)
  PROVE  GateExit(spine, gone, scanned, strict) = 0
  <1>1. ASSUME NEW m \in DOMAIN scanned, NEW imp \in scanned[m]
        PROVE  ~Objection(spine, imp, strict)
    BY DEF Objection, Resolves
  <1>2. QED
    BY <1>1, ExitIs

-----------------------------------------------------------------------------
(* Attestation *)

\* Every file in a directory of wheels has a name and a digest.
IsWheels(wheels) == NoFile \notin DOMAIN wheels /\ \A f \in DOMAIN wheels : wheels[f].sha # None

LEMMA Least ==
  ASSUME NEW M, M \subseteq Nat, M # {}
  PROVE  \E k \in M : \A j \in M : k <= j
  <1> DEFINE R == OpToRel(<, Nat)
  <1>1. IsWellFoundedOn(R, Nat)
    BY NatLessThanWellFounded
  <1>2. \A x, y \in Nat : x < y => <<x, y>> \in R
    BY DEF OpToRel
  <1> HIDE DEF R
  <1>3. PICK k \in M : \A j \in M : <<j, k>> \notin R
    BY <1>1, WFMin
  <1>4. ASSUME NEW j \in M
        PROVE  k <= j
    <2>1. j \in Nat /\ k \in Nat /\ ~(j < k)
      BY <1>2, <1>3
    <2>2. QED
      BY <2>1
  <1>5. QED
    BY <1>4

LEMMA PreferredIsFound ==
  ASSUME NEW found, found # {}
  PROVE  Preferred(found) \in found
  BY DEF Preferred

LEMMA CollectedIsThere ==
  ASSUME NEW wheels, NEW names, DOMAIN names \subseteq Nat, NEW version,
         Collected(wheels, names, version) # NoFile
  PROVE  /\ Collected(wheels, names, version) \in DOMAIN wheels
         /\ Collected(wheels, names, version).version = version
         /\ \E i \in DOMAIN names : Collected(wheels, names, version).dist = names[i]
  <1> DEFINE M == Matching(wheels, names, version)
  <1>1. M # {} /\ M \subseteq Nat /\ M \subseteq DOMAIN names
    BY DEF Collected, Matching
  <1>2. \E k \in M : \A j \in M : k <= j
    BY <1>1, Least
  <1>3. PICK i \in M : Collected(wheels, names, version)
                          = Preferred(Candidates(wheels, names[i], version))
    <2> DEFINE i == CHOOSE k \in M : \A j \in M : k <= j
    <2>1. i \in M
      BY <1>2
    <2>2. Collected(wheels, names, version) = Preferred(Candidates(wheels, names[i], version))
      BY <1>1 DEF Collected
    <2>3. QED
      BY <2>1, <2>2
  <1>4. Candidates(wheels, names[i], version) # {}
    BY <1>3 DEF Matching
  <1>5. Collected(wheels, names, version) \in Candidates(wheels, names[i], version)
    BY <1>3, <1>4, PreferredIsFound
  <1>6. QED
    BY <1>1, <1>5 DEF Candidates

\* A manifest built over a directory of wheels verifies against it, and the wheel
\* it names for a component has the pinned version and one of the component's
\* distribution names: release-manifest build and verify agree.
THEOREM BuiltManifestVerifies ==
  ASSUME NEW lock, NEW umbrella, NEW wheels, IsWheels(wheels),
         \A c \in DOMAIN lock.pins : DOMAIN lock.pins[c].names \subseteq Nat,
         \A u \in umbrella : DOMAIN u.names \subseteq Nat,
         NEW manifest \in BuildManifest(lock, umbrella, wheels)
  PROVE  /\ WheelsVerify(manifest, wheels)
         /\ \A e \in manifest :
               e.sha # None => e.filename \in DOMAIN wheels /\ e.filename.version = e.version
  <1>1. ASSUME NEW ident, NEW version, NEW names, DOMAIN names \subseteq Nat
        PROVE  LET e == Expectation(ident, version, names, wheels)
               IN  /\ ~WheelFails(e, wheels)
                   /\ e.sha # None =>
                         e.filename \in DOMAIN wheels /\ e.filename.version = e.version
    <2> DEFINE file == Collected(wheels, names, version)
               e == Expectation(ident, version, names, wheels)
    <2>1. e.filename = file /\ e.version = version
          /\ e.sha = IF file = NoFile THEN None ELSE wheels[file].sha
      BY DEF Expectation
    <2>2. file # NoFile => file \in DOMAIN wheels /\ file.version = version
      BY <1>1, CollectedIsThere
    <2> HIDE DEF file, e
    <2>3. ~WheelFails(e, wheels) /\ (e.sha # None =>
             e.filename \in DOMAIN wheels /\ e.filename.version = e.version)
      BY <2>1, <2>2 DEF WheelFails
    <2>4. QED
      BY <2>3 DEF e
  <1>2. \A e \in manifest :
            \/ \E c \in DOMAIN lock.pins :
                  e = Expectation(c, lock.pins[c].version, lock.pins[c].names, wheels)
            \/ \E u \in umbrella : e = Expectation(u.ident, u.version, u.names, wheels)
    BY DEF BuildManifest
  <1>3. QED
    BY <1>1, <1>2 DEF WheelsVerify

-----------------------------------------------------------------------------
(* One component *)

LEMMA BoundIsAttested ==
  ASSUME NEW e, NEW p, NEW host, Binds(AttestComponent(e, p, host))
  PROVE  /\ p.mode \notin {"absent", "unknown"} /\ p.source \notin {"editable", "local", "vcs"}
         /\ AttestComponent(e, p, host).ok
         /\ AttestComponent(e, p, host).strength = Strength(e, p, host)
         /\ RungBinds(Strength(e, p, host)) /\ Gaps(e, p, host) = {}
         /\ ~Mismatched(e, p, host)
  <1>1. p.mode \notin {"absent", "unknown"} /\ p.source \notin {"editable", "local", "vcs"}
    BY DEF Binds, AttestComponent, Answer, RungBinds
  <1>2. AttestComponent(e, p, host)
          = Answer(e, Strength(e, p, host), ~Mismatched(e, p, host), Gaps(e, p, host))
    BY <1>1 DEF AttestComponent
  <1>3. RungBinds(Strength(e, p, host)) /\ Gaps(e, p, host) = {}
    BY <1>2 DEF Binds, Answer
  <1>4. ~Mismatched(e, p, host)
    BY <1>3 DEF Strength, RungBinds
  <1>5. /\ AttestComponent(e, p, host).ok = ~Mismatched(e, p, host)
        /\ AttestComponent(e, p, host).strength = Strength(e, p, host)
    <2>1. \A strength, ok, gaps :
             /\ Answer(e, strength, ok, gaps).ok = ok
             /\ Answer(e, strength, ok, gaps).strength = strength
      BY DEF Answer
    <2>2. QED
      BY <1>2, <2>1
  <1>6. QED
    BY <1>1, <1>3, <1>4, <1>5

\* A component that binds has the manifest's version and, by the bytes of a wheel
\* at hand or by what its installer recorded, the manifest's digest.
THEOREM BindingIsIdentity ==
  ASSUME NEW e, NEW p, NEW host, Binds(AttestComponent(e, p, host))
  PROVE  /\ p.version = e.version /\ e.sha # None
         /\ p.archiveSha \in {None, e.sha}
         /\ \/ p.archiveSha = e.sha
            \/ \E w \in WheelFound(e, host) : w.sha = e.sha
  <1>1. RungBinds(Strength(e, p, host)) /\ ~Mismatched(e, p, host)
    BY BoundIsAttested
  <1>2. p.version = e.version /\ (e.sha # None => p.archiveSha \in {None, e.sha})
    BY <1>1 DEF Mismatched
  <1>3. CASE ReleaseWheel(e, host) # {}
    <2>1. e.sha # None /\ \E w \in WheelFound(e, host) : w.sha = e.sha
      BY <1>3 DEF ReleaseWheel, WheelFound
    <2>2. QED
      BY <1>2, <2>1
  <1>4. CASE ReleaseWheel(e, host) = {}
    <2>1. e.sha # None /\ p.archiveSha = e.sha
      BY <1>1, <1>4 DEF Strength, RungBinds
    <2>2. QED
      BY <1>2, <2>1
  <1>5. QED
    BY <1>3, <1>4

LEMMA OneWheel ==
  ASSUME NEW e, NEW host, NEW w \in ReleaseWheel(e, host)
  PROVE  ReleaseWheel(e, host) = {w}
  BY DEF ReleaseWheel, WheelFound

LEMMA NoTreeGap ==
  ASSUME NEW d, NEW wheel, TreeGaps(d, wheel) = {}
  PROVE  /\ Relocated(Rows(d, wheel)) = {} /\ Blank(Rows(d, wheel)) = {}
         /\ Unrecorded(d) = {}
         /\ wheel # {} => Scripts(d) = {}
         /\ d.pth \subseteq d.accounted
  <1>1. "relocated_data" \notin TreeGaps(d, wheel) /\ "bytecode_cache" \notin TreeGaps(d, wheel)
        /\ "blank_digest" \notin TreeGaps(d, wheel) /\ "unrecorded_file" \notin TreeGaps(d, wheel)
        /\ "installer_generated" \notin TreeGaps(d, wheel)
        /\ "site_customization" \notin TreeGaps(d, wheel)
    OBVIOUS
  <1>2. Relocated(Rows(d, wheel)) = {}
    BY <1>1 DEF TreeGaps
  <1>3. \A x \in Blank(Rows(d, wheel)) \cup Unrecorded(d) : x.kind # "pyc"
    BY <1>1 DEF TreeGaps
  <1>4. \A x \in Blank(Rows(d, wheel)) : x.kind = "pyc"
    BY <1>1 DEF TreeGaps
  <1>5. \A x \in Unrecorded(d) : x.kind = "pyc"
    BY <1>1 DEF TreeGaps
  <1>6. (wheel # {} => Scripts(d) = {}) /\ d.pth \subseteq d.accounted
    BY <1>1 DEF TreeGaps
  <1>7. Blank(Rows(d, wheel)) = {} /\ Unrecorded(d) = {}
    BY <1>3, <1>4, <1>5
  <1>8. QED
    BY <1>2, <1>6, <1>7

\* A component that binds while its release wheel is at hand: every file the wheel
\* ships is there with the wheel's digest, every other file of the directories the
\* installation owns has the digest the installation recorded, but for those that
\* cannot be walked and the RECORDs themselves, every .pth of the environment is
\* some distribution's, and the component has no console script: its body is
\* covered by no digest.
THEOREM ChainCovers ==
  ASSUME NEW e, NEW p, NEW host, Binds(AttestComponent(e, p, host)),
         NEW w \in ReleaseWheel(e, host), NEW d \in Tree(p)
  PROVE  /\ \A x \in DOMAIN w.record \ {w.recordName} :
               /\ x \in DOMAIN d.disk
               /\ d.disk[x] = w.record[x] /\ w.record[x] # None
         /\ \A x \in DOMAIN d.disk :
               /\ x.dir \in OwnedDirectories(d) \ d.unwalkable
               /\ x \notin {w.recordName, d.recordName}
               => d.disk[x] = IF x \in DOMAIN w.record THEN w.record[x] ELSE Install(d)[x]
         /\ d.pth \subseteq d.accounted
         /\ Scripts(d) = {}
  <1> DEFINE rows == Rows(d, {w})
  <1>1. ReleaseWheel(e, host) = {w}
    BY OneWheel
  <1>2. Gaps(e, p, host) = {} /\ ~Mismatched(e, p, host)
    BY BoundIsAttested
  <1>3. TreeGaps(d, {w}) = {}
    BY <1>1, <1>2 DEF Gaps
  <1>4. /\ Relocated(rows) = {} /\ Blank(rows) = {} /\ Unrecorded(d) = {}
        /\ Scripts(d) = {} /\ d.pth \subseteq d.accounted
    BY <1>3, NoTreeGap
  <1>5. \A x \in DOMAIN rows : x \in Hashed(rows) /\ rows[x] # None
    BY <1>4 DEF Hashed, Blank
  <1>6. \A x \in Hashed(rows) : Holds(d, rows, x)
    BY <1>1, <1>2 DEF Mismatched
  <1>7. \A x \in DOMAIN rows : x \in DOMAIN d.disk /\ d.disk[x] = rows[x] /\ rows[x] # None
    BY <1>5, <1>6 DEF Holds
  <1>8. /\ \A x : x \in DOMAIN rows <=>
               \/ x \in DOMAIN w.record /\ x # w.recordName
               \/ x \in DOMAIN Install(d) /\ x \notin DOMAIN w.record /\ x # d.recordName
        /\ \A x \in DOMAIN rows :
               rows[x] = IF x \in DOMAIN w.record THEN w.record[x] ELSE Install(d)[x]
    <2>1. Shipped({w}) = DOMAIN w.record /\ Own({w}) = {w.recordName}
      BY DEF Shipped, Own
    <2>2. (CHOOSE v \in {w} : TRUE) = w
      OBVIOUS
    <2>3. QED
      BY <2>1, <2>2 DEF Rows
  <1> HIDE DEF rows
  <1>9. ASSUME NEW x \in DOMAIN d.disk, x.dir \in OwnedDirectories(d) \ d.unwalkable,
               x \notin {w.recordName, d.recordName}
        PROVE  d.disk[x] = IF x \in DOMAIN w.record THEN w.record[x] ELSE Install(d)[x]
    <2>1. x \in DOMAIN Install(d)
      BY <1>4, <1>9 DEF Unrecorded
    <2>2. x \in DOMAIN rows
      BY <1>8, <1>9, <2>1
    <2>3. QED
      BY <1>7, <1>8, <2>2
  <1>10. \A x \in DOMAIN w.record \ {w.recordName} :
            x \in DOMAIN d.disk /\ d.disk[x] = w.record[x] /\ w.record[x] # None
    BY <1>7, <1>8
  <1>11. QED
    BY <1>4, <1>9, <1>10

-----------------------------------------------------------------------------
(* The whole host *)

\* The component is on this host by the installer's record, and not as a release
\* wheel: an editable, local or version-control installation, or none at all.
NoReleaseInstall(e, host) ==
    /\ e.ident \in DOMAIN host.provenance
    /\ \/ host.provenance[e.ident].mode = "absent"
       \/ host.provenance[e.ident].source \in {"editable", "local", "vcs"}

LEMMA AttestedStrength ==
  ASSUME NEW e, NEW host
  PROVE  /\ Attested(e, host).strength = "not_applicable" => NoReleaseInstall(e, host)
         /\ Attested(e, host).strength \in {"not_applicable", "no_provenance"}
            \/ /\ e.ident \in DOMAIN host.provenance
               /\ Attested(e, host) = AttestComponent(e, host.provenance[e.ident], host)
               /\ ~NoReleaseInstall(e, host) /\ host.provenance[e.ident].mode # "unknown"
  <1> DEFINE p == host.provenance[e.ident]
  <1>1. CASE e.ident \notin DOMAIN host.provenance
    BY <1>1 DEF Attested, Answer
  <1>2. CASE e.ident \in DOMAIN host.provenance
    <2>1. Attested(e, host) = AttestComponent(e, p, host)
      BY <1>2 DEF Attested
    <2>2. CASE NoReleaseInstall(e, host) \/ p.mode = "unknown"
      <3>1. AttestComponent(e, p, host).strength \in {"not_applicable", "no_provenance"}
        BY <2>2 DEF AttestComponent, Answer, NoReleaseInstall
      <3>2. AttestComponent(e, p, host).strength = "not_applicable" => NoReleaseInstall(e, host)
        BY <1>2, <2>2 DEF AttestComponent, Answer, NoReleaseInstall
      <3>3. QED
        BY <2>1, <3>1, <3>2
    <2>3. CASE ~NoReleaseInstall(e, host) /\ p.mode # "unknown"
      <3>1. AttestComponent(e, p, host).strength = Strength(e, p, host)
        BY <1>2, <2>3 DEF AttestComponent, Answer, NoReleaseInstall
      <3>2. Strength(e, p, host) # "not_applicable"
        BY DEF Strength
      <3>3. QED
        BY <1>2, <2>1, <2>3, <3>1, <3>2
    <2>4. QED
      BY <2>2, <2>3
  <1>3. QED
    BY <1>1, <1>2

\* verify --installed --require-binding is green only on a host where something
\* binds, and where each constituent either has the manifest's version and digest
\* or is no installed release wheel at all; with the wheels at hand, the wheel of
\* each of the latter is the manifest's.
THEOREM GreenIsBound ==
  ASSUME NEW manifest, NEW host, InstalledOk(manifest, host, TRUE)
  PROVE  /\ \E e \in manifest : Binds(Attested(e, host))
         /\ \A e \in manifest :
               \/ /\ e.ident \in DOMAIN host.provenance
                  /\ Binds(Attested(e, host))
                  /\ host.provenance[e.ident].version = e.version /\ e.sha # None
               \/ /\ NoReleaseInstall(e, host)
                  /\ host.given => ~WheelFails(e, host.wheels)
  <1>1. PICK c \in Considered(manifest, host) : TRUE
    BY DEF InstalledOk
  <1>2. \A e \in Considered(manifest, host) : Binds(Attested(e, host))
    BY DEF InstalledOk, Unbound
  <1>3. c \in manifest /\ Binds(Attested(c, host))
    BY <1>1, <1>2 DEF Considered
  <1>4. ASSUME NEW e \in manifest, e \in Considered(manifest, host)
        PROVE  /\ e.ident \in DOMAIN host.provenance
               /\ Binds(Attested(e, host))
               /\ host.provenance[e.ident].version = e.version /\ e.sha # None
    <2>1. Binds(Attested(e, host))
      BY <1>2, <1>4
    <2>2. Attested(e, host).strength \notin {"not_applicable", "no_provenance"}
      BY <2>1 DEF Binds, RungBinds
    <2>3. /\ e.ident \in DOMAIN host.provenance
          /\ Attested(e, host) = AttestComponent(e, host.provenance[e.ident], host)
      BY <2>2, AttestedStrength
    <2>4. host.provenance[e.ident].version = e.version /\ e.sha # None
      BY <2>1, <2>3, BindingIsIdentity
    <2>5. QED
      BY <2>1, <2>3, <2>4
  <1>5. ASSUME NEW e \in manifest, e \notin Considered(manifest, host)
        PROVE  NoReleaseInstall(e, host) /\ (host.given => ~WheelFails(e, host.wheels))
    <2>1. Attested(e, host).strength = "not_applicable"
      BY <1>5 DEF Considered
    <2>2. e \in NotHere(manifest, host)
      BY <2>1 DEF NotHere
    <2>3. QED
      BY <2>1, <2>2, AttestedStrength DEF InstalledOk
  <1>6. QED
    BY <1>3, <1>4, <1>5

\* verify --installed --wheels-dir does not include what verify --wheels-dir
\* checks: a wheel the latter refuses passes the former when it is missing from
\* the directory and its component is installed.
THEOREM SupersetButForMissing ==
  ASSUME NEW manifest, NEW host, IsWheels(host.wheels), host.given,
         NEW require, InstalledOk(manifest, host, require),
         NEW e \in manifest, WheelFails(e, host.wheels)
  PROVE  /\ e.filename \notin DOMAIN host.wheels
         /\ e.ident \in DOMAIN host.provenance
         /\ ~NoReleaseInstall(e, host)
  <1>1. e \notin NotHere(manifest, host)
    BY DEF InstalledOk
  <1>2. /\ e.ident \in DOMAIN host.provenance
        /\ Attested(e, host) = AttestComponent(e, host.provenance[e.ident], host)
        /\ ~NoReleaseInstall(e, host) /\ host.provenance[e.ident].mode # "unknown"
    BY <1>1, AttestedStrength DEF NotHere
  <1> DEFINE p == host.provenance[e.ident]
  <1>3. ~Mismatched(e, p, host)
    <2>1. AttestComponent(e, p, host)
            = Answer(e, Strength(e, p, host), ~Mismatched(e, p, host), Gaps(e, p, host))
      BY <1>2 DEF AttestComponent, NoReleaseInstall
    <2>2. AttestComponent(e, p, host).ok = ~Mismatched(e, p, host)
      <3>1. \A strength, ok, gaps : Answer(e, strength, ok, gaps).ok = ok
        BY DEF Answer
      <3>2. QED
        BY <2>1, <3>1
    <2>3. Attested(e, host).ok
      BY DEF InstalledOk
    <2>4. QED
      BY <1>2, <2>2, <2>3
  <1>4. ASSUME e.filename \in DOMAIN host.wheels
        PROVE  FALSE
    <2>1. e.sha # None /\ host.wheels[e.filename].sha # e.sha
      BY <1>4 DEF WheelFails
    <2>2. WheelFound(e, host) = {host.wheels[e.filename]}
      BY <1>4, <2>1 DEF WheelFound, IsWheels
    <2>3. ReleaseWheel(e, host) = {}
      BY <2>1, <2>2 DEF ReleaseWheel
    <2>4. QED
      BY <1>3, <2>2, <2>3 DEF Mismatched
  <1>5. QED
    BY <1>2, <1>4
=============================================================================

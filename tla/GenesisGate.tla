---------------------------- MODULE GenesisGate ----------------------------
(***************************************************************************)
(* The admission gate before a store's first event (genesis_gate.py): three *)
(* components' own probes are run and their replies parsed into a report,   *)
(* and a pure evaluator, which also accepts reports it did not make, decides *)
(* whether the epoch may open.                                             *)
(*                                                                         *)
(* A check identifier is abstracted to the namespace it is written in, the  *)
(* rest of its name, and whether it has blanks around it; the parts of a    *)
(* reply that are only well-formed or not, to `readable`; the actor-boundary *)
(* claim to whether it is exactly the `scoped` one; a project's figures to   *)
(* the pre-genesis conditions they `break`.                                *)
(***************************************************************************)
EXTENDS Naturals, Sequences

Absent == "none"
Components == {"regista", "cairn", "agent-notes"}
Specs == <<"regista", "cairn", "agent-notes">>

Id(c, n) == [of |-> c, name |-> n, padded |-> FALSE]
NoId == Id("", "")                    \* not a string, or a blank one
Measurements == Id("regista", "store_invariant_measurements")
Boundary == Id("regista", "actor_boundary_signing")

Required ==
    [c \in Components |->
        CASE c = "regista" ->
               {Measurements, Boundary, Id(c, "load_bearing_fields_refused"),
                Id(c, "closed_lineage_registry"), Id(c, "first_write_admission")}
          [] c = "cairn" ->
               {Id(c, "runtime_model_observed"), Id(c, "unavailable_model_named"),
                Id(c, "observation_failure_nonblocking")}
          [] c = "agent-notes" -> {Id(c, "session_identity_resolvable")}]

GenesisRequired == (UNION {Required[c] : c \in Components}) \ {Measurements}

Known == {"pass", "measured", "fail"}
Success(id) == IF id = Measurements THEN "measured" ELSE "pass"

-----------------------------------------------------------------------------
(* The probes *)

Carried(checks) == {checks[i].id : i \in DOMAIN checks}

InContract(c, r) ==
    /\ \A i \in DOMAIN r.checks :
          /\ r.checks[i].status \in Known
          /\ r.checks[i].id # NoId
          /\ r.checks[i].id.of = c
          /\ r.checks[i].id = Boundary => r.checks[i].scoped
          /\ r.ok /\ r.checks[i].id \in Required[c]
                => r.checks[i].status = Success(r.checks[i].id)
    /\ \A i, j \in DOMAIN r.checks : r.checks[i].id = r.checks[j].id => i = j
    /\ Required[c] \subseteq Carried(r.checks)

Passes(r) ==
    /\ r.ok
    /\ \A i \in DOMAIN r.checks : r.checks[i].status # "fail"
    /\ r.exit = 0

ParseStatus(c, r) ==
    IF ~(r.readable /\ InContract(c, r)) THEN "malformed"
    ELSE IF r.exit \notin {0, 1} THEN "error"
    ELSE IF Passes(r) THEN "pass" ELSE "fail"

Probe(c, w) ==
    [component |-> c,
     status |-> IF ~w.installed THEN "missing"
                ELSE IF w.raised THEN "error" ELSE ParseStatus(c, w.reply),
     checks |-> IF w.installed /\ ~w.raised /\ w.reply.readable
                THEN w.reply.checks ELSE <<>>]

AllPass(probes) == probes # <<>> /\ \A p \in DOMAIN probes : probes[p].status = "pass"

Run(world) ==
    LET probes == [i \in DOMAIN Specs |-> Probe(Specs[i], world[Specs[i]])]
    IN  [ok |-> AllPass(probes), probes |-> probes]

-----------------------------------------------------------------------------
(* The evaluator *)

\* The dictionaries the evaluator builds keep the last entry of each name.
LastOf(at) == CHOOSE i \in at : \A j \in at : j <= i
ProbesOf(report, c) == {p \in DOMAIN report.probes : report.probes[p].component = c}
Owner(report, c) == report.probes[LastOf(ProbesOf(report, c))]
ChecksOf(report, c, id) ==
    IF ProbesOf(report, c) = {} THEN {}
    ELSE {i \in DOMAIN Owner(report, c).checks : Owner(report, c).checks[i].id = id}
Found(report, c, id) == Owner(report, c).checks[LastOf(ChecksOf(report, c, id))]

Places(report) ==
    UNION {{p} \X DOMAIN report.probes[p].checks : p \in DOMAIN report.probes}
At(report, pl) == report.probes[pl[1]].checks[pl[2]]

NoContractFinding(report) ==
    /\ \A p \in DOMAIN report.probes :
          /\ report.probes[p].component # ""
          /\ \A q \in DOMAIN report.probes :
                report.probes[p].component = report.probes[q].component => p = q
    /\ \A pl \in Places(report) :
          /\ ~At(report, pl).id.padded
          /\ At(report, pl).id.of = report.probes[pl[1]].component
          /\ At(report, pl).status \in Known \ {"fail"}
          /\ \A other \in Places(report) :
                At(report, other).id = At(report, pl).id => other = pl

RowsOf(check, project) == {i \in DOMAIN check.projects : check.projects[i].project = project}

NoMeasurementFinding(check, store, project) ==
    /\ check.status = "measured"
    /\ check.errors = {}
    /\ store # Absent /\ check.store = store
    /\ project # Absent
    /\ \E i \in DOMAIN check.projects :
          /\ RowsOf(check, project) = {i}
          /\ check.projects[i].snapshot # Absent
          /\ check.projects[i].breaks = {}

BehaviourPassed(report, id) ==
    /\ ChecksOf(report, id.of, id) # {}
    /\ Owner(report, id.of).status = "pass"
    /\ Found(report, id.of, id).status = "pass"
    /\ id = Boundary => Found(report, id.of, id).scoped

EpochMayOpen(report, store, project) ==
    /\ report.ok
    /\ AllPass(report.probes)
    /\ NoContractFinding(report)
    /\ ChecksOf(report, "regista", Measurements) # {}
    /\ NoMeasurementFinding(Found(report, "regista", Measurements), store, project)
    /\ \A id \in GenesisRequired : BehaviourPassed(report, id)

-----------------------------------------------------------------------------
(* What the gate promises *)

\* The check's identifier occurs once in the whole report, whoever made it, in
\* the only entry of the component that owns it.
OnlyAt(report, id, pl) ==
    /\ pl \in Places(report)
    /\ At(report, pl).id = id
    /\ report.probes[pl[1]].component = id.of
    /\ \A other \in Places(report) : At(report, other).id = id => other = pl
    /\ ProbesOf(report, id.of) = {pl[1]}

\* What must be true of the components themselves for the epoch to open.
Admissible(world, store, project) ==
    /\ \A c \in Components :
          /\ world[c].installed /\ ~world[c].raised
          /\ world[c].reply.readable /\ world[c].reply.ok /\ world[c].reply.exit = 0
          /\ InContract(c, world[c].reply)
          /\ \A i \in DOMAIN world[c].reply.checks :
                /\ world[c].reply.checks[i].status # "fail"
                /\ ~world[c].reply.checks[i].id.padded
    /\ \E i \in DOMAIN world["regista"].reply.checks :
          /\ world["regista"].reply.checks[i].id = Measurements
          /\ NoMeasurementFinding(world["regista"].reply.checks[i], store, project)
=============================================================================

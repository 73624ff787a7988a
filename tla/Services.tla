------------------------------ MODULE Services ------------------------------
(***************************************************************************)
(* `agent-suite install-services` (src/agent_suite/services.py): each      *)
(* component that declares an OS service is asked to install it, and       *)
(* systemd is asked whether it stays up.  The component's own word is      *)
(* reported and never believed, except for a removal.                      *)
(***************************************************************************)
EXTENDS Naturals, Sequences, SequencesExt

CONSTANTS
    Units,          \* the service units, in the order of COMPONENTS
    MaxSvcMishaps      \* bound on failing calls, kills and dying services together

UnitSet == ToSet(Units)

ASSUME ServicesAssumption ==
    /\ Units \in Seq(UnitSet) /\ Units # <<>> /\ IsInjective(Units)
    /\ MaxSvcMishaps \in Nat

VARIABLES
    unit,       \* [UnitSet -> what systemd shows of it]
    program,    \* [UnitSet -> where the component's program is found]
    svc,        \* the one command
    svcMishaps

svcVars == <<unit, program, svc, svcMishaps>>

States == {"absent", "active", "activating", "inactive"}
SvcStatuses == {"installed", "removed", "cli_missing", "non_system_scope",
                "unsupported", "failed"}
NoSvc == [verdict |-> "none", uninstall |-> FALSE, at |-> "locate", results |-> <<>>,
          died |-> FALSE]

\* counted: systemd knows the property NRestarts; one that does not prints nothing.
ServicesTypeOK ==
    /\ unit \in [UnitSet -> [state : States, restarts : Nat, counted : BOOLEAN]]
    /\ program \in [UnitSet -> {"system", "user", "none"}]
    /\ svc.verdict \in {"none", "running", "ok", "not_ok"} /\ svc.uninstall \in BOOLEAN
    /\ svc.at \in {"locate", "run", "look", "settle", "count"}
    /\ ToSet(svc.results) \subseteq SvcStatuses /\ svc.died \in BOOLEAN
    /\ svc.verdict = "running" => Len(svc.results) < Len(Units)
    /\ svcMishaps \in 0 .. MaxSvcMishaps

ServicesInit ==
    /\ \E counted \in BOOLEAN :
          unit = [u \in UnitSet |-> [state |-> "absent", restarts |-> 0, counted |-> counted]]
    /\ program \in [UnitSet -> {"system", "user", "none"}]
    /\ svc = NoSvc /\ svcMishaps = 0

SvcMishap == svcMishaps < MaxSvcMishaps /\ svcMishaps' = svcMishaps + 1
SvcNormally(normal) == IF normal THEN UNCHANGED svcMishaps ELSE SvcMishap

This == Units[Len(svc.results) + 1]
SvcAt(at) == svc.verdict = "running" /\ svc.at = at
Onward(at) == svc' = [svc EXCEPT !.at = at]

Over(results) == IF ToSet(results) \subseteq {"installed", "removed"} THEN "ok" ELSE "not_ok"

\* Mutant: the last component is not noticed to be the last.
Conclusion_OneMore(status) ==
    LET results == Append(svc.results, status) IN
    svc' = [svc EXCEPT !.results = results, !.at = "locate", !.died = FALSE,
              !.verdict = IF Len(results) <= Len(Units) THEN "running" ELSE Over(results)]

\* _OK_STATUSES, ServicesReport.ok: every component is asked, whatever became of the others.
Conclusion(status) ==
    LET results == Append(svc.results, status) IN
    svc' = [svc EXCEPT !.results = results, !.at = "locate", !.died = FALSE,
              !.verdict = IF Len(results) < Len(Units) THEN "running" ELSE Over(results)]

SvcBegin(uninstall) ==
    /\ svc.verdict # "running"
    /\ svc' = [NoSvc EXCEPT !.verdict = "running", !.uninstall = uninstall]
    /\ UNCHANGED <<unit, program, svcMishaps>>

\* _locate_cli, is_system_scoped_bin_dir: a root service is not anchored in a directory a
\* user can write.
Locate ==
    /\ SvcAt("locate")
    /\ CASE program[This] = "none" -> Conclusion("cli_missing")
         [] program[This] = "user" -> Conclusion("non_system_scope")
         [] OTHER                  -> Onward("run")
    /\ UNCHANGED <<unit, program, svcMishaps>>

\* The component's install-service: a unit that runs already may be left to run, with the
\* restarts it has behind it.
Effect(u, worked) ==
    IF ~worked THEN {unit[u]}
    ELSE IF svc.uninstall THEN {[unit[u] EXCEPT !.state = "absent"]}
    ELSE {[unit[u] EXCEPT !.state = "active", !.restarts = 0]}
           \cup (IF unit[u].state = "active" THEN {unit[u]} ELSE {})

\* Exit code 2 is a component without the command; -1 is a program that could not be run.
RunInstaller ==
    /\ SvcAt("run")
    /\ \E worked \in BOOLEAN, exit \in {-1, 0, 1, 2} :
          /\ SvcNormally(worked /\ exit = 0)
          /\ exit = 2 => ~worked
          /\ \E after \in Effect(This, worked) : unit' = [unit EXCEPT ![This] = after]
          /\ IF exit = 0
             THEN IF svc.uninstall THEN Conclusion("removed") ELSE Onward("look")
             ELSE Conclusion(IF exit = 2 THEN "unsupported" ELSE "failed")
    /\ UNCHANGED program

\* _verify_active: active, and active again after the settle time...
IsActive(at, next) ==
    /\ SvcAt(at)
    /\ \E readable \in BOOLEAN :
          /\ SvcNormally(readable)
          /\ IF readable /\ unit[This].state = "active" THEN Onward(next)
             ELSE Conclusion("failed")
    /\ UNCHANGED <<unit, program>>
FirstLook == IsActive("look", "settle")
SecondLook == IsActive("settle", "count")

\* Mutant: that it is active again is taken for never having stopped.
Flapping_Never(shown) == FALSE

\* ...and systemd has not had to restart it.
Flapping(shown) == shown \notin {"", "0"}
Shown(u) == IF ~u.counted THEN "" ELSE IF u.restarts = 0 THEN "0" ELSE "more"
Count ==
    /\ SvcAt("count")
    /\ \E readable \in BOOLEAN :
          /\ SvcNormally(readable)
          /\ Conclusion(IF readable /\ ~Flapping(Shown(unit[This])) THEN "installed"
                        ELSE "failed")
    /\ UNCHANGED <<unit, program>>

\* A service dies, and systemd starts it again.
Dies(u) ==
    /\ unit[u].state = "active" /\ SvcMishap
    /\ \E to \in {"activating", "inactive"} : unit' = [unit EXCEPT ![u].state = to]
    /\ svc' = [svc EXCEPT !.died = @ \/ (svc.at \in {"look", "settle"} /\ svc.verdict = "running"
                                          /\ u = This)]
    /\ UNCHANGED program
IsRestarted(u) ==
    /\ unit[u].state = "activating"
    /\ unit' = [unit EXCEPT ![u].state = "active", ![u].restarts = @ + 1]
    /\ UNCHANGED <<program, svc, svcMishaps>>
SvcKill ==
    /\ svc.verdict = "running" /\ SvcMishap
    /\ svc' = NoSvc
    /\ UNCHANGED <<unit, program>>

ServicesNext ==
    \/ \E uninstall \in BOOLEAN : SvcBegin(uninstall)
    \/ Locate \/ RunInstaller \/ FirstLook \/ SecondLook \/ Count \/ SvcKill
    \/ \E u \in UnitSet : Dies(u) \/ IsRestarted(u)

ServicesSpec == ServicesInit /\ [][ServicesNext]_svcVars

-----------------------------------------------------------------------------
(* Property *)

\* A service is reported installed only if it was found up twice and had not died between
\* its installation and the second look, at whatever moment it died: where systemd counts
\* restarts, a service that is up again is still not taken for one that stayed up.  Its
\* program is one that no ordinary user can replace.
ServicesAreTrue ==
    [][LET n == Len(svc.results) IN
       Len(svc'.results) = n + 1 /\ svc'.results[n + 1] = "installed"
       => /\ program[This] = "system" /\ ~svc.uninstall
          /\ unit[This].counted => ~svc.died]_svcVars
=============================================================================

------------------------------- MODULE Doctor -------------------------------
(***************************************************************************)
(* agent_suite.doctor.aggregate: one report folded from a doctor per       *)
(* component, probed in parallel, and from a few checks of the whole       *)
(* suite.  It keeps nothing between two calls, so one call at a time is     *)
(* enough; what it looks at changes while it looks.                        *)
(*                                                                         *)
(* A component is reduced to what its own doctor would answer, a check to  *)
(* whether it would pass, fail, or could not be made; versions to whether  *)
(* one is reported at all, which is what the comparison with SUITE.lock    *)
(* adds to the verdict.  Fields of the report nothing is decided on        *)
(* (durations, profile classification, codex health, store growth) are     *)
(* left out, and so is the pool's queue: there are fewer components than   *)
(* workers.                                                                *)
(***************************************************************************)
EXTENDS Naturals

CONSTANTS
    Components,   \* COMPONENTS
    Spine,        \* the component of Tier.SPINE
    Shared,       \* those of Locality.SHARED_SERVICE
    Profiles,     \* what --profile may require: sets of components
    Asks,         \* the optional checks a doctor may be asked for
    Locks,        \* the sets of components a SUITE.lock may pin
    Moods,        \* the answers the components' doctors come to give
    Uncertain,    \* the checks of the suite that may come out otherwise
    MaxChanges,   \* bound: how often the estate changes under the probes
    MaxFaults     \* bound: slow probes here, crashes and failures elsewhere

ASSUME DoctorAssumption ==
    /\ Spine \in Components \ Shared
    /\ Shared \subseteq Components
    /\ Profiles \subseteq SUBSET Components
    /\ Locks \subseteq SUBSET Components
    /\ Asks \subseteq SUBSET {"restore", "artifacts"}
    /\ Moods \subseteq {"missing", "ok", "degraded", "notok", "timeout", "raises"}
    /\ Uncertain \subseteq {"memory", "lock", "restore", "keys", "artifacts"}
    /\ MaxChanges \in Nat
    /\ MaxFaults \in Nat

NoLock == {"no SUITE.lock"}
Unscoped == {"no --profile"}

\* What a component's own doctor does when it is run.
Answers == {"missing", "ok", "degraded", "notok", "timeout", "raises"}
Broken == {"notok", "timeout", "raises"}

\* The checks of the whole suite, in the order they are made, the ones every
\* call makes, and the ones that fail when they cannot be made.
Order == [memory |-> 1, lock |-> 2, restore |-> 3, keys |-> 4, artifacts |-> 5]
Always == {"memory", "lock", "keys"}
Optional == {"restore", "artifacts"}
FailClosed == {"restore", "artifacts"}

Unhealthy == {"UNREACHABLE", "FAILED"}
Away == {"ABSENT", "NOT_CONFIGURED"}
Versioned == {"OK", "DEGRADED", "REMOTE"}
Status == Unhealthy \cup Away \cup Versioned

VARIABLES
    cli,         \* what each component's doctor would answer now
    endpoint,    \* whether each shared service's endpoint is up now
    configured,  \* the shared services whose endpoint variable is set
    pins,        \* the components SUITE.lock pins
    suite,       \* how each check of the suite would end now
    call,        \* the locals of aggregate
    changes, faults

world == <<cli, endpoint, configured, pins, suite>>
doctorVars == <<cli, endpoint, configured, pins, suite, call, changes, faults>>

NoReport == "none"
Pending == {"look", "ask", "remote"}
Futures == Pending \cup Status \cup {"raised"}

\* endpoints: whether the caller passes shared_endpoints.  verdict: suite_ok.
\* still and seen are ghosts: whether nothing changed and no probe was slow
\* since the call began, and the answers each component had in that time.
Idle ==
    [at |-> "idle", endpoints |-> FALSE, required |-> Unscoped,
     asked |-> {}, todo |-> {},
     future |-> [c \in Components |-> "look"],
     report |-> [c \in Components |-> NoReport],
     failed |-> {}, verdict |-> FALSE,
     still |-> TRUE, seen |-> [c \in Components |-> {}]]

DoctorInit ==
    /\ cli = [c \in Components |-> "ok"]
    /\ endpoint = [c \in Shared |-> "up"]
    /\ configured \in SUBSET Shared
    /\ pins \in Locks \cup {NoLock}
    /\ suite = [x \in Always \cup Optional |-> "good"]
    /\ call = Idle
    /\ changes = 0
    /\ faults = 0

-----------------------------------------------------------------------------
\* Mutant: an absent spine is like any absent component.
ComponentsOk_NoSpine(report, required) ==
    /\ \A c \in Components : report[c] \notin Unhealthy
    /\ IF required # Unscoped
       THEN \A c \in required : report[c] \notin Away \cup {NoReport}
       ELSE \E c \in Components : report[c] \notin Away \cup {NoReport}

\* _compute_suite_ok over the reports, then the checks that override it.
ComponentsOk(report, required) ==
    /\ \A c \in Components : report[c] \notin Unhealthy
    /\ IF required # Unscoped
       THEN \A c \in required : report[c] \notin Away \cup {NoReport}
       ELSE /\ report[Spine] # "ABSENT"
            /\ \E c \in Components : report[c] \notin Away \cup {NoReport}

SuiteOk(report, required, failed) ==
    ComponentsOk(report, required) /\ failed = {}

\* Drift adds to the verdict that the components that report a version are the
\* pinned ones; a FAILED one may report a version too, but is red already.
LockFails(report) ==
    /\ pins # NoLock
    /\ \/ suite["lock"] # "good"
       \/ {c \in Components : report[c] \in Versioned} # pins

CheckFails(x, report) ==
    IF x = "lock" THEN LockFails(report)
    ELSE \/ suite[x] = "bad"
         \/ suite[x] = "unknown" /\ x \in FailClosed

-----------------------------------------------------------------------------
(* A caller: `agent-suite doctor` passes the endpoints found in the         *)
(* environment, alert-check none.                                          *)
StartCall(endpoints, required, asked) ==
    /\ call.at = "idle"
    /\ call' = [Idle EXCEPT
                  !.at = "collect", !.endpoints = endpoints, !.required = required,
                  !.asked = asked,
                  !.todo = Always \cup asked,
                  !.seen = [c \in Components |-> {cli[c]}]]
    /\ UNCHANGED <<world, changes, faults>>

Probing(c, f) ==
    /\ call' = [call EXCEPT !.future[c] = f]
    /\ UNCHANGED <<world, changes, faults>>

(* A worker looks whether the CLI is installed, and asks it afterwards.     *)
Look(c) ==
    /\ call.at = "collect"
    /\ call.future[c] = "look"
    /\ Probing(c, IF cli[c] # "missing" THEN "ask"
                  ELSE IF c \notin Shared THEN "ABSENT"
                  ELSE IF call.endpoints /\ c \in configured THEN "remote"
                  ELSE "NOT_CONFIGURED")

Ask(c) ==
    /\ call.at = "collect"
    /\ call.future[c] = "ask"
    /\ Probing(c, CASE cli[c] = "missing" -> "ABSENT"
                    [] cli[c] = "ok" -> "OK"
                    [] cli[c] = "degraded" -> "DEGRADED"
                    [] cli[c] = "notok" -> "FAILED"
                    [] cli[c] = "timeout" -> "UNREACHABLE"
                    [] cli[c] = "raises" -> "raised")

AskRemote(c) ==
    /\ call.at = "collect"
    /\ call.future[c] = "remote"
    /\ Probing(c, IF endpoint[c] = "up" THEN "REMOTE" ELSE "FAILED")

\* Mutant: the exception of a worker is reported as it is.
Collect_Unguarded(c) ==
    /\ call.at = "collect"
    /\ call.future[c] \notin Pending
    /\ call.report[c] = NoReport
    /\ call' = [call EXCEPT !.report[c] = call.future[c]]
    /\ UNCHANGED <<world, changes, faults>>

(* as_completed yields a finished future; one that raised is UNREACHABLE.   *)
Collect(c) ==
    /\ call.at = "collect"
    /\ call.future[c] \notin Pending
    /\ call.report[c] = NoReport
    /\ call' = [call EXCEPT !.report[c] = IF call.future[c] = "raised" THEN "UNREACHABLE"
                                          ELSE call.future[c]]
    /\ UNCHANGED <<world, changes, faults>>

\* Mutant: a component that did not answer in time counts as not installed.
Swept_Absent(report) ==
    [c \in Components |-> IF report[c] = NoReport THEN "ABSENT" ELSE report[c]]

(* The collection window closes with probes outstanding: the sweep names     *)
(* every component that is not collected.                                   *)
Swept(report) ==
    [c \in Components |-> IF report[c] = NoReport THEN "UNREACHABLE" ELSE report[c]]

Deadline ==
    /\ call.at = "collect"
    /\ \E c \in Components : call.report[c] = NoReport
    /\ faults < MaxFaults
    /\ faults' = faults + 1
    /\ call' = [call EXCEPT !.report = Swept(call.report), !.still = FALSE]
    /\ UNCHANGED <<world, changes>>

(* Leaving the `with` block joins every worker, whatever shutdown was told.  *)
Join ==
    /\ call.at = "collect"
    /\ \A c \in Components : call.report[c] # NoReport /\ call.future[c] \notin Pending
    /\ call' = [call EXCEPT !.at = "checks", !.future = Idle.future]
    /\ UNCHANGED <<world, changes, faults>>

\* Mutant: a check that cannot be made has no timeout.
Check_Waits ==
    /\ call.at = "checks"
    /\ \E x \in call.todo :
        /\ \A y \in call.todo : Order[x] <= Order[y]
        /\ suite[x] # "unknown"
        /\ call' = [call EXCEPT !.todo = @ \ {x},
                                !.failed = IF CheckFails(x, call.report) THEN @ \cup {x} ELSE @]
    /\ UNCHANGED <<world, changes, faults>>

(* The checks of the whole suite, one after another.                        *)
Check ==
    /\ call.at = "checks"
    /\ \E x \in call.todo :
        /\ \A y \in call.todo : Order[x] <= Order[y]
        /\ call' = [call EXCEPT !.todo = @ \ {x},
                                !.failed = IF CheckFails(x, call.report) THEN @ \cup {x} ELSE @]
    /\ UNCHANGED <<world, changes, faults>>

(* The fold; what the caller keeps of the report is its verdict.            *)
Fold ==
    /\ call.at = "checks"
    /\ call.todo = {}
    /\ call' = [call EXCEPT !.at = "done", !.report = Idle.report, !.failed = {},
                            !.verdict = SuiteOk(call.report, call.required, call.failed)]
    /\ UNCHANGED <<world, changes, faults>>

CallStep ==
    \/ \E c \in Components : Look(c) \/ Ask(c) \/ AskRemote(c) \/ Collect(c)
    \/ Deadline \/ Join \/ Check \/ Fold

-----------------------------------------------------------------------------
(* The estate changes by itself.                                            *)
Noticing == [call EXCEPT !.still = FALSE,
                         !.seen = [c \in Components |-> @[c] \cup {cli'[c]}]]

Changing ==
    /\ changes < MaxChanges
    /\ changes' = changes + 1
    /\ call' = CASE call.at = "idle" -> call
                  [] call.at = "done" -> [call EXCEPT !.still = FALSE]
                  [] OTHER -> Noticing
    /\ UNCHANGED <<configured, faults>>

ComponentChanges ==
    \E c \in Components, a \in Moods :
        /\ cli[c] # a
        /\ cli' = [cli EXCEPT ![c] = a]
        /\ UNCHANGED <<endpoint, pins, suite>>
        /\ Changing

EndpointChanges ==
    \E c \in Shared, e \in {"up", "down"} :
        /\ endpoint[c] # e
        /\ endpoint' = [endpoint EXCEPT ![c] = e]
        /\ UNCHANGED <<cli, pins, suite>>
        /\ Changing

CheckChanges ==
    \E x \in Uncertain, v \in {"good", "bad", "unknown"} :
        /\ suite[x] # v
        /\ suite' = [suite EXCEPT ![x] = v]
        /\ UNCHANGED <<cli, endpoint, pins>>
        /\ Changing

WorldStep == ComponentChanges \/ EndpointChanges \/ CheckChanges

-----------------------------------------------------------------------------
CallType ==
    [at : {"idle", "collect", "checks", "done"},
     endpoints : BOOLEAN,
     required : Profiles \cup {Unscoped},
     asked : SUBSET Optional,
     todo : SUBSET (Always \cup Optional),
     future : [Components -> Futures],
     report : [Components -> Status \cup {NoReport}],
     failed : SUBSET (Always \cup Optional),
     verdict : BOOLEAN,
     still : BOOLEAN,
     seen : [Components -> SUBSET Answers]]

DoctorTypeOK ==
    /\ cli \in [Components -> Answers]
    /\ endpoint \in [Shared -> {"up", "down"}]
    /\ configured \in SUBSET Shared
    /\ pins \in Locks \cup {NoLock}
    /\ suite \in [Always \cup Optional -> {"good", "bad", "unknown"}]
    /\ changes \in 0..MaxChanges
    /\ faults \in 0..MaxFaults
    /\ call \in CallType
=============================================================================

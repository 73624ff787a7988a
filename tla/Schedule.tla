------------------------------ MODULE Schedule ------------------------------
(***************************************************************************)
(* `agent-suite schedule install` and `schedule remove`,                   *)
(* src/agent_suite/schedule.py: the recurring jobs of a host, as systemd   *)
(* units or as Windows tasks.  An install checks everything it can before  *)
(* it writes, then takes the schedules one by one and leaves behind what a *)
(* failed one had written; a remove goes through all of them and reloads   *)
(* the service manager once, at the end.                                   *)
(*                                                                         *)
(* One command runs at a time.  It can be killed; the host can restart;    *)
(* the operator can edit suite.env, move the installation or delete a unit *)
(* by hand.  On Windows `service` is the script, and `loaded`, `enabled`   *)
(* and `active` are the registered task.  --dry-run is left out.           *)
(***************************************************************************)
EXTENDS Integers, Sequences, FiniteSets

CONSTANTS
    Order,          \* SCHEDULES: the sequence of schedules
    Dedicated,      \* the ones with a dedicated_dsn_env (the weekly restore)
    Probing,        \* the one that runs the invariant probes, if any
    Execs,          \* places the suite's programs can be installed in
    Scoped,         \* the ones an unprivileged user cannot write to
    NoExec,         \* no program, no unit, no task
    Targets,        \* schedulers considered: "systemd", "windows", "none"
    MaxFaults,      \* bound on failed calls, crashes and restarts together
    MaxEdits        \* bound on the operator's edits

Specs == {Order[i] : i \in DOMAIN Order}
Place == Execs \cup {NoExec}

\* The database VERIFY_RESTORE_DSN names.  "alias" is production under a spelling
\* same_postgres_database does not normalise (it then compares the strings).
Scratch == {"unset", "scratch", "production", "alias"}
Env == [dir : BOOLEAN, scratch : Scratch, production : BOOLEAN]

ASSUME ScheduleAssumption ==
    /\ Order \in Seq(Specs) /\ Order # <<>>
    /\ \A i, j \in DOMAIN Order : Order[i] = Order[j] => i = j
    /\ Dedicated \subseteq Specs /\ Probing \subseteq Specs
    /\ Scoped \subseteq Execs /\ NoExec \notin Execs
    /\ Targets \subseteq {"systemd", "windows", "none"}
    /\ MaxFaults \in Nat /\ MaxEdits \in Nat

VARIABLES
    os,         \* the host's scheduler; never changes
    env,        \* suite.env as a scheduled job will see it
    home,       \* where the programs are installed
    unit,       \* [Specs -> Unit]: on disk, and in the scheduler's memory
    run,        \* the command that is running
    claim,      \* [Specs -> Status]: what the last command said of each
    faults, edits,
    edited,     \* ghost: suite.env or home changed since that command began
    orphan      \* ghost: schedules whose unit was deleted by hand and not armed since

scheduleVars == <<os, env, home, unit, run, claim, faults, edits, edited, orphan>>

Status == {"none", "installed", "removed", "failed", "unsupported"}
Unit == [service : Place, timer : BOOLEAN, loaded : Place,
         enabled : BOOLEAN, active : BOOLEAN]
NoUnit == [service |-> NoExec, timer |-> FALSE, loaded |-> NoExec,
           enabled |-> FALSE, active |-> FALSE]

PCs == {"idle", "preflight", "gate", "service", "timer", "reload", "enable", "show",
        "active", "register", "disable", "unlink", "unregister", "forget", "print"}
Run == [pc : PCs, verb : {"install", "remove"}, i : 1 .. Len(Order) + 1,
        exec : Place,                       \* the resolved command
        results : [Specs -> Status],
        unlinked : BOOLEAN,                 \* removed_unit_files
        dependent : SUBSET Specs]           \* reload_dependent_results
Silent == [s \in Specs |-> "none"]
Idle == [pc |-> "idle", verb |-> "install", i |-> 1, exec |-> NoExec,
         results |-> Silent, unlinked |-> FALSE, dependent |-> {}]

ScheduleTypeOK ==
    /\ os \in Targets /\ env \in Env /\ home \in Place
    /\ unit \in [Specs -> Unit]
    /\ run \in Run
    /\ claim \in [Specs -> Status]
    /\ faults \in 0 .. MaxFaults /\ edits \in 0 .. MaxEdits
    /\ edited \in BOOLEAN /\ orphan \subseteq Specs

\* A host before the first command: nothing scheduled.
ScheduleInit ==
    /\ os \in Targets
    /\ env \in Env
    /\ home \in Place
    /\ unit = [s \in Specs |-> NoUnit]
    /\ run = Idle
    /\ claim = Silent
    /\ faults = 0 /\ edits = 0
    /\ edited = FALSE /\ orphan = {}

-----------------------------------------------------------------------------
(* Helpers *)

Spec_ == Order[run.i]
Fault == faults < MaxFaults /\ faults' = faults + 1
NoFault == UNCHANGED faults
World == <<os, env, home, edits, edited>>

\* The command goes on at pc; the unit of the schedule at hand becomes u.
Go(pc) == run' = [run EXCEPT !.pc = pc]
Set(u) == unit' = [unit EXCEPT ![Spec_] = u]

\* The schedule at hand is finished with: the next one begins where its verb does,
\* and after the last the command prints, or first reloads.
First(verb) ==
    IF verb = "install" THEN "gate"
    ELSE IF os = "systemd" THEN "disable" ELSE "unregister"
After(r) ==
    [r EXCEPT !.i = @ + 1,
              !.pc = IF r.i < Len(Order) THEN First(r.verb)
                     ELSE IF r.verb = "remove" /\ os = "systemd" /\ r.unlinked
                     THEN "forget" ELSE "print"]
Result(status) == run' = After([run EXCEPT !.results[Spec_] = status])

\* same_postgres_database: equal as strings, or the same host, port and database, as far
\* as _postgres_database_identity can take both apart.
Identity(dsn) == IF dsn = "alias" THEN "unknown" ELSE dsn
SameDatabase(dsn) == Identity(dsn) = "production"

\* _schedule_config_failure: the variables the job needs, read from the environment
\* it will have, and a restore that is not aimed at the production store.
ConfigOk(s) ==
    /\ env.dir
    /\ s \in Dedicated =>
          /\ env.scratch # "unset"
          /\ env.production => ~SameDatabase(env.scratch)

Runnable(exec) == exec # NoExec /\ exec = home      \* check_exec_start_runnable
SystemScoped(exec) == exec \in Scoped               \* check_actor_system_scoped

\* preflight_invariant_probe_capabilities: what `<component> invariants probe --help`
\* came to, for one component.
HelpRuns == [how : {"ran", "unresolved", "timeout", "undecodable", "oserror"},
             code : {0, 2}, shows : BOOLEAN, rejects : BOOLEAN]
Capability(help) ==
    CASE help.how = "unresolved"  -> "missing"
      [] help.how = "timeout"     -> "timeout"
      [] help.how = "undecodable" -> "malformed"
      [] help.how = "oserror"     -> "error"
      [] help.how = "ran" ->
            IF help.code = 0 THEN IF help.shows THEN "supported" ELSE "malformed"
            ELSE IF help.rejects THEN "missing" ELSE "error"

-----------------------------------------------------------------------------
(* Both commands *)

Begin(verb) ==
    /\ run.pc = "idle"
    /\ run' = IF os = "none"
              THEN [Idle EXCEPT !.verb = verb, !.pc = "print",
                                !.results = [s \in Specs |-> "unsupported"]]
              ELSE [Idle EXCEPT !.verb = verb,
                                !.pc = IF verb = "install" THEN "preflight"
                                       ELSE First(verb)]
    /\ claim' = Silent
    /\ edited' = FALSE
    /\ UNCHANGED <<os, env, home, unit, faults, edits, orphan>>

Report ==
    /\ run.pc = "print"
    /\ claim' = run.results
    /\ run' = [Idle EXCEPT !.verb = run.verb]
    /\ UNCHANGED <<World, unit, faults, orphan>>

-----------------------------------------------------------------------------
(* install_schedules *)

\* Nothing is written unless every schedule is configured, every command resolves
\* and the components can run the invariant probes.
Preflight(help) ==
    /\ run.pc = "preflight"
    /\ IF Capability(help) = "supported" THEN NoFault ELSE Fault
    /\ LET fine == /\ \A s \in Specs : ConfigOk(s)
                   /\ home # NoExec
                   /\ Probing # {} => Capability(help) = "supported"
       IN  run' = IF fine THEN [run EXCEPT !.pc = "gate", !.exec = home]
                  ELSE [run EXCEPT !.pc = "print",
                                   !.results = [s \in Specs |-> "failed"]]
    /\ UNCHANGED <<World, unit, claim, orphan>>

Gate ==
    /\ run.pc = "gate"
    /\ IF Runnable(run.exec) /\ SystemScoped(run.exec) THEN Go("service")
       ELSE Result("failed")
    /\ UNCHANGED <<World, unit, claim, faults, orphan>>

\* Mutant: a file that is there already is not overwritten, but an error.
WriteService_Exclusive ==
    /\ run.pc = "service"
    /\ \/ NoFault /\ unit[Spec_].service = NoExec
          /\ Set([unit[Spec_] EXCEPT !.service = run.exec])
          /\ Go(IF os = "systemd" THEN "timer" ELSE "register")
       \/ NoFault /\ unit[Spec_].service # NoExec /\ Result("failed") /\ UNCHANGED unit
       \/ Fault /\ Result("failed") /\ UNCHANGED unit
    /\ UNCHANGED <<World, claim, orphan>>

\* The .service file, or the script that registers the task.
WriteService ==
    /\ run.pc = "service"
    /\ \/ NoFault /\ Set([unit[Spec_] EXCEPT !.service = run.exec])
          /\ Go(IF os = "systemd" THEN "timer" ELSE "register")
       \/ Fault /\ Result("failed") /\ UNCHANGED unit
    /\ UNCHANGED <<World, claim, orphan>>

WriteTimer ==
    /\ run.pc = "timer"
    /\ \/ NoFault /\ Set([unit[Spec_] EXCEPT !.timer = TRUE]) /\ Go("reload")
       \/ Fault /\ Result("failed") /\ UNCHANGED unit
    /\ UNCHANGED <<World, claim, orphan>>

\* Mutant: each unit is given the other file.
Reloaded_Swapped == [s \in Specs |-> [unit[s] EXCEPT !.loaded = unit[s].timer]]

\* systemd's view of every unit becomes what is on disk; a timer that runs goes on.
Reloaded == [s \in Specs |-> [unit[s] EXCEPT !.loaded = unit[s].service]]

Reload ==
    /\ run.pc = "reload"
    /\ \/ NoFault /\ unit' = Reloaded /\ Go("enable")
       \/ Fault /\ Result("failed") /\ UNCHANGED unit
    /\ UNCHANGED <<World, claim, orphan>>

\* A call that failed, or timed out, may have done any part of its work.
Enable ==
    /\ run.pc = "enable"
    /\ \/ NoFault /\ unit[Spec_].timer
          /\ Set([unit[Spec_] EXCEPT !.enabled = TRUE, !.active = TRUE]) /\ Go("show")
       \/ NoFault /\ ~unit[Spec_].timer /\ Result("failed") /\ UNCHANGED unit
       \/ Fault /\ unit[Spec_].timer /\ Result("failed")
          /\ \E e, a \in BOOLEAN :
                /\ (unit[Spec_].enabled => e) /\ (unit[Spec_].active => a)
                /\ Set([unit[Spec_] EXCEPT !.enabled = e, !.active = a])
    /\ orphan' = IF unit[Spec_].timer THEN orphan \ {Spec_} ELSE orphan
    /\ UNCHANGED <<World, claim>>

\* _verify_installed_unit, first half: the program systemd itself would start.
Show ==
    /\ run.pc = "show"
    /\ \/ NoFault /\ LET seen == unit[Spec_].loaded
                     IN  IF seen = run.exec /\ Runnable(seen) THEN Go("active")
                         ELSE Result("failed")
       \/ Fault /\ Result("failed")
    /\ UNCHANGED <<World, unit, claim, orphan>>

\* ... and second: is-active.
IsActive ==
    /\ run.pc = "active"
    /\ \/ NoFault /\ Result(IF unit[Spec_].active THEN "installed" ELSE "failed")
       \/ Fault /\ Result("failed")
    /\ UNCHANGED <<World, unit, claim, orphan>>

\* What Task Scheduler may show otherwise than it was asked for.  The script compares
\* all but the last two itself and exits 1; the receipt it prints is then compared
\* again, field by field (_verify_windows_registration).
ReceiptFields == {"execute", "arguments", "trigger_type", "start", "repetition",
                  "duration", "task_name", "trigger"}
ScriptCode(wrong) == IF wrong \subseteq {"task_name", "trigger"} THEN 0 ELSE 1
RegistrationVerified(code, receipt, wrong) == code = 0 /\ receipt /\ wrong = {}

\* The task is registered, in place of one that was there, before it is read back: what
\* then turns out wrong is reported and stays.  The script can also fail, or be given
\* up, before it registers anything.
Registered == [unit[Spec_] EXCEPT !.loaded = unit[Spec_].service,
                                  !.enabled = TRUE, !.active = TRUE]
Register ==
    /\ run.pc = "register"
    /\ \/ \E wrong \in {{}} \cup {{f} : f \in ReceiptFields}, receipt \in BOOLEAN :
             /\ IF wrong = {} /\ receipt THEN NoFault ELSE Fault
             /\ Set(Registered)
             /\ Result(IF RegistrationVerified(ScriptCode(wrong), receipt, wrong)
                       THEN "installed" ELSE "failed")
       \/ Fault /\ Result("failed") /\ UNCHANGED unit
    /\ UNCHANGED <<World, claim, orphan>>

-----------------------------------------------------------------------------
(* remove_schedules *)

\* Mutant: a timer that could not be disabled is deleted all the same.
AfterFailedDisable_GoesOn == Go("unlink")

AfterFailedDisable == Result("failed")

\* No unit file, nothing to do.  `systemctl disable` refuses a timer with no file.
Disable ==
    /\ run.pc = "disable"
    /\ LET u == unit[Spec_]
           there == u.service # NoExec \/ u.timer
       IN  \/ NoFault /\ ~there /\ Result("removed") /\ UNCHANGED unit
           \/ NoFault /\ there /\ ~u.timer /\ Result("failed") /\ UNCHANGED unit
           \/ NoFault /\ u.timer /\ Go("unlink")
              /\ Set([u EXCEPT !.enabled = FALSE, !.active = FALSE])
           \/ Fault /\ u.timer /\ AfterFailedDisable
              /\ \E e \in {FALSE, u.enabled}, a \in {FALSE, u.active} :
                    Set([u EXCEPT !.enabled = e, !.active = a])
    /\ UNCHANGED <<World, claim, orphan>>

\* Both files are tried; a file that goes is remembered even if the other one stays.
Unlink ==
    /\ run.pc = "unlink"
    /\ \E keepService, keepTimer \in BOOLEAN :
          LET u == unit[Spec_]
              new == [u EXCEPT !.service = IF keepService THEN @ ELSE NoExec,
                               !.timer = keepTimer /\ @]
              r == [run EXCEPT !.unlinked = @ \/ new # u]
          IN  /\ IF keepService \/ keepTimer THEN Fault ELSE NoFault
              /\ Set(new)
              /\ run' = After(
                   IF keepService \/ keepTimer
                   THEN [r EXCEPT !.results[Spec_] = "failed"]
                   ELSE [r EXCEPT !.results[Spec_] = "removed",
                                  !.dependent = @ \cup {Spec_}])
    /\ UNCHANGED <<World, claim, orphan>>

\* The one daemon-reload at the end.  Its failure takes back only the results that
\* depend on it.
Forget ==
    /\ run.pc = "forget"
    /\ \/ NoFault /\ unit' = Reloaded /\ Go("print")
       \/ Fault /\ UNCHANGED unit
          /\ run' = [run EXCEPT !.pc = "print",
                 !.results = [s \in Specs |->
                     IF s \in run.dependent THEN "failed" ELSE run.results[s]]]
    /\ UNCHANGED <<World, claim, orphan>>

\* Windows: unregister, have the script confirm that the task is gone, and delete the
\* scripts.
Unregister ==
    /\ run.pc = "unregister"
    /\ LET gone == [unit[Spec_] EXCEPT !.loaded = NoExec, !.enabled = FALSE,
                                       !.active = FALSE]
       IN  \/ NoFault /\ Set([gone EXCEPT !.service = NoExec]) /\ Result("removed")
           \/ Fault /\ Result("failed") /\ \E u \in {unit[Spec_], gone} : Set(u)
    /\ UNCHANGED <<World, claim, orphan>>

-----------------------------------------------------------------------------
(* The surroundings *)

\* The command is killed: it prints nothing.
Crash ==
    /\ run.pc # "idle" /\ Fault
    /\ run' = [Idle EXCEPT !.verb = run.verb]
    /\ UNCHANGED <<World, unit, claim, orphan>>

\* The host restarts: systemd reads the disk again and starts the enabled timers it
\* finds; a registered task stays.
Restart ==
    /\ Fault
    /\ run' = [Idle EXCEPT !.verb = run.verb]
    /\ unit' = IF os # "systemd" THEN unit
               ELSE [s \in Specs |->
                        [unit[s] EXCEPT !.loaded = unit[s].service,
                                        !.active = unit[s].enabled /\ unit[s].timer]]
    /\ UNCHANGED <<World, claim, orphan>>

Edit == edits < MaxEdits /\ edits' = edits + 1

\* suite.env is edited, or the suite is installed somewhere else, or taken away.
EditEnv(new) ==
    /\ Edit /\ new # env
    /\ env' = new /\ edited' = TRUE
    /\ UNCHANGED <<os, home, unit, run, claim, faults, orphan>>

Move(place) ==
    /\ Edit /\ place # home
    /\ home' = place /\ edited' = TRUE
    /\ UNCHANGED <<os, env, unit, run, claim, faults, orphan>>

\* The operator deletes the unit's files and does not tell the scheduler.
DeleteByHand(s) ==
    /\ Edit /\ os = "systemd" /\ (unit[s].service # NoExec \/ unit[s].timer)
    /\ unit' = [unit EXCEPT ![s].service = NoExec, ![s].timer = FALSE]
    /\ orphan' = orphan \cup {s}
    /\ UNCHANGED <<os, env, home, run, claim, faults, edited>>

-----------------------------------------------------------------------------
(* Specification *)

InstallStep ==
    \/ \E help \in HelpRuns : Preflight(help)
    \/ Gate \/ WriteService \/ WriteTimer \/ Reload \/ Enable \/ Show \/ IsActive
    \/ Register
RemoveStep == Disable \/ Unlink \/ Forget \/ Unregister
Step == InstallStep \/ RemoveStep \/ Report

Accident == Crash \/ Restart
Change ==
    \/ \E e \in Env : EditEnv(e)
    \/ \E place \in Place : Move(place)
    \/ \E s \in Specs : DeleteByHand(s)

Satisfied == \A s \in Specs :
    claim[s] = IF run.verb = "install" THEN "installed" ELSE "removed"

\* The operator repeats a command that did not report success for everything.
Retry == ~Satisfied /\ Begin(run.verb)

ScheduleNext ==
    \/ \E verb \in {"install", "remove"} : Begin(verb)
    \/ Step \/ Accident \/ Change

ScheduleFairness == WF_scheduleVars(Step) /\ WF_scheduleVars(Retry)

ScheduleSpec == ScheduleInit /\ [][ScheduleNext]_scheduleVars /\ ScheduleFairness

-----------------------------------------------------------------------------
(* Properties *)

\* A schedule that is due runs the command it was installed for: the timer is armed,
\* will be after a restart, and starts a program that exists and that nobody but root
\* can replace, with the variables it needs.
Armed(s) ==
    /\ unit[s].active /\ unit[s].enabled
    /\ os = "systemd" => unit[s].timer
    /\ unit[s].loaded = unit[s].service
    /\ Runnable(unit[s].loaded) /\ SystemScoped(unit[s].loaded)
    /\ ConfigOk(s)

\* Nothing is left that could start the job again.  What was deleted by hand while
\* its timer ran is reported as not installed though it still runs.
Quiet(s) ==
    /\ unit[s].service = NoExec /\ ~unit[s].timer
    /\ s \in orphan \/ (~unit[s].active /\ ~unit[s].enabled)

\* A report stays true, through restarts of the host and whatever earlier, half done
\* commands left, until the operator changes something: INSTALLED is a schedule that
\* will run, REMOVED one that will not.
ScheduleReportsAreTrue == \A s \in Specs :
    /\ claim[s] = "installed" => edited \/ s \in orphan \/ Armed(s)
    /\ claim[s] = "removed" => Quiet(s)

\* What no repetition of the command can get past: for an install a fault of the
\* configuration or of the installation, for a removal a half-written unit, because
\* systemd has no timer to disable.
Blocked ==
    \/ os = "none"
    \/ run.verb = "install" /\ (\/ \E s \in Specs : ~ConfigOk(s)
                                \/ ~Runnable(home) \/ ~SystemScoped(home))
    \/ run.verb = "remove" /\ os = "systemd"
       /\ \E s \in Specs : unit[s].service # NoExec /\ ~unit[s].timer

\* A command that is repeated until it reports success gets there, whatever state the
\* failed, killed and contrary ones before it left, unless it is blocked.
RetryConverges == \A verb \in {"install", "remove"} :
    <>[](run.verb = verb) => []<>(Satisfied \/ Blocked)
=============================================================================

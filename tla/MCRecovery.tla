----------------------------- MODULE MCRecovery -----------------------------
(* An instance of Recovery for TLC: two schedules, two projects.  A         *)
(* behaviour is about the schedule commands, on a host with no jobs, or     *)
(* about the jobs, on a host where an install has succeeded: the two do not *)
(* meet but in suite.env, the restarts and what an install leaves armed.    *)
EXTENDS Recovery

CONSTANTS opt, user, a, b

\* A project is verified only if its replay was reported, found nothing and bound every
\* key to its actor; and an installation wants every help text to show the probe.
Reports == [json : BOOLEAN, drift : BOOLEAN, halted : BOOLEAN, warnings : BOOLEAN,
            binding : {"verified", "not_verified", "failed"}]
ASSUME VerifiedIsClean == \A r \in Reports : VerifyOne(r) = "verified" <=>
    r = [json |-> TRUE, drift |-> FALSE, halted |-> FALSE, warnings |-> FALSE,
         binding |-> "verified"]
ASSUME SupportedIsShown == \A h \in HelpRuns : Capability(h) = "supported" <=>
    h.how = "ran" /\ h.code = 0 /\ h.shows

VARIABLE focus

MCOrder == <<backup, restore>>

Installed ==
    /\ os = "systemd" /\ home = opt
    /\ env = [dir |-> TRUE, scratch |-> "scratch", production |-> TRUE]
    /\ unit = [s \in Specs |-> [service |-> opt, timer |-> TRUE, loaded |-> opt,
                                enabled |-> TRUE, active |-> TRUE]]
    /\ run = Idle
    /\ claim = [s \in Specs |-> "installed"]
    /\ faults = 0 /\ edits = 0 /\ edited = FALSE /\ orphan = {}

\* No backup yet, or the one that an earlier run left.
Store == [p \in Projects |-> [ver |-> IF p = a THEN 1 ELSE 0, is |-> "good"]]
LastDump == [NoArchive EXCEPT !.there = TRUE, !.of = Store]

MCInit ==
    /\ db = [s \in Stores |-> IF s = "production" THEN Store ELSE Nothing]
    /\ configured \in Configurations
    /\ dump \in {NoArchive, LastDump} /\ manifest = dump
    /\ bundle = [p \in Projects |-> 0]
    /\ job = [j \in Jobs |-> NoJob]
    /\ runs = 0 /\ mishaps = 0
    /\ firedWith = [dir |-> TRUE, scratch |-> "unset", production |-> FALSE]
    /\ \/ focus = "schedules" /\ ScheduleInit
          /\ dump = NoArchive /\ configured = Projects
       \/ focus = "jobs" /\ Installed

\* The edits of suite.env that could aim the weekly restore at production.
Misaimed(e) ==
    e.dir /\ (e.scratch = "production" \/ (e.scratch = "alias" /\ e.production))

MCNext ==
    /\ focus = "schedules" => ScheduleOnly \/ RestartAll
    /\ focus = "jobs" => /\ Next
                         /\ UNCHANGED <<home, unit, run, claim, orphan>>
                         /\ env' # env => Misaimed(env') /\ runs < MaxRuns
                         /\ faults' + mishaps' <= 1
    /\ UNCHANGED focus

MCSpec == MCInit /\ [][MCNext]_<<vars, focus>> /\ ScheduleFairness
=============================================================================

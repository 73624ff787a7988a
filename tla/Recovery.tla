------------------------------ MODULE Recovery ------------------------------
(***************************************************************************)
(* The schedules and the jobs they start, together: a timer that fires     *)
(* runs `agent-suite backup` or `agent-suite restore`                      *)
(* (src/agent_suite/cli.py) with the suite.env of that moment, which the   *)
(* operator may have edited since the schedule was installed.  After a     *)
(* restart the timers that were missed fire at once (Persistent=true), so  *)
(* the restore may open the dump that the backup is writing.               *)
(***************************************************************************)
EXTENDS Schedule, Backup

CONSTANTS
    backup, restore,    \* the two schedules with a job modelled here
    operator            \* the operator's own command

ASSUME RecoveryAssumption ==
    /\ Jobs = {backup, restore, operator}
    /\ backup # restore /\ operator \notin {backup, restore}
    /\ {backup, restore} \subseteq Specs /\ Dedicated = {restore}

VARIABLES firedWith     \* ghost: suite.env as the last timed restore found it

vars == <<scheduleVars, backupVars, firedWith>>

TypeOK == ScheduleTypeOK /\ BackupTypeOK /\ firedWith \in Env

-----------------------------------------------------------------------------

\* _resolve_value_or_env and Command.BACKUP: no directory, no run; without
\* REGISTA_DSN the run fails at pg_dump.
FireBackup ==
    /\ env.dir
    /\ Start(backup, "backup", IF env.production THEN "production" ELSE "none")
    /\ UNCHANGED firedWith

\* Mutant: the databases were compared when the schedule was installed.
RestoreAllowed_Trusting == env.scratch # "unset"

\* Command.RESTORE with --dsn-env: the variable must be set and, as far as
\* REGISTA_DSN is known and the spelling can be compared, name another database.
RestoreAllowed ==
    /\ env.scratch # "unset"
    /\ env.production => ~SameDatabase(env.scratch)
FireRestore ==
    /\ env.dir /\ RestoreAllowed
    /\ Start(restore, "restore",
             IF env.scratch = "scratch" THEN "scratch" ELSE "production")
    /\ firedWith' = env

\* A timer is due, and systemd finds the program.  A job that still runs is not
\* started again.
Fire(s) ==
    /\ unit[s].active /\ Runnable(unit[s].loaded)
    /\ \/ s = backup /\ FireBackup
       \/ s = restore /\ FireRestore
    /\ UNCHANGED scheduleVars

\* The operator's own backup or restore: --dsn, or else REGISTA_DSN, is not compared
\* with anything.
Operate(kind, dsn) ==
    /\ Start(operator, kind, dsn)
    /\ UNCHANGED <<scheduleVars, firedWith>>

\* A restart of the host ends every job.
RestartAll ==
    /\ Restart
    /\ job' = [j \in Jobs |-> IF job[j].pc \in Rest THEN job[j] ELSE NoJob]
    /\ UNCHANGED <<db, configured, dump, manifest, bundle, runs, mishaps, firedWith>>

ScheduleOnly ==
    /\ \/ \E verb \in {"install", "remove"} : Begin(verb)
       \/ Step \/ Crash \/ Change
    /\ UNCHANGED <<backupVars, firedWith>>

JobsOnly ==
    /\ \/ \E j \in Jobs : BackupStep(j)
       \/ Surroundings
    /\ UNCHANGED <<scheduleVars, firedWith>>

Init == ScheduleInit /\ BackupInit /\ firedWith = env

Next ==
    \/ ScheduleOnly \/ JobsOnly \/ RestartAll
    \/ \E s \in {backup, restore} : Fire(s)
    \/ \E kind \in {"backup", "restore"}, dsn \in Stores : Operate(kind, dsn)

Spec == Init /\ [][Next]_vars

-----------------------------------------------------------------------------
(* Properties *)

\* The weekly restore never puts a dump over the production store, whatever is edited
\* between the installation of its schedule and the moment it fires: unless suite.env
\* then has no REGISTA_DSN to compare with, or names production in a spelling that
\* the comparison cannot see through.
ProductionIsSafe ==
    [][job[restore].pc = "restoring" /\ db'["production"] # db["production"]
          /\ job'[restore].pc # "restoring"
       => \/ ~firedWith.production \/ firedWith.scratch = "alias"]_vars
=============================================================================

------------------------------- MODULE Backup -------------------------------
(***************************************************************************)
(* `agent-suite backup`, `restore`, `verify-restore` and `export-evidence` *)
(* (src/agent_suite/backup.py, verify_restore.py, evidence.py): one dump   *)
(* file, its manifest and the evidence bundles in one directory, with no   *)
(* lock on any of them, and the stores they are made from and put into.    *)
(*                                                                         *)
(* pg_dump takes its snapshot when it starts and truncates the file; two   *)
(* that overlap leave a file neither of them wrote.  pg_restore --clean    *)
(* replaces entry by entry and goes on past the ones that fail.  --dry-run *)
(* is left out.                                                            *)
(***************************************************************************)
EXTENDS Integers, FiniteSets

CONSTANTS
    Projects,
    Configurations, \* sets of projects that may be configured on the host
    Wrongs,         \* what may go wrong with a project: a set of conditions
    Jobs,           \* commands that may run at the same time
    MaxVersion,     \* bound on the writes to one project
    MaxRuns,        \* bound on the commands started
    MaxMishaps       \* bound on failures, damage and kills together

Stores == {"production", "scratch"}

\* What `regista replay` would find in a project, and so what VERIFIED rules out.
Conditions == {"drift", "halted", "unattributable", "warned", "unbound"}
Condition == {"good"} \cup Wrongs
Content == [ver : 0 .. MaxVersion, is : Condition]     \* ver 0: not there
Contents == [Projects -> Content]
Nothing == [p \in Projects |-> [ver |-> 0, is |-> "good"]]

ASSUME BackupAssumption ==
    /\ Configurations \subseteq SUBSET Projects /\ Wrongs \subseteq Conditions
    /\ MaxVersion \in Nat \ {0} /\ MaxRuns \in Nat /\ MaxMishaps \in Nat

VARIABLES
    db,         \* [Stores -> Contents]
    configured, \* the projects `regista doctor` reports: from the configuration
    dump,       \* database.dump
    manifest,   \* backup-manifest.json, by the dump whose hash it holds
    bundle,     \* [Projects -> version in its verified regista bundle, 0 if none]
    job,        \* [Jobs -> Job]
    runs, mishaps

backupVars == <<db, configured, dump, manifest, bundle, job, runs, mishaps>>

\* An archive: what it was taken from, the entries of it that cannot be restored, and
\* whether another pg_dump was writing the file at the same time.
Archive == [there : BOOLEAN, of : Contents, bad : SUBSET Projects, mixed : BOOLEAN]
NoArchive == [there |-> FALSE, of |-> Nothing, bad |-> {}, mixed |-> FALSE]

Rest == {"idle", "ok", "failed"}         \* not running; how the last run ended
JobPCs == Rest \cup {"doctor", "dump", "dumping", "verifyDump", "evidence", "manifest",
           "restore", "restoring", "verifyRestore", "postDoctor"}
Job == [pc : JobPCs, kind : {"backup", "restore"}, dsn : Stores \cup {"none"},
        good : BOOLEAN,         \* no step was FAILED or PARTIAL so far
        since : Contents,       \* ghost: its store's content when it began
        from : Archive,         \* ghost: the archive a restore opened
        damaged : BOOLEAN,      \* ghost: pg_dump exited 0 over a bad archive
        raced : BOOLEAN]        \* ghost: another job, or a write to the store it
                                \* restores, interfered since
NoJob == [pc |-> "idle", kind |-> "backup", dsn |-> "none", good |-> TRUE,
          since |-> Nothing, from |-> NoArchive, damaged |-> FALSE, raced |-> FALSE]

BackupTypeOK ==
    /\ db \in [Stores -> Contents]
    /\ configured \in Configurations
    /\ dump \in Archive /\ manifest \in Archive
    /\ bundle \in [Projects -> 0 .. MaxVersion]
    /\ job \in [Jobs -> Job]
    /\ runs \in 0 .. MaxRuns /\ mishaps \in 0 .. MaxMishaps

\* A store in good condition, an empty scratch database, and no backup yet.
BackupInit ==
    /\ configured \in Configurations
    /\ \E some \in [Projects -> 0 .. 1] :
          db = [s \in Stores |-> [p \in Projects |->
                  [ver |-> IF s = "production" THEN some[p] ELSE 0, is |-> "good"]]]
    /\ dump = NoArchive /\ manifest = NoArchive
    /\ bundle = [p \in Projects |-> 0]
    /\ job = [j \in Jobs |-> NoJob]
    /\ runs = 0 /\ mishaps = 0

-----------------------------------------------------------------------------
(* Verification of a store *)

\* What `regista replay --project p` reports of a project in that state.
Replay(c) ==
    [json |-> c.ver > 0,            \* a project that is not there has no report
     drift |-> c.is = "drift", halted |-> c.is = "halted",
     binding |-> CASE c.is = "unattributable" -> "failed"
                   [] c.is = "unbound" -> "not_verified"
                   [] OTHER -> "verified",
     warnings |-> c.is \in {"unattributable", "warned"}]

\* _verify_one: the first thing wrong names the status.
VerifyOne(r) ==
    IF ~r.json THEN "unreachable"
    ELSE IF r.drift \/ r.halted THEN "drift"
    ELSE IF r.binding = "failed" THEN "not_attributable"
    ELSE IF r.warnings THEN "warnings"
    ELSE IF r.binding = "not_verified" THEN "binding_unverified"
    ELSE "verified"

\* verify_restore: every configured project, and there may be none.
StoreVerified(s) ==
    \A p \in configured : VerifyOne(Replay(db[s][p])) = "verified"

-----------------------------------------------------------------------------
(* Helpers *)

Mishap == mishaps < MaxMishaps /\ mishaps' = mishaps + 1
NoMishap == UNCHANGED mishaps

Turn(j, pc) == [job[j] EXCEPT !.pc = pc]
Become(j, r) == job' = [job EXCEPT ![j] = r]

\* j ends: _compute_backup_ok, or a step that stops the run.
End(j, ok) == Become(j, [NoJob EXCEPT !.pc = IF ok THEN "ok" ELSE "failed"])
Stop(j) == End(j, FALSE)

\* j changes the file, or a store: whoever relies on it is no longer alone.
UsingDump == {k \in Jobs :
    job[k].pc \in {"dumping", "verifyDump", "evidence", "manifest", "restoring"}}
UsingStore(s) == {k \in Jobs : job[k].pc \notin Rest /\ job[k].dsn = s}
Touch(j, r, others) ==
    job' = [k \in Jobs |-> IF k = j THEN r
                           ELSE IF k \in others THEN [job[k] EXCEPT !.raced = TRUE]
                           ELSE job[k]]

-----------------------------------------------------------------------------
(* Both commands *)

Start(j, kind, dsn) ==
    /\ job[j].pc \in Rest
    /\ runs < MaxRuns /\ runs' = runs + 1
    /\ Become(j, [NoJob EXCEPT !.pc = "doctor", !.kind = kind, !.dsn = dsn,
                     !.since = IF dsn = "none" THEN Nothing ELSE db[dsn]])
    /\ UNCHANGED <<db, configured, dump, manifest, bundle, mishaps>>

\* _run_doctor_snapshot: any report will do; a doctor that gives none stops the run.
PreDoctor(j) ==
    /\ job[j].pc = "doctor"
    /\ \/ NoMishap
          /\ Become(j, Turn(j, IF job[j].kind = "backup" THEN "dump" ELSE "restore"))
       \/ Mishap /\ Stop(j)
    /\ UNCHANGED <<db, configured, dump, manifest, bundle, runs>>

-----------------------------------------------------------------------------
(* run_backup *)

DumpBegin(j) ==
    /\ job[j].pc = "dump"
    /\ \/ /\ job[j].dsn # "none" /\ NoMishap
          /\ LET shared == \E k \in Jobs : job[k].pc = "dumping"
             IN  /\ dump' = [there |-> TRUE, of |-> db[job[j].dsn], bad |-> Projects,
                             mixed |-> shared]
                 /\ Touch(j, [Turn(j, "dumping") EXCEPT !.raced = @ \/ shared], UsingDump)
       \/ job[j].dsn = "none" /\ NoMishap /\ Stop(j) /\ UNCHANGED dump
       \/ job[j].dsn # "none" /\ Mishap /\ Stop(j) /\ UNCHANGED dump
    /\ UNCHANGED <<db, configured, manifest, bundle, runs>>

\* Mutant: the exit status of pg_dump is not looked at.
AfterFailedDump_GoesOn(j) == Become(j, Turn(j, "verifyDump"))

AfterFailedDump(j) == Stop(j)

\* A pg_dump that fails has already overwritten the last dump.
DumpStop(j) ==
    /\ job[j].pc = "dumping"
    /\ \/ NoMishap /\ Touch(j, Turn(j, "verifyDump"), UsingDump)
          /\ dump' = [dump EXCEPT !.bad = IF dump.mixed THEN Projects ELSE {}]
       \/ Mishap /\ Touch(j, [Turn(j, "verifyDump") EXCEPT !.damaged = TRUE], UsingDump)
          /\ \E bad \in SUBSET Projects : dump' = [dump EXCEPT !.bad = bad]
       \/ Mishap /\ AfterFailedDump(j) /\ UNCHANGED dump
    /\ UNCHANGED <<db, configured, manifest, bundle, runs>>

\* The verification replays the store the dump was taken from, not the dump.
VerifyDump(j) ==
    /\ job[j].pc = "verifyDump"
    /\ \/ NoMishap /\ StoreVerified(job[j].dsn) /\ Become(j, Turn(j, "evidence"))
       \/ NoMishap /\ ~StoreVerified(job[j].dsn) /\ Stop(j)
       \/ Mishap /\ Stop(j)
    /\ UNCHANGED <<db, configured, dump, manifest, bundle, runs>>

\* run_evidence_export: a regista bundle of every configured project, from the store
\* the components are configured with, exported and then verified.  A project that
\* fails does not stop the others, nor the backup; a provenance bundle that fails is
\* not counted, and left out here.
EvidenceExport(j) ==
    /\ job[j].pc = "evidence"
    /\ \E lost \in SUBSET configured :
          LET absent == {p \in configured : db["production"][p].ver = 0}
          IN  /\ IF lost = {} THEN NoMishap ELSE Mishap
              /\ bundle' = [p \in Projects |->
                     IF p \in configured \ (lost \cup absent)
                     THEN db["production"][p].ver ELSE bundle[p]]
              /\ Become(j, [Turn(j, "manifest") EXCEPT
                               !.good = @ /\ lost \cup absent = {}])
    /\ UNCHANGED <<db, configured, dump, manifest, runs>>

Manifest(j) ==
    /\ job[j].pc = "manifest"
    /\ manifest' = dump
    /\ End(j, job[j].good)
    /\ UNCHANGED <<db, configured, dump, bundle, runs, mishaps>>

-----------------------------------------------------------------------------
(* run_restore *)

RestoreBegin(j) ==
    /\ job[j].pc = "restore"
    /\ \/ job[j].dsn # "none" /\ dump.there /\ NoMishap
          /\ Become(j, [Turn(j, "restoring") EXCEPT !.from = dump])
       \/ (job[j].dsn = "none" \/ ~dump.there) /\ NoMishap /\ Stop(j)
       \/ job[j].dsn # "none" /\ dump.there /\ Mishap /\ Stop(j)
    /\ UNCHANGED <<db, configured, dump, manifest, bundle, runs>>

\* Mutant: a pg_restore that ran is DONE, whatever its exit status.
Classified_Done(j, failed) == Turn(j, "verifyRestore")

\* classify_pg_restore: exit 0 is DONE, anything else PARTIAL, which lets the run go on
\* to the verification and spoils its verdict.
Classified(j, failed) == [Turn(j, "verifyRestore") EXCEPT !.good = failed = {}]

\* A pg_restore that could not be run to its end is FAILED and stops the run.  An entry
\* that fails is left as it was, or has been dropped.
Entries(a) == {p \in Projects : a.of[p].ver > 0}
Restored(old, a, failed, dropped) == [p \in Projects |->
    IF p \in Entries(a) \ failed THEN a.of[p]
    ELSE IF p \in dropped THEN [ver |-> 0, is |-> "good"] ELSE old[p]]

RestoreStop(j) ==
    /\ job[j].pc = "restoring"
    /\ LET s == job[j].dsn
           unreadable == Entries(job[j].from) \cap (job[j].from.bad \cup dump.bad)
           others == UsingStore(s)
       IN  \E failed \in SUBSET Entries(job[j].from) : \E dropped \in SUBSET failed :
              /\ unreadable \subseteq failed
              /\ db' = [db EXCEPT ![s] = Restored(@, job[j].from, failed, dropped)]
              /\ \/ failed = unreadable /\ NoMishap
                    /\ Touch(j, Classified(j, failed), others)
                 \/ Mishap
                    /\ Touch(j, [Turn(j, "verifyRestore") EXCEPT !.good = FALSE], others)
                 \/ Mishap /\ Touch(j, [NoJob EXCEPT !.pc = "failed"], others)
    /\ UNCHANGED <<configured, dump, manifest, bundle, runs>>

VerifyRestore(j) ==
    /\ job[j].pc = "verifyRestore"
    /\ \/ NoMishap /\ StoreVerified(job[j].dsn) /\ Become(j, Turn(j, "postDoctor"))
       \/ NoMishap /\ ~StoreVerified(job[j].dsn) /\ Stop(j)
       \/ Mishap /\ Stop(j)
    /\ UNCHANGED <<db, configured, dump, manifest, bundle, runs>>

PostDoctor(j) ==
    /\ job[j].pc = "postDoctor"
    /\ \/ NoMishap /\ End(j, job[j].good)
       \/ Mishap /\ Stop(j)
    /\ UNCHANGED <<db, configured, dump, manifest, bundle, runs>>

-----------------------------------------------------------------------------
(* The surroundings *)

\* The suite writes to its store; a project appears with its first event.
Write(p) ==
    /\ db["production"][p].ver < MaxVersion
    /\ db' = [db EXCEPT !["production"][p].ver = @ + 1]
    /\ job' = [k \in Jobs |-> IF k \in UsingStore("production") /\ job[k].kind = "restore"
                              THEN [job[k] EXCEPT !.raced = TRUE] ELSE job[k]]
    /\ UNCHANGED <<configured, dump, manifest, bundle, runs, mishaps>>

\* Something is wrong with a project from now on.
Decay(p, c) ==
    /\ db["production"][p].ver > 0 /\ db["production"][p].is = "good"
    /\ Mishap
    /\ db' = [db EXCEPT !["production"][p].is = c]
    /\ job' = [k \in Jobs |-> IF k \in UsingStore("production") /\ job[k].kind = "restore"
                              THEN [job[k] EXCEPT !.raced = TRUE] ELSE job[k]]
    /\ UNCHANGED <<configured, dump, manifest, bundle, runs>>

Kill(j) ==
    /\ job[j].pc \notin Rest /\ Mishap
    /\ Become(j, NoJob)
    /\ UNCHANGED <<db, configured, dump, manifest, bundle, runs>>

-----------------------------------------------------------------------------
(* Specification *)

BackupStep(j) ==
    \/ PreDoctor(j) \/ DumpBegin(j) \/ DumpStop(j) \/ VerifyDump(j) \/ EvidenceExport(j)
    \/ Manifest(j) \/ RestoreBegin(j) \/ RestoreStop(j) \/ VerifyRestore(j)
    \/ PostDoctor(j)

Surroundings ==
    \/ \E p \in Projects : Write(p) \/ \E c \in Wrongs : Decay(p, c)
    \/ \E j \in Jobs : Kill(j)

BackupNext ==
    \/ \E j \in Jobs : \/ BackupStep(j)
                       \/ \E kind \in {"backup", "restore"}, dsn \in Stores \cup {"none"} :
                             Start(j, kind, dsn)
    \/ Surroundings

BackupSpec == BackupInit /\ [][BackupNext]_backupVars
-----------------------------------------------------------------------------
(* Properties *)

Finishes(j, kind) == job[j].kind = kind /\ job[j].pc \notin Rest /\ job'[j].pc = "ok"

\* A backup that exits 0 leaves a dump of the store as it was when the backup began or
\* later, with every configured project in good condition in it, a manifest that names
\* this very file, and bundles no older: unless a second command was at the same
\* directory or store, or pg_dump itself exited 0 over a bad archive.
BackupIsTrue == [][\A j \in Jobs : Finishes(j, "backup") /\ ~job[j].raced =>
    /\ manifest' = dump' /\ dump'.there
    /\ \A p \in Projects : dump'.of[p].ver >= job[j].since[p].ver
    /\ job[j].damaged \/ dump'.bad = {}
    /\ \A p \in configured :
          /\ dump'.of[p].is = "good"
          /\ job[j].dsn = "production" => bundle'[p] >= job[j].since[p].ver]_backupVars

\* A restore that exits 0, with nobody else at its file or its store, put in place
\* every entry of the archive it opened, and every configured project is there and in
\* good condition: so the weekly restore catches the bad archive that the backup's own
\* verification, which looks at the live store, does not see.
RestoreIsTrue == [][\A j \in Jobs : Finishes(j, "restore") /\ ~job[j].raced =>
    LET now == db'[job[j].dsn]
    IN  /\ Entries(job[j].from) \cap job[j].from.bad = {}
        /\ \A p \in Entries(job[j].from) : now[p] = job[j].from.of[p]
        /\ \A p \in configured : now[p].ver > 0 /\ now[p].is = "good"]_backupVars
=============================================================================

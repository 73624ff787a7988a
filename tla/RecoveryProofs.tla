--------------------------- MODULE RecoveryProofs ---------------------------
(***************************************************************************)
(* Proofs about Recovery: what a backup, a restore and the weekly restore  *)
(* promise, for any schedules, projects, writes, failures and edits.       *)
(***************************************************************************)
EXTENDS Recovery, ScheduleProofs

USE DEF Rest, Stores

\* What a job is doing says which command it is, and which store it has.
KindInv(k) ==
    /\ job[k].pc \in {"dump", "dumping", "verifyDump", "evidence", "manifest"} =>
          job[k].kind = "backup"
    /\ job[k].pc \in {"restore", "restoring", "verifyRestore", "postDoctor"} =>
          job[k].kind = "restore"
    /\ job[k].pc \in JobPCs \ (Rest \cup {"doctor", "dump", "restore"}) =>
          job[k].dsn \in Stores

\* A store that a backup looks at only grows older and worse while it does.
Aged(old, new) == \A p \in Projects :
    new[p].ver >= old[p].ver /\ (old[p].is # "good" => new[p].is # "good")

\* From the moment the dump is taken it is at least as new as the store was when the
\* backup began, and nothing was wrong in it that is not wrong in the store.
Taken(k) ==
    /\ dump.there
    /\ \A p \in Projects : dump.of[p].ver >= job[k].since[p].ver
    /\ Aged(dump.of, db[job[k].dsn])

\* A backup nobody interfered with, step by step.
BackupInv(k) ==
    job[k].pc \notin Rest /\ job[k].kind = "backup" /\ ~job[k].raced =>
        /\ job[k].dsn \in Stores => Aged(job[k].since, db[job[k].dsn])
        /\ job[k].pc \in {"dumping", "verifyDump", "evidence", "manifest"} => Taken(k)
        /\ job[k].pc = "dumping" => ~dump.mixed
        /\ job[k].pc \in {"verifyDump", "evidence", "manifest"} =>
              job[k].damaged \/ dump.bad = {}
        /\ job[k].pc \in {"evidence", "manifest"} =>
              \A p \in configured : dump.of[p].is = "good"
        /\ job[k].pc = "manifest" /\ job[k].good /\ job[k].dsn = "production" =>
              \A p \in configured : bundle[p] >= job[k].since[p].ver

\* A restore nobody interfered with, once pg_restore is through.
RestoreInv(k) ==
    job[k].kind = "restore" /\ ~job[k].raced =>
        /\ job[k].pc \in {"verifyRestore", "postDoctor"} /\ job[k].good =>
              /\ Entries(job[k].from) \cap job[k].from.bad = {}
              /\ \A p \in Entries(job[k].from) : db[job[k].dsn][p] = job[k].from.of[p]
        /\ job[k].pc = "postDoctor" =>
              \A p \in configured : /\ db[job[k].dsn][p].ver > 0
                                    /\ db[job[k].dsn][p].is = "good"

JobInv(k) == KindInv(k) /\ BackupInv(k) /\ RestoreInv(k)
JobsInv == BackupTypeOK /\ \A k \in Jobs : JobInv(k)

-----------------------------------------------------------------------------
(* Types *)

LEMMA NothingType == Nothing \in Contents
  BY BackupAssumption DEF Nothing, Contents, Content, Condition

LEMMA NoArchiveType == NoArchive \in Archive
  BY NothingType DEF NoArchive, Archive

LEMMA NoJobType == NoJob \in Job
  BY NothingType, NoArchiveType DEF NoJob, Job, JobPCs

LEMMA ConfiguredType ==
  ASSUME BackupTypeOK
  PROVE  configured \subseteq Projects
  BY BackupAssumption DEF BackupTypeOK

LEMMA StoreType ==
  ASSUME BackupTypeOK, NEW s \in Stores, NEW p \in Projects
  PROVE  /\ db[s] \in Contents /\ db[s][p] \in Content
         /\ db[s][p].ver \in Nat /\ db[s][p].is \in Condition
  BY BackupAssumption DEF BackupTypeOK, Contents, Content

\* What Become and Touch leave of the jobs.
LEMMA BecomeType ==
  ASSUME BackupTypeOK, NEW j \in Jobs, NEW r \in Job, Become(j, r)
  PROVE  /\ job' \in [Jobs -> Job] /\ job'[j] = r
         /\ \A k \in Jobs \ {j} : job'[k] = job[k]
  BY DEF BackupTypeOK, Become

LEMMA TouchType ==
  ASSUME BackupTypeOK, NEW j \in Jobs, NEW r \in Job, NEW others, Touch(j, r, others)
  PROVE  /\ job' \in [Jobs -> Job] /\ job'[j] = r
         /\ \A k \in Jobs \ {j} :
               IF k \in others THEN job'[k] = [job[k] EXCEPT !.raced = TRUE]
               ELSE job'[k] = job[k]
  <1>1. \A k \in Jobs : [job[k] EXCEPT !.raced = TRUE] \in Job
    BY DEF BackupTypeOK, Job
  <1> QED
    BY <1>1 DEF BackupTypeOK, Touch

-----------------------------------------------------------------------------
(* The jobs that stand by *)

\* A job that was interfered with is held to nothing but its kind.
LEMMA RacedKeeps ==
  ASSUME BackupTypeOK, NEW k \in Jobs, JobInv(k),
         job'[k] = [job[k] EXCEPT !.raced = TRUE]
  PROVE  JobInv(k)'
  <1>1. /\ job'[k].pc = job[k].pc /\ job'[k].kind = job[k].kind
        /\ job'[k].dsn = job[k].dsn /\ job'[k].raced
    BY DEF BackupTypeOK, Job
  <1> QED
    BY <1>1 DEF JobInv, KindInv, BackupInv, RestoreInv

\* A job that rests is held to nothing.
LEMMA RestKeeps ==
  ASSUME NEW k \in Jobs, job'[k].pc \in Rest
  PROVE  JobInv(k)'
  BY DEF JobInv, KindInv, BackupInv, RestoreInv

LEMMA AgedTransitive ==
  ASSUME NEW x \in Contents, NEW y \in Contents, NEW z \in Contents,
         Aged(x, y), Aged(y, z)
  PROVE  Aged(x, z)
  <1>1. \A p \in Projects : x[p].ver \in Nat /\ y[p].ver \in Nat /\ z[p].ver \in Nat
    BY BackupAssumption DEF Contents, Content
  <1> QED
    BY <1>1 DEF Aged

\* What may change around a job without disturbing it: its store as long as it is a
\* backup's and only grows older, bundles as long as they are of production, and the
\* dump as long as the job does not use it.
Unharmed(k) ==
    /\ configured' = configured
    /\ job[k].pc \notin Rest /\ job[k].dsn \in Stores =>
          IF job[k].kind = "restore" THEN db'[job[k].dsn] = db[job[k].dsn]
          ELSE Aged(db[job[k].dsn], db'[job[k].dsn])
    /\ k \in UsingDump => dump' = dump
    /\ \A p \in Projects : bundle'[p] \in {bundle[p], db["production"][p].ver}

LEMMA UnharmedKeeps ==
  ASSUME BackupTypeOK, BackupTypeOK', NEW k \in Jobs, JobInv(k), Unharmed(k),
         job'[k] = job[k]
  PROVE  JobInv(k)'
  <1> USE DEF UsingDump
  <1>t. /\ job[k] \in Job /\ job[k].since \in Contents /\ dump.of \in Contents
        /\ \A p \in Projects : bundle[p] \in Nat /\ job[k].since[p].ver \in Nat
    BY BackupAssumption DEF BackupTypeOK, Job, Archive, Contents, Content
  <1>0. KindInv(k)'
    BY DEF JobInv, KindInv
  <1>1. BackupInv(k)'
    <2> SUFFICES ASSUME job[k].pc \notin Rest, job[k].kind = "backup", ~job[k].raced
                 PROVE  BackupInv(k)'
      BY DEF BackupInv
    <2> BackupInv(k)
      BY DEF JobInv
    <2>1. job[k].dsn \in Stores => Aged(job[k].since, db'[job[k].dsn])
      <3>1. job[k].dsn \in Stores => db[job[k].dsn] \in Contents /\ db'[job[k].dsn] \in Contents
        BY DEF BackupTypeOK
      <3> QED
        BY <1>t, <3>1, AgedTransitive DEF Unharmed, BackupInv
    <2>2. job[k].pc \in {"dumping", "verifyDump", "evidence", "manifest"} => Taken(k)'
      <3> SUFFICES ASSUME job[k].pc \in {"dumping", "verifyDump", "evidence", "manifest"}
                   PROVE  Taken(k)'
        OBVIOUS
      <3>1. dump' = dump /\ Taken(k) /\ job[k].dsn \in Stores
        BY DEF Unharmed, BackupInv, JobInv, KindInv, JobPCs
      <3>2. db[job[k].dsn] \in Contents /\ db'[job[k].dsn] \in Contents
        BY <3>1 DEF BackupTypeOK
      <3>3. Aged(dump.of, db'[job[k].dsn])
        BY <1>t, <3>1, <3>2, AgedTransitive DEF Unharmed, Taken
      <3> QED
        BY <3>1, <3>3 DEF Taken
    <2>3. job[k].pc = "manifest" /\ job[k].good /\ job[k].dsn = "production" =>
            \A p \in configured : bundle'[p] >= job[k].since[p].ver
      <3> SUFFICES ASSUME job[k].pc = "manifest", job[k].good,
                          job[k].dsn = "production", NEW p \in configured
                   PROVE  bundle'[p] >= job[k].since[p].ver
        OBVIOUS
      <3>1. p \in Projects
        BY ConfiguredType
      <3>2. bundle[p] >= job[k].since[p].ver
        BY DEF BackupInv
      <3>3. db["production"][p].ver >= job[k].since[p].ver
        BY <3>1 DEF BackupInv, Aged
      <3> QED
        BY <3>1, <3>2, <3>3 DEF Unharmed
    <2> QED
      BY <2>1, <2>2, <2>3 DEF BackupInv, Unharmed
  <1>2. RestoreInv(k)'
    BY DEF JobInv, RestoreInv, KindInv, JobPCs, Unharmed
  <1> QED
    BY <1>0, <1>1, <1>2 DEF JobInv
-----------------------------------------------------------------------------
(* Steps that change the job only *)

\* A step of j that touches nothing else disturbs no other job.
LEMMA OnlyJob ==
  ASSUME JobsInv, NEW j \in Jobs, NEW r \in Job, Become(j, r),
         UNCHANGED <<db, configured, dump, bundle>>,
         manifest' \in Archive, runs' \in 0 .. MaxRuns, mishaps' \in 0 .. MaxMishaps,
         JobInv(j)'
  PROVE  JobsInv'
  <1>1. BackupTypeOK'
    BY BecomeType DEF BackupTypeOK, JobsInv
  <1>2. \A k \in Jobs \ {j} : JobInv(k)'
    <2> SUFFICES ASSUME NEW k \in Jobs \ {j}
                 PROVE  JobInv(k)'
      OBVIOUS
    <2>1. job'[k] = job[k] /\ JobInv(k) /\ BackupTypeOK
      BY BecomeType DEF JobsInv
    <2>2. Aged(db[job[k].dsn], db[job[k].dsn]) \/ job[k].dsn \notin Stores
      <3>1. job[k].dsn \in Stores => \A p \in Projects : db[job[k].dsn][p].ver \in Nat
        BY <2>1, StoreType
      <3> QED
        BY <3>1 DEF Aged
    <2>3. Unharmed(k)
      BY <2>2 DEF Unharmed
    <2> QED
      BY <1>1, <2>1, <2>3, UnharmedKeeps
  <1> QED
    BY <1>1, <1>2 DEF JobsInv

LEMMA MishapType ==
  ASSUME BackupTypeOK, Mishap \/ NoMishap
  PROVE  mishaps' \in 0 .. MaxMishaps
  BY BackupAssumption DEF BackupTypeOK, Mishap, NoMishap

LEMMA TurnType ==
  ASSUME BackupTypeOK, NEW j \in Jobs, NEW pc \in JobPCs
  PROVE  /\ Turn(j, pc) \in Job
         /\ Turn(j, pc).pc = pc /\ Turn(j, pc).kind = job[j].kind
         /\ Turn(j, pc).dsn = job[j].dsn /\ Turn(j, pc).since = job[j].since
         /\ Turn(j, pc).good = job[j].good /\ Turn(j, pc).from = job[j].from
         /\ Turn(j, pc).raced = job[j].raced
         /\ Turn(j, pc).damaged = job[j].damaged
  BY DEF BackupTypeOK, Job, Turn

\* How a run ends.
LEMMA EndKeeps ==
  ASSUME JobsInv, NEW j \in Jobs, NEW ok \in BOOLEAN, End(j, ok),
         UNCHANGED <<db, configured, dump, bundle, runs>>, manifest' \in Archive,
         Mishap \/ NoMishap
  PROVE  JobsInv'
  <1> DEFINE r == [NoJob EXCEPT !.pc = IF ok THEN "ok" ELSE "failed"]
  <1>1. r \in Job /\ r.pc \in Rest
    BY NoJobType DEF Job, JobPCs, NoJob
  <1>2. job'[j] = r /\ Become(j, r)
    BY <1>1, BecomeType DEF End, JobsInv
  <1>3. JobInv(j)'
    BY <1>1, <1>2, RestKeeps
  <1>4. runs' \in 0 .. MaxRuns /\ mishaps' \in 0 .. MaxMishaps
    BY MishapType DEF JobsInv, BackupTypeOK
  <1> HIDE DEF r
  <1> QED
    BY <1>1, <1>2, <1>3, <1>4, OnlyJob

LEMMA StopKeeps ==
  ASSUME JobsInv, NEW j \in Jobs, Stop(j),
         UNCHANGED <<db, configured, dump, manifest, bundle, runs>>, Mishap \/ NoMishap
  PROVE  JobsInv'
  <1>1. manifest' \in Archive
    BY DEF JobsInv, BackupTypeOK
  <1> QED
    BY <1>1, EndKeeps DEF Stop

LEMMA KillKeeps ==
  ASSUME JobsInv, NEW j \in Jobs, Kill(j)
  PROVE  JobsInv'
  <1>1. job'[j] = NoJob /\ Become(j, NoJob)
    BY NoJobType, BecomeType DEF Kill, JobsInv
  <1>2. JobInv(j)'
    BY <1>1, RestKeeps DEF NoJob
  <1>3. /\ manifest' \in Archive /\ runs' \in 0 .. MaxRuns
        /\ mishaps' \in 0 .. MaxMishaps
    BY MishapType DEF JobsInv, BackupTypeOK, Kill
  <1> QED
    BY <1>1, <1>2, <1>3, NoJobType, OnlyJob DEF Kill

LEMMA StartKeeps ==
  ASSUME JobsInv, NEW j \in Jobs, NEW kind \in {"backup", "restore"},
         NEW dsn \in Stores \cup {"none"}, Start(j, kind, dsn)
  PROVE  JobsInv'
  <1> DEFINE r == [NoJob EXCEPT !.pc = "doctor", !.kind = kind, !.dsn = dsn,
                     !.since = IF dsn = "none" THEN Nothing ELSE db[dsn]]
  <1>1. dsn \in Stores => db[dsn] \in Contents
    BY DEF JobsInv, BackupTypeOK
  <1>2. r \in Job
    BY <1>1, NoJobType, NothingType DEF Job, JobPCs, NoJob
  <1>3. job'[j] = r /\ Become(j, r)
    BY <1>2, BecomeType DEF Start, JobsInv
  <1>4. /\ r.pc = "doctor" /\ r.kind = kind /\ r.dsn = dsn
        /\ dsn \in Stores => r.since = db[dsn]
    BY DEF NoJob
  <1>5. dsn \in Stores => Aged(db[dsn], db[dsn])
    BY StoreType DEF Aged, JobsInv
  <1> HIDE DEF r
  <1>6. JobInv(j)'
    BY <1>3, <1>4, <1>5 DEF JobInv, KindInv, BackupInv, RestoreInv, Start
  <1>7. /\ manifest' \in Archive /\ runs' \in 0 .. MaxRuns
        /\ mishaps' \in 0 .. MaxMishaps
    BY BackupAssumption DEF JobsInv, BackupTypeOK, Start
  <1> QED
    BY <1>2, <1>3, <1>6, <1>7, OnlyJob DEF Start
\* A job that goes on, with nothing else changed.
LEMMA TurnKeeps ==
  ASSUME JobsInv, NEW j \in Jobs, NEW pc \in JobPCs, Become(j, Turn(j, pc)),
         UNCHANGED <<db, configured, dump, manifest, bundle, runs>>, NoMishap,
         JobInv(j)'
  PROVE  JobsInv'
  <1>1. Turn(j, pc) \in Job
    BY TurnType DEF JobsInv
  <1>2. /\ manifest' \in Archive /\ runs' \in 0 .. MaxRuns
        /\ mishaps' \in 0 .. MaxMishaps
    BY MishapType DEF JobsInv, BackupTypeOK
  <1> QED
    BY <1>1, <1>2, OnlyJob

LEMMA PreDoctorKeeps ==
  ASSUME JobsInv, NEW j \in Jobs, PreDoctor(j)
  PROVE  JobsInv'
  <1> DEFINE next == IF job[j].kind = "backup" THEN "dump" ELSE "restore"
  <1>1. CASE NoMishap /\ Become(j, Turn(j, next))
    <2>0. next \in JobPCs
      BY DEF JobPCs
    <2>1. job'[j] = Turn(j, next) /\ JobInv(j) /\ job[j].kind \in {"backup", "restore"}
      BY <1>1, <2>0, TurnType, BecomeType DEF JobsInv, BackupTypeOK, Job
    <2>2. JobInv(j)'
      BY <2>0, <2>1, TurnType DEF JobInv, KindInv, BackupInv, RestoreInv, PreDoctor, JobsInv
    <2> QED
      BY <1>1, <2>0, <2>2, TurnKeeps DEF PreDoctor
  <1>2. CASE Mishap /\ Stop(j)
    BY <1>2, StopKeeps DEF PreDoctor
  <1> QED
    BY <1>1, <1>2 DEF PreDoctor

\* What "verified" means of a project.
LEMMA VerifiedIsGood ==
  ASSUME BackupTypeOK, NEW s \in Stores, StoreVerified(s), NEW p \in configured
  PROVE  db[s][p].ver > 0 /\ db[s][p].is = "good"
  <1>1. p \in Projects
    BY ConfiguredType
  <1>2. db[s][p].ver \in Nat /\ db[s][p].is \in Condition
    BY <1>1, StoreType
  <1>3. VerifyOne(Replay(db[s][p])) = "verified"
    BY DEF StoreVerified
  <1> QED
    BY <1>2, <1>3, BackupAssumption DEF VerifyOne, Replay, Condition, Conditions

LEMMA VerifyDumpKeeps ==
  ASSUME JobsInv, NEW j \in Jobs, VerifyDump(j)
  PROVE  JobsInv'
  <1>1. CASE NoMishap /\ StoreVerified(job[j].dsn) /\ Become(j, Turn(j, "evidence"))
    <2>1. job'[j] = Turn(j, "evidence") /\ JobInv(j) /\ BackupTypeOK
      BY <1>1, TurnType, BecomeType DEF JobsInv, JobPCs
    <2>2. job[j].dsn \in Stores
      BY <2>1 DEF JobInv, KindInv, VerifyDump, JobPCs
    <2>3. ~job[j].raced => \A p \in configured : dump.of[p].is = "good"
      <3> SUFFICES ASSUME ~job[j].raced, NEW p \in configured
                   PROVE  dump.of[p].is = "good"
        OBVIOUS
      <3>1. db[job[j].dsn][p].is = "good"
        BY <1>1, <2>1, <2>2, VerifiedIsGood
      <3>2. Taken(j)
        BY <2>1 DEF JobInv, BackupInv, KindInv, VerifyDump
      <3> QED
        BY <2>1, <3>1, <3>2, ConfiguredType DEF Taken, Aged
    <2>4. JobInv(j)'
      BY <2>1, <2>2, <2>3, TurnType
         DEF JobInv, KindInv, BackupInv, RestoreInv, VerifyDump, JobPCs, Taken
    <2> QED
      BY <1>1, <2>4, TurnKeeps DEF VerifyDump, JobPCs
  <1>2. CASE (Mishap \/ NoMishap) /\ Stop(j)
    BY <1>2, StopKeeps DEF VerifyDump
  <1> QED
    BY <1>1, <1>2 DEF VerifyDump

LEMMA VerifyRestoreKeeps ==
  ASSUME JobsInv, NEW j \in Jobs, VerifyRestore(j)
  PROVE  JobsInv'
  <1>1. CASE NoMishap /\ StoreVerified(job[j].dsn) /\ Become(j, Turn(j, "postDoctor"))
    <2>1. job'[j] = Turn(j, "postDoctor") /\ JobInv(j) /\ BackupTypeOK
      BY <1>1, TurnType, BecomeType DEF JobsInv, JobPCs
    <2>2. job[j].dsn \in Stores
      BY <2>1 DEF JobInv, KindInv, VerifyRestore, JobPCs
    <2>3. \A p \in configured :
             db[job[j].dsn][p].ver > 0 /\ db[job[j].dsn][p].is = "good"
      BY <1>1, <2>1, <2>2, VerifiedIsGood
    <2>4. JobInv(j)'
      BY <2>1, <2>2, <2>3, TurnType
         DEF JobInv, KindInv, BackupInv, RestoreInv, VerifyRestore, JobPCs
    <2> QED
      BY <1>1, <2>4, TurnKeeps DEF VerifyRestore, JobPCs
  <1>2. CASE (Mishap \/ NoMishap) /\ Stop(j)
    BY <1>2, StopKeeps DEF VerifyRestore
  <1> QED
    BY <1>1, <1>2 DEF VerifyRestore

LEMMA PostDoctorKeeps ==
  ASSUME JobsInv, NEW j \in Jobs, PostDoctor(j)
  PROVE  JobsInv'
  <1>1. job[j].good \in BOOLEAN /\ manifest' \in Archive
    BY DEF JobsInv, BackupTypeOK, Job, PostDoctor
  <1> QED
    BY <1>1, EndKeeps, StopKeeps DEF PostDoctor

LEMMA RestoreBeginKeeps ==
  ASSUME JobsInv, NEW j \in Jobs, RestoreBegin(j)
  PROVE  JobsInv'
  <1> DEFINE r == [Turn(j, "restoring") EXCEPT !.from = dump]
  <1>1. CASE job[j].dsn # "none" /\ dump.there /\ NoMishap /\ Become(j, r)
    <2>1. /\ r \in Job /\ r.pc = "restoring" /\ r.kind = job[j].kind
          /\ r.dsn = job[j].dsn
      BY DEF Turn, JobsInv, BackupTypeOK, Job, JobPCs
    <2>2. job'[j] = r /\ JobInv(j) /\ job[j].dsn \in Stores
      BY <1>1, <2>1, BecomeType DEF JobsInv, BackupTypeOK, Job
    <2>3. JobInv(j)'
      BY <2>1, <2>2 DEF JobInv, KindInv, BackupInv, RestoreInv, RestoreBegin, JobPCs
    <2>4. /\ manifest' \in Archive /\ runs' \in 0 .. MaxRuns
          /\ mishaps' \in 0 .. MaxMishaps
      BY <1>1, MishapType DEF JobsInv, BackupTypeOK, RestoreBegin
    <2> HIDE DEF r
    <2> QED
      BY <1>1, <2>1, <2>3, <2>4, OnlyJob DEF RestoreBegin
  <1>2. CASE (Mishap \/ NoMishap) /\ Stop(j)
    BY <1>2, StopKeeps DEF RestoreBegin
  <1> QED
    BY <1>1, <1>2 DEF RestoreBegin

LEMMA ManifestKeeps ==
  ASSUME JobsInv, NEW j \in Jobs, Manifest(j)
  PROVE  JobsInv'
  <1>1. job[j].good \in BOOLEAN /\ manifest' \in Archive /\ NoMishap
    BY DEF JobsInv, BackupTypeOK, Job, Manifest, NoMishap
  <1> QED
    BY <1>1, EndKeeps DEF Manifest
-----------------------------------------------------------------------------
(* Steps that change what others look at *)

LEMMA ElementKeeps ==
  ASSUME JobsInv, BackupTypeOK', NEW k \in Jobs,
         \/ job'[k] = job[k] /\ Unharmed(k)
         \/ job'[k] = [job[k] EXCEPT !.raced = TRUE]
  PROVE  JobInv(k)'
  BY UnharmedKeeps, RacedKeeps DEF JobsInv

LEMMA AgedReflexive ==
  ASSUME BackupTypeOK, NEW s \in Stores
  PROVE  Aged(db[s], db[s])
  BY StoreType DEF Aged

\* Whoever does not use the dump is not harmed by another one.
LEMMA DumpUnharmed ==
  ASSUME JobsInv, NEW j \in Jobs, NEW r \in Job, Touch(j, r, UsingDump),
         UNCHANGED <<db, configured, bundle>>, NEW k \in Jobs \ {j}
  PROVE  \/ job'[k] = job[k] /\ Unharmed(k)
         \/ job'[k] = [job[k] EXCEPT !.raced = TRUE]
  <1>1. CASE k \in UsingDump
    BY <1>1, TouchType DEF JobsInv
  <1>2. CASE k \notin UsingDump
    BY <1>2, TouchType, AgedReflexive DEF JobsInv, Unharmed
  <1> QED
    BY <1>1, <1>2

LEMMA DumpKeeps ==
  ASSUME JobsInv, NEW j \in Jobs, NEW r \in Job, Touch(j, r, UsingDump),
         UNCHANGED <<db, configured, manifest, bundle, runs>>, Mishap \/ NoMishap,
         dump' \in Archive, BackupTypeOK' => JobInv(j)'
  PROVE  JobsInv'
  <1>1. BackupTypeOK'
    BY TouchType, MishapType DEF JobsInv, BackupTypeOK
  <1>2. \A k \in Jobs \ {j} : JobInv(k)'
    BY <1>1, DumpUnharmed, ElementKeeps
  <1> QED
    BY <1>1, <1>2 DEF JobsInv

LEMMA DumpBeginKeeps ==
  ASSUME JobsInv, NEW j \in Jobs, DumpBegin(j)
  PROVE  JobsInv'
  <1> DEFINE shared == \E k \in Jobs : job[k].pc = "dumping"
             r == [Turn(j, "dumping") EXCEPT !.raced = @ \/ shared]
  <1>1. CASE /\ job[j].dsn # "none" /\ NoMishap
             /\ dump' = [there |-> TRUE, of |-> db[job[j].dsn], bad |-> Projects,
                         mixed |-> shared]
             /\ Touch(j, r, UsingDump)
    <2>1. /\ r \in Job /\ r.pc = "dumping" /\ r.kind = job[j].kind
          /\ r.dsn = job[j].dsn /\ r.since = job[j].since
          /\ ~r.raced => ~job[j].raced /\ ~shared
      BY DEF Turn, JobsInv, BackupTypeOK, Job, JobPCs
    <2>2. JobInv(j) /\ job[j].dsn \in Stores /\ job[j].kind = "backup"
      BY <1>1 DEF JobsInv, BackupTypeOK, Job, JobInv, KindInv, DumpBegin
    <2> HIDE DEF r, shared
    <2>3. job'[j] = r
      BY <1>1, <2>1, TouchType DEF JobsInv
    <2>4. Aged(db[job[j].dsn], db[job[j].dsn])
      BY <2>2, AgedReflexive DEF JobsInv
    <2>5. /\ dump'.there /\ dump'.of = db[job[j].dsn] /\ dump'.mixed = shared
          /\ db' = db
      BY <1>1 DEF DumpBegin
    <2>6. ~r.raced => Aged(job[j].since, db[job[j].dsn])
      BY <2>1, <2>2 DEF JobInv, BackupInv, DumpBegin
    <2>7. ~r.raced => Taken(j)'
      BY <2>1, <2>3, <2>4, <2>5, <2>6 DEF Taken, Aged
    <2>8. JobInv(j)'
      BY <2>1, <2>2, <2>3, <2>5, <2>6, <2>7
         DEF JobInv, KindInv, BackupInv, RestoreInv, JobPCs
    <2>9. dump' \in Archive
      BY <1>1, <2>2 DEF JobsInv, BackupTypeOK, Archive, shared
    <2> QED
      BY <1>1, <2>1, <2>8, <2>9, DumpKeeps DEF DumpBegin
  <1>2. CASE (Mishap \/ NoMishap) /\ Stop(j) /\ UNCHANGED dump
    BY <1>2, StopKeeps DEF DumpBegin
  <1> QED
    BY <1>1, <1>2 DEF DumpBegin

LEMMA DumpStopKeeps ==
  ASSUME JobsInv, NEW j \in Jobs, DumpStop(j)
  PROVE  JobsInv'
  <1>0. JobInv(j) /\ job[j].kind = "backup" /\ job[j].pc = "dumping"
    BY DEF JobsInv, JobInv, KindInv, DumpStop
  <1>1. ASSUME NEW r \in Job, NEW bad \in SUBSET Projects, Mishap \/ NoMishap,
               Touch(j, r, UsingDump), dump' = [dump EXCEPT !.bad = bad],
               r.pc = "verifyDump", r.kind = job[j].kind, r.dsn = job[j].dsn,
               r.since = job[j].since, r.raced = job[j].raced,
               ~r.raced => r.damaged \/ bad = {}
        PROVE  JobsInv'
    <2>1. /\ dump' \in Archive /\ dump'.of = dump.of /\ dump'.there = dump.there
          /\ dump'.bad = bad
      BY <1>1 DEF JobsInv, BackupTypeOK, Archive
    <2>2. job'[j] = r
      BY <1>1, TouchType DEF JobsInv
    <2>3. ~r.raced => Taken(j)' /\ (r.dsn \in Stores => Aged(r.since, db[r.dsn]))
      BY <1>0, <1>1, <2>1, <2>2 DEF JobInv, BackupInv, Taken, DumpStop
    <2>4. JobInv(j)'
      BY <1>0, <1>1, <2>1, <2>2, <2>3
         DEF JobInv, KindInv, BackupInv, RestoreInv, JobPCs, DumpStop
    <2> QED
      BY <1>1, <2>1, <2>4, DumpKeeps DEF DumpStop
  <1>2. CASE /\ NoMishap /\ Touch(j, Turn(j, "verifyDump"), UsingDump)
             /\ dump' = [dump EXCEPT !.bad = IF dump.mixed THEN Projects ELSE {}]
    <2> DEFINE bad == IF dump.mixed THEN Projects ELSE {}
    <2>1. bad \in SUBSET Projects /\ "verifyDump" \in JobPCs
      BY DEF JobPCs
    <2>2. ~job[j].raced => bad = {}
      BY <1>0 DEF JobInv, BackupInv
    <2> HIDE DEF bad
    <2> QED
      BY <1>1, <1>2, <2>1, <2>2, TurnType DEF JobsInv, bad
  <1>3. CASE /\ Mishap
             /\ Touch(j, [Turn(j, "verifyDump") EXCEPT !.damaged = TRUE], UsingDump)
             /\ \E bad \in SUBSET Projects : dump' = [dump EXCEPT !.bad = bad]
    <2> DEFINE r == [Turn(j, "verifyDump") EXCEPT !.damaged = TRUE]
    <2>1. /\ r \in Job /\ r.pc = "verifyDump" /\ r.kind = job[j].kind
          /\ r.dsn = job[j].dsn /\ r.since = job[j].since /\ r.raced = job[j].raced
          /\ r.damaged
      BY DEF Turn, JobsInv, BackupTypeOK, Job, JobPCs
    <2> HIDE DEF r
    <2> QED
      BY <1>1, <1>3, <2>1 DEF r
  <1>4. CASE Mishap /\ AfterFailedDump(j) /\ UNCHANGED dump
    BY <1>4, StopKeeps DEF DumpStop, AfterFailedDump
  <1> QED
    BY <1>2, <1>3, <1>4 DEF DumpStop
LEMMA EvidenceExportKeeps ==
  ASSUME JobsInv, NEW j \in Jobs, EvidenceExport(j)
  PROVE  JobsInv'
  <1> DEFINE absent == {p \in configured : db["production"][p].ver = 0}
  <1>1. PICK lost \in SUBSET configured :
          /\ IF lost = {} THEN NoMishap ELSE Mishap
          /\ bundle' = [p \in Projects |->
                 IF p \in configured \ (lost \cup absent)
                 THEN db["production"][p].ver ELSE bundle[p]]
          /\ Become(j, [Turn(j, "manifest") EXCEPT !.good = @ /\ lost \cup absent = {}])
    BY DEF EvidenceExport
  <1> DEFINE r == [Turn(j, "manifest") EXCEPT !.good = @ /\ lost \cup absent = {}]
  <1>2. /\ r \in Job /\ r.pc = "manifest" /\ r.kind = job[j].kind
        /\ r.dsn = job[j].dsn /\ r.since = job[j].since /\ r.raced = job[j].raced
        /\ r.damaged = job[j].damaged /\ (r.good => lost \cup absent = {})
    BY DEF Turn, JobsInv, BackupTypeOK, Job, JobPCs
  <1>3. /\ job'[j] = r /\ job' \in [Jobs -> Job]
        /\ \A k \in Jobs \ {j} : job'[k] = job[k]
    BY <1>1, <1>2, BecomeType DEF JobsInv
  <1> HIDE DEF r
  <1>4. \A p \in Projects : db["production"][p].ver \in 0 .. MaxVersion
    BY DEF JobsInv, BackupTypeOK, Contents, Content
  <1>5. BackupTypeOK'
    BY <1>1, <1>3, <1>4, MishapType DEF JobsInv, BackupTypeOK, EvidenceExport
  <1>6. \A p \in Projects : bundle'[p] \in {bundle[p], db["production"][p].ver}
    BY <1>1
  <1>7. JobInv(j)'
    <2>1. JobInv(j) /\ job[j].kind = "backup" /\ job[j].dsn \in Stores
      BY DEF JobsInv, JobInv, KindInv, EvidenceExport, JobPCs
    <2>2. ASSUME ~r.raced, r.good, r.dsn = "production", NEW p \in configured
          PROVE  bundle'[p] >= r.since[p].ver
      <3>1. p \in Projects /\ bundle'[p] = db["production"][p].ver
        BY <1>1, <1>2, <2>2, ConfiguredType DEF JobsInv
      <3>2. Aged(job[j].since, db["production"])
        BY <1>2, <2>1, <2>2 DEF JobInv, BackupInv, EvidenceExport
      <3> QED
        BY <1>2, <3>1, <3>2 DEF Aged
    <2>3. ~r.raced => Taken(j)'
      BY <1>2, <1>3, <2>1 DEF JobInv, BackupInv, Taken, EvidenceExport
    <2> QED
      BY <1>2, <1>3, <2>1, <2>2, <2>3
         DEF JobInv, KindInv, BackupInv, RestoreInv, EvidenceExport, JobPCs
  <1>8. \A k \in Jobs \ {j} : Unharmed(k)
    BY <1>6, AgedReflexive DEF Unharmed, JobsInv, EvidenceExport
  <1> QED
    BY <1>3, <1>5, <1>7, <1>8, ElementKeeps DEF JobsInv

LEMMA RestoredType ==
  ASSUME NEW old \in Contents, NEW a \in Archive, NEW failed, NEW dropped
  PROVE  Restored(old, a, failed, dropped) \in Contents
  <1>1. [ver |-> 0, is |-> "good"] \in Content
    BY BackupAssumption DEF Content, Condition
  <1> QED
    BY <1>1 DEF Restored, Archive, Contents

LEMMA RestoreStopKeeps ==
  ASSUME JobsInv, NEW j \in Jobs, RestoreStop(j)
  PROVE  JobsInv'
  <1> DEFINE s == job[j].dsn
             a == job[j].from
             unreadable == Entries(a) \cap (a.bad \cup dump.bad)
  <1>0. /\ JobInv(j) /\ job[j].kind = "restore" /\ s \in Stores /\ a \in Archive
        /\ BackupTypeOK
    BY DEF JobsInv, BackupTypeOK, Job, JobInv, KindInv, RestoreStop, JobPCs
  <1>1. PICK failed \in SUBSET Entries(a), dropped \in SUBSET Projects :
          /\ unreadable \subseteq failed
          /\ db' = [db EXCEPT ![s] = Restored(@, a, failed, dropped)]
          /\ \/ failed = unreadable /\ NoMishap
                /\ Touch(j, Classified(j, failed), UsingStore(s))
             \/ Mishap
                /\ Touch(j, [Turn(j, "verifyRestore") EXCEPT !.good = FALSE],
                         UsingStore(s))
             \/ Mishap /\ Touch(j, [NoJob EXCEPT !.pc = "failed"], UsingStore(s))
    BY DEF RestoreStop, Entries
  <1>2. ASSUME NEW r \in Job, Touch(j, r, UsingStore(s)), Mishap \/ NoMishap,
               \/ r.pc \in Rest
               \/ /\ r.pc = "verifyRestore" /\ r.kind = "restore" /\ r.dsn = s
                  /\ r.from = a
                  /\ r.good => failed = {}
        PROVE  JobsInv'
    <2>1. /\ job'[j] = r /\ job' \in [Jobs -> Job]
          /\ \A k \in Jobs \ {j} :
                IF k \in UsingStore(s) THEN job'[k] = [job[k] EXCEPT !.raced = TRUE]
                ELSE job'[k] = job[k]
      BY <1>2, TouchType DEF JobsInv
    <2>2. db' \in [Stores -> Contents]
      BY <1>0, <1>1, RestoredType DEF BackupTypeOK
    <2>3. BackupTypeOK'
      BY <1>2, <2>1, <2>2, MishapType DEF JobsInv, BackupTypeOK, RestoreStop
    <2>4. \A k \in Jobs \ {j} : k \notin UsingStore(s) => Unharmed(k)
      BY <1>0, <1>1, AgedReflexive DEF Unharmed, UsingStore, RestoreStop, BackupTypeOK
    <2>5. JobInv(j)'
      <3>1. CASE r.pc \in Rest
        BY <2>1, <3>1, RestKeeps
      <3>2. CASE /\ r.pc = "verifyRestore" /\ r.kind = "restore" /\ r.dsn = s
                 /\ r.from = a
                 /\ r.good => failed = {}
        <4>1. r.good => Entries(a) \cap a.bad = {}
          BY <1>1, <3>2
        <4>2. r.good => \A p \in Entries(a) : db'[s][p] = a.of[p]
          BY <1>0, <1>1, <3>2 DEF Restored, Entries, BackupTypeOK
        <4> QED
          BY <1>0, <2>1, <3>2, <4>1, <4>2
             DEF JobInv, KindInv, BackupInv, RestoreInv, JobPCs
      <3> QED
        BY <1>2, <3>1, <3>2
    <2> QED
      BY <2>1, <2>3, <2>4, <2>5, ElementKeeps DEF JobsInv
  <1>3. CASE failed = unreadable /\ NoMishap
             /\ Touch(j, Classified(j, failed), UsingStore(s))
    <2>1. /\ Classified(j, failed) \in Job
          /\ Classified(j, failed).pc = "verifyRestore"
          /\ Classified(j, failed).kind = "restore" /\ Classified(j, failed).dsn = s
          /\ Classified(j, failed).from = a
          /\ Classified(j, failed).good => failed = {}
      BY <1>0 DEF Classified, Turn, BackupTypeOK, Job, JobPCs
    <2> QED
      BY <1>2, <1>3, <2>1
  <1>4. CASE Mishap /\ Touch(j, [Turn(j, "verifyRestore") EXCEPT !.good = FALSE],
                            UsingStore(s))
    <2> DEFINE r == [Turn(j, "verifyRestore") EXCEPT !.good = FALSE]
    <2>1. /\ r \in Job /\ r.pc = "verifyRestore" /\ r.kind = "restore" /\ r.dsn = s
          /\ r.from = a /\ ~r.good
      BY <1>0 DEF Turn, BackupTypeOK, Job, JobPCs
    <2> HIDE DEF r
    <2> QED
      BY <1>2, <1>4, <2>1 DEF r
  <1>5. CASE Mishap /\ Touch(j, [NoJob EXCEPT !.pc = "failed"], UsingStore(s))
    <2> DEFINE r == [NoJob EXCEPT !.pc = "failed"]
    <2>1. r \in Job /\ r.pc \in Rest
      BY NoJobType DEF Job, JobPCs, NoJob
    <2> HIDE DEF r
    <2> QED
      BY <1>2, <1>5, <2>1 DEF r
  <1> QED
    BY <1>1, <1>3, <1>4, <1>5

\* Writes and damage make production older or worse, and race every restore into it.
LEMMA SurroundingsKeep ==
  ASSUME JobsInv, NEW new \in Contents, Aged(db["production"], new),
         db' = [db EXCEPT !["production"] = new],
         job' = [k \in Jobs |->
                    IF k \in UsingStore("production") /\ job[k].kind = "restore"
                    THEN [job[k] EXCEPT !.raced = TRUE] ELSE job[k]],
         UNCHANGED <<configured, dump, manifest, bundle, runs>>,
         mishaps' \in 0 .. MaxMishaps
  PROVE  JobsInv'
  <1>1. \A k \in Jobs : [job[k] EXCEPT !.raced = TRUE] \in Job
    BY DEF JobsInv, BackupTypeOK, Job
  <1>2. BackupTypeOK'
    BY <1>1 DEF JobsInv, BackupTypeOK
  <1>3. ASSUME NEW k \in Jobs
        PROVE  JobInv(k)'
    <2>1. CASE k \in UsingStore("production") /\ job[k].kind = "restore"
      BY <1>2, <2>1, ElementKeeps
    <2>2. CASE ~(k \in UsingStore("production") /\ job[k].kind = "restore")
      <3>1. job'[k] = job[k]
        BY <2>2
      <3>2. Unharmed(k)
        BY <2>2, AgedReflexive DEF Unharmed, UsingStore, JobsInv, BackupTypeOK
      <3> QED
        BY <1>2, <3>1, <3>2, ElementKeeps
    <2> QED
      BY <2>1, <2>2
  <1> QED
    BY <1>2, <1>3 DEF JobsInv

LEMMA WriteKeeps ==
  ASSUME JobsInv, NEW p \in Projects, Write(p)
  PROVE  JobsInv'
  <1> DEFINE new == [db["production"] EXCEPT ![p].ver = @ + 1]
  <1>0. /\ db \in [Stores -> Contents]
        /\ \A q \in Projects : db["production"][q] \in Content
    BY DEF JobsInv, BackupTypeOK, Contents
  <1>1. new \in Contents
    BY <1>0, BackupAssumption DEF Contents, Content, Write
  <1>2. Aged(db["production"], new)
    BY <1>0, BackupAssumption DEF Aged, Content, Contents
  <1>3. db' = [db EXCEPT !["production"] = new]
    BY <1>0 DEF Write
  <1>4. mishaps' \in 0 .. MaxMishaps
    BY DEF JobsInv, BackupTypeOK, Write
  <1> HIDE DEF new
  <1> QED
    BY <1>1, <1>2, <1>3, <1>4, SurroundingsKeep DEF Write

LEMMA DecayKeeps ==
  ASSUME JobsInv, NEW p \in Projects, NEW c \in Wrongs, Decay(p, c)
  PROVE  JobsInv'
  <1> DEFINE new == [db["production"] EXCEPT ![p].is = c]
  <1>0. /\ db \in [Stores -> Contents]
        /\ \A q \in Projects : db["production"][q] \in Content
    BY DEF JobsInv, BackupTypeOK, Contents
  <1>1. new \in Contents
    BY <1>0 DEF Contents, Content, Condition
  <1>2. Aged(db["production"], new)
    BY <1>0, BackupAssumption DEF Aged, Content, Contents, Decay
  <1>3. db' = [db EXCEPT !["production"] = new]
    BY <1>0 DEF Decay
  <1>4. mishaps' \in 0 .. MaxMishaps
    BY MishapType DEF JobsInv, Decay
  <1> HIDE DEF new
  <1> QED
    BY <1>1, <1>2, <1>3, <1>4, SurroundingsKeep DEF Decay
LEMMA BackupStepKeeps ==
  ASSUME JobsInv, NEW j \in Jobs, BackupStep(j)
  PROVE  JobsInv'
  BY PreDoctorKeeps, DumpBeginKeeps, DumpStopKeeps, VerifyDumpKeeps, EvidenceExportKeeps,
     ManifestKeeps, RestoreBeginKeeps, RestoreStopKeeps, VerifyRestoreKeeps,
     PostDoctorKeeps DEF BackupStep

LEMMA JobsOnlyKeeps ==
  ASSUME JobsInv, JobsOnly
  PROVE  JobsInv'
  BY BackupStepKeeps, WriteKeeps, DecayKeeps, KillKeeps DEF JobsOnly, Surroundings

\* A restart ends every job.
LEMMA RestartAllKeeps ==
  ASSUME JobsInv, RestartAll
  PROVE  JobsInv'
  <1>1. BackupTypeOK'
    BY NoJobType DEF JobsInv, BackupTypeOK, RestartAll
  <1>2. \A k \in Jobs : job'[k].pc \in Rest
    BY DEF RestartAll, NoJob
  <1> QED
    BY <1>1, <1>2, RestKeeps DEF JobsInv

LEMMA IdleJobsKeep ==
  ASSUME JobsInv, UNCHANGED backupVars
  PROVE  JobsInv'
  BY DEF backupVars, JobsInv, BackupTypeOK, JobInv, KindInv, BackupInv, RestoreInv, Taken,
         Aged, Entries

LEMMA FireKeeps ==
  ASSUME JobsInv, NEW s \in {backup, restore}, Fire(s)
  PROVE  JobsInv'
  BY RecoveryAssumption, StartKeeps DEF Fire, FireBackup, FireRestore

LEMMA OperateKeeps ==
  ASSUME JobsInv, NEW kind \in {"backup", "restore"}, NEW dsn \in Stores,
         Operate(kind, dsn)
  PROVE  JobsInv'
  BY RecoveryAssumption, StartKeeps DEF Operate

LEMMA JobsInitially ==
  ASSUME BackupInit
  PROVE  JobsInv
  <1>1. /\ \A k \in Jobs : job[k] = NoJob
        /\ job \in [Jobs -> Job]
    BY NoJobType DEF BackupInit
  <1>2. PICK some \in [Projects -> 0 .. 1] :
          db = [s \in Stores |-> [p \in Projects |->
                  [ver |-> IF s = "production" THEN some[p] ELSE 0, is |-> "good"]]]
    BY DEF BackupInit
  <1>3. db \in [Stores -> Contents]
    <2>1. \A s \in Stores : \A p \in Projects :
             [ver |-> IF s = "production" THEN some[p] ELSE 0, is |-> "good"] \in Content
      BY BackupAssumption DEF Content, Condition
    <2> QED
      BY <1>2, <2>1 DEF Contents
  <1>4. BackupTypeOK
    BY <1>1, <1>3, NoArchiveType, BackupAssumption DEF BackupTypeOK, BackupInit
  <1>5. \A k \in Jobs : job[k].pc = "idle"
    BY <1>1 DEF NoJob
  <1> QED
    BY <1>4, <1>5 DEF JobsInv, JobInv, KindInv, BackupInv, RestoreInv

-----------------------------------------------------------------------------
(* The whole *)

\* A restore that the timer started into production has a suite.env behind it whose
\* two databases could not be told apart.
Aimed ==
    job[restore].pc \notin Rest /\ job[restore].dsn = "production" =>
        ~firedWith.production \/ firedWith.scratch = "alias"

IInv == JobsInv /\ env \in Env /\ firedWith \in Env /\ Aimed

LEMMA EnvStays ==
  ASSUME env \in Env, [Next]_vars
  PROVE  env' \in Env
  <1>1. ASSUME ScheduleOnly
        PROVE  env' \in Env
    BY <1>1 DEF ScheduleOnly, Begin, Step, InstallStep, RemoveStep, Report, Preflight,
       Gate, WriteService, WriteTimer, Reload, Enable, Show, IsActive, Register, Disable,
       Unlink, Forget, Unregister, Crash, Change, EditEnv, Move, DeleteByHand, World
  <1>2. ASSUME RestartAll
        PROVE  env' \in Env
    BY <1>2 DEF RestartAll, Restart, World
  <1> QED
    BY <1>1, <1>2 DEF Next, vars, scheduleVars, JobsOnly, Fire, Operate
\* A step of a job ends it or keeps its store; to the others it does no more than race
\* them; and only the end of pg_restore changes a store, the job's own.
LEMMA StepOfJob ==
  ASSUME JobsInv, NEW j \in Jobs, BackupStep(j), NEW k \in Jobs
  PROVE  /\ \/ job'[k].pc \in Rest
            \/ job[k].pc \notin Rest /\ job'[k].dsn = job[k].dsn
         /\ job'[k].pc # job[k].pc => k = j
         /\ db'["production"] # db["production"] =>
               job[j].pc = "restoring" /\ job[j].dsn = "production"
  <1> DEFINE Moved(r) == r.pc \in Rest \/ (job[j].pc \notin Rest /\ r.dsn = job[j].dsn)
             Goal == /\ \/ job'[k].pc \in Rest
                        \/ job[k].pc \notin Rest /\ job'[k].dsn = job[k].dsn
                     /\ job'[k].pc # job[k].pc => k = j
  <1>0. job \in [Jobs -> Job]
    BY DEF JobsInv, BackupTypeOK
  <1>1. ASSUME NEW r, NEW others, Moved(r), Become(j, r) \/ Touch(j, r, others)
        PROVE  \/ Goal
               \/ job[k].pc \in Rest /\ k # j /\ job'[k].pc = job[k].pc
    BY <1>0, <1>1 DEF Become, Touch, Job
  <1>2. ASSUME NEW r, NEW others, Moved(r), Become(j, r) \/ Touch(j, r, others)
        PROVE  Goal
    <2>1. CASE job[k].pc \in Rest /\ k # j /\ job'[k].pc = job[k].pc
      BY <2>1
    <2> QED
      BY <1>1, <1>2, <2>1
  <1>3. \A pc \in JobPCs : job[j].pc \notin Rest => Moved(Turn(j, pc))
    BY TurnType DEF JobsInv
  <1>4. \A pc \in JobPCs, b \in BOOLEAN : job[j].pc \notin Rest =>
          /\ Moved([Turn(j, pc) EXCEPT !.raced = b])
          /\ Moved([Turn(j, pc) EXCEPT !.damaged = b])
          /\ Moved([Turn(j, pc) EXCEPT !.good = b])
    BY <1>0 DEF Turn, Job
  <1>5. /\ \A x : job[j].pc \notin Rest => Moved([Turn(j, "restoring") EXCEPT !.from = x])
        /\ \A ok \in BOOLEAN : Moved([NoJob EXCEPT !.pc = IF ok THEN "ok" ELSE "failed"])
        /\ Moved([NoJob EXCEPT !.pc = "failed"])
    BY <1>0 DEF Turn, Job, NoJob
  <1>6. \A ok \in BOOLEAN : End(j, ok) => Goal
    <2> SUFFICES ASSUME NEW ok \in BOOLEAN, End(j, ok)
                 PROVE  Goal
      OBVIOUS
    <2> DEFINE r == [NoJob EXCEPT !.pc = IF ok THEN "ok" ELSE "failed"]
    <2>1. Moved(r) /\ Become(j, r)
      BY <1>5 DEF End
    <2> HIDE DEF r, Goal, Moved
    <2> QED
      BY <1>2, <2>1
  <1>7. Stop(j) => Goal
    BY <1>6 DEF Stop
  <1> HIDE DEF Goal, Moved
  <1>8. Goal
    <2>1. CASE PreDoctor(j)
      BY <1>2, <1>3, <1>7, <2>1 DEF PreDoctor, JobPCs
    <2>2. CASE DumpBegin(j)
      <3> DEFINE b == job[j].raced \/ \E i \in Jobs : job[i].pc = "dumping"
                 r == [Turn(j, "dumping") EXCEPT !.raced = b]
      <3>1. Stop(j) \/ Touch(j, r, UsingDump)
        BY <2>2 DEF DumpBegin, Turn
      <3>2. Moved(r)
        BY <1>0, <1>4, <2>2 DEF DumpBegin, Job, JobPCs
      <3> HIDE DEF r
      <3> QED
        BY <1>2, <1>7, <3>1, <3>2
    <2>3. CASE DumpStop(j)
      BY <1>2, <1>3, <1>4, <1>7, <2>3 DEF DumpStop, AfterFailedDump, JobPCs
    <2>4. CASE VerifyDump(j)
      BY <1>2, <1>3, <1>7, <2>4 DEF VerifyDump, JobPCs
    <2>5. CASE EvidenceExport(j)
      <3>1. PICK b \in BOOLEAN : Become(j, [Turn(j, "manifest") EXCEPT !.good = b])
        BY <1>0, <2>5 DEF EvidenceExport, Turn, Job
      <3> QED
        BY <1>2, <1>4, <2>5, <3>1 DEF EvidenceExport, JobPCs
    <2>6. CASE Manifest(j)
      BY <1>0, <1>6, <2>6 DEF Manifest, Job
    <2>7. CASE RestoreBegin(j)
      BY <1>2, <1>5, <1>7, <2>7 DEF RestoreBegin
    <2>8. CASE RestoreStop(j)
      <3>1. PICK failed, others :
              \/ Touch(j, [Turn(j, "verifyRestore") EXCEPT !.good = failed = {}], others)
              \/ Touch(j, [Turn(j, "verifyRestore") EXCEPT !.good = FALSE], others)
              \/ Touch(j, [NoJob EXCEPT !.pc = "failed"], others)
        BY <2>8 DEF RestoreStop, Classified
      <3> QED
        BY <1>2, <1>4, <1>5, <2>8, <3>1 DEF RestoreStop, JobPCs
    <2>9. CASE VerifyRestore(j)
      BY <1>2, <1>3, <1>7, <2>9 DEF VerifyRestore, JobPCs
    <2>10. CASE PostDoctor(j)
      BY <1>0, <1>6, <1>7, <2>10 DEF PostDoctor, Job
    <2> QED
      BY <2>1, <2>2, <2>3, <2>4, <2>5, <2>6, <2>7, <2>8, <2>9, <2>10 DEF BackupStep
  <1>9. db'["production"] # db["production"] =>
          job[j].pc = "restoring" /\ job[j].dsn = "production"
    <2>1. CASE RestoreStop(j)
      BY <2>1 DEF RestoreStop, JobsInv, BackupTypeOK
    <2> QED
      BY <2>1 DEF BackupStep, PreDoctor, DumpBegin, DumpStop, VerifyDump, EvidenceExport,
         Manifest, RestoreBegin, VerifyRestore, PostDoctor
  <1> QED
    BY <1>8, <1>9 DEF Goal

LEMMA AimedStays ==
  ASSUME IInv, [Next]_vars
  PROVE  Aimed'
  <1> USE RecoveryAssumption DEF IInv
  <1>0. job \in [Jobs -> Job]
    BY DEF JobsInv, BackupTypeOK
  <1>1. ASSUME JobsOnly
        PROVE  Aimed'
    <2>1. ASSUME NEW j \in Jobs, BackupStep(j)
          PROVE  job'[restore].pc \in Rest \/ (/\ job[restore].pc \notin Rest
                                              /\ job'[restore].dsn = job[restore].dsn)
      BY <2>1, StepOfJob
    <2>2. ASSUME Surroundings
          PROVE  job'[restore].pc \in Rest \/ (/\ job[restore].pc \notin Rest
                                              /\ job'[restore].dsn = job[restore].dsn)
      BY <1>0, <2>2
         DEF Surroundings, Write, Decay, Kill, Become, NoJob, Job
    <2> QED
      BY <1>1, <2>1, <2>2 DEF JobsOnly, Aimed
  <1>2. ASSUME RestartAll
        PROVE  Aimed'
    BY <1>0, <1>2 DEF RestartAll, Aimed, NoJob
  <1>3. ASSUME NEW s \in {backup, restore}, Fire(s)
        PROVE  Aimed'
    <2>1. CASE s = backup
      BY <1>0, <1>3, <2>1 DEF Fire, FireBackup, FireRestore, Start, Become, Aimed
    <2>2. CASE s = restore /\ FireRestore
      <3>1. /\ firedWith' = env /\ env.scratch # "unset"
            /\ env.production => env.scratch # "production"
        BY <2>2 DEF FireRestore, RestoreAllowed, SameDatabase, Identity
      <3>2. job'[restore].dsn = IF env.scratch = "scratch" THEN "scratch" ELSE "production"
        BY <1>0, <2>2 DEF FireRestore, Start, Become, NoJob
      <3> QED
        BY <3>1, <3>2 DEF Aimed, Env, Scratch
    <2> QED
      BY <1>3, <2>1, <2>2 DEF Fire
  <1>4. ASSUME NEW kind \in {"backup", "restore"}, NEW dsn \in Stores, Operate(kind, dsn)
        PROVE  Aimed'
    BY <1>0, <1>4 DEF Operate, Start, Become, Aimed
  <1>5. ASSUME ScheduleOnly \/ UNCHANGED vars
        PROVE  Aimed'
    BY <1>5 DEF ScheduleOnly, vars, backupVars, Aimed
  <1> QED
    BY <1>1, <1>2, <1>3, <1>4, <1>5 DEF Next

LEMMA FiredStays ==
  ASSUME IInv, [Next]_vars
  PROVE  firedWith' \in Env
  BY DEF IInv, Next, vars, ScheduleOnly, JobsOnly, RestartAll, Fire, FireBackup, FireRestore,
         Operate

LEMMA JobsStay ==
  ASSUME IInv, [Next]_vars
  PROVE  JobsInv'
  BY JobsOnlyKeeps, RestartAllKeeps, FireKeeps, OperateKeeps, IdleJobsKeep
     DEF IInv, Next, ScheduleOnly, vars

\* The inductive invariant holds of every behaviour.
THEOREM RecoveryInductive == Spec => []IInv
  <1>1. Init => IInv
    BY JobsInitially, RecoveryAssumption
       DEF Init, IInv, Aimed, ScheduleInit, BackupInit, NoJob
  <1>2. IInv /\ [Next]_vars => IInv'
    BY EnvStays, FiredStays, AimedStays, JobsStay DEF IInv
  <1> QED
    BY <1>1, <1>2, PTL DEF Spec

\* The weekly restore does not touch production, whatever is edited, fails or restarts
\* before and while it runs (cli.py, the check of --dsn-env before run_restore).
THEOREM ProductionIsSafeHolds == Spec => ProductionIsSafe
  <1> DEFINE Safe == job[restore].pc = "restoring" /\ db'["production"] # db["production"]
                        /\ job'[restore].pc # "restoring"
                     => ~firedWith.production \/ firedWith.scratch = "alias"
  <1>1. ASSUME IInv, [Next]_vars
        PROVE  [Safe]_vars
    <2> SUFFICES ASSUME Next, job[restore].pc = "restoring",
                        db'["production"] # db["production"],
                        job'[restore].pc # "restoring"
                 PROVE  job[restore].dsn = "production"
      BY <1>1 DEF IInv, Aimed
    <2>0. restore \in Jobs /\ job \in [Jobs -> Job]
      BY <1>1, RecoveryAssumption DEF IInv, JobsInv, BackupTypeOK
    <2>1. ASSUME NEW j \in Jobs, BackupStep(j)
          PROVE  job[restore].dsn = "production"
      BY <1>1, <2>0, <2>1, StepOfJob DEF IInv
    <2>2. ~Surroundings
      BY <2>0 DEF Surroundings, Write, Decay, Kill, Job
    <2> QED
      BY <2>1, <2>2 DEF Next, JobsOnly, ScheduleOnly, RestartAll, Fire, FireBackup,
         FireRestore, Operate, Start, backupVars
  <1> QED
    BY <1>1, RecoveryInductive, PTL DEF Spec, ProductionIsSafe
\* Every state has the types the modules declare.
THEOREM RecoveryTypes == Spec => []TypeOK
  <1>1. Init => SInv
    BY ScheduleInitially DEF Init
  <1>2. [Next]_vars => [ScheduleNext]_scheduleVars
    BY DEF Next, ScheduleNext, ScheduleOnly, JobsOnly, RestartAll, Fire, Operate, Accident,
           vars, scheduleVars
  <1>3. SInv /\ [ScheduleNext]_scheduleVars => SInv'
    BY ScheduleStays
  <1>4. SInv /\ IInv => TypeOK
    BY DEF SInv, IInv, JobsInv, TypeOK
  <1> QED
    BY <1>1, <1>2, <1>3, <1>4, RecoveryInductive, PTL DEF Spec

\* With the jobs running beside it, what is reported of a schedule is as true as on a
\* host of its own.
THEOREM SchedulesInRecovery == Spec => []ScheduleReportsAreTrue
  <1>1. Init => SInv
    BY ScheduleInitially DEF Init
  <1>2. [Next]_vars => [ScheduleNext]_scheduleVars
    BY DEF Next, ScheduleNext, ScheduleOnly, JobsOnly, RestartAll, Fire, Operate, Accident,
           vars, scheduleVars
  <1>3. SInv /\ [ScheduleNext]_scheduleVars => SInv'
    BY ScheduleStays
  <1> QED
    BY <1>1, <1>2, <1>3, ToldIsReported, PTL DEF Spec

\* Only the last step of a command says "ok", and only if no step before it failed.
LEMMA OkIsLast ==
  ASSUME IInv, [Next]_vars, NEW j \in Jobs, job[j].pc \notin Rest, job'[j].pc = "ok"
  PROVE  /\ Manifest(j) \/ PostDoctor(j)
         /\ job[j].good
         /\ UNCHANGED <<db, configured, dump, bundle>>
  <1>0. JobsInv /\ job \in [Jobs -> Job] /\ job[j] \in Job
    BY DEF IInv, JobsInv, BackupTypeOK
  <1>1. ASSUME NEW ok \in BOOLEAN, End(j, ok)
        PROVE  ok
    BY <1>0, <1>1 DEF End, Become, NoJob
  <1>2. ~Stop(j)
    BY <1>1 DEF Stop
  <1>5. ASSUME NEW r, NEW others, Become(j, r) \/ Touch(j, r, others)
        PROVE  r.pc = "ok"
    BY <1>0, <1>5 DEF Become, Touch
  <1>6. \A pc \in JobPCs \ {"ok"} :
          /\ Turn(j, pc).pc # "ok"
          /\ \A x : /\ [Turn(j, pc) EXCEPT !.raced = x].pc # "ok"
                    /\ [Turn(j, pc) EXCEPT !.damaged = x].pc # "ok"
                    /\ [Turn(j, pc) EXCEPT !.good = x].pc # "ok"
                    /\ [Turn(j, pc) EXCEPT !.from = x].pc # "ok"
    BY <1>0 DEF Turn, Job
  <1>7. [NoJob EXCEPT !.pc = "failed"].pc # "ok"
    BY DEF NoJob
  <1>3. ASSUME BackupStep(j)
        PROVE  (Manifest(j) \/ PostDoctor(j)) /\ job[j].good
    <2> USE DEF JobPCs
    <2>1. ~PreDoctor(j) /\ ~VerifyDump(j) /\ ~VerifyRestore(j)
      BY <1>2, <1>5, <1>6 DEF PreDoctor, VerifyDump, VerifyRestore
    <2>2. ~EvidenceExport(j)
      <3> SUFFICES ASSUME EvidenceExport(j)
                   PROVE  FALSE
        OBVIOUS
      <3>1. PICK x : Become(j, [Turn(j, "manifest") EXCEPT !.good = x])
        BY DEF EvidenceExport, Turn
      <3> QED
        BY <1>5, <1>6, <3>1
    <2>3. ~DumpBegin(j)
      <3> SUFFICES ASSUME DumpBegin(j)
                   PROVE  FALSE
        OBVIOUS
      <3>1. PICK x : Touch(j, [Turn(j, "dumping") EXCEPT !.raced = x], UsingDump)
        BY <1>2 DEF DumpBegin, Turn
      <3> QED
        BY <1>5, <1>6, <3>1
    <2>5. ~DumpStop(j)
      <3> SUFFICES ASSUME DumpStop(j)
                   PROVE  FALSE
        OBVIOUS
      <3>1. PICK r : r.pc = "verifyDump" /\ Touch(j, r, UsingDump)
        BY <1>0, <1>2 DEF DumpStop, AfterFailedDump, Turn, Job
      <3> QED
        BY <1>5, <3>1
    <2>7. ~RestoreBegin(j)
      <3> SUFFICES ASSUME RestoreBegin(j)
                   PROVE  FALSE
        OBVIOUS
      <3>1. PICK r : r.pc = "restoring" /\ Become(j, r)
        BY <1>0, <1>2 DEF RestoreBegin, Turn, Job
      <3> QED
        BY <1>5, <3>1
    <2>6. ~RestoreStop(j)
      <3> SUFFICES ASSUME RestoreStop(j)
                   PROVE  FALSE
        OBVIOUS
      <3>0. \A failed : Classified(j, failed).pc = "verifyRestore"
        BY <1>0 DEF Classified, Turn, Job
      <3>1. PICK failed, others :
              \/ Touch(j, Classified(j, failed), others)
              \/ Touch(j, [Turn(j, "verifyRestore") EXCEPT !.good = FALSE], others)
              \/ Touch(j, [NoJob EXCEPT !.pc = "failed"], others)
        BY DEF RestoreStop
      <3>2. [Turn(j, "verifyRestore") EXCEPT !.good = FALSE].pc = "verifyRestore"
        BY <1>0 DEF Turn, Job
      <3> DEFINE r == [Turn(j, "verifyRestore") EXCEPT !.good = FALSE]
                 f == [NoJob EXCEPT !.pc = "failed"]
      <3>3. r.pc # "ok" /\ f.pc # "ok"
        BY <1>7, <3>2
      <3>4. Touch(j, Classified(j, failed), others) \/ Touch(j, r, others)
              \/ Touch(j, f, others)
        BY <3>1
      <3> HIDE DEF r, f
      <3> QED
        BY <1>5, <3>0, <3>3, <3>4
    <2>4. (Manifest(j) => job[j].good) /\ (PostDoctor(j) => job[j].good)
      BY <1>0, <1>1, <1>2 DEF Manifest, PostDoctor, Job
    <2> QED
      BY <1>3, <2>1, <2>2, <2>3, <2>4, <2>5, <2>6, <2>7 DEF BackupStep
  <1>4. BackupStep(j)
    <2>1. ~RestartAll
      BY <1>0 DEF RestartAll, NoJob
    <2>2. ~Surroundings
      BY <1>0 DEF Surroundings, Write, Decay, Kill, Become, NoJob, Job
    <2>3. \A s \in {backup, restore} : ~Fire(s)
      BY <1>0, RecoveryAssumption
         DEF Fire, FireBackup, FireRestore, Start, Become, NoJob, Job
    <2>4. \A kind \in {"backup", "restore"}, dsn \in Stores : ~Operate(kind, dsn)
      BY <1>0, RecoveryAssumption DEF Operate, Start, Become, NoJob, Job
    <2>5. job' # job
      BY <1>0
    <2>6. \E k \in Jobs : BackupStep(k)
      BY <2>1, <2>2, <2>3, <2>4, <2>5 DEF Next, vars, backupVars, ScheduleOnly, JobsOnly
    <2> QED
      BY <1>0, <2>6, StepOfJob
  <1> QED
    BY <1>3, <1>4 DEF Manifest, PostDoctor

\* A backup that exits 0 leaves what it says, with nobody else at its files, however
\* its store was written to meanwhile (backup.py, run_backup).
THEOREM BackupIsTrueHolds == Spec => BackupIsTrue
  <1> DEFINE True == \A j \in Jobs : Finishes(j, "backup") /\ ~job[j].raced =>
        /\ manifest' = dump' /\ dump'.there
        /\ \A p \in Projects : dump'.of[p].ver >= job[j].since[p].ver
        /\ job[j].damaged \/ dump'.bad = {}
        /\ \A p \in configured :
              /\ dump'.of[p].is = "good"
              /\ job[j].dsn = "production" => bundle'[p] >= job[j].since[p].ver
  <1>1. ASSUME IInv, [Next]_vars
        PROVE  [True]_backupVars
    <2> SUFFICES ASSUME NEW j \in Jobs, Finishes(j, "backup"), ~job[j].raced
                 PROVE  /\ manifest' = dump' /\ dump'.there
                        /\ \A p \in Projects : dump'.of[p].ver >= job[j].since[p].ver
                        /\ job[j].damaged \/ dump'.bad = {}
                        /\ \A p \in configured :
                              /\ dump'.of[p].is = "good"
                              /\ job[j].dsn = "production" =>
                                    bundle'[p] >= job[j].since[p].ver
      OBVIOUS
    <2>1. (Manifest(j) \/ PostDoctor(j)) /\ job[j].good /\ UNCHANGED <<dump, bundle>>
      BY <1>1, OkIsLast DEF Finishes
    <2>2. JobInv(j)
      BY <1>1 DEF IInv, JobsInv
    <2>3. Manifest(j)
      BY <2>1, <2>2 DEF JobInv, KindInv, PostDoctor, Finishes
    <2> QED
      BY <2>1, <2>2, <2>3 DEF JobInv, BackupInv, Taken, Manifest, Finishes
  <1> QED
    BY <1>1, RecoveryInductive, PTL DEF Spec, BackupIsTrue

\* A restore that exits 0 put every entry of a whole archive in place and left every
\* configured project in good condition (backup.py, run_restore).
THEOREM RestoreIsTrueHolds == Spec => RestoreIsTrue
  <1> DEFINE True == \A j \in Jobs : Finishes(j, "restore") /\ ~job[j].raced =>
        LET now == db'[job[j].dsn]
        IN  /\ Entries(job[j].from) \cap job[j].from.bad = {}
            /\ \A p \in Entries(job[j].from) : now[p] = job[j].from.of[p]
            /\ \A p \in configured : now[p].ver > 0 /\ now[p].is = "good"
  <1>1. ASSUME IInv, [Next]_vars
        PROVE  [True]_backupVars
    <2> SUFFICES ASSUME NEW j \in Jobs, Finishes(j, "restore"), ~job[j].raced
                 PROVE  LET now == db'[job[j].dsn]
                        IN  /\ Entries(job[j].from) \cap job[j].from.bad = {}
                            /\ \A p \in Entries(job[j].from) :
                                  now[p] = job[j].from.of[p]
                            /\ \A p \in configured :
                                  now[p].ver > 0 /\ now[p].is = "good"
      OBVIOUS
    <2>1. (Manifest(j) \/ PostDoctor(j)) /\ job[j].good /\ db' = db
      BY <1>1, OkIsLast DEF Finishes
    <2>2. JobInv(j)
      BY <1>1 DEF IInv, JobsInv
    <2>3. PostDoctor(j)
      BY <2>1, <2>2 DEF JobInv, KindInv, Manifest, Finishes
    <2> QED
      BY <2>1, <2>2, <2>3 DEF JobInv, RestoreInv, PostDoctor, Finishes
  <1> QED
    BY <1>1, RecoveryInductive, PTL DEF Spec, RestoreIsTrue
=============================================================================

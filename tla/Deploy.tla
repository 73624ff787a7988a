------------------------------- MODULE Deploy -------------------------------
(***************************************************************************)
(* `agent-suite bootstrap`, `onboard` and `deploy`                         *)
(* (src/agent_suite/bootstrap.py, onboard.py, deploy.py): three pipelines  *)
(* that make a host ready by running the components' own programs, one     *)
(* step after the other, and that an operator runs again when a step did   *)
(* not complete.  deploy is a preflight, then bootstrap, then onboard,     *)
(* then SUITE.lock and the doctor.                                         *)
(*                                                                         *)
(* An action is one program run, with what the pipeline makes of its       *)
(* reply.  Several commands may run at the same time; each can be killed,  *)
(* between two programs or while one is at work.  --dry-run is left out.   *)
(***************************************************************************)
EXTENDS ChildResult, FiniteSets, SequencesExt

CONSTANTS
    Projects,       \* configured_project_slugs, the primary one first
    Targets,        \* expand_harness_target: the harnesses to wire
    Cmds,           \* commands that may run at the same time
    Requests,       \* what an operator asks for
    ReadLimit,      \* the most events one reading of the chain is given: --limit 50
    MaxMishaps,     \* bound on bad replies, failed reads and kills together
    MaxChanges,     \* bound on what else happens to the host
    MaxEvents       \* bound: on a longer chain nobody begins a command with a spec

Slugs == ToSet(Projects)
Main == Head(Projects)
Faces == <<"agent-notes", "cairn">>
Plumbing == {"acb", "agent-wake"}
Clis == {"regista", "agent-notes", "agent-notes-migrate", "cairn", "dossier"} \cup Plumbing

\* all: tier "all", or profile C.  onboarding: a deploy of profile B or C with a project.
\* extras: --user, and hindsight as the memory engine.
Request == [kind : {"bootstrap", "onboard", "deploy"},
            all : BOOLEAN, onboarding : BOOLEAN, spec : BOOLEAN, extras : BOOLEAN]

ASSUME DeployAssumption ==
    /\ Projects \in Seq(Slugs) /\ Projects # <<>> /\ IsInjective(Projects)
    /\ Targets \in Seq(ToSet(Targets)) /\ Targets # <<>> /\ IsInjective(Targets)
    /\ Requests \subseteq Request
    /\ ReadLimit \in Nat \ {0}
    /\ MaxMishaps \in Nat /\ MaxChanges \in Nat /\ MaxEvents \in Nat

VARIABLES
    store,      \* regista: projects, whom it knows there, and the signed specs
    host,       \* programs, configuration, key file, harnesses, SUITE.lock, the spec
    cmd,        \* [Cmds -> Command]
    mishaps, changes,
    raced       \* ghost: a spec was signed on a reading that was no longer true

deployVars == <<store, host, cmd, mishaps, changes, raced>>

\* spec.yaml: two documents of one schema version, one of another, one that states none,
\* and a file that cannot be read.  spec.md beside it: two texts, or no file.
Yamls == {"first", "edited", "bumped", "unversioned", "unreadable"}
Mds == {"v1", "v2", "absent"}

\* _extract_schema_version
Schemas == {"1", "2", "none"}
VersionOf(yaml) == CASE yaml \in {"first", "edited"} -> "1"
                     [] yaml = "bumped"             -> "2"
                     [] OTHER                       -> "none"

\* A signed event: the document regista read, and what it was given with it, the hash of
\* spec.md and the schema version.
Event == [yaml : Yamls, md : Mds, version : Schemas]

Statuses == {"done", "already_done", "skipped", "failed", "refused"}
Call == [do : STRING, cli : STRING, on : STRING]
NoRequest == [kind |-> "bootstrap", all |-> FALSE, onboarding |-> FALSE,
              spec |-> FALSE, extras |-> FALSE]
NoCommand == [verdict |-> "none", req |-> NoRequest, results |-> <<>>, todo |-> <<>>,
              got |-> {}, read |-> "unreadable", md |-> "absent", saw |-> 0]

DeployTypeOK ==
    /\ store.schema \subseteq Slugs /\ store.bound \subseteq Slugs
    /\ store.projections \in BOOLEAN
    /\ ToSet(store.events) \subseteq Event
    /\ host.clis \subseteq Clis
    /\ host.config \in {"good", "bad_ref", "no_dsn"}
    /\ host.key \in BOOLEAN
    /\ host.wired \subseteq Clis \X ToSet(Targets)
    /\ host.lock \in {"none", "match", "drift", "torn"}
    /\ host.yaml \in Yamls /\ host.md \in Mds
    /\ \A c \in Cmds :
          /\ cmd[c].verdict \in {"none", "running", "ok", "not_ok"}
          /\ cmd[c].req \in Request
          /\ ToSet(cmd[c].results) \subseteq Statuses
          /\ cmd[c].got \subseteq Reports
          /\ cmd[c].read \in Yamls /\ cmd[c].md \in Mds
          /\ cmd[c].saw \in 0 .. Len(store.events)
          /\ cmd[c].verdict = "running" => cmd[c].todo # <<>>
    /\ mishaps \in 0 .. MaxMishaps /\ changes \in 0 .. MaxChanges
    /\ raced \in BOOLEAN

\* A host on which nothing has been deployed.
DeployInit ==
    /\ store = [schema |-> {}, bound |-> {}, projections |-> FALSE, events |-> <<>>]
    /\ \E clis \in {Clis, Clis \ {"agent-wake"}, Clis \ {"cairn"}},
          config \in {"good", "bad_ref", "no_dsn"}, yaml \in Yamls, md \in Mds :
          host = [clis |-> clis, config |-> config, key |-> FALSE, wired |-> {},
                  lock |-> "none", yaml |-> yaml, md |-> md]
    /\ cmd = [c \in Cmds |-> NoCommand]
    /\ mishaps = 0 /\ changes = 0 /\ raced = FALSE

-----------------------------------------------------------------------------
(* The pipelines *)

\* _steps_for_tier; a step that wires a component has its name.
Core(q) ==
    <<"secrets", "db", "provision", "projections", "agent-notes", "memory", "cairn">>
      \o (IF q.all THEN <<"acb", "agent-wake">> ELSE <<>>) \o <<"user">>
Onboard == <<"spec", "enrol", "sign", "wire">>
Plan(q) ==
    CASE q.kind = "bootstrap" -> Core(q)
      [] q.kind = "onboard"   -> Onboard
      [] q.kind = "deploy"    ->
           <<"preflight">> \o Core(q) \o (IF q.onboarding THEN Onboard ELSE <<>>)
             \o <<"lock", "doctor">>

C(do, cli, on) == [do |-> do, cli |-> cli, on |-> on]
Look == <<C("look", "regista", "-")>>        \* a step that runs no program
Ask(cli) == <<C("ask", cli, "-")>>

\* install_harness_argv for every target, and provision_projects' two programs for each.
Wiring(cli) == [i \in DOMAIN Targets |-> C("wire", cli, Targets[i])]
Provisioning(slugs) ==
    FlattenSeq([i \in DOMAIN slugs |-> <<C("project", "regista", slugs[i]),
                                         C("principal", "regista", slugs[i])>>])

\* The programs a step runs if all goes well.
Calls(step, q) ==
    CASE step \in {"preflight", "spec"}   -> Look
      [] step \in {"secrets", "db"}       -> Ask("regista")
      [] step = "doctor"                  -> Look
      [] step = "memory"                  -> Ask("agent-notes")
      [] step = "user"                    -> IF q.extras THEN Ask("regista") ELSE Look
      [] step = "provision"               -> Provisioning(Projects)
      [] step = "enrol"                   -> Provisioning(<<Main>>)
      [] step = "projections"             -> <<C("check", "agent-notes", "-")>>
      [] step = "sign"                    ->
           IF q.spec THEN <<C("events", "regista", "-")>> ELSE Look
      [] step = "lock"                    -> Look
      [] step = "wire"                    -> FlattenSeq([i \in 1 .. 2 |-> Wiring(Faces[i])])
      [] OTHER                            -> Wiring(step)

Step(c) == Plan(cmd[c].req)[Len(cmd[c].results) + 1]
Now(c) == Head(cmd[c].todo)
Running(c, do) == cmd[c].verdict = "running" /\ Now(c).do = do

\* Mutant: a refusal is not a failure.
Terminal_Failed(status) == status = "failed"

\* _is_terminal: the steps that come after are skipped.
Terminal(status) == status \in {"failed", "refused"}

\* A step ends with this status, and the pipeline goes on or is over.
Concluded(r, status) ==
    LET results == Append(r.results, status)
        next == Len(results) + 1
    IN  IF Terminal(status) \/ next > Len(Plan(r.req))
        THEN [r EXCEPT !.results = results, !.todo = <<>>, !.got = {},
                       !.verdict = IF ToSet(results) \cap {"failed", "refused"} = {}
                                   THEN "ok" ELSE "not_ok"]
        ELSE [r EXCEPT !.results = results, !.got = {},
                       !.todo = Calls(Plan(r.req)[next], r.req)]
Conclude(c, status) == cmd' = [cmd EXCEPT ![c] = Concluded(@, status)]

\* A program is done with: the next one, or the end of the step.
Reported(r, report) ==
    LET got == r.got \cup {report}
    IN  IF Len(r.todo) > 1 THEN [r EXCEPT !.todo = Tail(r.todo), !.got = got]
        ELSE Concluded(r, Worst(got))
Report(c, report) == cmd' = [cmd EXCEPT ![c] = Reported(@, report)]
Instead(c, calls) == cmd' = [cmd EXCEPT ![c].todo = calls \o Tail(@)]

Mishap == mishaps < MaxMishaps /\ mishaps' = mishaps + 1
AsItShould(normal) == IF normal THEN UNCHANGED mishaps ELSE Mishap

Begin(c, q) ==
    /\ cmd[c].verdict # "running"
    /\ q.spec => Len(store.events) < MaxEvents
    /\ cmd' = [cmd EXCEPT ![c] = [NoCommand EXCEPT !.verdict = "running", !.req = q,
                                                   !.todo = Calls(Plan(q)[1], q)]]
    /\ UNCHANGED <<store, host, mishaps, changes, raced>>

-----------------------------------------------------------------------------
(* Steps that run no program, or ask one a question *)

\* A program that is not there fails its step; optional ones are skipped.
NotInstalled(c) ==
    /\ cmd[c].verdict = "running" /\ Now(c).do # "look" /\ Now(c).cli \notin host.clis
    /\ Conclude(c, IF Now(c).cli \in Plumbing THEN "skipped" ELSE "failed")
    /\ UNCHANGED <<store, host, mishaps, changes, raced>>

Runs(c, do) == Running(c, do) /\ Now(c).cli \in host.clis

\* _required_clis_for_profile
Required(q) ==
    {"regista", "agent-notes", "cairn"}
      \cup (IF q.onboarding THEN {"dossier"} ELSE {})
      \cup (IF q.all THEN {"dossier"} \cup Plumbing ELSE {})
Preflight(c) ==
    /\ Running(c, "look") /\ Step(c) = "preflight"
    /\ Conclude(c, IF Required(cmd[c].req) \subseteq host.clis THEN "done" ELSE "failed")
    /\ UNCHANGED <<store, host, mishaps, changes, raced>>

\* run_onboard, step 1: only a file that cannot be read stops it.
ReadSpec(c) ==
    /\ Running(c, "look") /\ Step(c) = "spec"
    /\ LET status == IF ~cmd[c].req.spec THEN "skipped"
                     ELSE IF host.yaml = "unreadable" THEN "failed" ELSE "done"
       IN  cmd' = [cmd EXCEPT ![c] = Concluded([@ EXCEPT !.read = host.yaml], status)]
    /\ UNCHANGED <<store, host, mishaps, changes, raced>>

\* Nothing asked for, nothing done: no --user, no --spec.
Skip(c) ==
    /\ Running(c, "look") /\ Step(c) \in {"user", "sign"}
    /\ Conclude(c, "skipped")
    /\ UNCHANGED <<store, host, mishaps, changes, raced>>

\* _step_probe_secrets, _step_probe_db: a secret reference or a DSN that cannot work fails
\* without a program being run.
SecretsBroken(c) == Step(c) = "secrets" /\ host.config = "bad_ref"
NoDatabase(c) == Step(c) = "db" /\ host.config = "no_dsn"

\* _step_memory_provider: the native engine needs nobody to answer.
MemoryIsNative(c) == Step(c) = "memory" /\ ~cmd[c].req.extras

\* Per-user onboarding is module Identity's; here it is what it comes to.
UserStatuses == {"done", "already_done", "failed", "refused"}
Question(c) ==
    /\ Runs(c, "ask")
    /\ LET broken == SecretsBroken(c) \/ NoDatabase(c) IN
       \E status \in IF Step(c) = "user" THEN UserStatuses ELSE {"done", "failed"} :
          /\ MemoryIsNative(c) => status = "done"
          /\ broken => status = "failed"
          /\ AsItShould(broken \/ status \in {"done", "already_done"})
          /\ Conclude(c, status)
    /\ UNCHANGED <<store, host, changes, raced>>

-----------------------------------------------------------------------------
(* Provisioning *)

\* `regista provision`: the schema, its migrations, the service role.  Whatever it comes
\* to, the principal's program is run next: both are evaluated before either is looked at.
Project(c) ==
    /\ Runs(c, "project")
    /\ LET p == Now(c).on IN
       \E worked \in BOOLEAN : \E v \in Heard[worked \/ p \in store.schema] :
          /\ AsItShould(worked /\ v.clean)
          /\ store' = [store EXCEPT !.schema = IF worked THEN @ \cup {p} ELSE @]
          /\ Report(c, ProjectReport(v.is, p \notin store.schema))
    /\ UNCHANGED <<host, changes, raced>>

\* `regista provision-principal`: a key in the key file, and its public half registered in
\* the project.  It refuses to mint a second key for a principal that has one.
MustReuse(p, reuse) == host.key /\ p \notin store.bound /\ ~reuse
PrincipalDoes(p, reuse) ==
    IF p \notin store.schema \/ MustReuse(p, reuse)
    THEN {"nothing", "mints"} ELSE {"nothing", "mints", "binds"}

\* Mutant: the refusal is not answered.
Retries_Never(v, call) == FALSE

\* provision_principal and provision_projects: the refusal is answered with
\* --reuse-existing-key; the first report that is not ok, the project's before the
\* principal's, ends the step.
Retries(v, call) == v.is = "refused" /\ call.do = "principal"
Judged(c, call, report) ==
    LET bad == cmd[c].got \ {"done", "already_done"}
    IN  IF bad # {} THEN Conclude(c, CHOOSE b \in bad : TRUE)
        ELSE IF Ok(report) THEN Report(c, report)
        ELSE Conclude(c, report)
Principal(c) ==
    /\ Runs(c, "principal") \/ Runs(c, "reuse")
    /\ LET call == Now(c)
           p == call.on
           reuse == call.do = "reuse"
           existed == p \in store.bound
       IN  \E does \in PrincipalDoes(p, reuse), registered \in BOOLEAN :
           \E v \in Heard[registered => existed \/ does = "binds"] :
              /\ AsItShould(IF p \notin store.schema THEN ~v.clean
                            ELSE IF MustReuse(p, reuse) THEN v.refusal
                            ELSE v.clean /\ registered /\ (existed \/ does = "binds"))
              /\ host' = [host EXCEPT !.key = @ \/ does # "nothing"]
              /\ store' = [store EXCEPT !.bound = IF does = "binds" THEN @ \cup {p} ELSE @]
              /\ IF Retries(v, call)
                 THEN Instead(c, <<[call EXCEPT !.do = "reuse"]>>)
                 ELSE Judged(c, call, PrincipalReport(v.is, existed, registered))
    /\ UNCHANGED <<changes, raced>>

-----------------------------------------------------------------------------
(* Projections and harnesses *)

\* _schema_check: only an affirmative answer counts; anything else means migrate.
CheckProjections(c) ==
    /\ Runs(c, "check")
    /\ \/ /\ store.projections /\ UNCHANGED mishaps
          /\ Conclude(c, "already_done")
       \/ /\ AsItShould(~store.projections)
          /\ Instead(c, <<C("migrate", "agent-notes-migrate", "-")>>)
    /\ UNCHANGED <<store, host, changes, raced>>

\* agent-notes-migrate --all: its exit code alone proves nothing.
Migrate(c) ==
    /\ Runs(c, "migrate")
    /\ \E worked \in BOOLEAN, exit \in Exits :
          /\ AsItShould(worked /\ exit = 0)
          /\ store' = [store EXCEPT !.projections = @ \/ worked]
          /\ IF exit = 0 THEN Instead(c, <<C("recheck", "agent-notes", "-")>>)
             ELSE Conclude(c, "failed")
    /\ UNCHANGED <<host, changes, raced>>
Recheck(c) ==
    /\ Runs(c, "recheck")
    /\ \E readable \in BOOLEAN :
          /\ AsItShould(readable)
          /\ Conclude(c, IF readable /\ store.projections THEN "done" ELSE "failed")
    /\ UNCHANGED <<store, host, changes, raced>>

\* _step_install_harness and _step_wire_harness: one program for each target; the first
\* that did not install ends the step.
Wire(c) ==
    /\ Runs(c, "wire")
    /\ LET pair == <<Now(c).cli, Now(c).on>>
           there == pair \in host.wired
       IN  \E worked \in BOOLEAN : \E v \in HeardInstall[worked \/ there] :
              /\ v.clean /\ v.noop => there
              /\ AsItShould(worked /\ v.clean /\ v.noop = there)
              /\ host' = [host EXCEPT !.wired = IF worked THEN @ \cup {pair} ELSE @]
              /\ IF v.ok THEN Report(c, IF v.noop THEN "already_done" ELSE "done")
                 ELSE Conclude(c, "failed")
    /\ UNCHANGED <<store, changes, raced>>

-----------------------------------------------------------------------------
(* The founding spec *)

\* Mutant: a chain that cannot be read is taken for an empty one.
AfterUnread_Unsigned == "unsigned"

\* _already_signed: never `assume unsigned`.
AfterUnread == "failed"

\* What identifies a signed spec: the hash of spec.md and the schema version.
IsSigned(e, md, version) == e.md = md /\ e.version = version
SignedAmong(places, c) ==
    \E i \in places : IsSigned(store.events[i], cmd[c].md, VersionOf(cmd[c].read))

\* spec_events_argv: of a chain longer than the limit regista gives one end.
Listings ==
    LET n == Len(store.events) IN
    IF n <= ReadLimit THEN {1 .. n} ELSE {1 .. ReadLimit, n - ReadLimit + 1 .. n}

\* _step_sign_spec up to its program: what cannot be signed is refused, by the schema
\* version read in step 1 and the spec.md of now; then the chain of the project's one spec
\* entity is read, and an event that the spec identifies is enough.
ReadEvents(c) ==
    /\ Runs(c, "events")
    /\ IF VersionOf(cmd[c].read) = "none" \/ host.md = "absent"
       THEN Conclude(c, "refused") /\ UNCHANGED mishaps
       ELSE LET r == [cmd[c] EXCEPT !.md = host.md, !.saw = Len(store.events)]
                onward == [r EXCEPT !.todo = <<C("sign", "regista", "-")>>]
                Known(i) == IsSigned(store.events[i], host.md, VersionOf(cmd[c].read))
            IN  \E readable \in BOOLEAN, listed \in Listings :
                   /\ AsItShould(readable)
                   /\ cmd' = [cmd EXCEPT ![c] =
                        IF readable
                        THEN IF \E i \in listed : Known(i) THEN Concluded(r, "already_done")
                             ELSE onward
                        ELSE IF AfterUnread = "failed" THEN Concluded(r, "failed")
                        ELSE onward]
    /\ UNCHANGED <<store, host, changes, raced>>

\* `regista spec sign` reads the document again, and is given the rest.  A second event for
\* the same spec is not an error to it.
Sign(c) ==
    /\ Runs(c, "sign")
    /\ \E worked \in BOOLEAN : \E v \in Heard[worked] :
          /\ worked => host.yaml # "unreadable"
          /\ AsItShould(v.clean \/ host.yaml = "unreadable")
          /\ store' = [store EXCEPT !.events =
                         IF worked
                         THEN Append(@, [yaml |-> host.yaml, md |-> cmd[c].md,
                                         version |-> VersionOf(cmd[c].read)])
                         ELSE @]
          /\ raced' = (raced \/ (worked /\ (\/ Len(store.events) # cmd[c].saw
                                            \/ host.yaml # cmd[c].read)))
          /\ Conclude(c, IF v.is = "success" THEN "done" ELSE "failed")
    /\ UNCHANGED <<host, changes>>

-----------------------------------------------------------------------------
(* SUITE.lock and the doctor *)

\* _step_lock: an existing lock is compared and never rewritten; drift does not stop the
\* deploy.  The lock is replaced atomically.
Lock(c) ==
    /\ Running(c, "look") /\ Step(c) = "lock"
    /\ \E provenance \in BOOLEAN :
          /\ AsItShould(provenance)
          /\ host' = [host EXCEPT !.lock = IF provenance /\ @ = "none" THEN "match" ELSE @]
          /\ Conclude(c, IF ~provenance \/ host.lock = "torn" THEN "failed"
                         ELSE IF host.lock = "match" THEN "already_done" ELSE "done")
    /\ UNCHANGED <<store, changes, raced>>

\* _step_doctor: module Doctor has the verdict itself.
RunDoctor(c) ==
    /\ Running(c, "look") /\ Step(c) = "doctor"
    /\ \E green \in BOOLEAN :
          /\ AsItShould(green)
          /\ Conclude(c, IF green THEN "done" ELSE "failed")
    /\ UNCHANGED <<store, host, changes, raced>>

-----------------------------------------------------------------------------
(* What else happens *)

Kill(c) ==
    /\ cmd[c].verdict = "running"
    /\ Mishap
    /\ cmd' = [cmd EXCEPT ![c] = [NoCommand EXCEPT !.req = cmd[c].req]]
    /\ UNCHANGED <<store, host, changes, raced>>

\* The operator edits spec.yaml, spec.md or suite.env, installs what was missing, deletes a lock;
\* an upgrade leaves the projections and the lock behind; a lock is damaged.
Change ==
    /\ changes < MaxChanges /\ changes' = changes + 1
    /\ \/ \E yaml \in Yamls \ {host.yaml} : host' = [host EXCEPT !.yaml = yaml]
       \/ \E md \in Mds \ {host.md} : host' = [host EXCEPT !.md = md]
       \/ host.config # "good" /\ host' = [host EXCEPT !.config = "good"]
       \/ host.clis # Clis /\ host' = [host EXCEPT !.clis = Clis]
       \/ host.lock # "none" /\ \E l \in {"none", "drift", "torn"} :
             host' = [host EXCEPT !.lock = l]
       \/ host' = [host EXCEPT !.clis = @ \ {"agent-notes-migrate"}] /\ host' # host
    /\ UNCHANGED <<store, cmd, mishaps, raced>>
Upgraded ==
    /\ changes < MaxChanges /\ changes' = changes + 1
    /\ store.projections /\ store' = [store EXCEPT !.projections = FALSE]
    /\ UNCHANGED <<host, cmd, mishaps, raced>>

StepOf(c) ==
    \/ NotInstalled(c) \/ Preflight(c) \/ ReadSpec(c) \/ Skip(c) \/ Question(c)
    \/ Project(c) \/ Principal(c)
    \/ CheckProjections(c) \/ Migrate(c) \/ Recheck(c) \/ Wire(c)
    \/ ReadEvents(c) \/ Sign(c) \/ Lock(c) \/ RunDoctor(c)

DeployNext ==
    \/ \E c \in Cmds : StepOf(c) \/ Kill(c) \/ \E q \in Requests : Begin(c, q)
    \/ Change \/ Upgraded

\* A command goes on until it ends: subprocess.run has a timeout.
DeployFairness == \A c \in Cmds : WF_deployVars(StepOf(c))

DeploySpec == DeployInit /\ [][DeployNext]_deployVars

-----------------------------------------------------------------------------
(* Properties *)

Provisioned == store.schema \cap store.bound
WiredFor(clis) == (clis \X ToSet(Targets)) \subseteq host.wired

\* The step a command has just ended.
Ended(c) == Plan(cmd[c].req)[Len(cmd[c].results)]

\* What a step that reports done, or already_done, says of the host and the store.
Holds(step, c) ==
    CASE step = "provision"          -> Slugs \subseteq Provisioned
      [] step = "enrol"              -> Main \in Provisioned
      [] step = "projections"        -> store.projections
      [] step \in {"acb", "agent-wake", "agent-notes", "cairn"} -> WiredFor({step})
      [] step = "wire"               -> WiredFor(ToSet(Faces))
      [] step = "sign"               -> SignedAmong(DOMAIN store.events, c)
      [] step = "lock"               -> host.lock \notin {"none", "torn"}
      [] OTHER                       -> TRUE

\* A step that reports done has had its effect, whatever the program it ran printed and
\* however it exited, as long as a program does not hide that it did nothing.
StepsAreTrue ==
    [][\A c \in Cmds : LET n == Len(cmd[c].results) IN
          /\ Len(cmd'[c].results) = n + 1
          /\ cmd'[c].results[n + 1] \in {"done", "already_done"}
          => Holds(Ended(c), c)']_deployVars

\* Nothing is built on a step that did not complete: no harness is wired and no spec is
\* signed for a project nobody is known in, no harness is wired by an onboarding whose
\* spec.md and schema version were not signed, and no SUITE.lock is written for a host that is not wired.
DependenciesFirst ==
    [][/\ (host'.wired # host.wired \/ store'.events # store.events) =>
             Main \in Provisioned
       /\ \A c \in Cmds :
             /\ cmd[c].verdict = "running" /\ Step(c) = "wire" /\ cmd[c].req.spec
             /\ cmd'[c] # cmd[c] /\ host'.wired # host.wired
             => SignedAmong(DOMAIN store.events, c)
       /\ host.lock = "none" /\ host'.lock = "match" =>
             Slugs \subseteq Provisioned /\ WiredFor(ToSet(Faces))]_deployVars

\* As long as the chain is no longer than what one reading is given, a spec.md is signed
\* once for a schema version; and the document signed states the version it is signed
\* with.  Unless another command signed, between the reading of the chain and the
\* signature, or spec.yaml was edited since step 1.
OneEventZero ==
    raced \/ /\ \A i, j \in DOMAIN store.events :
                   /\ i < j
                   /\ IsSigned(store.events[i], store.events[j].md, store.events[j].version)
                   => j > ReadLimit + 1
             /\ \A e \in ToSet(store.events) : e.version = VersionOf(e.yaml)

\* Run again often enough, every command succeeds: no failure and no kill leaves the host
\* in a state that a later run refuses.  The host must in the end be fit for it.
Fit == /\ host.config = "good" /\ host.clis = Clis
       /\ VersionOf(host.yaml) # "none" /\ host.md # "absent" /\ host.lock # "torn"
RerunFinishes ==
    <>[]Fit => \A c \in Cmds : []<>(cmd[c].verdict = "running") => []<>(cmd[c].verdict = "ok")
=============================================================================

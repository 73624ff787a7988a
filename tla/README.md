# agent-suite: a verification project

agent-suite composes a set of component packages (regista, the event-store
"spine", and the "faces" around it: agent-notes, dossier, agent-wake, cairn,
dos-re, ...) into one operable product. It holds no long-running process of its
own: every verb of its CLI is a short-lived orchestration that probes and mutates
state other programs own (installed distributions, service units, key registries,
files under /etc and ~/.config) and a few files of its own (SUITE.lock, the
dual-control store, overlays, the alert state). What can go wrong is therefore
what happens *between* two steps of such a command: a child that failed after its
effect, a crash, a second invocation, somebody's own pip.

This directory holds TLA+ modules of those commands, the TLC configurations that
check them, and proofs of the most important results for every size of the system.
Paths below are relative to src/src/agent_suite/ unless they say otherwise.

## 1. Inventory

| Part | State it keeps or changes | Operations | What is hard |
| --- | --- | --- | --- |
| Lock transaction (upgrade.py) | installed artifacts, running units, SUITE.lock; an in-memory journal | run_upgrade (repair or advance), run_rollback (--to), rollback_journal | partial failure, crash, two invocations, foreign installs, failing final write |
| SUITE.lock (lock.py) | SUITE.lock, SUITE.lock.tmp | load, atomic write, drift, generation | shared temporary name |
| Runtime provenance (runtime_provenance.py) | none; reads distributions | fingerprint, ownership | stale reads |
| Component registry (components.py) | none | order, spine, services | - |
| Dual control (dual_control.py, dual_control_store.py) | one JSON file of records, under a file lock | create, approve, evaluate, execute, clean-up | check-then-act across lock sections, expiry, replay |
| Identity lifecycle (identity.py) | regista's key registry and secret backends, dossier's users file, per-user overlay | bootstrap --user, offboard | partial failure, re-runs, lost updates, torn files |
| Schedules (schedule.py) | systemd timers and services, Windows tasks | install, remove | failing service manager, half-installed units, retries, suite.env edited later |
| Alerting (alerting.py) | last-doctor-state.json | run_alert_check | edge detection against a state file, lost deliveries |
| Doctor (doctor.py, config_surface.py, human_surfaces.py) | none | aggregate | hanging or lying probes, fold of many verdicts |
| Key and store watch (key_watch.py) | none | rotation age, growth | unknown is not healthy |
| Deploy pipeline (deploy.py, bootstrap.py, onboard.py) | what its children provision | deploy, bootstrap, onboard | ordering, gating, re-runs |
| Child results (component_result.py, provisioning.py, harness_install.py, harness.py) | none | classification of a child's exit and envelope | exit 0 with an error, success read from prose |
| Services (services.py, winsw.py, windows_setup.py) | units, Windows services, setup receipts | install-services, setup-install, removal | half-done registration, services that flap |
| Backup and restore (backup.py, verify_restore.py, evidence.py) | dump, bundles, manifest; the store restored into | backup, restore, verify, export | the order of dump, verification and manifest; two commands at one directory |
| Genesis gate, symbol gate, lock agreement (genesis_gate.py, spine_symbol_gate.py, lock_agreement.py) | none | verdict over probes, imports, pins | malformed, missing, repeated or foreign measurements |
| Codex plugins (codex_*.py) | codex's installed plugins, a local marketplace | build, install, uninstall, health, verify | partial add, pins, namesakes |
| Secrets and tokens (secret_refs.py, dpapi.py, entra.py, signature_assurance.py) | none | parse, validate | formats |
| Configuration (config.py, profiles.py) | none | layered environment | precedence |
| Inventory and release (inventory.py, artifact_attestation.py, release_artifacts.py, release_manifest.py) | documents | build and verify a manifest, attest an installation | what a digest covers and what it does not |
| Windows observation, conformance kit, CLI, scripts | none | read-only probes, argument parsing | - |

How they interact: the lock transaction calls runtime provenance, lock drift and
the doctor (its gate); alerting calls the doctor; schedules run backup, doctor and
alert-check; deploy calls bootstrap, onboard, lock and doctor; bootstrap --user is
the identity lifecycle's onboarding; bootstrap, onboard, identity and harness
installation classify their children's results with component_result; backup calls
verify-restore and evidence; setup-install calls onboard; deploy's lock and doctor
steps are the ones above. They share no memory: all of it goes through files, exit
codes and JSON envelopes.

What makes each part correct is in PROJECT.json under "hazards", at the line where
it bites, with the property that covers it or the reason none does yet.

## 2. The modules

    Upgrade <- MCUpgrade, UpgradeProofs
    SingleUse <= DualControl <- MCDualControl, DualControlProofs
    Identity <- MCIdentity, IdentityProofs
    Doctor <- Alerting <- MCAlerting, AlertingProofs

    Schedule <- ScheduleProofs
    Schedule, Backup <- Recovery <- MCRecovery
    Recovery, ScheduleProofs <- RecoveryProofs

    ChildResult <- Deploy
    Deploy, Services, WindowsSetup, Codex <- MCDeployment <- DeploymentProofs

    GenesisGate, LockAgreement, SpineSymbols, Attestation <- GateProofs

(`<-` EXTENDS, `<=` is implemented by.)

### Upgrade: the lock transaction

*State.* `runtime` is what provenance_probe sees of each component: a version and
whether a supported manager owns the installation (not editable, system, absent or
unknown); the record is the fingerprint. `running` is the version a component's
unit executes. `lock` and `tmp` are SUITE.lock and the sibling every writer uses;
each is absent, torn or complete. `proc` holds each invocation's local variables:
the mode it is in, the configuration aimed at, the captured records, what is left
to do, the journal and what is left to undo.

*Actions.* One per probe, per external call that changes something and per file
operation, in the code's order:

| Code | Actions |
| --- | --- |
| run_upgrade: load, plan, refuse | BeginUpgrade, PlanRefused, PlanRepair, PlanAdvance |
| run_rollback, _rollback_all: boundary, capture, validate | BeginRollback, CapturePrestate, Preflight |
| the apply loops | CheckFingerprint, Install, InstallFails, Restart, RestartFails, Verify |
| the gate and the write | Gate, WriteSibling, Replace |
| rollback_journal, restore_journal | UndoInstall, UndoVerify, UndoRestart, UndoDone |
| the operating system, an operator | Return, Crash, ForeignInstall |

run_upgrade restarts a unit before it verifies the artifact and _rollback_all
after; `Install` and `Verify` keep that difference. A failed lock write undoes the
journal of an advancement, and starts a second _rollback_all (mode "recover")
toward the captured versions for a --to.

*Abstractions.* A component's distribution, revision and provider extension are one
version number; drift is inequality of versions. A lock's version quad is apart from its
pins, because the code reads it apart (read_regista_quad) and a lock generated while that
failed has none; it is named by the regista release that prints it, and `ReadsQuad` is the
reading. Planning compares it with what regista prints now, and --to compares the schemas
of two quads and of nothing else, so that a target lock without one goes on whatever it
pins. Planning reads all
components in one step although the code probes them one after another. What a
package index offers is any version not below the installed one. A failed or
timed-out installer may have left nothing, the target, or nothing installed
(`Effects`); a failed restart may have left the unit as it was, stopped, or
restarted. --check and --dry-run change nothing and are left out, and so is the
docker installer, which no registered component uses.

*Ghosts.* `foreign` and `unseen` in each invocation's record say which components
somebody else changed since it began, or since it last compared them. No guard
reads them; properties use them to say of which components a command can be held
to its report. `vouched` says of a --to that its target lock records the schema of the
regista it pins (`Vouches`).

### SingleUse and DualControl

`SingleUse` is what dual control promises: asked by one principal, granted once by
another, used once. `DualControl` is the code: the store's methods are one step
each because each runs under the file lock and replaces the file atomically, while
evaluate_approval takes the time, reads the record, decides and approves in four
steps that others interleave with. `CreateRequest`, `CliApprove`, `Present`,
`TakeTime`, `ReadRecord`, `StoreApprove`, `StoreUnavailable`, `Answer`,
`MarkExecuted`, `CleanupExpired`, `Tick`, `Crash`. `Present` is a library caller
that passes any request object and approval; `CliApprove` is the CLI verb, which
builds both from the stored record. The CLI stamps every token with a fixed
principal per verb (cli-requester, cli-approver), so `TokenOf` is a constant
function in which two tokens may carry the same text. evaluate_approval is
modelled with a store, as the CLI calls it. `grants` and `uses` are histories.

### Identity

One run of `bootstrap --user` or `offboard` is a sequence of steps, each a regista
command or a file operation; a failed step never stops a run, and the worst
outcome wins (aggregate_outcome). State: regista's registry (`status`), what its
secret backends still return (`held`), dossier's users file (`users`), the
overlays, and the runs. regista's verbs are external and modelled from the results
identity.py handles. The users file is read in one step and replaced in a later
one; the overlay is emptied, then filled, because write_text truncates. `raced`
is a ghost: what another run changed since this one last read it. Left out:
--dry-run, malformed principal ids, duplicate user names, keys that regista lists
without an id or a reference.

### Doctor and Alerting

`Doctor` is one call of aggregate. `call` holds its locals: each worker's result
(`future`), what the collector has of it (`report`), the suite's checks still to make
and those that failed. A worker looks whether a component's CLI is installed (`Look`)
and runs it afterwards (`Ask`), or asks the configured endpoint (`AskRemote`);
`Collect` is as_completed, `Deadline` the end of the collection window with its sweep,
`Join` the exit of the `with` block, which waits for every worker. `Check` makes the
suite's checks in the code's order (memory provider, lock, restore, keys, artifacts)
and `Fold` is _compute_suite_ok with what overrides it. The estate (`cli`, `endpoint`,
`suite`) changes by itself between any two of these steps. SUITE.lock adds to a
verdict that the components which report a version are the pinned ones; that a
version differs is one of the ways the lock check can fail.

`Alerting` composes it: the timer's alert-check makes the call without endpoints and a
profile, compares its verdict with the state file (`Compare`), empties and fills the
file (`Truncate`, `Fill`) and posts (`Delivered`, `DeliveryFails`); a write may fail
and the process may die anywhere. `agent-suite doctor` makes the same call with the
endpoints, a profile and optional checks; it shares nothing with a check, so it is
explored on hosts without the timer. Ghosts: `seen` and `still` (what the call could
see), `told` (the last notice that arrived), `slip` (a state or a notice was lost
since). A failed delivery may have arrived all the same. Left out: two checks at once
(the timer never overlaps its own service), key ages (only whether the check passes,
fails or cannot be made), codex health and profile classification, which decide
nothing.

### Schedule, Backup and Recovery

`Schedule` is `schedule install` and `schedule remove`. `unit` is each schedule on disk
(`service`, `timer`) and in the scheduler's memory (`loaded`, `enabled`, `active`);
on Windows `service` is the script and the last three are the registered task. `run`
is the command: which schedule it is at, the program it resolved, the results so far.

| Code | Actions |
| --- | --- |
| preflight: configuration of every job, programs, probe capabilities | Preflight |
| per schedule: checks, files, reload, enable, verification | Gate, WriteService, WriteTimer, Reload, Enable, Show, IsActive |
| Windows: script, registration, comparison of the receipt | WriteService, Register |
| remove | Disable, Unlink, Forget, Unregister |
| the CLI, the operating system, an operator | Begin, Report, Crash, Restart, EditEnv, Move, DeleteByHand |

`Backup` is `backup` and `restore` with verify_restore and the evidence export, any
number of them at the same time over one directory. A project in a store is a version and
a condition; an archive is what it was taken from and which entries cannot be restored.
pg_dump has a beginning, where it takes its snapshot and truncates the file, and an end;
pg_restore replaces entry by entry and goes on past the ones that fail. Ghosts: `since`,
`from`, `damaged` (pg_dump exited 0 over a bad archive), `raced` (somebody else was at the
file or the store). `Recovery` composes them: a timer that is armed starts its job with
the suite.env of that moment, next to the operator's own commands, and a restart of the
host ends all of them. Abstractions: database names are four cases, one of them an alias
of production that the code's comparison does not see through; the doctor before and
after is one reading that may fail; the optional provenance bundle is left out.

### ChildResult and Deploy

`ChildResult` has no state: what a reply of a component is taken for (`Evaluate`,
`Installed`), over every shape of reply, and what that means for provisioning. The one
thing assumed of a component is that work it did not do shows somewhere in its reply
(`Honest`). `Deploy` is bootstrap, onboard and deploy: a command is the list of its
step's results and the programs still to run (`todo`), and an action is one program with
what the pipeline makes of its reply: `Project`, `Principal` (and its second try with
--reuse-existing-key), `CheckProjections`, `Migrate`, `Recheck`, `Wire`, `ReadEvents`,
`Sign`, `Question`; steps that run none are `Preflight`, `ReadSpec`, `Skip`, `Lock`,
`RunDoctor`. `store` is regista, `host` what is installed and configured. spec.yaml and
spec.md are two files, each edited by itself. Step 1 reads the first and keeps its schema
version; the signing step hashes spec.md, asks regista for events of the spec's entity and
compares spec.md's hash and the schema version, never the document (`IsSigned`). regista
gives at most `ReadLimit` events (50 in the code); which end of a longer chain nothing in
src/ says, so `Listings` has both. An event is the document regista read at the signature,
with the hash and the version it was given. `raced` is a ghost: a spec was signed on a
reading that was no longer true. The secret and database
probes only see whether the configuration can work; the doctor's verdict is module
Doctor's; --user is module Identity's.

### Services, WindowsSetup and Codex

`Services` is install-services on systemd: each component is asked to install its unit
(`RunInstaller`), and systemd is read twice and asked for restarts (`FirstLook`,
`SecondLook`, `Count`) while services die and come back (`Dies`, `IsRestarted`).
`WindowsSetup` is setup-install: preflight and plan, every action of the plan whatever
became of the one before, and for each service the comparison, writing and registration
of its XML (`Compare`, `WriteXml`, `Register`, `RemoveService`). The ghost `orphans` are
services whose XML was written and that were never registered. The host's probes are
abstracted to whether each finds what it looks for. `Codex` is codex-plugins: the local
marketplace of links (`Validate`, `Link`, `Catalog`, `Own`), installation and removal by
one snapshot of what Codex has (`List`, `Each`, `AddPlugin`, `RemovePlugin`), health and
verify (`Session`, `Availability`, `Health`, `Overlap`), with edits and kills in between.
Health's look at Codex has three ends (`Answers`): a list, an error, and a Codex that is
not found, which is a report of no plugins and no error. The health command is not ready
then; verify only passes over what it has no plugins for, and may be ready. `looked`
remembers which it was.

### GenesisGate, LockAgreement, SpineSymbols, Attestation

Pure code, so there is nothing to explore: these modules define what it computes, and
what it promises is proved for every input. `GenesisGate` parses three components'
replies into a report and decides whether the epoch may open; the evaluator also takes
reports that others made. `LockAgreement` and `SpineSymbols` are the two release checks
with their scripts' exit status. `Attestation` builds and verifies a release manifest and
attests an installation against one: which files a digest covers, how strong the evidence
is, and what `release-manifest verify` makes of all components.

## 3. What the runs check

| Run | Question | Bounds |
| --- | --- | --- |
| upgrade_faults | do reports, lock and estate agree after failures and crashes, does every invocation end, can a mixed estate be repaired? | 2 components (the spine and a face with a unit), 2 versions across a schema migration, 3 committed locks (one without the face and without a quad), 1 invocation at a time, 3 faults, under fairness |
| upgrade_pair | what stays true when two invocations interleave? | as above, 2 invocations, no faults |
| upgrade_partial (violation) | is every mutation journalled? | 1 fault is enough |
| upgrade_two_writers (violation) | does an advancement write its own candidate? | 2 invocations, no fault |
| dual_control | at most one grant and one use, by a second principal? | 2 ids, 3 principals, 4 tokens, 2 digests, 2 callers, clock to 2 |
| identity | are reports true, keys deleted only when revoked, does offboarding converge? | 2 principals sharing a user and an overlay, 3 keys with different custody, 4 kinds of dossier, 2 faults |
| identity_pair | what holds when two runs interleave? | 2 principals, 1 key, 2 runs, 1 fault |
| identity_again (violation) | does a repeated offboarding still close fetchable keys? | 1 fault |
| monitoring | are verdicts deserved, is every colour announced, and once? | a spine and a shared service with or without endpoint and lock, 2 changes of the estate, 1 fault, under fairness |
| recovery | do reports of schedules stay true, do retries converge, is what a backup or a restore reports true, can the weekly restore hit production? | 2 schedules (a backup and a restore), 2 places to install, systemd, Windows or neither, 2 projects, 3 jobs, 2 job runs, 1 version of each project (the second one's first event falls during the run), 2 faults of the schedules, 1 of the jobs, 1 edit, under fairness |
| deployment | are steps, receipts and reports true, is nothing built on what did not complete, does running again finish? | 2 commands, 2 projects, 1 harness, 3 requests, chains of up to 3 events of which a reading gives 1, 1 bad reply, failed read or kill and 1 change; 1 Linux unit and 2 Windows services with 2 mishaps each; 2 Codex profiles with 1 mishap and 1 edit; under fairness |
| alert_blind (violation) | does the alert check agree with the doctor? | no lock, 2 changes, no fault |

Why the bounds are enough to meet the interesting cases. Two components suffice for
everything the journal distinguishes: one done and one pending, one undone and one left,
one drifted inside and one outside the selection; one of them is the spine (whose schema
is compared) and the other has a unit. Two versions give an upgrade and a downgrade; the
schema differs between them, so every --to between them meets the migration boundary or,
toward the lock without a quad, passes it. Three faults allow a failed step, a failed undo
of it and a failure or crash after that. Two invocations are enough for every property,
each of which relates one invocation to what others did. In dual control three people make
a requester and two competing approvers, two ids a mismatched approval, and the clock
passes an expiry while a request is held. In Identity a custody that refuses deletion, one
that deletes, and a key of the other principal meet in one offboarding. In monitoring two
changes are a failure and a recovery, or the loss of a local service and of its endpoint;
two probes are enough for one to be collected, late or lost while the other is not; one
fault is a slow probe, a torn state, a lost notice or a crash.

A behaviour of `recovery` is about the schedule commands on a host without jobs, or about
the jobs on a host where an install has succeeded (`focus`): they meet only in suite.env,
in restarts and in what an install leaves armed, and the proofs do not make this cut. Two
schedules make one done and one pending, and the dedicated database of the restore; two
faults are a failed step and a failure, kill or restart in the retry; two runs of three
possible jobs are any two at the same file. With a reading of one event, chains of three
have every place an event can be at: listed, first or last, and hidden behind a longer
chain. A behaviour of `deployment` is about one of five things that share nothing
modelled: the pipelines alone, two onboardings of one project at once, Linux services,
Windows services, Codex. Two projects have a first and a second to provision, one mishap
is any wrong reply at any program, and a second run meets what it left; two mishaps where
one has to undo what another did (a service that dies twice, a registration that fails
after a removal that did).

The properties, by what they protect:

* `ReportsAreTrue` (Upgrade, Identity): whatever a finished command reports holds
  of everything nobody else touched: "ok" is the target and the restarted units,
  "rolled back" is the captured estate, "restored" is what a --to found.
* `CandidateIsLive`: a lock about to be written pins what is installed.
* `LockMovesOnlyAsVerified`: the lock changes only to the configuration the same
  invocation verified, never in a repair, never torn. Checked and proved for one
  writer; with two it is false, which is the finding of upgrade_two_writers.
* `RollbackKeepsSchema`: no --to, its undo and recovery included, crosses a schema
  migration, if its target lock records the schema of the regista it pins. Excepted are
  the two ways the code cannot see: a target without a quad, and a regista somebody else
  replaced since the command began.
* `OverwritesOnlyCaptured`: nothing is installed over an artifact that was not
  captured or that no manager owns.
* `Terminates`, `Reconciles`: an invocation ends; repeated upgrades reconcile, unless
  a component has no pin to go to or no manager to move it, or the lock has no quad or that
  of another regista (`Repairable`).
* `TwoPrincipals`, `AtMostOnce`, `GrantIsMine`, `ImplementsSingleUse`: see the
  comments in DualControl.
* `GreenWasSeen`: a green report rests on an answer each component gave during the
  call; `VerdictIsDeserved`: on an estate at rest the verdict is the one a reference
  definition (`Sound`) gives; `Returns`: every call ends.
* `StateIsTold`, `NoticeIsNews`, `ColourIsTold`: the state file and what agent-wake was
  told agree, no colour is announced twice in a row, and a lasting colour is
  announced; all three except what a lost state or notice breaks (`slip`), because
  nothing in the code repairs it.
* `DeletedOnlyIfRevoked`, `BindingsStay`, `OffboardingConverges`: see Identity.
* `ScheduleReportsAreTrue`: INSTALLED is a schedule that will run, after a restart too,
  and REMOVED one that will not, until the operator changes something, whatever half-done
  commands came before. `RetryConverges`: repeating a command reaches success unless it
  is `Blocked`; a removal of a unit with a service and no timer is, because `systemctl
  disable` then refuses.
* `ProductionIsSafe`: the weekly restore never writes to the production store, except
  where suite.env has no REGISTA_DSN to compare with or names production by an alias.
* `BackupIsTrue`, `RestoreIsTrue`: what exit 0 means for the dump, the manifest, the
  bundles and the store restored into. Excepted: a second command at the same file or
  store, and for a backup a pg_dump that exits 0 over a bad archive. The backup's own
  verification reads the live store and cannot see that one; the restore's can.
* `StepsAreTrue`: a step that reports done had its effect, whatever the child printed;
  `DependenciesFirst`: nothing is wired, signed or locked on top of a step that did not
  complete; `OneEventZero`: a spec.md is signed once for a schema version, as long as the
  chain fits one reading, and the document signed states that version, outside of the
  window between reading and signing; `RerunFinishes`: a command that is run
  again and again succeeds, once the host is fit for it.
* `ServicesAreTrue`: installed means up and not restarted since, where systemd counts
  restarts. `ReceiptsAreTrue`: an applied receipt is true of the host, but for services
  whose XML an earlier run wrote and did not register. `CodexReportsAreTrue`: what a
  successful codex-plugins command says is so; of a Codex that was gone when health asked,
  a ready verify says only what was looked at before.

`upgrade_pair` checks ReportsAreTrue and `identity_pair` BindingsStay only. What the other
runs check of one invocation at a time is proved for any number of them, but for
LockMovesOnlyAsVerified.

*Fairness.* `WF_vars(Work(p))`: a command that has begun is a process the operating
system schedules, and none of its steps waits for another process (subprocesses
have timeouts, whose expiry is a failed step). `SF_vars(BeginUpgrade(p, ...))` and
`SF_vars(BeginOffboard(p, who, FALSE))` are the operator, who keeps running the
command; they are strong because the process is not idle while something else
runs. In Alerting the weak fairness of `Answering` and `CheckStep` is the same
argument, with probes that end by their own timeout, and `SF_vars(BeginCheck)` is the
timer. `ScheduleFairness` is the same pair: weak fairness of `Step` (every call to the
service manager has a timeout) and of `Retry`, the operator who repeats a command that did
not report success for everything. `DeployFairness` is weak fairness of `StepOf(c)` for
each command: subprocess.run has a timeout. Nothing is assumed about faults except that a
bound makes them stop; `Reconciles`, `OffboardingConverges`, `RetryConverges` and
`RerunFinishes` say what is reached once they do.

*Deadlock* is checked in every run but `recovery`, where a behaviour about the jobs is over
when the bounded number of them is used up.

## 4. Findings

Four statements of the repository that the code does not keep, each a run TLC
ends with a counterexample (PROJECT.json quotes the lines).

1. upgrade_partial: an installer that fails after its effect is not journalled, so
   "rollback verified" is reported over a component that moved, although "every
   mutation is ... journalled" (upgrade.py:7-9).
2. upgrade_two_writers: two commands share SUITE.lock.tmp, so an advancement can
   report that it wrote the lock while the file holds the other command's.
3. identity_again: an offboarding run again after one that was MANUAL or crashed
   lists only active keys, deletes nothing and reports success, while the revoked
   principal's private key can still be fetched.
4. alert_blind: the alert check calls the doctor without the shared services'
   endpoints, so a remote dossier that is down turns `agent-suite doctor` red and the
   alert check stays green. (With a lock that pins the remote component it is the
   other way round: the check is red over a healthy suite.)

Observed, and only named in hazards: a probe that never returns holds the doctor for ever,
because the `with` block joins it whatever the deadline and shutdown(wait=False) say; a
notice whose delivery fails is never sent again; concurrent runs lose each other's changes
to the users file; offboarding removes the overlay at the invoker's own path, whoever it
names; an overlay torn by a crash loses the keys the suite does not own; a removal of
schedules whose last reload failed finds no unit file when retried and does not reload.

Met while modelling the rest, and stated as exceptions of a property or a theorem, or in
a comment:

* upgrade.py:1837-1873: --to "**refuses** to cross a schema-migration boundary"
  (docstring, 1801), but compares two quads only. A target lock that pins regista and has
  no quad, because `regista version --json` failed when it was generated (lock.py:574),
  goes on unchecked and can put back a regista of another schema.
* lock.py:856-865: such a lock also drifts from any estate where regista answers; that is
  no drift an upgrade repairs, so every later upgrade is refused, or undone at its gate,
  until the lock is generated again.
* Schedules and jobs: two backups, or a backup and a restore, share database.dump without
  a lock (`raced`); `backup --dsn` dumps the store it names and exports the evidence of
  the one the components are configured with (`BackupIsTrue` claims bundles only of
  production); a half-written unit blocks its own removal (`Blocked`).
* winsw.py:139: a service whose XML was written and whose registration failed counts as
  already installed from then on (`orphans`).
* windows_setup.py: operations are sorted by name, so services are configured before the
  release they run is installed.
* onboard.py: the spec is signed from a file that regista reads again after the chain was
  read (`raced`). "same project, changed spec content" is "a further spec_signed event"
  (onboard.py:60-63), but an edited spec.yaml of the same schema version beside an unchanged
  spec.md is already_done and never signed (453-463). The reading is of at most 50 events
  (334-335): a spec that a longer chain hides is signed again.
* codex_health.py:305-319: a Codex that is not found is a report without an error and
  without plugins. If it is gone by the time verify asks (it had been there for the session
  and the marketplace), codex_verify.py:309-325 and 337-345 have nothing to fail, and verify
  is ready with exit 0 without having looked at pins, overlap or hooks ("Verify auth,
  marketplace, pins, overlap, and hook-trust handoff.", codex_verify.py:284).
* codex_marketplace.py:252: the owner's file is written last; a first build that is killed
  before it leaves a directory that every later build refuses. An installation calls a
  plugin pinned when the marketplace states no version.
* lock_agreement.py validates a lock's identity always, its docstring says under
  --strict; a lock without a well-formed spine is no failure, even under --strict.
* spine_symbol_gate.py: `import regista.x` passes when x is only a re-exported attribute,
  and `from regista.x import y` is called missing when y is a submodule
  (`ZeroMeansImportable`, `NoFalseAlarm`).
* genesis_gate.py: a check name with blanks around it passes invariant-probes and is
  refused by the gate (`OpensWhenAdmissible`).
* artifact_attestation.py: with the release wheel at hand, rows of the installed RECORD
  that the wheel does not have (INSTALLER, added files) count as verified by their own
  digest; a console script makes a component unbound then, although the weaker rung of a
  recorded archive binds it without looking; and `--installed --wheels-dir` does not
  include all that `--wheels-dir` checks (`SupersetButForMissing`).

## 5. What is proved

TLAPS checks every theorem for all values of the constants under the ASSUMEs of
the module (which TLC evaluates on the instances).

*UpgradeProofs*: any number of components, versions, invocations, refs and faults.
`Inductive`: Spec => []IInv, where IInv is TypeOK and, for every invocation,

* PlanInv: what it acts on has a pin and a managed captured record, and its journal
  only holds such components; nothing is left to do once it closes;
* FingerInv: between the fingerprint comparison and the installer the captured
  record is current, except for components in `unseen`;
* DoneInv: what an advancement or a rollback has finished with is at its target,
  except for components in `foreign`.

TypeOK alone is not inductive: an installation has the type of an artifact only
because every planned component has a pin. The proof has one lemma per action;
`OthersKeep` shows once that a step of somebody else marks what it touches, so that
no other invocation's invariant is disturbed. From IInv follow `TypeCorrect`,
`CandidateIsLiveHolds` and `OverwritesOnlyCapturedHolds`. The other three properties each
need something IInv does not have:

* `ReportsAreTrueHolds`: Tracked says where every component is while an invocation runs:
  what it has not come to is as captured, what it has finished is at its target, what it is
  undoing is in between, what it has undone is back. A report is then read off the last
  step; on the way it has to survive a step of anybody else, which marks what it touches.
* `RollbackKeepsSchemaHolds`: Schemed says that every version of regista a --to has
  captured, aims at or may recover to has the schema of the one installed, if its target
  is vouched for and unless somebody else changed regista. The code compares once, at the
  boundary; that a recovery from a failed lock write aims at versions captured before it
  is what makes once enough.
* `LockMovesOnlyAsVerifiedHolds`, under the hypothesis `OneWriter`: Written says that at
  the rename SUITE.lock.tmp holds the invocation's own candidate. The hypothesis is
  needed: upgrade_two_writers breaks exactly this. Under it `AdvancementWritesCandidateAlone`
  holds too, so a second writer is the only way to that violation.

`EveryMutationRolledBackIfClean` does the same for upgrade_partial: under the hypothesis
`FailuresAreClean` (a failed installer leaves nothing behind) the statement that run refutes
holds, for any number of invocations and foreign changes. Backed says that outside its
journal an upgrade that is undone has left everything as captured.

*DualControlProofs*: any ids, principals, tokens, callers, lifetimes. IInv says that
a record's parts fit its state and that each stage of evaluate_approval has
established what the next one relies on; a caller that has been cleared holds an
approval that matches the request the store keeps, because a record's request never
changes. From it `TwoPrincipalsHolds`, `AtMostOnceHolds`, `GrantIsMineHolds`, and
`Refinement`: every step maps to a step of SingleUse or a stutter.

*AlertingProofs*: any components, profiles, locks, number of runs and faults.
`TypeCorrect`; `StateIsToldHolds` and `NoticeIsNewsHolds` from `NoticeInv`, which says
what a run's notice, the file and the last notice have to do with each other at each
stage between the verdict and the post; `GreenWasSeenHolds` from `CallInv`, which says
that every result and report of a call in progress is backed by an answer seen since
it began. `VerdictIsDeservedHolds`: StillInv says that, as long as nothing in the estate
has changed, every worker is on its way to the one answer the estate gives (`Due`), the
collector has that or nothing, and the checks made so far failed exactly where a reference
check would (`Counted`). What the fold of it comes to is a lemma about operators.
`AlertAgreesWhereInstalled`: where no shared service is served only remotely
(`Overlooked`), what alert_blind refutes holds, so that is its one cause.

*IdentityProofs*: any principals, users, keys, custodies, dossiers, faults and concurrent
runs. `Inductive`: IInv has the types, DeletedOnlyIfRevoked and, for every run, five parts:
ControlInv (where it is says which verb it is), OwnKeysInv (it works on its principal's
keys, and deletes only those it has revoked, which stay revoked whatever others do),
KeysInv (what it has listed, closed or enrolled so far is so in the registry), UsersInv and
OverlayInv (what it read or wrote is still there); the last three as long as nobody else
was there (`raced`) and it has reported nothing but ok. From it
`TypeCorrect`, `DeletedOnlyIfRevokedHolds`, `ReportsAreTrueHolds`, `BindingsStayHolds`. A
key never becomes active again, which is what lets one run's knowledge of it survive the
steps of another; nothing of the sort holds of the users file and the overlay, hence the
ghost.

*ScheduleProofs*: any schedules in any order, any places, any number of faults and edits,
on both schedulers. `ScheduleReportsHold`. SInv has the types and five parts: Control
(where a command is says what it is and that what it has not come to has no result),
Prepared (what the preflight and the gate saw holds unless edited since), Halfway (the unit
of the schedule at hand), Filed (what could start a job has a file, or was deleted by
hand), Told (results and claims are true). Results need Told as well as claims: a remove
turns results back when its last reload fails, and an earlier unit must still be as it
was reported when the command prints.

*RecoveryProofs*: the same of the composition (`SchedulesInRecovery`), and
`BackupIsTrueHolds`, `RestoreIsTrueHolds`, `ProductionIsSafeHolds`, `RecoveryTypes` for any
projects, versions, mishaps and runs of the jobs of two schedules and an operator. The
inductive invariant (`RecoveryInductive`) says for every backup nobody interfered with that
the store has only aged since it began and, from pg_dump on, that the dump is as new as the
beginning and no worse than the store (`Taken`); for every restore, that what it has
replaced is what the archive held. That the dump's projects are good is never looked at: it
follows from the verification of the live store, because a project that was bad in the dump
is bad in the store for good. For ProductionIsSafe, Aimed says that a timed restore that
still runs has the database that suite.env named when it fired.

*DeploymentProofs*: any projects, faces, requests, units, Windows services, plugins and
profiles, any number of commands, mishaps, changes, edits and kills. Each part has an
inductive invariant of its own.

* `ServicesInductive`: what is known of the unit at hand between installer, first look,
  second look and count, and that a mark "died since" is never lost between the looks.
  From it `ServicesAreTrueHolds`.
* `WindowsInductive`: what a receipt's results so far say of the host, and that a service
  with the wanted XML is registered or an orphan. From it `ReceiptsAreTrueHolds`.
* `CodexInductive`: how far the marketplace is built and whose it is, what the one
  snapshot of Codex still says of it unless edited since. And
  of a verify, what each check that has not failed found, those after health only if health
  had a list. From it `CodexReportsAreTrueHolds`.
* `DeployInductive`: of every command, that its results are those of the steps behind it
  (`Sound`), that what a step in the middle has read or run already shows in `store` and
  `host` and only grows there, and that a command which goes on past a step has that step's
  effect. The pipeline lists are sequences over any number of slugs and faces; the lemmas
  about position, prefix and remaining programs are about sequences and stated once. From
  it `StepsAreTrueHolds`, `DependenciesFirstHolds`, `OneEventZeroHolds`; the last holds for
  any `ReadLimit`, and rests on a listing being the whole chain as long as it fits.

`TypeCorrect` and `PromisesHold` carry all of it over to the composition that the run
explores: every step of MCDeployment is a step or a stutter of each part (`PartsStep`).

*GateProofs*: theorems about pure operators, each from ASSUMEd inputs of the types the code
parses. Of GenesisGate: the gate is open exactly on admissible worlds
(`OpensWhenAdmissible`), and on anybody's report what an open gate rests on
(`OpensOnEvidence`). Of LockAgreement and SpineSymbols: what exit status 0 of the two
release checks means, what it does not, and that trying only the candidate submodules
changes no verdict. Of Attestation: a built manifest verifies, and, for an attestation, what
"binds" means (`BindingIsIdentity`), which files it covers (`ChainCovers`), and what a
green host is (`GreenIsBound`). Each names its exceptions; they are the observations of
section 4.

*Only model-checked.* Every invariant and every action property of the passing runs is
proved. With TLC stay the liveness properties Terminates, Reconciles, OffboardingConverges,
Returns, ColourIsTold, RetryConverges and RerunFinishes, because fairness and ENABLED are
out of the prover's reach, and the counterexamples of the four violation runs, which need
no proof.

*Assumptions.* The ASSUMEs on the constants say of what kind each is, that the lists of
units, services, projects, targets, schedules and plugins repeat nothing, that the spine is
no shared service, and the like: what the code's own tables satisfy. Only the two theorems
with OneWriter and the one with FailuresAreClean have a hypothesis beyond them; each says so
and has a run that shows what happens without it.

## 6. Plan

Done: Upgrade, SingleUse, DualControl, Identity, Doctor, Alerting, Schedule, Backup,
Recovery, ChildResult, Deploy, Services, WindowsSetup, Codex with their runs; GenesisGate,
LockAgreement, SpineSymbols and Attestation with theorems only; the proofs above.

Next, in this order:

1. The complement of identity_again, as there is one for each of the other findings: an
   offboarding that begins when no revoked key of the leaver can be fetched, and succeeds,
   leaves none. It needs a history of how the run began.
2. The remaining kinds of lock drift (revision, provider extension), and how
   runtime provenance finds the distribution behind a program.

## 7. Not modelled

* inventory.py and release_artifacts.py collect, compare and print documents; they keep no
  state and decide nothing that another part acts on. The serialization of manifests is a
  format.
* The layers of environment files (config.py), secret references, DPAPI and token
  validation are formats, pure functions of files, or libraries.
* The probes of a Windows host (windows_observation.py) are single reads; what they add up
  to is in WindowsSetup. The signing of its receipt is not.
* The ages and growth figures of key_watch.py: whether the check passes is all that Doctor
  needs.
* The conformance kit and the scripts feature-probes, feature-matrix and
  check_committed_identifiers test or scan repositories during development.
* --check and --dry-run change nothing. The CLI's argument parsing, output and redaction.

PROJECT.json gives the reason for each component.

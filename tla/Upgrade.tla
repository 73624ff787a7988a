------------------------------ MODULE Upgrade ------------------------------
(***************************************************************************)
(* The lock transaction of agent-suite: `agent-suite upgrade` (repair or   *)
(* advancement, run_upgrade) and `agent-suite upgrade --to REF`            *)
(* (run_rollback), src/agent_suite/upgrade.py, with the atomic lock write  *)
(* and the drift comparison of src/agent_suite/lock.py they are built on.  *)
(*                                                                         *)
(* The estate is shared: installed artifacts, the services that execute    *)
(* them, SUITE.lock and its temporary sibling.  Nothing excludes a second  *)
(* invocation or an operator's own pip, so a process reads the estate in   *)
(* one step and acts on it in a later one.  A component is its position in *)
(* COMPONENTS, the order in which plans, journals and rollbacks run.       *)
(***************************************************************************)
EXTENDS Integers, FiniteSets

CONSTANTS
    N,              \* number of components; component 1 is regista
    MaxVersion,     \* versions are 1..MaxVersion
    Services,       \* components with a service_unit
    Procs,          \* concurrent invocations of the command
    Refs,           \* locks committed at the git refs --to can name
    SchemaOf,       \* schema_version the library of each regista version reports
    Effects,        \* what a failed installer may leave behind
    DriftTo,        \* artifacts other actors install
    MaxFaults       \* bound on faults, crashes and foreign changes together

Components == 1 .. N
Versions == 1 .. MaxVersion
Absent == 0
Pins == Versions \cup {Absent}
Spine == 1

(* What provenance_probe sees of one component: the version, and whether a *)
(* supported manager owns the installation (not editable, system, absent   *)
(* or unknown).  The record is the fingerprint; drift compares versions.   *)
Artifact == {a \in [ver : Pins, owned : BOOLEAN] : a.ver = Absent => ~a.owned}
Managed(v) == [ver |-> v, owned |-> TRUE]
Gone == [ver |-> Absent, owned |-> FALSE]

(* A lock has pins, Absent where it has none, and the version quad that    *)
(* `regista version --json` printed when it was generated, named here by   *)
(* the regista release that prints it.  The quad is read apart from the    *)
(* pins: a lock generated while the reading failed has none (Absent).      *)
Locks == [Components -> Pins]
SuiteLock == [pins : Locks, quad : Pins]
Full(pins, quad) == [state |-> "full", pins |-> pins, quad |-> quad]
Unreadable(state) == [state |-> state, pins |-> [c \in Components |-> Absent], quad |-> Absent]
Torn == Unreadable("torn")
NoFile == Unreadable("none")
LockFile == {Full(l.pins, l.quad) : l \in SuiteLock} \cup {Torn, NoFile}

ASSUME SizeAssumption == N \in Nat \ {0} /\ MaxVersion \in Nat \ {0} /\ MaxFaults \in Nat
ASSUME ShapeAssumption ==
    /\ Services \subseteq Components
    /\ Refs \subseteq SuiteLock
    /\ SchemaOf \in [Versions -> Nat]
    /\ Effects \subseteq {"none", "applied", "removed"}
    /\ DriftTo \subseteq Artifact

VARIABLES
    runtime,        \* [Components -> Artifact]: what is installed
    running,        \* [Services -> Pins]: the version each unit executes
    lock,           \* SUITE.lock
    tmp,            \* SUITE.lock.tmp, the one sibling every writer uses
    proc,           \* [Procs -> Local]: each invocation's local state
    faults          \* faults so far

vars == <<runtime, running, lock, tmp, proc, faults>>

Modes == {"none", "repair", "advance", "rollback", "recover"}
PCs == {"idle", "plan", "prestate", "preflight", "check", "install", "restart",
        "verify", "gate", "write", "replace", "undo", "undoVerify",
        "undoRestart", "done"}
Results == {"none", "refused", "current", "ok", "rolled_back", "incomplete",
            "failed", "restored"}

Local == [pc : PCs, mode : Modes, result : Results,
          target : Locks,                       \* the configuration aimed at
          quad : Pins,                          \* the quad of the lock it comes from
          vouched : BOOLEAN,                    \* ghost, --to: Vouches(the target lock)
          before : [Components -> Artifact],    \* records captured by planning
          prestate : Locks,                     \* --to: versions to recover to
          todo : SUBSET Components,             \* selected, then planned, then left
          journal : SUBSET Components,          \* mutations applied
          undo : SUBSET Components,             \* journal entries left to undo
          undoFailed : BOOLEAN,
          foreign : SUBSET Components,          \* ghost: changed by someone else since the
                                                \* command began, and since it last
          unseen : SUBSET Components]           \* compared or captured the component

NoPins == [c \in Components |-> Absent]
Fresh == [pc |-> "idle", mode |-> "none", result |-> "none",
          target |-> NoPins, quad |-> Absent, vouched |-> FALSE, before |-> [c \in Components |-> Gone],
          prestate |-> NoPins, todo |-> {}, journal |-> {}, undo |-> {},
          undoFailed |-> FALSE, foreign |-> {}, unseen |-> {}]

TypeOK ==
    /\ runtime \in [Components -> Artifact]
    /\ running \in [Services -> Pins]
    /\ lock \in LockFile
    /\ tmp \in LockFile
    /\ proc \in [Procs -> Local]
    /\ faults \in 0 .. MaxFaults

Init ==
    /\ \E l \in [Components -> Versions] :
          /\ lock = Full(l, l[Spine])
          /\ runtime = [c \in Components |-> Managed(l[c])]
          /\ running = [c \in Services |-> l[c]]
    /\ tmp = NoFile
    /\ proc = [p \in Procs |-> Fresh]
    /\ faults = 0

-----------------------------------------------------------------------------
(* Helpers *)

First(c, S) == c \in S /\ \A d \in S : c <= d
Last(c, S) == c \in S /\ \A d \in S : d <= c

At(p, pc) == proc[p].pc = pc
Become(p, r) == proc' = [proc EXCEPT ![p] = r]

\* The actor becomes r; every other live invocation learns (as a ghost) that c moved.
Saw(r, c) == IF r.pc = "idle" THEN r
             ELSE [r EXCEPT !.foreign = @ \cup {c}, !.unseen = @ \cup {c}]
BecomeTouching(p, r, c) ==
    proc' = [q \in Procs |-> IF q = p THEN r ELSE Saw(proc[q], c)]

Finished(r, res) == [r EXCEPT !.pc = "done", !.result = res]
Fault == faults < MaxFaults /\ faults' = faults + 1
NoFault == UNCHANGED faults

\* read_regista_quad: what regista prints, nothing when it is not installed, or
\* nothing because the command failed; it never raises.
ReadsQuad(q) ==
    \/ q = runtime[Spine].ver /\ NoFault
    \/ q = Absent /\ runtime[Spine].ver # Absent /\ Fault

\* check_drift on versions: mismatch, missing and unexpected are one inequality.
Drifted(pins) == {c \in Components : runtime[c].ver # pins[c]}

\* The lock records the schema of the regista it pins: it was generated by an
\* installation whose `regista version --json` answered.
Vouches(l) ==
    /\ l.quad # Absent
    /\ l.pins[Spine] # Absent => SchemaOf[l.pins[Spine]] = SchemaOf[l.quad]

\* Mutant: a removed artifact still counts as manager-owned.
LeftBy_AbsentManaged(effect, art, v) ==
    IF effect = "none" THEN art
    ELSE IF effect = "applied" THEN Managed(v) ELSE [Gone EXCEPT !.owned = TRUE]

\* _mutation_command has a manager to call and _service_uses_runtime proved that
\* the unit executes the same artifact.
Mutable(c) == runtime[c].owned

\* What a failed installer leaves of an artifact: nothing changed, the target
\* in place (nonzero exit or timeout after the effect), or the old one removed.
LeftBy(effect, art, v) ==
    IF effect = "none" THEN art
    ELSE IF effect = "applied" THEN Managed(v) ELSE Gone

\* rollback_journal / restore_journal: undo what the journal holds.
Undoing(r, failed) ==
    [r EXCEPT !.pc = "undo", !.undo = r.journal, !.undoFailed = failed]

\* What an invocation does next: the first component left, or what follows the last.
Continue(r) ==
    IF r.todo # {} THEN [r EXCEPT !.pc = "check"]
    ELSE IF r.mode \in {"repair", "advance"} THEN [r EXCEPT !.pc = "gate"]
    ELSE IF r.mode = "rollback" THEN [r EXCEPT !.pc = "write"]
    ELSE Finished(r, "restored")

\* Mutant: the component that is done stays in the plan.
Settled_Keeps(r, c) == Continue(r)

Settled(r, c) == Continue([r EXCEPT !.todo = @ \ {c}])
\* Mutant: the last step's outcome overwrites an earlier failure.
Dropped_ForgetsFailure(r, c, failed) ==
    [r EXCEPT !.pc = "undo", !.undo = @ \ {c}, !.undoFailed = failed]

Dropped(r, c, failed) ==
    [r EXCEPT !.pc = "undo", !.undo = @ \ {c}, !.undoFailed = @ \/ failed]

-----------------------------------------------------------------------------
(* Planning: run_upgrade *)

\* A whole-suite upgrade or --component: load_lock_file, then plan.
BeginUpgrade(p, sel) ==
    /\ At(p, "idle")
    /\ IF lock.state = "full"
       THEN Become(p, [Fresh EXCEPT !.pc = "plan", !.target = lock.pins,
                                    !.quad = lock.quad, !.todo = sel])
       ELSE Become(p, Finished(Fresh, "refused"))
    /\ NoFault
    /\ UNCHANGED <<runtime, running, lock, tmp>>

\* A refusal that leaves the estate as it is.
Refuse(p) ==
    /\ Become(p, Finished(proc[p], "refused"))
    /\ UNCHANGED <<runtime, running, lock, tmp>>

\* Mutant: every drift is refused, none repaired.
Refusable_AnyDrift(r, q) ==
    \/ Drifted(r.target) # {}
    \/ \E c \in r.todo : ~runtime[c].owned

\* A pin is missing, another component drifted (regista in its quad, when q is read),
\* or a selected one is not managed.
Refusable(r, q) ==
    \/ \E c \in r.todo : r.target[c] = Absent
    \/ ~(Drifted(r.target) \subseteq r.todo)
    \/ q # r.quad /\ Spine \notin Drifted(r.target)
    \/ \E c \in Drifted(r.target) : ~Mutable(c)
    \/ Drifted(r.target) = {} /\ (\E c \in r.todo : ~Mutable(c))

PlanRefused(p) ==
    /\ At(p, "plan")
    /\ \/ \E q \in Pins : ReadsQuad(q) /\ Refusable(proc[p], q)
       \/ Fault       \* a provenance, provider, registry or ownership probe failed
    /\ Refuse(p)

\* Drift inside the selection: exactly the drifted components, to exactly their pins.
PlanRepair(p) ==
    LET r == proc[p] IN
    /\ At(p, "plan")
    /\ \E q \in Pins : ReadsQuad(q) /\ ~Refusable(r, q)
    /\ Drifted(r.target) # {}
    /\ Become(p, [r EXCEPT !.pc = "check", !.mode = "repair",
                           !.todo = Drifted(r.target), !.before = runtime,
                           !.unseen = {}])
    /\ UNCHANGED <<runtime, running, lock, tmp>>

\* check_advancements: the versions the index may offer, never a downgrade.
Offers(sel) ==
    {v \in Locks : \A c \in Components :
        IF c \in sel THEN v[c] >= runtime[c].ver ELSE v[c] = runtime[c].ver}

\* No drift: the package index offers some selected components newer versions.
PlanAdvance(p) ==
    LET r == proc[p] IN
    /\ At(p, "plan")
    /\ \E q \in Pins : ReadsQuad(q) /\ ~Refusable(r, q)
    /\ Drifted(r.target) = {}
    /\ \E v \in Offers(r.todo) :
          Become(p, IF Drifted(v) = {} THEN Finished(r, "current")
                    ELSE [r EXCEPT !.pc = "check", !.mode = "advance", !.todo = Drifted(v),
                                   !.before = runtime, !.target = v, !.unseen = {}])
    /\ UNCHANGED <<runtime, running, lock, tmp>>

-----------------------------------------------------------------------------
(* Planning: run_rollback and _rollback_all *)

\* What --to aims at: every pin of the target lock.
Aims(ref) ==
    [Fresh EXCEPT !.pc = "prestate", !.mode = "rollback", !.target = ref.pins,
                  !.quad = ref.quad, !.vouched = Vouches(ref),
                  !.todo = {c \in Components : ref.pins[c] # Absent}]

\* Mutant: the migration boundary is not checked.
BeginRollback_NoBoundary(p, ref) ==
    /\ At(p, "idle")
    /\ Become(p, Aims(ref))
    /\ NoFault
    /\ UNCHANGED <<runtime, running, lock, tmp>>

\* --to REF: load the target lock, read the live quad, compare schema versions.
\* Only two quads are compared: a target without one goes on whatever it pins.
BeginRollback(p, ref) ==
    /\ At(p, "idle")
    /\ \/ \E q \in Pins :
             /\ ReadsQuad(q)
             /\ \/ ref.quad = Absent /\ Become(p, Aims(ref))
                \/ /\ ref.quad # Absent /\ q # Absent
                   /\ Become(p, IF SchemaOf[q] = SchemaOf[ref.quad] THEN Aims(ref)
                                ELSE Finished(Aims(ref), "refused"))
                \/ /\ ref.quad # Absent /\ q = Absent
                   /\ Become(p, Finished(Aims(ref), "failed"))
       \/ Fault /\ Become(p, Finished(Aims(ref), "failed"))      \* git show failed
    /\ UNCHANGED <<runtime, running, lock, tmp>>

\* run_rollback captures the versions a failed lock write would restore.
CapturePrestate(p) ==
    LET r == proc[p] IN
    /\ At(p, "prestate")
    /\ \/ /\ \A c \in r.todo : runtime[c].ver # Absent
          /\ NoFault
          /\ Become(p, [r EXCEPT !.pc = "preflight",
                                 !.prestate = [c \in Components |->
                                     IF c \in r.todo THEN runtime[c].ver ELSE Absent]])
       \/ /\ ((\E c \in r.todo : runtime[c].ver = Absent) /\ NoFault) \/ Fault
          /\ Become(p, Finished(r, "failed"))
    /\ UNCHANGED <<runtime, running, lock, tmp>>

\* _rollback_all validates every target before it touches the first.
Preflight(p) ==
    LET r == proc[p] IN
    /\ At(p, "preflight")
    /\ \/ /\ \A c \in r.todo : Mutable(c)
          /\ NoFault
          /\ Become(p, Continue([r EXCEPT !.before = runtime, !.unseen = {}]))
       \/ /\ ((\E c \in r.todo : ~Mutable(c)) /\ NoFault) \/ Fault
          /\ Become(p, Finished(r, IF r.mode = "recover" THEN "incomplete" ELSE "failed"))
    /\ UNCHANGED <<runtime, running, lock, tmp>>

-----------------------------------------------------------------------------
(* Applying one component *)

\* Mutant: the mutation goes ahead on the planned record without comparing.
CheckFingerprint_Unchecked(p) ==
    LET r == proc[p] IN
    /\ At(p, "check")
    /\ Become(p, [r EXCEPT !.pc = "install",
                           !.unseen = @ \ {c \in r.todo : First(c, r.todo)}])
    /\ NoFault
    /\ UNCHANGED <<runtime, running, lock, tmp>>

\* The fingerprint probe immediately before the mutation.
CheckFingerprint(p) ==
    LET r == proc[p] IN
    /\ At(p, "check")
    /\ \E c \in r.todo :
          /\ First(c, r.todo)
          /\ \/ /\ runtime[c] = r.before[c]
                /\ NoFault
                /\ Become(p, [r EXCEPT !.pc = "install", !.unseen = @ \ {c}])
             \/ /\ (runtime[c] # r.before[c] /\ NoFault) \/ Fault
                /\ Become(p, Undoing(r, FALSE))
    /\ UNCHANGED <<runtime, running, lock, tmp>>

\* Mutant: the unit is never restarted.
Install_NoRestart(p) ==
    LET r == proc[p] IN
    /\ At(p, "install")
    /\ \E c \in r.todo :
          /\ First(c, r.todo)
          /\ runtime' = [runtime EXCEPT ![c] = Managed(r.target[c])]
          /\ BecomeTouching(p, [r EXCEPT !.journal = @ \cup {c}, !.pc = "verify"], c)
    /\ NoFault
    /\ UNCHANGED <<running, lock, tmp>>

\* _apply_distribution succeeds: the exact version is installed and journalled.
\* run_upgrade restarts the unit before it verifies, _rollback_all after.
Install(p) ==
    LET r == proc[p] IN
    /\ At(p, "install")
    /\ \E c \in r.todo :
          /\ First(c, r.todo)
          /\ runtime' = [runtime EXCEPT ![c] = Managed(r.target[c])]
          /\ BecomeTouching(p,
               [r EXCEPT !.journal = @ \cup {c},
                         !.pc = IF r.mode \in {"repair", "advance"} /\ c \in Services
                                THEN "restart" ELSE "verify"], c)
    /\ NoFault
    /\ UNCHANGED <<running, lock, tmp>>

\* Mutant: the installer's exit status is ignored.
InstallFails_Ignored(p) ==
    LET r == proc[p] IN
    /\ At(p, "install")
    /\ \E c \in r.todo, e \in Effects :
          /\ First(c, r.todo)
          /\ runtime' = [runtime EXCEPT ![c] = LeftBy(e, @, r.target[c])]
          /\ BecomeTouching(p, Settled(r, c), c)
    /\ Fault
    /\ UNCHANGED <<running, lock, tmp>>

\* The installer fails or times out: nothing is journalled, the rest is undone.
InstallFails(p) ==
    LET r == proc[p] IN
    /\ At(p, "install")
    /\ \E c \in r.todo, e \in Effects :
          /\ First(c, r.todo)
          /\ runtime' = [runtime EXCEPT ![c] = LeftBy(e, @, r.target[c])]
          /\ BecomeTouching(p, Undoing(r, FALSE), c)
    /\ Fault
    /\ UNCHANGED <<running, lock, tmp>>

\* systemctl restart: the unit comes back on whatever is installed now.
Restart(p) ==
    LET r == proc[p] IN
    /\ At(p, "restart")
    /\ \E c \in r.todo \cap Services :
          /\ First(c, r.todo)
          /\ running' = [running EXCEPT ![c] = runtime[c].ver]
          /\ BecomeTouching(p, IF r.mode \in {"repair", "advance"}
                               THEN [r EXCEPT !.pc = "verify"] ELSE Settled(r, c), c)
    /\ NoFault
    /\ UNCHANGED <<runtime, lock, tmp>>

\* A failed restart may leave the unit as it was, stopped, or restarted after all.
RestartFails(p) ==
    LET r == proc[p] IN
    /\ At(p, "restart")
    /\ \E c \in r.todo \cap Services :
          /\ First(c, r.todo)
          /\ \E v \in {running[c], Absent, runtime[c].ver} :
                running' = [running EXCEPT ![c] = v]
          /\ BecomeTouching(p, Undoing(r, FALSE), c)
    /\ Fault
    /\ UNCHANGED <<runtime, lock, tmp>>

\* The provenance probe after the installation.
Verify(p) ==
    LET r == proc[p] IN
    /\ At(p, "verify")
    /\ \E c \in r.todo :
          /\ First(c, r.todo)
          /\ \/ /\ runtime[c].ver = r.target[c]
                /\ NoFault
                /\ Become(p, IF r.mode \in {"rollback", "recover"} /\ c \in Services
                             THEN [r EXCEPT !.pc = "restart"] ELSE Settled(r, c))
             \/ /\ (runtime[c].ver # r.target[c] /\ NoFault) \/ Fault
                /\ Become(p, Undoing(r, FALSE))
    /\ UNCHANGED <<runtime, running, lock, tmp>>

-----------------------------------------------------------------------------
(* The gate and the lock *)

\* _run_interop_gate: doctor plus drift, pins and quad, against the candidate lock
\* generated there (advance) or the lock file as it is now (repair).  A quad read
\* while the candidate was generated reads the same in the gate.  A repair ends
\* here; it writes no lock.
Gate(p) ==
    LET r == proc[p]
        green(q) == IF r.mode = "advance" THEN Drifted(r.target) = {}
                    ELSE lock.state = "full" /\ Drifted(lock.pins) = {} /\ lock.quad = q IN
    /\ At(p, "gate")
    /\ \/ \E q \in Pins :
             /\ ReadsQuad(q)
             /\ Become(p, IF ~green(q) THEN Undoing(r, FALSE)
                          ELSE IF r.mode = "advance" THEN [r EXCEPT !.pc = "write", !.quad = q]
                          ELSE Finished(r, "ok"))
       \/ Fault /\ Become(p, Undoing(r, FALSE))       \* a red or raising doctor
    /\ UNCHANGED <<runtime, running, lock, tmp>>

\* Where a failed final write leads: run_upgrade undoes its journal, run_rollback
\* drives the estate back to the captured versions with a second _rollback_all.
WriteFailed(r) ==
    IF r.mode = "advance" THEN Undoing(r, FALSE)
    ELSE [r EXCEPT !.pc = "preflight", !.mode = "recover", !.target = r.prestate,
                   !.journal = {}, !.todo = {c \in Components : r.prestate[c] # Absent}]

\* Mutant: a sibling cut short is renamed like a complete one.
WriteSibling_CutShort(p) ==
    /\ At(p, "write")
    /\ \/ tmp' = Full(proc[p].target, proc[p].quad) /\ NoFault
       \/ tmp' = Torn /\ Fault
    /\ Become(p, [proc[p] EXCEPT !.pc = "replace"])
    /\ UNCHANGED <<runtime, running, lock>>

\* write_lock_file: write the sibling, then rename it over the lock.
WriteSibling(p) ==
    LET r == proc[p] IN
    /\ At(p, "write")
    /\ \/ /\ tmp' = Full(r.target, r.quad)
          /\ NoFault
          /\ Become(p, [r EXCEPT !.pc = "replace"])
       \/ /\ tmp' = Torn
          /\ Fault
          /\ Become(p, WriteFailed(r))
    /\ UNCHANGED <<runtime, running, lock>>

Replace(p) ==
    LET r == proc[p] IN
    /\ At(p, "replace")
    /\ \/ /\ tmp # NoFile
          /\ lock' = tmp
          /\ tmp' = NoFile
          /\ NoFault
          /\ Become(p, Finished(r, "ok"))
       \/ /\ (tmp = NoFile /\ NoFault) \/ Fault
          /\ Become(p, WriteFailed(r))
          /\ UNCHANGED <<lock, tmp>>
    /\ UNCHANGED <<runtime, running>>

-----------------------------------------------------------------------------
(* Undoing the journal: rollback_journal and restore_journal *)

\* Probe the component and reinstall the version captured before the transaction.
UndoInstall(p) ==
    LET r == proc[p] IN
    /\ At(p, "undo")
    /\ \E c \in r.undo :
          /\ Last(c, r.undo)
          /\ \/ /\ runtime[c].owned
                /\ runtime' = [runtime EXCEPT ![c] = Managed(r.before[c].ver)]
                /\ BecomeTouching(p, [r EXCEPT !.pc = "undoVerify"], c)
                /\ NoFault
             \/ /\ ~runtime[c].owned
                /\ Become(p, Dropped(r, c, TRUE))
                /\ NoFault
                /\ UNCHANGED runtime
             \/ /\ \E e \in Effects :
                      /\ e # "none" => runtime[c].owned
                      /\ runtime' = [runtime EXCEPT ![c] = LeftBy(e, @, r.before[c].ver)]
                /\ BecomeTouching(p, Dropped(r, c, TRUE), c)
                /\ Fault
    /\ UNCHANGED <<running, lock, tmp>>

UndoVerify(p) ==
    LET r == proc[p] IN
    /\ At(p, "undoVerify")
    /\ \E c \in r.undo :
          /\ Last(c, r.undo)
          /\ \/ /\ runtime[c].ver = r.before[c].ver
                /\ NoFault
                /\ Become(p, IF c \in Services THEN [r EXCEPT !.pc = "undoRestart"]
                             ELSE Dropped(r, c, FALSE))
             \/ /\ (runtime[c].ver # r.before[c].ver /\ NoFault) \/ Fault
                /\ Become(p, Dropped(r, c, TRUE))
    /\ UNCHANGED <<runtime, running, lock, tmp>>

UndoRestart(p) ==
    LET r == proc[p] IN
    /\ At(p, "undoRestart")
    /\ \E c \in r.undo \cap Services :
          /\ Last(c, r.undo)
          /\ \/ /\ running' = [running EXCEPT ![c] = runtime[c].ver]
                /\ NoFault
                /\ BecomeTouching(p, Dropped(r, c, FALSE), c)
             \/ /\ \E v \in {running[c], Absent, runtime[c].ver} :
                      running' = [running EXCEPT ![c] = v]
                /\ Fault
                /\ BecomeTouching(p, Dropped(r, c, TRUE), c)
    /\ UNCHANGED <<runtime, lock, tmp>>

\* What the command reports once the journal is exhausted.
UndoReport(r) ==
    IF r.mode = "rollback" THEN "failed"
    ELSE IF r.mode = "recover" \/ r.undoFailed THEN "incomplete" ELSE "rolled_back"

UndoDone(p) ==
    /\ At(p, "undo")
    /\ proc[p].undo = {}
    /\ Become(p, Finished(proc[p], UndoReport(proc[p])))
    /\ NoFault
    /\ UNCHANGED <<runtime, running, lock, tmp>>

-----------------------------------------------------------------------------
(* The environment *)

\* The command returns and its in-memory journal is gone.
Return(p) ==
    /\ At(p, "done")
    /\ Become(p, Fresh)
    /\ NoFault
    /\ UNCHANGED <<runtime, running, lock, tmp>>

\* SIGKILL, power loss or Ctrl-C (KeyboardInterrupt passes every except Exception).
Crash(p) ==
    /\ proc[p].pc \notin {"idle", "done"}
    /\ Become(p, Fresh)
    /\ Fault
    /\ UNCHANGED <<runtime, running, lock, tmp>>

\* Somebody else's pip: it restarts nothing and writes no lock.
ForeignInstall ==
    /\ \E c \in Components, a \in DriftTo :
          /\ a # runtime[c]
          /\ runtime' = [runtime EXCEPT ![c] = a]
          /\ proc' = [q \in Procs |-> Saw(proc[q], c)]
    /\ Fault
    /\ UNCHANGED <<running, lock, tmp>>

Selections == {Components} \cup {{c} : c \in Components}

Begin(p) ==
    \/ \E sel \in Selections : BeginUpgrade(p, sel)
    \/ \E ref \in Refs : BeginRollback(p, ref)

Work(p) ==
    \/ PlanRefused(p) \/ PlanRepair(p) \/ PlanAdvance(p)
    \/ CapturePrestate(p) \/ Preflight(p)
    \/ CheckFingerprint(p) \/ Install(p) \/ InstallFails(p)
    \/ Restart(p) \/ RestartFails(p) \/ Verify(p)
    \/ Gate(p) \/ WriteSibling(p) \/ Replace(p)
    \/ UndoInstall(p) \/ UndoVerify(p) \/ UndoRestart(p) \/ UndoDone(p)
    \/ Return(p)

Next ==
    \/ \E p \in Procs : Begin(p) \/ Work(p) \/ Crash(p)
    \/ ForeignInstall

Spec == Init /\ [][Next]_vars
-----------------------------------------------------------------------------
(* Properties *)

\* "ok": the estate is what the command aimed at, and every unit whose package it
\* installed executes that version (run_upgrade 1591-1632, _rollback_all 1132-1205).
OkIsTrue(r) ==
    r.result = "ok" =>
        /\ \A c \in Components \ r.foreign :
              r.target[c] # Absent => runtime[c].ver = r.target[c]
        /\ \A c \in (r.journal \cap Services) \ r.foreign : running[c] = r.target[c]

\* "rollback verified": every component but the one whose installer failed is back
\* at its captured version, and its unit runs it (rollback_journal 1510-1589).
RolledBackIsTrue(r) ==
    r.result = "rolled_back" =>
        /\ \A c \in Components \ r.foreign :
              (c \in r.journal \/ ~First(c, r.todo)) => runtime[c].ver = r.before[c].ver
        /\ \A c \in (r.journal \cap Services) \ r.foreign :
              running[c] = r.before[c].ver

\* "pre-rollback runtime restored": a --to whose lock write failed put back every
\* version it had captured (run_rollback 1938-1971).
RestoredIsTrue(r) ==
    r.result = "restored" =>
        \A c \in Components \ r.foreign :
            r.prestate[c] # Absent =>
                /\ runtime[c].ver = r.prestate[c]
                /\ c \in Services => running[c] = r.prestate[c]

\* What a finished command reports holds of every component nobody else touched.
ReportsAreTrue ==
    \A p \in Procs : At(p, "done") =>
        OkIsTrue(proc[p]) /\ RolledBackIsTrue(proc[p]) /\ RestoredIsTrue(proc[p])

\* A lock about to be written describes the estate: after the gate (advance) or
\* the verified restoration (--to), each pin is the installed version of every
\* component nobody else touched.
CandidateIsLive ==
    \A p \in Procs : proc[p].pc \in {"write", "replace"} =>
        \A c \in Components \ proc[p].foreign :
            proc[p].target[c] # Absent => runtime[c].ver = proc[p].target[c]

\* A step of p itself, as opposed to one its ghosts merely record.
Moves(p) == [proc[p] EXCEPT !.foreign = {}, !.unseen = {}]
            # [proc[p] EXCEPT !.foreign = {}, !.unseen = {}]'

\* SUITE.lock changes only when an advancement or a --to replaces it with the
\* configuration that invocation itself verified; a repair never rewrites it, and
\* no crash or failed write leaves it torn (write_lock_file, run_upgrade 1727-1735).
LockMovesOnlyAsVerified ==
    [][lock' # lock =>
          \E p \in Procs :
              /\ At(p, "replace")
              /\ proc[p].mode \in {"advance", "rollback"}
              /\ lock' = Full(proc[p].target, proc[p].quad)]_vars

\* A --to whose target lock records the schema of the regista it pins never crosses
\* a migration: it, its undoing and its recovery never put a regista of another schema
\* in the place of the one they find (run_rollback 1835-1873).  Excepted, because the
\* code does not look: a target lock without a quad, and a regista somebody else
\* replaced since the command began.
RollbackKeepsSchema ==
    [][\A p \in Procs :
          /\ Moves(p)
          /\ proc[p].mode \in {"rollback", "recover"} /\ proc[p].vouched
          /\ Spine \notin proc[p].foreign
          /\ runtime[Spine].ver # Absent /\ runtime'[Spine].ver # Absent
          => SchemaOf[runtime'[Spine].ver] = SchemaOf[runtime[Spine].ver]]_vars

\* An invocation overwrites only the managed artifact it captured and can put back,
\* never one installed meanwhile, and its undoing never an editable, system or absent
\* one; changes between its own last probe and the installer excepted.
OverwritesOnlyCaptured ==
    [][\A p \in Procs, c \in Components :
          Moves(p) /\ runtime'[c] # runtime[c] /\ c \notin proc[p].unseen
          => /\ runtime[c].owned
             /\ At(p, "install") => runtime[c] = proc[p].before[c]]_vars

\* An advancement that reports success has written its own candidate
\* (docs/operating-the-suite.md: "A successful advancement writes the candidate
\* lock"); violated when two invocations share SUITE.lock.tmp.
AdvancementWritesCandidate ==
    [][\A p \in Procs :
          At(p, "replace") /\ proc'[p].result = "ok" =>
              lock' = Full(proc[p].target, proc[p].quad)]_vars

\* "Every mutation is ... journalled for reverse-order rollback to captured
\* pre-state" (upgrade.py:7-9): when the command reports a verified rollback, every
\* component it mutated is back; violated by an installer that fails after its effect.
EveryMutationRolledBack ==
    \A p \in Procs : At(p, "done") /\ proc[p].result = "rolled_back" =>
        \A c \in Components \ proc[p].foreign : runtime[c].ver = proc[p].before[c].ver

\* Every invocation ends: undoing included, it never waits on anything.
FairSpec == Spec /\ \A p \in Procs : WF_vars(Work(p))
Terminates == \A p \in Procs : ~At(p, "idle") ~> At(p, "idle")

\* An operator who keeps running whole-suite upgrades reconciles any mixed estate
\* a crash or an incomplete rollback left, once faults stop, unless a component has
\* no pin to go to or no manager to go there with, or the lock has not the quad of
\* the regista it pins: every upgrade then takes that for drift and refuses or undoes.
LiveSpec == FairSpec /\ \A p \in Procs : SF_vars(BeginUpgrade(p, Components))
Reconciled == lock.state = "full" /\ Drifted(lock.pins) = {}
Repairable ==
    /\ \A c \in Components : lock.pins[c] # Absent /\ runtime[c].owned
    /\ lock.quad = lock.pins[Spine]
Reconciles == []<>(Reconciled \/ ~Repairable)
=============================================================================

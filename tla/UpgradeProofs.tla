--------------------------- MODULE UpgradeProofs ---------------------------
(***************************************************************************)
(* Theorems about Upgrade, for every number of components and versions,    *)
(* every set of services, invocations and git refs, and every bound on the *)
(* faults.                                                                 *)
(***************************************************************************)
EXTENDS Upgrade, TLAPS

(* Types.                                                                   *)

LEMMA ArtifactTypes ==
  ASSUME NEW v \in Pins, v # Absent
  PROVE Managed(v) \in Artifact /\ Gone \in Artifact
  BY DEF Managed, Gone, Artifact, Pins, Absent

LEMMA GoneType == Gone \in Artifact
  BY DEF Gone, Artifact, Pins, Absent

LEMMA FreshType == Fresh \in Local
  BY GoneType DEF Fresh, Local, PCs, Modes, Results, NoPins, Locks, Pins

LEMMA SpineExists == Spine \in Components
  BY SizeAssumption DEF Spine, Components

LEMMA NoPinsType == NoPins \in Locks
  BY DEF NoPins, Locks, Pins

LEMMA LockFileTypes ==
  /\ \A l \in Locks, q \in Pins : Full(l, q) \in LockFile
  /\ Torn \in LockFile /\ NoFile \in LockFile
  /\ \A f \in LockFile : f.state = "full" => f.pins \in Locks /\ f.quad \in Pins
<1>1. ASSUME NEW l \in Locks, NEW q \in Pins PROVE Full(l, q) \in LockFile
  <2> DEFINE k == [pins |-> l, quad |-> q]
  <2>1. k \in SuiteLock BY DEF SuiteLock
  <2>2. Full(k.pins, k.quad) = Full(l, q) OBVIOUS
  <2> HIDE DEF k
  <2> QED BY <2>1, <2>2 DEF LockFile
<1>2. Torn \in LockFile /\ NoFile \in LockFile BY DEF LockFile
<1>3. ASSUME NEW f \in LockFile, f.state = "full" PROVE f.pins \in Locks /\ f.quad \in Pins
  BY <1>3 DEF LockFile, SuiteLock, Full, Torn, NoFile, Unreadable
<1> QED BY <1>1, <1>2, <1>3

LEMMA FinishedType ==
  ASSUME NEW r \in Local, NEW res \in Results
  PROVE Finished(r, res) \in Local
  BY DEF Finished, Local, PCs

LEMMA UndoingType ==
  ASSUME NEW r \in Local, NEW f \in BOOLEAN
  PROVE Undoing(r, f) \in Local
  BY DEF Undoing, Local, PCs

LEMMA ContinueType ==
  ASSUME NEW r \in Local PROVE Continue(r) \in Local
<1>1. Finished(r, "restored") \in Local BY FinishedType DEF Results
<1>2. [r EXCEPT !.pc = "check"] \in Local BY DEF Local, PCs
<1>3. [r EXCEPT !.pc = "gate"] \in Local BY DEF Local, PCs
<1>4. [r EXCEPT !.pc = "write"] \in Local BY DEF Local, PCs
<1> QED BY <1>1, <1>2, <1>3, <1>4 DEF Continue

LEMMA SettledType ==
  ASSUME NEW r \in Local, NEW c PROVE Settled(r, c) \in Local
<1>1. [r EXCEPT !.todo = @ \ {c}] \in Local BY DEF Local
<1> QED BY <1>1, ContinueType DEF Settled

LEMMA DroppedType ==
  ASSUME NEW r \in Local, NEW c, NEW f \in BOOLEAN
  PROVE Dropped(r, c, f) \in Local
  BY DEF Dropped, Local, PCs

LEMMA SawType ==
  ASSUME NEW r \in Local, NEW c \in Components PROVE Saw(r, c) \in Local
  BY DEF Saw, Local

LEMMA BecomeType ==
  ASSUME TypeOK, NEW p \in Procs, NEW r \in Local, Become(p, r)
  PROVE proc' \in [Procs -> Local]
  BY DEF Become, TypeOK

LEMMA TouchingType ==
  ASSUME TypeOK, NEW p \in Procs, NEW r \in Local, NEW c \in Components,
         BecomeTouching(p, r, c)
  PROVE proc' \in [Procs -> Local]
  BY SawType DEF BecomeTouching, TypeOK

LEMMA WriteFailedType ==
  ASSUME NEW r \in Local PROVE WriteFailed(r) \in Local
<1>1. Undoing(r, FALSE) \in Local BY UndoingType
<1>2. [r EXCEPT !.pc = "preflight", !.mode = "recover", !.target = r.prestate,
                !.journal = {}, !.todo = {c \in Components : r.prestate[c] # Absent}] \in Local
  BY DEF Local, PCs, Modes
<1> QED BY <1>1, <1>2 DEF WriteFailed

LEMMA LeftByType ==
  ASSUME NEW e, NEW a \in Artifact, NEW v \in Versions
  PROVE LeftBy(e, a, v) \in Artifact /\ Managed(v) \in Artifact
  BY SizeAssumption DEF LeftBy, Managed, Gone, Artifact, Pins, Absent, Versions

-----------------------------------------------------------------------------
(* The inductive invariant.  Types alone are not inductive: an installation   *)
(* has the type of an artifact only because every planned component has a     *)
(* pin, and every journalled one a managed version to go back to.             *)

Early == {"prestate", "preflight"}
Applying == {"check", "install", "restart", "verify"}
Closing == {"gate", "write", "replace"}
Undo == {"undo", "undoVerify", "undoRestart"}

\* What planning established of the components an invocation acts on.
PlanInv(r) ==
  /\ r.pc \in {"plan"} \cup Early => r.journal = {}
  /\ r.pc \in Early => /\ r.mode \in {"rollback", "recover"}
                       /\ \A c \in r.todo : r.target[c] # Absent
  /\ r.pc \in Applying \cup Closing =>
        /\ r.mode \in {"repair", "advance", "rollback", "recover"}
        /\ \A c \in r.todo : r.target[c] # Absent /\ r.before[c].owned
        /\ \A c \in r.journal : r.before[c].owned
  /\ r.pc \in Undo => \A c \in r.undo : r.before[c].owned
  /\ r.pc \in Closing => r.todo = {}
  /\ r.pc \in {"write", "replace"} => r.mode \in {"advance", "rollback"}

\* Between the fingerprint check and the installer only other actors intervene.
FingerInv(r) ==
  r.pc = "install" =>
     \A c \in r.todo : First(c, r.todo) /\ c \notin r.unseen => runtime[c] = r.before[c]

\* What an advancement or a rollback is done with is at its target.
DoneInv(r) ==
  r.mode \in {"advance", "rollback"} =>
     /\ r.pc \in Early \cup Applying \cup Closing =>
           \A c \in Components \ (r.todo \cup r.foreign) :
              r.target[c] # Absent => runtime[c].ver = r.target[c]
     /\ r.pc = "restart" /\ r.mode = "rollback" =>
           \A c \in r.todo \ r.foreign : First(c, r.todo) => runtime[c].ver = r.target[c]

ProcInv(r) == PlanInv(r) /\ FingerInv(r) /\ DoneInv(r)
IInv == TypeOK /\ \A p \in Procs : ProcInv(proc[p])

\* An invocation that has no plan has nothing to keep.
LEMMA PlanlessInv ==
  ASSUME NEW r, r.pc \in {"idle", "done"} PROVE ProcInv(r)' /\ ProcInv(r)
  BY DEF ProcInv, PlanInv, FingerInv, DoneInv, Early, Applying, Closing, Undo

\* A step of another actor touches at most one component, and marks it.
LEMMA OthersKeep ==
  ASSUME TypeOK, NEW r \in Local, ProcInv(r), NEW c \in Components,
         \A d \in Components : d # c => runtime'[d] = runtime[d]
  PROVE ProcInv(Saw(r, c))'
<1>1. CASE r.pc = "idle" BY <1>1, PlanlessInv DEF Saw
<1>2. CASE r.pc # "idle"
  <2> DEFINE s == Saw(r, c)
  <2>1. /\ s.pc = r.pc /\ s.mode = r.mode /\ s.target = r.target /\ s.before = r.before
        /\ s.todo = r.todo /\ s.journal = r.journal /\ s.undo = r.undo
        /\ s.foreign = r.foreign \cup {c} /\ s.unseen = r.unseen \cup {c}
        /\ s.todo \subseteq Components
    BY <1>2 DEF Saw, Local
  <2> HIDE DEF s
  <2>2. PlanInv(s)' BY <2>1 DEF ProcInv, PlanInv
  <2>3. FingerInv(s)' BY <2>1 DEF ProcInv, FingerInv
  <2>4. DoneInv(s)' BY <2>1 DEF ProcInv, DoneInv
  <2> QED BY <2>2, <2>3, <2>4 DEF ProcInv, s
<1> QED BY <1>1, <1>2

LEMMA StayKeeps ==
  ASSUME NEW r, ProcInv(r), UNCHANGED runtime PROVE ProcInv(r)'
  BY DEF ProcInv, PlanInv, FingerInv, DoneInv

\* Every other invocation keeps its invariant when p moves without touching the estate.
LEMMA MoveKeeps ==
  ASSUME IInv, NEW p \in Procs, NEW r \in Local, Become(p, r), UNCHANGED runtime, ProcInv(r)'
  PROVE \A q \in Procs : ProcInv(proc[q])'
<1> SUFFICES ASSUME NEW q \in Procs PROVE ProcInv(proc[q])' OBVIOUS
<1>1. CASE q = p
  <2>1. proc'[q] = r BY <1>1 DEF Become, IInv, TypeOK
  <2> QED BY <2>1 
<1>2. CASE q # p
  <2>1. proc'[q] = proc[q] BY <1>2 DEF Become, IInv, TypeOK
  <2>2. ProcInv(proc[q]) BY DEF IInv
  <2> QED BY <2>1, <2>2 DEF ProcInv, PlanInv, FingerInv, DoneInv
<1> QED BY <1>1, <1>2

\* The types of what is shared besides the installed artifacts.
SharedOK ==
  /\ running \in [Services -> Pins]
  /\ lock \in LockFile
  /\ tmp \in LockFile
  /\ faults \in 0 .. MaxFaults

LEMMA FaultsType ==
  ASSUME TypeOK, NoFault \/ Fault PROVE faults' \in 0 .. MaxFaults
  BY SizeAssumption DEF TypeOK, NoFault, Fault

LEMMA ReadFaults ==
  ASSUME NEW q, ReadsQuad(q) PROVE NoFault \/ Fault
  BY DEF ReadsQuad

\* What a --to that begins is to do, and the ways it may begin.
LEMMA AimsType ==
  ASSUME NEW ref \in Refs
  PROVE /\ Aims(ref) \in Local
        /\ Aims(ref).pc = "prestate" /\ Aims(ref).mode = "rollback"
        /\ Aims(ref).result = "none"
        /\ Aims(ref).target = ref.pins /\ Aims(ref).vouched = Vouches(ref)
        /\ Aims(ref).todo = {c \in Components : ref.pins[c] # Absent}
        /\ Aims(ref).journal = {} /\ Aims(ref).prestate = NoPins
        /\ Aims(ref).before = [c \in Components |-> Gone]
<1> DEFINE todo == {c \in Components : ref.pins[c] # Absent}
<1>1. todo \in SUBSET Components OBVIOUS
<1>2. PICK v \in BOOLEAN : v = Vouches(ref) BY DEF Vouches
<1>3. ref.pins \in Locks /\ ref.quad \in Pins BY ShapeAssumption DEF SuiteLock
<1>4. Aims(ref) = [Fresh EXCEPT !.pc = "prestate", !.mode = "rollback", !.target = ref.pins,
                                !.quad = ref.quad, !.vouched = v, !.todo = todo]
  BY <1>2 DEF Aims
<1> HIDE DEF todo
<1>5. Aims(ref) \in Local BY <1>1, <1>2, <1>3, <1>4, FreshType DEF Local, PCs, Modes
<1>6. /\ Aims(ref).pc = "prestate" /\ Aims(ref).mode = "rollback"
      /\ Aims(ref).result = "none" /\ Aims(ref).target = ref.pins
      /\ Aims(ref).vouched = v /\ Aims(ref).todo = todo /\ Aims(ref).journal = {}
      /\ Aims(ref).prestate = NoPins /\ Aims(ref).before = [c \in Components |-> Gone]
  BY <1>4 DEF Fresh
<1> QED BY <1>2, <1>5, <1>6 DEF todo

LEMMA RollbackBegins ==
  ASSUME NEW p \in Procs, NEW ref \in Refs, BeginRollback(p, ref)
  PROVE /\ \/ Become(p, Aims(ref))
           \/ \E res \in {"failed", "refused"} : Become(p, Finished(Aims(ref), res))
        /\ UNCHANGED <<runtime, running, lock, tmp>>
        /\ NoFault \/ Fault
<1>1. UNCHANGED <<runtime, running, lock, tmp>> BY DEF BeginRollback
<1>2. CASE Fault /\ Become(p, Finished(Aims(ref), "failed")) BY <1>1, <1>2
<1>3. ASSUME NEW q \in Pins, ReadsQuad(q),
             \/ Become(p, Aims(ref))
             \/ Become(p, IF SchemaOf[q] = SchemaOf[ref.quad] THEN Aims(ref)
                          ELSE Finished(Aims(ref), "refused"))
             \/ Become(p, Finished(Aims(ref), "failed"))
      PROVE /\ \/ Become(p, Aims(ref))
               \/ \E res \in {"failed", "refused"} : Become(p, Finished(Aims(ref), res))
            /\ NoFault \/ Fault
  <2>1. NoFault \/ Fault BY <1>3, ReadFaults
  <2> QED BY <1>3, <2>1
<1> QED BY <1>1, <1>2, <1>3 DEF BeginRollback

\* Where the gate leads.
LEMMA GateStep ==
  ASSUME NEW p \in Procs, NEW r, r = proc[p], Gate(p)
  PROVE /\ \/ /\ r.mode = "advance"
              /\ \E q \in Pins : Become(p, [r EXCEPT !.pc = "write", !.quad = q])
           \/ Become(p, Finished(r, "ok"))
           \/ Become(p, Undoing(r, FALSE))
        /\ NoFault \/ Fault
  BY ReadFaults DEF Gate

\* A step of p that leaves the installed artifacts alone.
LEMMA Moved ==
  ASSUME IInv, NEW p \in Procs, NEW r \in Local, Become(p, r), UNCHANGED runtime,
         ProcInv(r)', SharedOK'
  PROVE IInv'
<1>1. proc' \in [Procs -> Local] BY BecomeType DEF IInv
<1>2. TypeOK' BY <1>1 DEF IInv, TypeOK, SharedOK
<1> QED BY <1>2, MoveKeeps DEF IInv

\* A step of p that other invocations learn of.
LEMMA Touched ==
  ASSUME IInv, NEW p \in Procs, NEW r \in Local, NEW c \in Components,
         BecomeTouching(p, r, c), runtime' \in [Components -> Artifact],
         \A d \in Components : d # c => runtime'[d] = runtime[d],
         ProcInv(r)', SharedOK'
  PROVE IInv'
<1>1. proc' \in [Procs -> Local] BY TouchingType DEF IInv
<1>2. TypeOK' BY <1>1 DEF TypeOK, SharedOK
<1>3. ASSUME NEW q \in Procs PROVE ProcInv(proc[q])'
  <2>1. CASE q = p
    <3>1. proc'[q] = r BY <2>1 DEF BecomeTouching
    <3> QED BY <3>1
  <2>2. CASE q # p
    <3>1. PICK s \in Local : s = proc[q] BY DEF IInv, TypeOK
    <3>2. proc'[q] = Saw(s, c) BY <2>2, <3>1 DEF BecomeTouching
    <3>3. ProcInv(s) BY <3>1 DEF IInv
    <3>4. ProcInv(Saw(s, c))' BY <3>3, OthersKeep DEF IInv
    <3> QED BY <3>2, <3>4
  <2> QED BY <2>1, <2>2
<1> QED BY <1>2, <1>3 DEF IInv

\* What leads to the end of an invocation, or to its undoing, keeps the invariant.
LEMMA FinishedInv ==
  ASSUME NEW r \in Local, NEW res PROVE ProcInv(Finished(r, res))'
<1>1. Finished(r, res).pc = "done" BY DEF Finished, Local
<1> QED BY <1>1, PlanlessInv

LEMMA UndoingInv ==
  ASSUME NEW r \in Local, NEW f, \A c \in r.journal : r.before[c].owned
  PROVE ProcInv(Undoing(r, f))'
<1> DEFINE s == Undoing(r, f)
<1>1. s.pc = "undo" /\ s.undo = r.journal /\ s.before = r.before
  BY DEF Undoing, Local
<1> HIDE DEF s
<1>2. ProcInv(s)'
  BY <1>1 DEF ProcInv, PlanInv, FingerInv, DoneInv, Early, Applying, Closing, Undo
<1> QED BY <1>2 DEF s

LEMMA DroppedInv ==
  ASSUME NEW r \in Local, NEW c, NEW f, \A d \in r.undo : r.before[d].owned
  PROVE ProcInv(Dropped(r, c, f))'
<1> DEFINE s == Dropped(r, c, f)
<1>1. s.pc = "undo" /\ s.undo = r.undo \ {c} /\ s.before = r.before
  BY DEF Dropped, Local
<1> HIDE DEF s
<1>2. ProcInv(s)'
  BY <1>1 DEF ProcInv, PlanInv, FingerInv, DoneInv, Early, Applying, Closing, Undo
<1> QED BY <1>2 DEF s

\* Moving on to the next component, or past the last one.
LEMMA ContinueInv ==
  ASSUME NEW r \in Local, UNCHANGED runtime,
         r.mode \in {"repair", "advance", "rollback", "recover"},
         \A c \in r.todo : r.target[c] # Absent /\ r.before[c].owned,
         \A c \in r.journal : r.before[c].owned,
         r.mode \in {"advance", "rollback"} =>
            \A c \in Components \ (r.todo \cup r.foreign) :
               r.target[c] # Absent => runtime[c].ver = r.target[c]
  PROVE ProcInv(Continue(r))'
<1> DEFINE s == Continue(r)
<1>1. CASE r.todo # {}
  <2>1. /\ s.pc = "check" /\ s.mode = r.mode /\ s.target = r.target /\ s.before = r.before
        /\ s.todo = r.todo /\ s.journal = r.journal /\ s.foreign = r.foreign
    BY <1>1 DEF Continue, Local
  <2> HIDE DEF s
  <2>2. ProcInv(s)'
    BY <2>1 DEF ProcInv, PlanInv, FingerInv, DoneInv, Early, Applying, Closing, Undo
  <2> QED BY <2>2 DEF s
<1>2. CASE r.todo = {} /\ r.mode \in {"repair", "advance", "rollback"}
  <2>1. /\ s.pc = IF r.mode = "rollback" THEN "write" ELSE "gate"
        /\ s.mode = r.mode /\ s.target = r.target /\ s.before = r.before
        /\ s.todo = r.todo /\ s.journal = r.journal /\ s.foreign = r.foreign
    BY <1>2 DEF Continue, Local
  <2> HIDE DEF s
  <2>2. PlanInv(s)' BY <1>2, <2>1 DEF PlanInv, Early, Applying, Closing, Undo
  <2>3. FingerInv(s)' /\ DoneInv(s)'
    BY <1>2, <2>1 DEF FingerInv, DoneInv, Early, Applying, Closing
  <2> QED BY <2>2, <2>3 DEF ProcInv, s
<1>3. CASE r.todo = {} /\ r.mode = "recover"
  <2>1. s = Finished(r, "restored") BY <1>3 DEF Continue
  <2> QED BY <2>1, FinishedInv
<1> QED BY <1>1, <1>2, <1>3

LEMMA SettledInv ==
  ASSUME NEW r \in Local, UNCHANGED runtime, NEW d \in r.todo, PlanInv(r), DoneInv(r),
         r.pc \in Applying,
         r.mode \in {"advance", "rollback"} /\ d \notin r.foreign =>
            runtime[d].ver = r.target[d]
  PROVE ProcInv(Settled(r, d))'
<1> DEFINE s == [r EXCEPT !.todo = @ \ {d}]
<1>1. /\ s \in Local /\ s.mode = r.mode /\ s.target = r.target /\ s.before = r.before
      /\ s.todo = r.todo \ {d} /\ s.journal = r.journal /\ s.foreign = r.foreign
  BY DEF Local
<1>2. s.mode \in {"advance", "rollback"} =>
            \A c \in Components \ (s.todo \cup s.foreign) :
               s.target[c] # Absent => runtime[c].ver = s.target[c]
  BY <1>1 DEF DoneInv
<1>3. /\ s.mode \in {"repair", "advance", "rollback", "recover"}
      /\ \A c \in s.todo : s.target[c] # Absent /\ s.before[c].owned
      /\ \A c \in s.journal : s.before[c].owned
  BY <1>1 DEF PlanInv
<1> HIDE DEF s
<1>4. ProcInv(Continue(s))' BY <1>1, <1>2, <1>3, ContinueInv
<1> QED BY <1>4 DEF Settled, s

-----------------------------------------------------------------------------
(* Each step preserves the invariant.  The local state an invocation is in    *)
(* is named r before it moves.                                              *)

LEMMA InvInit == Init => IInv
<1> SUFFICES ASSUME Init PROVE IInv OBVIOUS
<1>1. PICK l \in [Components -> Versions] :
          /\ lock = Full(l, l[Spine])
          /\ runtime = [c \in Components |-> Managed(l[c])]
          /\ running = [c \in Services |-> l[c]]
  BY DEF Init
<1>2. l \in Locks /\ \A c \in Components : l[c] \in Pins /\ l[c] # Absent
  BY SizeAssumption DEF Locks, Pins, Versions, Absent
<1>3. runtime \in [Components -> Artifact] BY <1>1, <1>2, ArtifactTypes
<1>4. running \in [Services -> Pins] BY <1>1, <1>2, ShapeAssumption
<1>5. lock \in LockFile /\ tmp \in LockFile
  BY <1>1, <1>2, SpineExists, LockFileTypes DEF Init
<1>6. proc \in [Procs -> Local] /\ faults \in 0 .. MaxFaults
  BY FreshType, SizeAssumption DEF Init
<1>7. ASSUME NEW p \in Procs PROVE ProcInv(proc[p])
  <2>1. proc[p].pc = "idle" BY DEF Init, Fresh
  <2> QED BY <2>1, PlanlessInv
<1> QED BY <1>3, <1>4, <1>5, <1>6, <1>7 DEF IInv, TypeOK

LEMMA BeginUpgradeInv ==
  ASSUME IInv, NEW p \in Procs, NEW sel \in Selections, BeginUpgrade(p, sel)
  PROVE IInv'
<1>1. UNCHANGED runtime /\ SharedOK'
  BY FaultsType DEF BeginUpgrade, IInv, TypeOK, SharedOK
<1>2. CASE lock.state = "full"
  <2>1. PICK pins \in Locks, quad \in Pins : pins = lock.pins /\ quad = lock.quad
    BY <1>2, LockFileTypes DEF IInv, TypeOK
  <2> DEFINE s == [Fresh EXCEPT !.pc = "plan", !.target = pins, !.quad = quad, !.todo = sel]
  <2>2. Become(p, s) BY <1>2, <2>1 DEF BeginUpgrade
  <2>3. sel \in SUBSET Components BY DEF Selections
  <2>4. s \in Local BY <2>3, FreshType DEF Local, PCs
  <2>5. s.pc = "plan" /\ s.journal = {} BY DEF Fresh
  <2> HIDE DEF s
  <2>6. ProcInv(s)'
    BY <2>5 DEF ProcInv, PlanInv, FingerInv, DoneInv, Early, Applying, Closing, Undo
  <2> QED BY <1>1, <2>2, <2>4, <2>6, Moved
<1>3. CASE lock.state # "full"
  <2>1. Become(p, Finished(Fresh, "refused")) BY <1>3 DEF BeginUpgrade
  <2>2. Finished(Fresh, "refused") \in Local BY FreshType, FinishedType DEF Results
  <2>3. ProcInv(Finished(Fresh, "refused"))' BY FreshType, FinishedInv
  <2> QED BY <1>1, <2>1, <2>2, <2>3, Moved
<1> QED BY <1>2, <1>3

LEMMA PlanRefusedInv ==
  ASSUME IInv, NEW p \in Procs, PlanRefused(p) PROVE IInv'
<1>1. UNCHANGED runtime /\ SharedOK'
  BY FaultsType, ReadFaults DEF PlanRefused, Refuse, IInv, TypeOK, SharedOK
<1>2. PICK r \in Local : r = proc[p] BY DEF IInv, TypeOK
<1>3. Become(p, Finished(r, "refused")) BY <1>2 DEF PlanRefused, Refuse
<1>4. Finished(r, "refused") \in Local BY FinishedType DEF Results
<1>5. ProcInv(Finished(r, "refused"))' BY FinishedInv
<1> QED BY <1>1, <1>3, <1>4, <1>5, Moved

\* What a managed artifact's record says of its version.
LEMMA OwnedPresent ==
  ASSUME TypeOK, NEW c \in Components, runtime[c].owned
  PROVE runtime[c].ver \in Versions /\ runtime[c].ver # Absent
  BY SizeAssumption DEF TypeOK, Artifact, Pins, Versions, Absent

LEMMA PlanRepairInv ==
  ASSUME IInv, NEW p \in Procs, PlanRepair(p) PROVE IInv'
<1>1. UNCHANGED runtime /\ SharedOK'
  BY FaultsType, ReadFaults DEF PlanRepair, IInv, TypeOK, SharedOK
<1>2. PICK r \in Local : r = proc[p] BY DEF IInv, TypeOK
<1>3. PICK drifted \in SUBSET Components, est \in [Components -> Artifact] :
          drifted = Drifted(r.target) /\ est = runtime
  BY DEF IInv, TypeOK, Drifted
<1>4. /\ \A c \in r.todo : r.target[c] # Absent
      /\ drifted \subseteq r.todo
      /\ \A c \in drifted : est[c].owned
  BY <1>2, <1>3 DEF PlanRepair, Refusable, Mutable
<1> DEFINE s == [r EXCEPT !.pc = "check", !.mode = "repair", !.todo = drifted,
                          !.before = est, !.unseen = {}]
<1>5. Become(p, s) BY <1>2, <1>3 DEF PlanRepair
<1>6. s \in Local BY DEF Local, PCs, Modes
<1>7. /\ s.pc = "check" /\ s.mode = "repair" /\ s.todo = drifted /\ s.before = est
      /\ s.target = r.target /\ s.journal = r.journal
  BY DEF Local
<1> HIDE DEF s
<1>8. r.journal = {} BY <1>2 DEF IInv, ProcInv, PlanInv, PlanRepair, At
<1>9. ProcInv(s)'
  BY <1>4, <1>7, <1>8 DEF ProcInv, PlanInv, FingerInv, DoneInv, Early, Applying, Closing, Undo
<1> QED BY <1>1, <1>5, <1>6, <1>9, Moved

LEMMA PlanAdvanceInv ==
  ASSUME IInv, NEW p \in Procs, PlanAdvance(p) PROVE IInv'
<1>1. UNCHANGED runtime /\ SharedOK'
  BY FaultsType, ReadFaults DEF PlanAdvance, IInv, TypeOK, SharedOK
<1>2. PICK r \in Local : r = proc[p] BY DEF IInv, TypeOK
<1>3. PICK v \in Locks, left \in SUBSET Components, est \in [Components -> Artifact] :
          /\ v \in Offers(r.todo) /\ left = Drifted(v) /\ est = runtime
          /\ Become(p, IF left = {} THEN Finished(r, "current")
                       ELSE [r EXCEPT !.pc = "check", !.mode = "advance", !.todo = left,
                                      !.before = est, !.target = v, !.unseen = {}])
  BY <1>2 DEF PlanAdvance, Offers, Drifted, IInv, TypeOK
<1>4. CASE left = {}
  <2>1. Finished(r, "current") \in Local BY FinishedType DEF Results
  <2>2. ProcInv(Finished(r, "current"))' BY FinishedInv
  <2> QED BY <1>1, <1>3, <1>4, <2>1, <2>2, Moved
<1>5. CASE left # {}
  <2> DEFINE s == [r EXCEPT !.pc = "check", !.mode = "advance", !.todo = left,
                            !.before = est, !.target = v, !.unseen = {}]
  <2>1. Become(p, s) BY <1>3, <1>5
  <2>2. s \in Local BY DEF Local, PCs, Modes
  <2>3. /\ s.pc = "check" /\ s.mode = "advance" /\ s.todo = left /\ s.before = est
        /\ s.target = v /\ s.journal = r.journal
    BY DEF Local
  <2> HIDE DEF s
  <2>4. r.journal = {} BY <1>2 DEF IInv, ProcInv, PlanInv, PlanAdvance, At
  <2>5. \A c \in r.todo : est[c].owned
    BY <1>2, <1>3 DEF PlanAdvance, Refusable, Mutable
  <2>6. \A c \in Components : c \in left <=> est[c].ver # v[c]
    BY <1>3 DEF Drifted
  <2>7. ASSUME NEW c \in left PROVE v[c] # Absent /\ est[c].owned
    <3>1. c \in Components /\ est[c].ver # v[c] BY <2>6
    <3>2. c \in r.todo BY <1>3, <3>1 DEF Offers
    <3>3. est[c].owned /\ v[c] >= est[c].ver BY <1>3, <2>5, <3>1, <3>2 DEF Offers
    <3>4. est[c].ver # Absent /\ est[c].ver \in Versions
      BY <1>3, <3>1, <3>3, OwnedPresent DEF IInv
    <3> QED BY <3>3, <3>4 DEF Absent, Versions
  <2>8. PlanInv(s)'
    BY <2>3, <2>4, <2>7 DEF PlanInv, Early, Applying, Closing, Undo
  <2>9. DoneInv(s)' /\ FingerInv(s)'
    BY <1>1, <1>3, <2>3, <2>6 DEF DoneInv, FingerInv, Early, Applying, Closing
  <2> QED BY <1>1, <2>1, <2>2, <2>8, <2>9, Moved DEF ProcInv
<1> QED BY <1>4, <1>5

LEMMA BeginRollbackInv ==
  ASSUME IInv, NEW p \in Procs, NEW ref \in Refs, BeginRollback(p, ref) PROVE IInv'
<1>1. UNCHANGED runtime /\ SharedOK'
  BY RollbackBegins, FaultsType DEF IInv, TypeOK, SharedOK
<1>2. PICK s \in Local : s = Aims(ref) BY AimsType
<1>3. \/ Become(p, s) \/ \E res \in {"failed", "refused"} : Become(p, Finished(s, res))
  BY <1>2, RollbackBegins
<1>4. /\ s.pc = "prestate" /\ s.mode = "rollback" /\ s.target = ref.pins /\ s.journal = {}
      /\ s.todo = {c \in Components : ref.pins[c] # Absent}
  BY <1>2, AimsType
<1>5. ProcInv(s)'
  BY <1>4 DEF ProcInv, PlanInv, FingerInv, DoneInv, Early, Applying, Closing, Undo
<1>6. CASE Become(p, s) BY <1>1, <1>5, <1>6, Moved
<1>7. ASSUME NEW res \in {"failed", "refused"}, Become(p, Finished(s, res)) PROVE IInv'
  <2>1. Finished(s, res) \in Local BY FinishedType DEF Results
  <2>2. ProcInv(Finished(s, res))' BY FinishedInv
  <2> QED BY <1>1, <1>7, <2>1, <2>2, Moved
<1> QED BY <1>3, <1>6, <1>7

LEMMA CapturePrestateInv ==
  ASSUME IInv, NEW p \in Procs, CapturePrestate(p) PROVE IInv'
<1>1. UNCHANGED runtime /\ SharedOK'
  BY FaultsType DEF CapturePrestate, IInv, TypeOK, SharedOK
<1>2. PICK r \in Local : r = proc[p] BY DEF IInv, TypeOK
<1>3. r.pc = "prestate" /\ ProcInv(r) BY <1>2 DEF CapturePrestate, At, IInv
<1>4. PICK v \in Locks : v = [c \in Components |->
                                 IF c \in r.todo THEN runtime[c].ver ELSE Absent]
  BY DEF IInv, TypeOK, Artifact, Locks, Pins
<1> DEFINE s == [r EXCEPT !.pc = "preflight", !.prestate = v]
<1>5. Become(p, s) \/ Become(p, Finished(r, "failed"))
  BY <1>2, <1>4 DEF CapturePrestate
<1>6. CASE Become(p, Finished(r, "failed"))
  <2>1. Finished(r, "failed") \in Local BY FinishedType DEF Results
  <2>2. ProcInv(Finished(r, "failed"))' BY FinishedInv
  <2> QED BY <1>1, <1>6, <2>1, <2>2, Moved
<1>7. CASE Become(p, s)
  <2>1. s \in Local BY DEF Local, PCs
  <2>2. /\ s.pc = "preflight" /\ s.mode = r.mode /\ s.todo = r.todo /\ s.foreign = r.foreign
        /\ s.target = r.target /\ s.journal = r.journal
    BY DEF Local
  <2> HIDE DEF s
  <2>3. ProcInv(s)'
    BY <1>1, <1>3, <2>2
    DEF ProcInv, PlanInv, FingerInv, DoneInv, Early, Applying, Closing, Undo
  <2> QED BY <1>1, <1>7, <2>1, <2>3, Moved
<1> QED BY <1>5, <1>6, <1>7

LEMMA PreflightInv ==
  ASSUME IInv, NEW p \in Procs, Preflight(p) PROVE IInv'
<1>1. UNCHANGED runtime /\ SharedOK'
  BY FaultsType DEF Preflight, IInv, TypeOK, SharedOK
<1>2. PICK r \in Local : r = proc[p] BY DEF IInv, TypeOK
<1>3. r.pc = "preflight" /\ ProcInv(r) BY <1>2 DEF Preflight, At, IInv
<1>4. PICK est \in [Components -> Artifact] : est = runtime BY DEF IInv, TypeOK
<1> DEFINE s == [r EXCEPT !.before = est, !.unseen = {}]
<1>5. \/ (\A c \in r.todo : est[c].owned) /\ Become(p, Continue(s))
      \/ \E res \in {"incomplete", "failed"} : Become(p, Finished(r, res))
  BY <1>2, <1>4 DEF Preflight, Mutable
<1>6. CASE \E res \in {"incomplete", "failed"} : Become(p, Finished(r, res))
  <2>1. PICK res \in {"incomplete", "failed"} : Become(p, Finished(r, res)) BY <1>6
  <2>2. Finished(r, res) \in Local BY FinishedType DEF Results
  <2>3. ProcInv(Finished(r, res))' BY FinishedInv
  <2> QED BY <1>1, <2>1, <2>2, <2>3, Moved
<1>7. CASE (\A c \in r.todo : est[c].owned) /\ Become(p, Continue(s))
  <2>1. s \in Local BY DEF Local
  <2>2. /\ s.mode = r.mode /\ s.todo = r.todo /\ s.foreign = r.foreign
        /\ s.target = r.target /\ s.journal = r.journal /\ s.before = est
    BY DEF Local
  <2> HIDE DEF s
  <2>3. /\ s.mode \in {"repair", "advance", "rollback", "recover"}
        /\ \A c \in s.todo : s.target[c] # Absent /\ s.before[c].owned
        /\ \A c \in s.journal : s.before[c].owned
        /\ s.mode \in {"advance", "rollback"} =>
              \A c \in Components \ (s.todo \cup s.foreign) :
                 s.target[c] # Absent => runtime[c].ver = s.target[c]
    BY <1>3, <1>7, <2>2 DEF ProcInv, PlanInv, DoneInv, Early
  <2>4. ProcInv(Continue(s))' BY <1>1, <2>1, <2>3, ContinueInv
  <2>5. Continue(s) \in Local BY <2>1, ContinueType
  <2> QED BY <1>1, <1>7, <2>4, <2>5, Moved
<1> QED BY <1>5, <1>6, <1>7

LEMMA FirstUnique ==
  ASSUME NEW S \in SUBSET Components, NEW c, NEW d, First(c, S), First(d, S) PROVE c = d
  BY SizeAssumption DEF First, Components

LEMMA CheckFingerprintInv ==
  ASSUME IInv, NEW p \in Procs, CheckFingerprint(p) PROVE IInv'
<1>1. UNCHANGED runtime /\ SharedOK'
  BY FaultsType DEF CheckFingerprint, IInv, TypeOK, SharedOK
<1>2. PICK r \in Local : r = proc[p] BY DEF IInv, TypeOK
<1>3. r.pc = "check" /\ ProcInv(r) BY <1>2 DEF CheckFingerprint, At, IInv
<1>4. PICK c \in r.todo :
          /\ First(c, r.todo)
          /\ \/ /\ runtime[c] = r.before[c]
                /\ Become(p, [r EXCEPT !.pc = "install", !.unseen = @ \ {c}])
             \/ Become(p, Undoing(r, FALSE))
  BY <1>2 DEF CheckFingerprint
<1>5. CASE Become(p, Undoing(r, FALSE))
  <2>1. Undoing(r, FALSE) \in Local BY UndoingType
  <2>2. \A d \in r.journal : r.before[d].owned BY <1>3 DEF ProcInv, PlanInv, Applying
  <2>3. ProcInv(Undoing(r, FALSE))' BY <2>2, UndoingInv
  <2> QED BY <1>1, <1>5, <2>1, <2>3, Moved
<1>6. CASE /\ runtime[c] = r.before[c]
           /\ Become(p, [r EXCEPT !.pc = "install", !.unseen = @ \ {c}])
  <2> DEFINE s == [r EXCEPT !.pc = "install", !.unseen = @ \ {c}]
  <2>1. s \in Local BY DEF Local, PCs
  <2>2. /\ s.pc = "install" /\ s.mode = r.mode /\ s.target = r.target /\ s.before = r.before
        /\ s.todo = r.todo /\ s.journal = r.journal /\ s.foreign = r.foreign
        /\ r.todo \in SUBSET Components
    BY DEF Local
  <2>3. Become(p, s) BY <1>6
  <2> HIDE DEF s
  <2>4. PlanInv(s)' BY <1>3, <2>2 DEF ProcInv, PlanInv, Early, Applying, Closing, Undo
  <2>5. FingerInv(s)'
    BY <1>1, <1>4, <1>6, <2>2, FirstUnique DEF FingerInv
  <2>6. DoneInv(s)'
    BY <1>1, <1>3, <2>2 DEF ProcInv, DoneInv, Early, Applying, Closing
  <2> QED BY <1>1, <2>1, <2>3, <2>4, <2>5, <2>6, Moved DEF ProcInv
<1> QED BY <1>4, <1>5, <1>6

\* The component an installer works on has a pin and a managed record.
LEMMA PlannedType ==
  ASSUME NEW r \in Local, PlanInv(r), r.pc \in Applying, NEW c \in r.todo
  PROVE c \in Components /\ r.target[c] \in Versions
  BY SizeAssumption DEF PlanInv, Local, Locks, Pins, Versions, Absent, Applying

LEMMA InstallInv ==
  ASSUME IInv, NEW p \in Procs, Install(p) PROVE IInv'
<1>1. SharedOK' BY FaultsType DEF Install, IInv, TypeOK, SharedOK
<1>2. PICK r \in Local : r = proc[p] BY DEF IInv, TypeOK
<1>3. r.pc = "install" /\ ProcInv(r) BY <1>2 DEF Install, At, IInv
<1>4. PICK c \in r.todo :
          /\ First(c, r.todo)
          /\ runtime' = [runtime EXCEPT ![c] = Managed(r.target[c])]
          /\ BecomeTouching(p,
               [r EXCEPT !.journal = @ \cup {c},
                         !.pc = IF r.mode \in {"repair", "advance"} /\ c \in Services
                                THEN "restart" ELSE "verify"], c)
  BY <1>2 DEF Install
<1>5. c \in Components /\ r.target[c] \in Versions
  BY <1>3, PlannedType DEF ProcInv, Applying
<1>6. Managed(r.target[c]) \in Artifact BY <1>5, LeftByType, GoneType
<1>7. runtime' \in [Components -> Artifact] BY <1>4, <1>6 DEF IInv, TypeOK
<1>8. /\ runtime'[c].ver = r.target[c]
      /\ \A d \in Components : d # c => runtime'[d] = runtime[d]
  BY <1>4, <1>5 DEF IInv, TypeOK, Managed
<1> DEFINE s == [r EXCEPT !.journal = @ \cup {c},
                          !.pc = IF r.mode \in {"repair", "advance"} /\ c \in Services
                                 THEN "restart" ELSE "verify"]
<1>9. s \in Local BY <1>5 DEF Local, PCs
<1>10. /\ s.pc \in {"restart", "verify"} /\ s.mode = r.mode /\ s.target = r.target
       /\ s.before = r.before /\ s.todo = r.todo /\ s.journal = r.journal \cup {c}
       /\ s.foreign = r.foreign
       /\ s.pc = "restart" => s.mode \in {"repair", "advance"}
  BY DEF Local
<1>11. BecomeTouching(p, s, c) BY <1>4
<1> HIDE DEF s
<1>12. PlanInv(s)' BY <1>3, <1>10 DEF ProcInv, PlanInv, Early, Applying, Closing, Undo
<1>13. FingerInv(s)' BY <1>10 DEF FingerInv
<1>14. DoneInv(s)'
  BY <1>3, <1>8, <1>10 DEF ProcInv, DoneInv, Early, Applying, Closing
<1> QED BY <1>1, <1>5, <1>7, <1>8, <1>9, <1>11, <1>12, <1>13, <1>14, Touched DEF ProcInv

LEMMA InstallFailsInv ==
  ASSUME IInv, NEW p \in Procs, InstallFails(p) PROVE IInv'
<1>1. SharedOK' BY FaultsType DEF InstallFails, IInv, TypeOK, SharedOK
<1>2. PICK r \in Local : r = proc[p] BY DEF IInv, TypeOK
<1>3. r.pc = "install" /\ ProcInv(r) BY <1>2 DEF InstallFails, At, IInv
<1>4. PICK c \in r.todo, e \in Effects :
          /\ runtime' = [runtime EXCEPT ![c] = LeftBy(e, @, r.target[c])]
          /\ BecomeTouching(p, Undoing(r, FALSE), c)
  BY <1>2 DEF InstallFails
<1>5. c \in Components /\ r.target[c] \in Versions
  BY <1>3, PlannedType DEF ProcInv, Applying
<1>6. LeftBy(e, runtime[c], r.target[c]) \in Artifact
  BY <1>5, LeftByType DEF IInv, TypeOK
<1>7. /\ runtime' \in [Components -> Artifact]
      /\ \A d \in Components : d # c => runtime'[d] = runtime[d]
  BY <1>4, <1>6 DEF IInv, TypeOK
<1>8. Undoing(r, FALSE) \in Local BY UndoingType
<1>9. \A d \in r.journal : r.before[d].owned BY <1>3 DEF ProcInv, PlanInv, Applying
<1>10. ProcInv(Undoing(r, FALSE))' BY <1>9, UndoingInv
<1> QED BY <1>1, <1>4, <1>5, <1>7, <1>8, <1>10, Touched

LEMMA RestartInv ==
  ASSUME IInv, NEW p \in Procs, Restart(p) PROVE IInv'
<1>1. PICK r \in Local : r = proc[p] BY DEF IInv, TypeOK
<1>2. r.pc = "restart" /\ ProcInv(r) BY <1>1 DEF Restart, At, IInv
<1>3. PICK c \in r.todo \cap Services :
          /\ First(c, r.todo)
          /\ running' = [running EXCEPT ![c] = runtime[c].ver]
          /\ BecomeTouching(p, IF r.mode \in {"repair", "advance"}
                               THEN [r EXCEPT !.pc = "verify"] ELSE Settled(r, c), c)
  BY <1>1 DEF Restart
<1>4. c \in Components BY <1>2, PlannedType DEF ProcInv, Applying
<1>5. UNCHANGED <<runtime, lock, tmp>> BY DEF Restart
<1>6. running' \in [Services -> Pins]
  BY <1>3, <1>4 DEF IInv, TypeOK, Artifact
<1>7. SharedOK' BY <1>5, <1>6, FaultsType DEF Restart, IInv, TypeOK, SharedOK
<1>8. runtime' \in [Components -> Artifact] BY <1>5 DEF IInv, TypeOK
<1>9. CASE r.mode \in {"repair", "advance"}
  <2> DEFINE s == [r EXCEPT !.pc = "verify"]
  <2>1. BecomeTouching(p, s, c) BY <1>3, <1>9
  <2>2. s \in Local BY DEF Local, PCs
  <2>3. /\ s.pc = "verify" /\ s.mode = r.mode /\ s.target = r.target /\ s.before = r.before
        /\ s.todo = r.todo /\ s.journal = r.journal /\ s.foreign = r.foreign
    BY DEF Local
  <2> HIDE DEF s
  <2>4. PlanInv(s)' /\ FingerInv(s)'
    BY <1>2, <2>3 DEF ProcInv, PlanInv, FingerInv, Early, Applying, Closing, Undo
  <2>5. DoneInv(s)' BY <1>2, <1>5, <2>3 DEF ProcInv, DoneInv, Early, Applying, Closing
  <2> QED BY <1>4, <1>5, <1>7, <1>8, <2>1, <2>2, <2>4, <2>5, Touched DEF ProcInv
<1>10. CASE r.mode \notin {"repair", "advance"}
  <2>1. BecomeTouching(p, Settled(r, c), c) BY <1>3, <1>10
  <2>2. Settled(r, c) \in Local BY SettledType
  <2>3. r.mode \in {"advance", "rollback"} /\ c \notin r.foreign => runtime[c].ver = r.target[c]
    BY <1>2, <1>3, <1>10 DEF ProcInv, DoneInv
  <2>4. r.pc \in Applying /\ c \in r.todo BY <1>2 DEF Applying
  <2>5. ProcInv(Settled(r, c))' BY <1>2, <1>5, <2>3, <2>4, SettledInv DEF ProcInv
  <2> QED BY <1>4, <1>5, <1>7, <1>8, <2>1, <2>2, <2>5, Touched
<1> QED BY <1>9, <1>10

LEMMA RestartFailsInv ==
  ASSUME IInv, NEW p \in Procs, RestartFails(p) PROVE IInv'
<1>1. PICK r \in Local : r = proc[p] BY DEF IInv, TypeOK
<1>2. r.pc = "restart" /\ ProcInv(r) BY <1>1 DEF RestartFails, At, IInv
<1>3. PICK c \in r.todo \cap Services :
          /\ \E v \in {running[c], Absent, runtime[c].ver} : running' = [running EXCEPT ![c] = v]
          /\ BecomeTouching(p, Undoing(r, FALSE), c)
  BY <1>1 DEF RestartFails
<1>4. c \in Components BY <1>2, PlannedType DEF ProcInv, Applying
<1>5. UNCHANGED <<runtime, lock, tmp>> BY DEF RestartFails
<1>6. running' \in [Services -> Pins]
  BY <1>3, <1>4 DEF IInv, TypeOK, Artifact, Pins
<1>7. SharedOK' BY <1>5, <1>6, FaultsType DEF RestartFails, IInv, TypeOK, SharedOK
<1>8. runtime' \in [Components -> Artifact] BY <1>5 DEF IInv, TypeOK
<1>9. Undoing(r, FALSE) \in Local BY UndoingType
<1>10. \A d \in r.journal : r.before[d].owned BY <1>2 DEF ProcInv, PlanInv, Applying
<1>11. ProcInv(Undoing(r, FALSE))' BY <1>10, UndoingInv
<1> QED BY <1>3, <1>4, <1>5, <1>7, <1>8, <1>9, <1>11, Touched

LEMMA VerifyInv ==
  ASSUME IInv, NEW p \in Procs, Verify(p) PROVE IInv'
<1>1. UNCHANGED runtime /\ SharedOK'
  BY FaultsType DEF Verify, IInv, TypeOK, SharedOK
<1>2. PICK r \in Local : r = proc[p] BY DEF IInv, TypeOK
<1>3. r.pc = "verify" /\ ProcInv(r) BY <1>2 DEF Verify, At, IInv
<1>4. PICK c \in r.todo :
          /\ First(c, r.todo)
          /\ \/ /\ runtime[c].ver = r.target[c]
                /\ Become(p, IF r.mode \in {"rollback", "recover"} /\ c \in Services
                             THEN [r EXCEPT !.pc = "restart"] ELSE Settled(r, c))
             \/ Become(p, Undoing(r, FALSE))
  BY <1>2 DEF Verify
<1>5. CASE Become(p, Undoing(r, FALSE))
  <2>1. Undoing(r, FALSE) \in Local BY UndoingType
  <2>2. \A d \in r.journal : r.before[d].owned BY <1>3 DEF ProcInv, PlanInv, Applying
  <2>3. ProcInv(Undoing(r, FALSE))' BY <2>2, UndoingInv
  <2> QED BY <1>1, <1>5, <2>1, <2>3, Moved
<1>6. CASE runtime[c].ver = r.target[c] /\ Become(p, Settled(r, c))
  <2>1. Settled(r, c) \in Local BY SettledType
  <2>2. r.pc \in Applying BY <1>3 DEF Applying
  <2>3. ProcInv(Settled(r, c))' BY <1>1, <1>3, <1>6, <2>2, SettledInv DEF ProcInv
  <2> QED BY <1>1, <1>6, <2>1, <2>3, Moved
<1>7. CASE runtime[c].ver = r.target[c] /\ Become(p, [r EXCEPT !.pc = "restart"])
  <2> DEFINE s == [r EXCEPT !.pc = "restart"]
  <2>1. Become(p, s) BY <1>7
  <2>2. s \in Local BY DEF Local, PCs
  <2>3. /\ s.pc = "restart" /\ s.mode = r.mode /\ s.target = r.target /\ s.before = r.before
        /\ s.todo = r.todo /\ s.journal = r.journal /\ s.foreign = r.foreign
        /\ r.todo \in SUBSET Components
    BY DEF Local
  <2> HIDE DEF s
  <2>4. PlanInv(s)' /\ FingerInv(s)'
    BY <1>3, <2>3 DEF ProcInv, PlanInv, FingerInv, Early, Applying, Closing, Undo
  <2>5. \A d \in r.todo : First(d, r.todo) => d = c BY <1>4, <2>3, FirstUnique
  <2>6. DoneInv(s)'
    BY <1>1, <1>3, <1>7, <2>3, <2>5 DEF ProcInv, DoneInv, Early, Applying, Closing
  <2> QED BY <1>1, <2>1, <2>2, <2>4, <2>6, Moved DEF ProcInv
<1> QED BY <1>4, <1>5, <1>6, <1>7

LEMMA GateInv ==
  ASSUME IInv, NEW p \in Procs, Gate(p) PROVE IInv'
<1>1. UNCHANGED runtime /\ SharedOK'
  BY FaultsType, GateStep DEF Gate, IInv, TypeOK, SharedOK
<1>2. PICK r \in Local : r = proc[p] BY DEF IInv, TypeOK
<1>3. r.pc = "gate" /\ ProcInv(r) BY <1>2 DEF Gate, At, IInv
<1>4. \/ /\ r.mode = "advance"
         /\ \E q \in Pins : Become(p, [r EXCEPT !.pc = "write", !.quad = q])
      \/ Become(p, Finished(r, "ok"))
      \/ Become(p, Undoing(r, FALSE))
  BY <1>2, GateStep
<1>5. CASE Become(p, Finished(r, "ok"))
  <2>1. Finished(r, "ok") \in Local BY FinishedType DEF Results
  <2>2. ProcInv(Finished(r, "ok"))' BY FinishedInv
  <2> QED BY <1>1, <1>5, <2>1, <2>2, Moved
<1>6. CASE Become(p, Undoing(r, FALSE))
  <2>1. Undoing(r, FALSE) \in Local BY UndoingType
  <2>2. \A d \in r.journal : r.before[d].owned
    BY <1>3 DEF ProcInv, PlanInv, Applying, Closing
  <2>3. ProcInv(Undoing(r, FALSE))' BY <2>2, UndoingInv
  <2> QED BY <1>1, <1>6, <2>1, <2>3, Moved
<1>7. ASSUME r.mode = "advance", NEW q \in Pins,
             Become(p, [r EXCEPT !.pc = "write", !.quad = q])
      PROVE IInv'
  <2> DEFINE s == [r EXCEPT !.pc = "write", !.quad = q]
  <2>1. Become(p, s) BY <1>7
  <2>2. s \in Local BY DEF Local, PCs
  <2>3. /\ s.pc = "write" /\ s.mode = r.mode /\ s.target = r.target /\ s.before = r.before
        /\ s.todo = r.todo /\ s.journal = r.journal /\ s.foreign = r.foreign
    BY DEF Local
  <2> HIDE DEF s
  <2>4. PlanInv(s)' /\ FingerInv(s)'
    BY <1>3, <1>7, <2>3 DEF ProcInv, PlanInv, FingerInv, Early, Applying, Closing, Undo
  <2>5. DoneInv(s)'
    BY <1>1, <1>3, <2>3 DEF ProcInv, DoneInv, Early, Applying, Closing
  <2> QED BY <1>1, <2>1, <2>2, <2>4, <2>5, Moved DEF ProcInv
<1> QED BY <1>4, <1>5, <1>6, <1>7

LEMMA WriteFailedInv ==
  ASSUME NEW r \in Local, PlanInv(r), r.pc \in {"write", "replace"}
  PROVE ProcInv(WriteFailed(r))'
<1>1. CASE r.mode = "advance"
  <2>1. \A d \in r.journal : r.before[d].owned BY DEF PlanInv, Closing
  <2> QED BY <1>1, <2>1, UndoingInv DEF WriteFailed
<1>2. CASE r.mode # "advance"
  <2> DEFINE s == WriteFailed(r)
  <2>1. /\ s.pc = "preflight" /\ s.mode = "recover" /\ s.journal = {}
        /\ \A c \in s.todo : s.target[c] # Absent
    BY <1>2 DEF WriteFailed, Local
  <2> HIDE DEF s
  <2>2. ProcInv(s)'
    BY <2>1 DEF ProcInv, PlanInv, FingerInv, DoneInv, Early, Applying, Closing, Undo
  <2> QED BY <2>2 DEF s
<1> QED BY <1>1, <1>2

LEMMA WriteSiblingInv ==
  ASSUME IInv, NEW p \in Procs, WriteSibling(p) PROVE IInv'
<1>1. PICK r \in Local : r = proc[p] BY DEF IInv, TypeOK
<1>2. r.pc = "write" /\ ProcInv(r) BY <1>1 DEF WriteSibling, At, IInv
<1>3. Full(r.target, r.quad) \in LockFile /\ Torn \in LockFile BY LockFileTypes DEF Local
<1>4. UNCHANGED runtime /\ SharedOK'
  BY <1>1, <1>3, FaultsType DEF WriteSibling, IInv, TypeOK, SharedOK
<1>5. Become(p, [r EXCEPT !.pc = "replace"]) \/ Become(p, WriteFailed(r))
  BY <1>1 DEF WriteSibling
<1>6. CASE Become(p, WriteFailed(r))
  <2>1. WriteFailed(r) \in Local BY WriteFailedType
  <2>2. ProcInv(WriteFailed(r))' BY <1>2, WriteFailedInv DEF ProcInv
  <2> QED BY <1>4, <1>6, <2>1, <2>2, Moved
<1>7. CASE Become(p, [r EXCEPT !.pc = "replace"])
  <2> DEFINE s == [r EXCEPT !.pc = "replace"]
  <2>1. Become(p, s) BY <1>7
  <2>2. s \in Local BY DEF Local, PCs
  <2>3. /\ s.pc = "replace" /\ s.mode = r.mode /\ s.target = r.target /\ s.before = r.before
        /\ s.todo = r.todo /\ s.journal = r.journal /\ s.foreign = r.foreign
    BY DEF Local
  <2> HIDE DEF s
  <2>4. PlanInv(s)' /\ FingerInv(s)'
    BY <1>2, <2>3 DEF ProcInv, PlanInv, FingerInv, Early, Applying, Closing, Undo
  <2>5. DoneInv(s)'
    BY <1>2, <1>4, <2>3 DEF ProcInv, DoneInv, Early, Applying, Closing
  <2> QED BY <1>4, <2>1, <2>2, <2>4, <2>5, Moved DEF ProcInv
<1> QED BY <1>5, <1>6, <1>7

LEMMA ReplaceInv ==
  ASSUME IInv, NEW p \in Procs, Replace(p) PROVE IInv'
<1>1. PICK r \in Local : r = proc[p] BY DEF IInv, TypeOK
<1>2. r.pc = "replace" /\ ProcInv(r) BY <1>1 DEF Replace, At, IInv
<1>3. UNCHANGED runtime /\ SharedOK'
  BY FaultsType, LockFileTypes DEF Replace, IInv, TypeOK, SharedOK
<1>4. Become(p, Finished(r, "ok")) \/ Become(p, WriteFailed(r))
  BY <1>1 DEF Replace
<1>5. CASE Become(p, Finished(r, "ok"))
  <2>1. Finished(r, "ok") \in Local BY FinishedType DEF Results
  <2>2. ProcInv(Finished(r, "ok"))' BY FinishedInv
  <2> QED BY <1>3, <1>5, <2>1, <2>2, Moved
<1>6. CASE Become(p, WriteFailed(r))
  <2>1. WriteFailed(r) \in Local BY WriteFailedType
  <2>2. ProcInv(WriteFailed(r))' BY <1>2, WriteFailedInv DEF ProcInv
  <2> QED BY <1>3, <1>6, <2>1, <2>2, Moved
<1> QED BY <1>4, <1>5, <1>6

LEMMA UndoInstallInv ==
  ASSUME IInv, NEW p \in Procs, UndoInstall(p) PROVE IInv'
<1>1. SharedOK' BY FaultsType DEF UndoInstall, IInv, TypeOK, SharedOK
<1>2. PICK r \in Local : r = proc[p] BY DEF IInv, TypeOK
<1>3. r.pc = "undo" /\ ProcInv(r) BY <1>2 DEF UndoInstall, At, IInv
<1>4. \A c \in r.undo : r.before[c].owned BY <1>3 DEF ProcInv, PlanInv, Undo
<1>5. PICK c \in r.undo :
          \/ /\ runtime' = [runtime EXCEPT ![c] = Managed(r.before[c].ver)]
             /\ BecomeTouching(p, [r EXCEPT !.pc = "undoVerify"], c)
          \/ Become(p, Dropped(r, c, TRUE)) /\ UNCHANGED runtime
          \/ /\ \E e \in Effects : runtime' = [runtime EXCEPT ![c] = LeftBy(e, @, r.before[c].ver)]
             /\ BecomeTouching(p, Dropped(r, c, TRUE), c)
  BY <1>2 DEF UndoInstall
<1>6. c \in Components /\ runtime[c] \in Artifact /\ r.before[c].ver \in Versions
  BY <1>4, <1>5, SizeAssumption
  DEF Local, IInv, TypeOK, Artifact, Pins, Versions, Absent
<1>7. Dropped(r, c, TRUE) \in Local BY DroppedType
<1>8. ProcInv(Dropped(r, c, TRUE))' BY <1>4, DroppedInv
<1>9. CASE Become(p, Dropped(r, c, TRUE)) /\ UNCHANGED runtime
  BY <1>1, <1>7, <1>8, <1>9, Moved
<1>10. CASE /\ runtime' = [runtime EXCEPT ![c] = Managed(r.before[c].ver)]
            /\ BecomeTouching(p, [r EXCEPT !.pc = "undoVerify"], c)
  <2>1. Managed(r.before[c].ver) \in Artifact BY <1>6, LeftByType
  <2>2. /\ runtime' \in [Components -> Artifact]
        /\ \A d \in Components : d # c => runtime'[d] = runtime[d]
    BY <1>6, <1>10, <2>1 DEF IInv, TypeOK
  <2> DEFINE s == [r EXCEPT !.pc = "undoVerify"]
  <2>3. s \in Local BY DEF Local, PCs
  <2>4. s.pc = "undoVerify" /\ s.undo = r.undo /\ s.before = r.before BY DEF Local
  <2>5. BecomeTouching(p, s, c) BY <1>10
  <2> HIDE DEF s
  <2>6. ProcInv(s)'
    BY <1>4, <2>4 DEF ProcInv, PlanInv, FingerInv, DoneInv, Early, Applying, Closing, Undo
  <2> QED BY <1>1, <1>6, <2>2, <2>3, <2>5, <2>6, Touched
<1>11. CASE /\ \E e \in Effects :
                 runtime' = [runtime EXCEPT ![c] = LeftBy(e, @, r.before[c].ver)]
            /\ BecomeTouching(p, Dropped(r, c, TRUE), c)
  <2>1. PICK e \in Effects : runtime' = [runtime EXCEPT ![c] = LeftBy(e, @, r.before[c].ver)]
    BY <1>11
  <2>2. LeftBy(e, runtime[c], r.before[c].ver) \in Artifact BY <1>6, LeftByType
  <2>3. /\ runtime' \in [Components -> Artifact]
        /\ \A d \in Components : d # c => runtime'[d] = runtime[d]
    BY <1>6, <2>1, <2>2 DEF IInv, TypeOK
  <2> QED BY <1>1, <1>6, <1>7, <1>8, <1>11, <2>3, Touched
<1> QED BY <1>5, <1>9, <1>10, <1>11

LEMMA UndoVerifyInv ==
  ASSUME IInv, NEW p \in Procs, UndoVerify(p) PROVE IInv'
<1>1. UNCHANGED runtime /\ SharedOK'
  BY FaultsType DEF UndoVerify, IInv, TypeOK, SharedOK
<1>2. PICK r \in Local : r = proc[p] BY DEF IInv, TypeOK
<1>3. r.pc = "undoVerify" /\ ProcInv(r) BY <1>2 DEF UndoVerify, At, IInv
<1>4. \A c \in r.undo : r.before[c].owned BY <1>3 DEF ProcInv, PlanInv, Undo
<1>5. \/ Become(p, [r EXCEPT !.pc = "undoRestart"])
      \/ \E c \in r.undo, f \in BOOLEAN : Become(p, Dropped(r, c, f))
  BY <1>2 DEF UndoVerify
<1>6. CASE \E c \in r.undo, f \in BOOLEAN : Become(p, Dropped(r, c, f))
  <2>1. PICK c \in r.undo, f \in BOOLEAN : Become(p, Dropped(r, c, f)) BY <1>6
  <2>2. Dropped(r, c, f) \in Local BY DroppedType
  <2>3. ProcInv(Dropped(r, c, f))' BY <1>4, DroppedInv
  <2> QED BY <1>1, <2>1, <2>2, <2>3, Moved
<1>7. CASE Become(p, [r EXCEPT !.pc = "undoRestart"])
  <2> DEFINE s == [r EXCEPT !.pc = "undoRestart"]
  <2>1. s \in Local BY DEF Local, PCs
  <2>2. s.pc = "undoRestart" /\ s.undo = r.undo /\ s.before = r.before BY DEF Local
  <2>3. Become(p, s) BY <1>7
  <2> HIDE DEF s
  <2>4. ProcInv(s)'
    BY <1>4, <2>2 DEF ProcInv, PlanInv, FingerInv, DoneInv, Early, Applying, Closing, Undo
  <2> QED BY <1>1, <2>1, <2>3, <2>4, Moved
<1> QED BY <1>5, <1>6, <1>7

LEMMA UndoRestartInv ==
  ASSUME IInv, NEW p \in Procs, UndoRestart(p) PROVE IInv'
<1>1. PICK r \in Local : r = proc[p] BY DEF IInv, TypeOK
<1>2. r.pc = "undoRestart" /\ ProcInv(r) BY <1>1 DEF UndoRestart, At, IInv
<1>3. PICK c \in r.undo \cap Services, f \in BOOLEAN :
          /\ \E v \in {running[c], Absent, runtime[c].ver} : running' = [running EXCEPT ![c] = v]
          /\ BecomeTouching(p, Dropped(r, c, f), c)
  BY <1>1 DEF UndoRestart
<1>4. c \in Components BY ShapeAssumption
<1>5. UNCHANGED <<runtime, lock, tmp>> BY DEF UndoRestart
<1>6. running' \in [Services -> Pins]
  BY <1>3, <1>4 DEF IInv, TypeOK, Artifact, Pins
<1>7. SharedOK' BY <1>5, <1>6, FaultsType DEF UndoRestart, IInv, TypeOK, SharedOK
<1>8. runtime' \in [Components -> Artifact] BY <1>5 DEF IInv, TypeOK
<1>9. \A d \in r.undo : r.before[d].owned BY <1>2 DEF ProcInv, PlanInv, Undo
<1>10. Dropped(r, c, f) \in Local BY DroppedType
<1>11. ProcInv(Dropped(r, c, f))' BY <1>9, DroppedInv
<1> QED BY <1>3, <1>4, <1>5, <1>7, <1>8, <1>10, <1>11, Touched

\* The command ends, returns or dies.
LEMMA EndInv ==
  ASSUME IInv, NEW p \in Procs, UndoDone(p) \/ Return(p) \/ Crash(p) PROVE IInv'
<1>1. UNCHANGED runtime /\ SharedOK'
  BY FaultsType DEF UndoDone, Return, Crash, IInv, TypeOK, SharedOK
<1>2. PICK r \in Local : r = proc[p] BY DEF IInv, TypeOK
<1>3. \/ Become(p, Fresh)
      \/ \E res \in Results : Become(p, Finished(r, res))
  BY <1>2 DEF UndoDone, Return, Crash, UndoReport, Results
<1>4. CASE Become(p, Fresh)
  <2>1. Fresh.pc = "idle" BY DEF Fresh
  <2>2. ProcInv(Fresh)' BY <2>1, PlanlessInv
  <2> QED BY <1>1, <1>4, <2>2, FreshType, Moved
<1>5. CASE \E res \in Results : Become(p, Finished(r, res))
  <2>1. PICK res \in Results : Become(p, Finished(r, res)) BY <1>5
  <2>2. Finished(r, res) \in Local BY FinishedType
  <2>3. ProcInv(Finished(r, res))' BY FinishedInv
  <2> QED BY <1>1, <2>1, <2>2, <2>3, Moved
<1> QED BY <1>3, <1>4, <1>5

LEMMA ForeignInstallInv == ASSUME IInv, ForeignInstall PROVE IInv'
<1>1. PICK c \in Components, a \in DriftTo :
          /\ runtime' = [runtime EXCEPT ![c] = a]
          /\ proc' = [q \in Procs |-> Saw(proc[q], c)]
  BY DEF ForeignInstall
<1>2. a \in Artifact BY ShapeAssumption
<1>3. /\ runtime' \in [Components -> Artifact]
      /\ \A d \in Components : d # c => runtime'[d] = runtime[d]
  BY <1>1, <1>2 DEF IInv, TypeOK
<1>4. SharedOK' BY FaultsType DEF ForeignInstall, IInv, TypeOK, SharedOK
<1>5. proc' \in [Procs -> Local] BY <1>1, SawType DEF IInv, TypeOK
<1>6. ASSUME NEW q \in Procs PROVE ProcInv(proc[q])'
  <2>1. PICK s \in Local : s = proc[q] BY DEF IInv, TypeOK
  <2>2. proc'[q] = Saw(s, c) BY <1>1, <2>1
  <2>3. ProcInv(s) BY <2>1 DEF IInv
  <2>4. ProcInv(Saw(s, c))' BY <1>3, <2>3, OthersKeep DEF IInv
  <2> QED BY <2>2, <2>4
<1> QED BY <1>3, <1>4, <1>5, <1>6 DEF IInv, TypeOK, SharedOK

LEMMA InvNext == IInv /\ [Next]_vars => IInv'
<1> SUFFICES ASSUME IInv, [Next]_vars PROVE IInv' OBVIOUS
<1>1. ASSUME NEW p \in Procs, Begin(p) PROVE IInv'
  BY <1>1, BeginUpgradeInv, BeginRollbackInv DEF Begin
<1>2. ASSUME NEW p \in Procs, Work(p) PROVE IInv'
  BY <1>2, PlanRefusedInv, PlanRepairInv, PlanAdvanceInv, CapturePrestateInv, PreflightInv,
     CheckFingerprintInv, InstallInv, InstallFailsInv, RestartInv, RestartFailsInv, VerifyInv,
     GateInv, WriteSiblingInv, ReplaceInv, UndoInstallInv, UndoVerifyInv, UndoRestartInv,
     EndInv DEF Work
<1>3. ASSUME NEW p \in Procs, Crash(p) PROVE IInv' BY <1>3, EndInv
<1>4. CASE ForeignInstall BY <1>4, ForeignInstallInv
<1>5. CASE UNCHANGED vars
  <2>1. UNCHANGED runtime /\ UNCHANGED proc BY <1>5 DEF vars
  <2>2. ASSUME NEW q \in Procs PROVE ProcInv(proc[q])'
    <3>1. PICK s : s = proc[q] OBVIOUS
    <3>2. proc'[q] = s BY <2>1, <3>1
    <3>3. ProcInv(s)' BY <2>1, <3>1, StayKeeps DEF IInv
    <3> QED BY <3>2, <3>3
  <2>3. TypeOK' BY <1>5 DEF vars, IInv, TypeOK
  <2> QED BY <2>2, <2>3 DEF IInv
<1> QED BY <1>1, <1>2, <1>3, <1>4, <1>5 DEF Next

-----------------------------------------------------------------------------
(* What follows for every behaviour.                                        *)

\* The inductive invariant holds in every reachable state.
THEOREM Inductive == Spec => []IInv
  BY InvInit, InvNext, PTL DEF Spec

\* The type invariant: an installed artifact is always one a manager can name, so
\* nothing is installed without a pin or put back without a captured version.
THEOREM TypeCorrect == Spec => []TypeOK
<1>1. IInv => TypeOK BY DEF IInv
<1> QED BY <1>1, Inductive, PTL

\* However many invocations, faults and foreign changes there are, a lock about to
\* be written pins what is installed, foreign changes excepted.
THEOREM CandidateIsLiveHolds == Spec => []CandidateIsLive
<1>1. IInv => CandidateIsLive
  BY DEF IInv, ProcInv, PlanInv, DoneInv, Early, Applying, Closing, CandidateIsLive
<1> QED BY <1>1, Inductive, PTL

\* Learning of somebody else's step is not a step.
LEMMA GhostsOnly ==
  ASSUME NEW r \in Local, NEW d
  PROVE [Saw(r, d) EXCEPT !.foreign = {}, !.unseen = {}]
        = [r EXCEPT !.foreign = {}, !.unseen = {}]
  BY DEF Saw, Local

LEMMA BystanderStays ==
  ASSUME TypeOK, NEW p \in Procs, NEW d,
         proc'[p] = proc[p] \/ proc'[p] = Saw(proc[p], d)
  PROVE ~Moves(p)
<1>1. PICK r \in Local : r = proc[p] BY DEF TypeOK
<1>2. PICK s : s = proc'[p] OBVIOUS
<1>3. s = r \/ s = Saw(r, d) BY <1>1, <1>2
<1>4. [s EXCEPT !.foreign = {}, !.unseen = {}] = [r EXCEPT !.foreign = {}, !.unseen = {}]
  <2>1. CASE s = r BY <2>1
  <2>2. CASE s = Saw(r, d) BY <2>2, GhostsOnly, Zenon
  <2> QED BY <1>3, <2>1, <2>2
<1> QED BY <1>1, <1>2, <1>4, Zenon DEF Moves

LEMMA OverwriteStep ==
  ASSUME IInv, [Next]_vars, NEW p \in Procs, NEW c \in Components,
         Moves(p), runtime'[c] # runtime[c], c \notin proc[p].unseen
  PROVE runtime[c].owned /\ (At(p, "install") => runtime[c] = proc[p].before[c])
<1>1. runtime' # runtime OBVIOUS
<1>2. \/ \E q \in Procs : Install(q) \/ InstallFails(q) \/ UndoInstall(q)
      \/ ForeignInstall
  BY <1>1 DEF Next, Begin, Work, vars, BeginUpgrade, BeginRollback, PlanRefused, Refuse,
     PlanRepair, PlanAdvance, CapturePrestate, Preflight, CheckFingerprint, Restart,
     RestartFails, Verify, Gate, WriteSibling, Replace, UndoVerify, UndoRestart, UndoDone,
     Return, Crash
<1>3. ~ForeignInstall
  <2> SUFFICES ASSUME ForeignInstall PROVE FALSE OBVIOUS
  <2>1. PICK d \in Components : proc' = [q \in Procs |-> Saw(proc[q], d)]
    BY DEF ForeignInstall
  <2>2. proc'[p] = Saw(proc[p], d) BY <2>1
  <2> QED BY <2>2, BystanderStays DEF IInv
<1>4. PICK q \in Procs : Install(q) \/ InstallFails(q) \/ UndoInstall(q) BY <1>2, <1>3
<1>5. q = p
  <2> SUFFICES ASSUME q # p PROVE FALSE OBVIOUS
  <2>1. \E s, d : Become(q, s) \/ BecomeTouching(q, s, d)
    BY <1>4 DEF Install, InstallFails, UndoInstall
  <2>2. PICK s, d : Become(q, s) \/ BecomeTouching(q, s, d) BY <2>1
  <2>3. proc'[p] = proc[p] \/ proc'[p] = Saw(proc[p], d)
    BY <2>2 DEF Become, BecomeTouching, IInv, TypeOK
  <2> QED BY <2>3, BystanderStays DEF IInv
<1>6. PICK r \in Local : r = proc[p] BY DEF IInv, TypeOK
<1>7. ProcInv(r) BY <1>6 DEF IInv
<1>8. CASE Install(p) \/ InstallFails(p)
  <2>1. PICK d \in r.todo :
            First(d, r.todo) /\ \E v : runtime' = [runtime EXCEPT ![d] = v]
    BY <1>6, <1>8 DEF Install, InstallFails
  <2>2. d = c BY <2>1 DEF IInv, TypeOK
  <2>3. r.pc = "install" BY <1>6, <1>8 DEF Install, InstallFails, At
  <2>4. runtime[c] = r.before[c] BY <1>6, <1>7, <2>1, <2>2, <2>3 DEF ProcInv, FingerInv
  <2>5. r.before[c].owned BY <1>7, <2>1, <2>2, <2>3 DEF ProcInv, PlanInv, Applying
  <2> QED BY <1>6, <2>4, <2>5
<1>9. CASE UndoInstall(p)
  <2>1. PICK d \in r.undo :
            \/ runtime[d].owned /\ \E v : runtime' = [runtime EXCEPT ![d] = v]
            \/ UNCHANGED runtime
            \/ \E e \in Effects :
                  /\ e # "none" => runtime[d].owned
                  /\ runtime' = [runtime EXCEPT ![d] = LeftBy(e, @, r.before[d].ver)]
    BY <1>6, <1>9 DEF UndoInstall
  <2>2. runtime[c].owned
    <3>1. CASE runtime[d].owned /\ \E v : runtime' = [runtime EXCEPT ![d] = v]
      BY <3>1 DEF IInv, TypeOK
    <3>2. CASE \E e \in Effects :
                  /\ e # "none" => runtime[d].owned
                  /\ runtime' = [runtime EXCEPT ![d] = LeftBy(e, @, r.before[d].ver)]
      BY <3>2 DEF IInv, TypeOK, LeftBy
    <3> QED BY <1>1, <2>1, <3>1, <3>2
  <2>3. ~At(p, "install") BY <1>9 DEF UndoInstall, At
  <2> QED BY <2>2, <2>3
<1> QED BY <1>4, <1>5, <1>8, <1>9

\* An invocation overwrites only managed artifacts, and applies its plan only to an
\* artifact it captured and has just compared.
THEOREM OverwritesOnlyCapturedHolds == Spec => OverwritesOnlyCaptured
<1>1. IInv /\ [Next]_vars =>
         \A p \in Procs, c \in Components :
            Moves(p) /\ runtime'[c] # runtime[c] /\ c \notin proc[p].unseen
            => /\ runtime[c].owned
               /\ At(p, "install") => runtime[c] = proc[p].before[c]
  BY OverwriteStep
<1> QED BY <1>1, Inductive, PTL DEF Spec, OverwritesOnlyCaptured

-----------------------------------------------------------------------------
(* What a command reports is true.  The invariant so far says little of the   *)
(* units and nothing of an undoing; this one follows every component through  *)
(* its part of the command.                                                   *)

\* Where a command has brought the components: whatever is not left to do is at its
\* target, and a unit whose package was installed, or that is recovered, executes it; and
\* what is not in the journal of an upgrade is as it was captured.
Carried(r) ==
  /\ \A c \in Components \ (r.todo \cup r.foreign) :
        r.target[c] # Absent => runtime[c].ver = r.target[c]
  /\ \A c \in (r.journal \cap Services) \ (r.todo \cup r.foreign) : running[c] = r.target[c]
  /\ r.mode = "recover" =>
        /\ r.target = r.prestate
        /\ \A c \in Services \ (r.todo \cup r.foreign) :
              r.target[c] # Absent => running[c] = r.target[c]
  /\ r.mode \in {"repair", "advance"} =>
        \A c \in Components \ (r.journal \cup r.foreign) : runtime[c].ver = r.before[c].ver

\* In the middle of the first component left: a --to restarts what it has verified, an
\* upgrade verifies what it has restarted.
Between(r) ==
  /\ r.pc = "restart" /\ r.mode \in {"rollback", "recover"} =>
        \A c \in r.todo \ r.foreign : First(c, r.todo) => runtime[c].ver = r.target[c]
  /\ r.pc = "verify" /\ r.mode \in {"repair", "advance"} =>
        \A c \in (r.todo \cap Services) \ r.foreign :
           First(c, r.todo) => running[c] = runtime[c].ver

\* Of an undoing in which nothing failed so far: all but the component whose installer
\* failed is as it was captured or left to undo.
Unwound(r) ==
  /\ \A c \in Components \ (r.journal \cup r.foreign) :
        ~First(c, r.todo) => runtime[c].ver = r.before[c].ver
  /\ \A c \in r.journal \ (r.undo \cup r.foreign) :
        /\ runtime[c].ver = r.before[c].ver
        /\ c \in Services => running[c] = r.before[c].ver

TrackInv(r) ==
  /\ r.pc = "prestate" => r.mode = "rollback"
  /\ r.pc \in Early \cup Applying \cup Closing => Carried(r)
  /\ Between(r)
  /\ r.pc \in Undo => r.mode # "none" /\ r.undo \subseteq r.journal
  /\ r.pc \in Undo /\ r.mode \in {"repair", "advance"} /\ ~r.undoFailed => Unwound(r)
  /\ r.pc = "undoRestart" =>
        \A c \in r.undo \ r.foreign : Last(c, r.undo) => runtime[c].ver = r.before[c].ver
  /\ r.pc = "done" => OkIsTrue(r) /\ RolledBackIsTrue(r) /\ RestoredIsTrue(r)

Tracked == \A p \in Procs : TrackInv(proc[p])
RInv == IInv /\ Tracked

\* A step of another actor touches one component, and marks it.
LEMMA TrackOthers ==
  ASSUME NEW r \in Local, TrackInv(r), NEW c,
         \A d \in Components : d # c => runtime'[d] = runtime[d],
         \A d \in Services : d # c => running'[d] = running[d]
  PROVE TrackInv(Saw(r, c))'
<1> DEFINE s == Saw(r, c)
<1>1. CASE r.pc = "idle"
  <2>1. s = r BY <1>1 DEF Saw
  <2> HIDE DEF s
  <2>2. TrackInv(s)'
    BY <1>1, <2>1 DEF TrackInv, Between, Early, Applying, Closing, Undo
  <2> QED BY <2>2 DEF s
<1>2. CASE r.pc # "idle"
  <2>1. /\ s.pc = r.pc /\ s.mode = r.mode /\ s.result = r.result /\ s.target = r.target
        /\ s.before = r.before /\ s.prestate = r.prestate /\ s.todo = r.todo
        /\ s.journal = r.journal /\ s.undo = r.undo /\ s.undoFailed = r.undoFailed
        /\ s.foreign = r.foreign \cup {c}
        /\ s.todo \subseteq Components /\ s.journal \subseteq Components
        /\ s.undo \subseteq Components
    BY <1>2 DEF Saw, Local
  <2> HIDE DEF s
  <2>2. Services \subseteq Components BY ShapeAssumption
  <2>3. Carried(r) => Carried(s)' BY <2>1, <2>2 DEF Carried
  <2>4. Between(s)' BY <2>1, <2>2 DEF TrackInv, Between
  <2>5. Unwound(r) => Unwound(s)' BY <2>1, <2>2 DEF Unwound
  <2>6. r.pc = "done" => OkIsTrue(s)' /\ RolledBackIsTrue(s)' /\ RestoredIsTrue(s)'
    BY <2>1, <2>2 DEF TrackInv, OkIsTrue, RolledBackIsTrue, RestoredIsTrue
  <2>7. s.pc = "undoRestart" =>
          \A d \in s.undo \ s.foreign : Last(d, s.undo) => runtime'[d].ver = s.before[d].ver
    BY <2>1 DEF TrackInv
  <2>8. TrackInv(s)' BY <2>1, <2>3, <2>4, <2>5, <2>6, <2>7 DEF TrackInv
  <2> QED BY <2>8 DEF s
<1> QED BY <1>1, <1>2

LEMMA TrackStays ==
  ASSUME NEW r, TrackInv(r), UNCHANGED <<runtime, running>> PROVE TrackInv(r)'
<1>1. Carried(r) => Carried(r)' BY DEF Carried
<1>2. Unwound(r) => Unwound(r)' BY DEF Unwound
<1>3. Between(r)' BY DEF TrackInv, Between
<1>4. r.pc = "done" => OkIsTrue(r)' /\ RolledBackIsTrue(r)' /\ RestoredIsTrue(r)'
  BY DEF TrackInv, OkIsTrue, RolledBackIsTrue, RestoredIsTrue
<1> QED BY <1>1, <1>2, <1>3, <1>4 DEF TrackInv

\* A step of p that leaves artifacts and units alone, and one that others learn of.
LEMMA TrackMoved ==
  ASSUME RInv, NEW p \in Procs, NEW r \in Local, Become(p, r),
         UNCHANGED <<runtime, running>>, TrackInv(r)'
  PROVE Tracked'
<1> SUFFICES ASSUME NEW q \in Procs PROVE TrackInv(proc[q])' BY DEF Tracked
<1>1. CASE q = p
  <2>1. proc'[q] = r BY <1>1 DEF Become, RInv, IInv, TypeOK
  <2> QED BY <2>1
<1>2. CASE q # p
  <2>1. PICK s : s = proc[q] OBVIOUS
  <2>2. proc'[q] = s BY <1>2, <2>1 DEF Become, RInv, IInv, TypeOK
  <2>3. TrackInv(s)' BY <2>1, TrackStays DEF RInv, Tracked
  <2> QED BY <2>2, <2>3
<1> QED BY <1>1, <1>2

LEMMA TrackTouched ==
  ASSUME RInv, NEW p \in Procs, NEW r \in Local, NEW c, BecomeTouching(p, r, c),
         \A d \in Components : d # c => runtime'[d] = runtime[d],
         \A d \in Services : d # c => running'[d] = running[d],
         TrackInv(r)'
  PROVE Tracked'
<1> SUFFICES ASSUME NEW q \in Procs PROVE TrackInv(proc[q])' BY DEF Tracked
<1>1. CASE q = p
  <2>1. proc'[q] = r BY <1>1 DEF BecomeTouching
  <2> QED BY <2>1
<1>2. CASE q # p
  <2>1. PICK s \in Local : s = proc[q] BY DEF RInv, IInv, TypeOK
  <2>2. proc'[q] = Saw(s, c) BY <1>2, <2>1 DEF BecomeTouching
  <2>3. TrackInv(s) BY <2>1 DEF RInv, Tracked
  <2>4. TrackInv(Saw(s, c))' BY <2>3, TrackOthers
  <2> QED BY <2>2, <2>4
<1> QED BY <1>1, <1>2

\* What an invocation may become next.
LEMMA TrackFinished ==
  ASSUME NEW r \in Local, NEW res,
         OkIsTrue(Finished(r, res))', RolledBackIsTrue(Finished(r, res))',
         RestoredIsTrue(Finished(r, res))'
  PROVE TrackInv(Finished(r, res))'
<1> DEFINE s == Finished(r, res)
<1>1. s.pc = "done" BY DEF Finished, Local
<1>2. OkIsTrue(s)' /\ RolledBackIsTrue(s)' /\ RestoredIsTrue(s)' OBVIOUS
<1> HIDE DEF s
<1>3. TrackInv(s)'
  BY <1>1, <1>2 DEF TrackInv, Between, Early, Applying, Closing, Undo
<1> QED BY <1>3 DEF s

LEMMA TrackQuiet ==
  ASSUME NEW r \in Local, NEW res, res \notin {"ok", "rolled_back", "restored"}
  PROVE TrackInv(Finished(r, res))'
<1>1. Finished(r, res).result = res BY DEF Finished, Local
<1>2. /\ OkIsTrue(Finished(r, res))' /\ RolledBackIsTrue(Finished(r, res))'
      /\ RestoredIsTrue(Finished(r, res))'
  BY <1>1 DEF OkIsTrue, RolledBackIsTrue, RestoredIsTrue
<1> QED BY <1>2, TrackFinished

\* A success is reported when nothing is left to do.
LEMMA TrackOk ==
  ASSUME NEW r \in Local, r.todo = {}, Carried(r)'
  PROVE TrackInv(Finished(r, "ok"))'
<1> DEFINE s == Finished(r, "ok")
<1>1. /\ s.result = "ok" /\ s.target = r.target /\ s.journal = r.journal
      /\ s.foreign = r.foreign
  BY DEF Finished, Local
<1> HIDE DEF s
<1>2. OkIsTrue(s)' /\ RolledBackIsTrue(s)' /\ RestoredIsTrue(s)'
  BY <1>1 DEF Carried, OkIsTrue, RolledBackIsTrue, RestoredIsTrue
<1> QED BY <1>2, TrackFinished DEF s

LEMMA TrackContinue ==
  ASSUME NEW r \in Local, Carried(r)', r.mode \in {"repair", "advance", "rollback", "recover"}
  PROVE TrackInv(Continue(r))'
<1>1. CASE r.todo = {} /\ r.mode = "recover"
  <2> DEFINE s == Finished(r, "restored")
  <2>1. /\ s.result = "restored" /\ s.target = r.target /\ s.prestate = r.prestate
        /\ s.foreign = r.foreign
    BY DEF Finished, Local
  <2> HIDE DEF s
  <2>2. OkIsTrue(s)' /\ RolledBackIsTrue(s)' /\ RestoredIsTrue(s)'
    BY <1>1, <2>1, ShapeAssumption
    DEF Carried, OkIsTrue, RolledBackIsTrue, RestoredIsTrue
  <2>3. Continue(r) = s BY <1>1 DEF Continue, s
  <2> QED BY <2>2, <2>3, TrackFinished DEF s
<1>2. CASE ~(r.todo = {} /\ r.mode = "recover")
  <2> DEFINE s == Continue(r)
  <2>1. /\ s.pc \in {"check", "gate", "write"} /\ s.mode = r.mode /\ s.target = r.target
        /\ s.before = r.before /\ s.prestate = r.prestate /\ s.todo = r.todo
        /\ s.journal = r.journal /\ s.foreign = r.foreign
    BY <1>2 DEF Continue, Local
  <2> HIDE DEF s
  <2>2. Carried(s)' BY <2>1 DEF Carried
  <2>3. TrackInv(s)' BY <2>1, <2>2 DEF TrackInv, Between, Undo
  <2> QED BY <2>3 DEF s
<1> QED BY <1>1, <1>2

\* One component done with: it has arrived.
LEMMA TrackSettled ==
  ASSUME NEW r \in Local, NEW c \in r.todo, PlanInv(r), r.pc \in Applying,
         UNCHANGED runtime, \A d \in Services : d # c => running'[d] = running[d],
         Carried(r),
         c \notin r.foreign =>
            /\ runtime[c].ver = r.target[c]
            /\ c \in Services => running'[c] = r.target[c]
  PROVE TrackInv(Settled(r, c))'
<1> DEFINE s == [r EXCEPT !.todo = @ \ {c}]
<1>1. /\ s \in Local /\ s.mode = r.mode /\ s.target = r.target /\ s.before = r.before
      /\ s.prestate = r.prestate /\ s.todo = r.todo \ {c} /\ s.journal = r.journal
      /\ s.foreign = r.foreign
  BY DEF Local
<1>2. s.mode \in {"repair", "advance", "rollback", "recover"} BY <1>1 DEF PlanInv
<1> HIDE DEF s
<1>3. Carried(s)' BY <1>1 DEF Carried
<1> QED BY <1>1, <1>2, <1>3, TrackContinue DEF Settled, s

\* The command gives up: of what it has not journalled it has touched one component.
LEMMA TrackUndoing ==
  ASSUME NEW r \in Local, r.mode # "none",
         r.mode \in {"repair", "advance"} =>
            \A c \in Components \ (r.journal \cup r.foreign) :
               ~First(c, r.todo) => runtime'[c].ver = r.before[c].ver
  PROVE TrackInv(Undoing(r, FALSE))'
<1> DEFINE s == Undoing(r, FALSE)
<1>1. /\ s.pc = "undo" /\ s.mode = r.mode /\ s.before = r.before /\ s.todo = r.todo
      /\ s.journal = r.journal /\ s.undo = r.journal /\ s.foreign = r.foreign
  BY DEF Undoing, Local
<1> HIDE DEF s
<1>2. s.mode \in {"repair", "advance"} => Unwound(s)' BY <1>1 DEF Unwound
<1>3. TrackInv(s)' BY <1>1, <1>2 DEF TrackInv, Between, Early, Applying, Closing, Undo
<1> QED BY <1>3 DEF s

LEMMA TrackDropped ==
  ASSUME NEW r \in Local, TrackInv(r), r.pc \in Undo, NEW c \in r.undo, NEW f \in BOOLEAN,
         \A d \in Components : d # c => runtime'[d] = runtime[d],
         \A d \in Services : d # c => running'[d] = running[d],
         ~f /\ c \notin r.foreign =>
            /\ runtime'[c].ver = r.before[c].ver
            /\ c \in Services => running'[c] = r.before[c].ver
  PROVE TrackInv(Dropped(r, c, f))'
<1> DEFINE s == Dropped(r, c, f)
<1>1. /\ s.pc = "undo" /\ s.mode = r.mode /\ s.before = r.before /\ s.todo = r.todo
      /\ s.journal = r.journal /\ s.undo = r.undo \ {c} /\ s.foreign = r.foreign
      /\ s.undoFailed <=> r.undoFailed \/ f
      /\ r.journal \subseteq Components
  BY DEF Dropped, Local
<1> HIDE DEF s
<1>2. r.undo \subseteq r.journal BY DEF TrackInv
<1>3. ASSUME Unwound(r), ~f PROVE Unwound(s)'
  BY <1>1, <1>2, <1>3 DEF Unwound
<1>4. TrackInv(s)'
  BY <1>1, <1>2, <1>3 DEF TrackInv, Between, Early, Applying, Closing, Undo
<1> QED BY <1>4 DEF s

-----------------------------------------------------------------------------
(* Each step preserves it.                                                  *)

LEMMA TrackInit == Init => Tracked
<1> SUFFICES ASSUME Init, NEW p \in Procs PROVE TrackInv(proc[p]) BY DEF Tracked
<1>1. proc[p].pc = "idle" BY DEF Init, Fresh
<1> QED BY <1>1 DEF TrackInv, Between, Early, Applying, Closing, Undo

LEMMA BeginUpgradeTracks ==
  ASSUME RInv, NEW p \in Procs, NEW sel \in Selections, BeginUpgrade(p, sel)
  PROVE Tracked'
<1>1. UNCHANGED <<runtime, running>> BY DEF BeginUpgrade
<1>2. CASE lock.state = "full"
  <2>1. PICK pins \in Locks, quad \in Pins : pins = lock.pins /\ quad = lock.quad
    BY <1>2, LockFileTypes DEF RInv, IInv, TypeOK
  <2> DEFINE s == [Fresh EXCEPT !.pc = "plan", !.target = pins, !.quad = quad, !.todo = sel]
  <2>2. Become(p, s) BY <1>2, <2>1 DEF BeginUpgrade
  <2>3. sel \in SUBSET Components BY DEF Selections
  <2>4. s \in Local BY <2>3, FreshType DEF Local, PCs
  <2>5. s.pc = "plan" BY DEF Fresh
  <2> HIDE DEF s
  <2>6. TrackInv(s)' BY <2>5 DEF TrackInv, Between, Early, Applying, Closing, Undo
  <2> QED BY <1>1, <2>2, <2>4, <2>6, TrackMoved
<1>3. CASE lock.state # "full"
  <2>1. Become(p, Finished(Fresh, "refused")) BY <1>3 DEF BeginUpgrade
  <2>2. Finished(Fresh, "refused") \in Local BY FreshType, FinishedType DEF Results
  <2>3. TrackInv(Finished(Fresh, "refused"))' BY FreshType, TrackQuiet
  <2> QED BY <1>1, <2>1, <2>2, <2>3, TrackMoved
<1> QED BY <1>2, <1>3

LEMMA PlanRefusedTracks ==
  ASSUME RInv, NEW p \in Procs, PlanRefused(p) PROVE Tracked'
<1>1. UNCHANGED <<runtime, running>> BY DEF PlanRefused, Refuse
<1>2. PICK r \in Local : r = proc[p] BY DEF RInv, IInv, TypeOK
<1>3. Become(p, Finished(r, "refused")) BY <1>2 DEF PlanRefused, Refuse
<1>4. Finished(r, "refused") \in Local BY FinishedType DEF Results
<1>5. TrackInv(Finished(r, "refused"))' BY TrackQuiet
<1> QED BY <1>1, <1>3, <1>4, <1>5, TrackMoved

\* A plan, of a repair or an advancement: all that is not in it is at its target.
LEMMA Planned ==
  ASSUME NEW r \in Local, NEW mode \in {"repair", "advance"}, NEW left \in SUBSET Components,
         NEW est \in [Components -> Artifact], NEW v \in Locks, est = runtime,
         r.journal = {}, \A c \in Components \ left : est[c].ver = v[c],
         UNCHANGED <<runtime, running>>, NEW s \in Local,
         s.pc = "check", s.mode = mode, s.todo = left, s.before = est, s.target = v,
         s.journal = r.journal
  PROVE TrackInv(s)'
<1>1. Carried(s)' BY DEF Carried
<1> QED BY <1>1 DEF TrackInv, Between, Early, Applying, Closing, Undo

LEMMA PlanRepairTracks ==
  ASSUME RInv, NEW p \in Procs, PlanRepair(p) PROVE Tracked'
<1>1. UNCHANGED <<runtime, running>> BY DEF PlanRepair
<1>2. PICK r \in Local : r = proc[p] BY DEF RInv, IInv, TypeOK
<1>3. PICK drifted \in SUBSET Components, est \in [Components -> Artifact] :
          drifted = Drifted(r.target) /\ est = runtime
  BY DEF RInv, IInv, TypeOK, Drifted
<1>4. PICK v \in Locks : v = r.target BY DEF Local
<1> DEFINE s == [r EXCEPT !.pc = "check", !.mode = "repair", !.todo = drifted,
                          !.before = est, !.unseen = {}]
<1>5. Become(p, s) BY <1>2, <1>3 DEF PlanRepair
<1>6. s \in Local BY DEF Local, PCs, Modes
<1>7. /\ s.pc = "check" /\ s.mode = "repair" /\ s.todo = drifted /\ s.before = est
      /\ s.target = v /\ s.journal = r.journal
  BY <1>4 DEF Local
<1> HIDE DEF s
<1>8. r.journal = {} BY <1>2 DEF RInv, IInv, ProcInv, PlanInv, PlanRepair, At
<1>9. \A c \in Components \ drifted : est[c].ver = v[c] BY <1>3, <1>4 DEF Drifted
<1>10. TrackInv(s)' BY <1>1, <1>3, <1>6, <1>7, <1>8, <1>9, Planned
<1> QED BY <1>1, <1>5, <1>6, <1>10, TrackMoved

LEMMA PlanAdvanceTracks ==
  ASSUME RInv, NEW p \in Procs, PlanAdvance(p) PROVE Tracked'
<1>1. UNCHANGED <<runtime, running>> BY DEF PlanAdvance
<1>2. PICK r \in Local : r = proc[p] BY DEF RInv, IInv, TypeOK
<1>3. PICK v \in Locks, left \in SUBSET Components, est \in [Components -> Artifact] :
          /\ left = Drifted(v) /\ est = runtime
          /\ Become(p, IF left = {} THEN Finished(r, "current")
                       ELSE [r EXCEPT !.pc = "check", !.mode = "advance", !.todo = left,
                                      !.before = est, !.target = v, !.unseen = {}])
  BY <1>2 DEF PlanAdvance, Offers, Drifted, RInv, IInv, TypeOK
<1>4. CASE left = {}
  <2>1. Finished(r, "current") \in Local BY FinishedType DEF Results
  <2>2. TrackInv(Finished(r, "current"))' BY TrackQuiet
  <2> QED BY <1>1, <1>3, <1>4, <2>1, <2>2, TrackMoved
<1>5. CASE left # {}
  <2> DEFINE s == [r EXCEPT !.pc = "check", !.mode = "advance", !.todo = left,
                            !.before = est, !.target = v, !.unseen = {}]
  <2>1. Become(p, s) BY <1>3, <1>5
  <2>2. s \in Local BY DEF Local, PCs, Modes
  <2>3. /\ s.pc = "check" /\ s.mode = "advance" /\ s.todo = left /\ s.before = est
        /\ s.target = v /\ s.journal = r.journal
    BY DEF Local
  <2> HIDE DEF s
  <2>4. r.journal = {} BY <1>2 DEF RInv, IInv, ProcInv, PlanInv, PlanAdvance, At
  <2>5. \A c \in Components \ left : est[c].ver = v[c] BY <1>3 DEF Drifted
  <2>6. TrackInv(s)' BY <1>1, <1>3, <2>2, <2>3, <2>4, <2>5, Planned
  <2> QED BY <1>1, <2>1, <2>2, <2>6, TrackMoved
<1> QED BY <1>4, <1>5

LEMMA BeginRollbackTracks ==
  ASSUME RInv, NEW p \in Procs, NEW ref \in Refs, BeginRollback(p, ref) PROVE Tracked'
<1>1. UNCHANGED <<runtime, running>> BY DEF BeginRollback
<1>2. PICK s \in Local : s = Aims(ref) BY AimsType
<1>3. \/ Become(p, s) \/ \E res \in {"failed", "refused"} : Become(p, Finished(s, res))
  BY <1>2, RollbackBegins
<1>4. /\ s.pc = "prestate" /\ s.mode = "rollback" /\ s.journal = {} /\ s.target = ref.pins
      /\ s.todo = {c \in Components : ref.pins[c] # Absent}
  BY <1>2, AimsType
<1>5. Carried(s)' BY <1>4 DEF Carried
<1>6. TrackInv(s)' BY <1>4, <1>5 DEF TrackInv, Between, Applying, Closing, Undo
<1>7. CASE Become(p, s) BY <1>1, <1>6, <1>7, TrackMoved
<1>8. ASSUME NEW res \in {"failed", "refused"}, Become(p, Finished(s, res)) PROVE Tracked'
  <2>1. Finished(s, res) \in Local BY FinishedType DEF Results
  <2>2. TrackInv(Finished(s, res))' BY TrackQuiet
  <2> QED BY <1>1, <1>8, <2>1, <2>2, TrackMoved
<1> QED BY <1>3, <1>7, <1>8

LEMMA CapturePrestateTracks ==
  ASSUME RInv, NEW p \in Procs, CapturePrestate(p) PROVE Tracked'
<1>1. UNCHANGED <<runtime, running>> BY DEF CapturePrestate
<1>2. PICK r \in Local : r = proc[p] BY DEF RInv, IInv, TypeOK
<1>3. r.pc = "prestate" /\ TrackInv(r) BY <1>2 DEF CapturePrestate, At, RInv, Tracked
<1>4. PICK v \in Locks : v = [c \in Components |->
                                 IF c \in r.todo THEN runtime[c].ver ELSE Absent]
  BY DEF RInv, IInv, TypeOK, Artifact, Locks, Pins
<1> DEFINE s == [r EXCEPT !.pc = "preflight", !.prestate = v]
<1>5. Become(p, s) \/ Become(p, Finished(r, "failed"))
  BY <1>2, <1>4 DEF CapturePrestate
<1>6. CASE Become(p, Finished(r, "failed"))
  <2>1. Finished(r, "failed") \in Local BY FinishedType DEF Results
  <2>2. TrackInv(Finished(r, "failed"))' BY TrackQuiet
  <2> QED BY <1>1, <1>6, <2>1, <2>2, TrackMoved
<1>7. CASE Become(p, s)
  <2>1. s \in Local BY DEF Local, PCs
  <2>2. /\ s.pc = "preflight" /\ s.mode = r.mode /\ s.todo = r.todo /\ s.foreign = r.foreign
        /\ s.target = r.target /\ s.journal = r.journal /\ s.before = r.before
    BY DEF Local
  <2> HIDE DEF s
  <2>3. r.mode = "rollback" /\ Carried(r) BY <1>3 DEF TrackInv, Early
  <2>4. Carried(s)' BY <1>1, <2>2, <2>3 DEF Carried
  <2>5. TrackInv(s)' BY <2>2, <2>4 DEF TrackInv, Between, Undo
  <2> QED BY <1>1, <1>7, <2>1, <2>5, TrackMoved
<1> QED BY <1>5, <1>6, <1>7

LEMMA PreflightTracks ==
  ASSUME RInv, NEW p \in Procs, Preflight(p) PROVE Tracked'
<1>1. UNCHANGED <<runtime, running>> BY DEF Preflight
<1>2. PICK r \in Local : r = proc[p] BY DEF RInv, IInv, TypeOK
<1>3. r.pc = "preflight" /\ TrackInv(r) /\ PlanInv(r)
  BY <1>2 DEF Preflight, At, RInv, Tracked, IInv, ProcInv
<1>4. PICK est \in [Components -> Artifact] : est = runtime BY DEF RInv, IInv, TypeOK
<1> DEFINE s == [r EXCEPT !.before = est, !.unseen = {}]
<1>5. \/ Become(p, Continue(s))
      \/ \E res \in {"incomplete", "failed"} : Become(p, Finished(r, res))
  BY <1>2, <1>4 DEF Preflight, Mutable
<1>6. CASE \E res \in {"incomplete", "failed"} : Become(p, Finished(r, res))
  <2>1. PICK res \in {"incomplete", "failed"} : Become(p, Finished(r, res)) BY <1>6
  <2>2. Finished(r, res) \in Local BY FinishedType DEF Results
  <2>3. TrackInv(Finished(r, res))' BY TrackQuiet
  <2> QED BY <1>1, <2>1, <2>2, <2>3, TrackMoved
<1>7. CASE Become(p, Continue(s))
  <2>1. s \in Local BY DEF Local
  <2>2. /\ s.mode = r.mode /\ s.todo = r.todo /\ s.foreign = r.foreign
        /\ s.target = r.target /\ s.journal = r.journal /\ s.before = est
        /\ s.prestate = r.prestate
    BY DEF Local
  <2> HIDE DEF s
  <2>3. s.mode \in {"rollback", "recover"} /\ Carried(r)
    BY <1>3, <2>2 DEF TrackInv, PlanInv, Early
  <2>4. Carried(s)' BY <1>1, <2>2, <2>3 DEF Carried
  <2>5. TrackInv(Continue(s))' BY <2>1, <2>3, <2>4, TrackContinue
  <2>6. Continue(s) \in Local BY <2>1, ContinueType
  <2> QED BY <1>1, <1>7, <2>5, <2>6, TrackMoved
<1> QED BY <1>5, <1>6, <1>7

\* An invocation that gives up before it has touched anything more.
LEMMA GivesUp ==
  ASSUME RInv, NEW p \in Procs, NEW r \in Local, r = proc[p], r.pc \in Applying \cup Closing,
         Become(p, Undoing(r, FALSE)), UNCHANGED <<runtime, running>>
  PROVE Tracked'
<1>1. Carried(r) BY DEF RInv, Tracked, TrackInv
<1>2. r.mode # "none" BY DEF RInv, IInv, ProcInv, PlanInv
<1>3. TrackInv(Undoing(r, FALSE))' BY <1>1, <1>2, TrackUndoing DEF Carried
<1>4. Undoing(r, FALSE) \in Local BY UndoingType
<1> QED BY <1>3, <1>4, TrackMoved

LEMMA CheckFingerprintTracks ==
  ASSUME RInv, NEW p \in Procs, CheckFingerprint(p) PROVE Tracked'
<1>1. UNCHANGED <<runtime, running>> BY DEF CheckFingerprint
<1>2. PICK r \in Local : r = proc[p] BY DEF RInv, IInv, TypeOK
<1>3. r.pc = "check" /\ TrackInv(r) BY <1>2 DEF CheckFingerprint, At, RInv, Tracked
<1>4. PICK c \in r.todo :
          \/ Become(p, [r EXCEPT !.pc = "install", !.unseen = @ \ {c}])
          \/ Become(p, Undoing(r, FALSE))
  BY <1>2 DEF CheckFingerprint
<1>5. CASE Become(p, Undoing(r, FALSE))
  BY <1>1, <1>2, <1>3, <1>5, GivesUp DEF Applying
<1>6. CASE Become(p, [r EXCEPT !.pc = "install", !.unseen = @ \ {c}])
  <2> DEFINE s == [r EXCEPT !.pc = "install", !.unseen = @ \ {c}]
  <2>1. s \in Local BY DEF Local, PCs
  <2>2. /\ s.pc = "install" /\ s.mode = r.mode /\ s.target = r.target /\ s.before = r.before
        /\ s.todo = r.todo /\ s.journal = r.journal /\ s.foreign = r.foreign
        /\ s.prestate = r.prestate
    BY DEF Local
  <2>3. Become(p, s) BY <1>6
  <2> HIDE DEF s
  <2>4. Carried(s)' BY <1>1, <1>3, <2>2 DEF TrackInv, Carried, Applying
  <2>5. TrackInv(s)' BY <2>2, <2>4 DEF TrackInv, Between, Undo
  <2> QED BY <1>1, <2>1, <2>3, <2>5, TrackMoved
<1> QED BY <1>4, <1>5, <1>6

LEMMA InstallTracks ==
  ASSUME RInv, NEW p \in Procs, Install(p) PROVE Tracked'
<1>1. UNCHANGED running BY DEF Install
<1>2. PICK r \in Local : r = proc[p] BY DEF RInv, IInv, TypeOK
<1>3. r.pc = "install" /\ TrackInv(r) /\ PlanInv(r)
  BY <1>2 DEF Install, At, RInv, Tracked, IInv, ProcInv
<1> DEFINE at(c) == IF r.mode \in {"repair", "advance"} /\ c \in Services
                    THEN "restart" ELSE "verify"
<1>4. PICK c \in r.todo :
          /\ First(c, r.todo)
          /\ runtime' = [runtime EXCEPT ![c] = Managed(r.target[c])]
          /\ BecomeTouching(p, [r EXCEPT !.journal = @ \cup {c}, !.pc = at(c)], c)
  BY <1>2 DEF Install
<1>5. c \in Components /\ r.todo \in SUBSET Components
  BY <1>3, PlannedType DEF Applying, Local
<1>6. \A d \in Components : d # c => runtime'[d] = runtime[d]
  BY <1>4, <1>5 DEF RInv, IInv, TypeOK
<1> DEFINE s == [r EXCEPT !.journal = @ \cup {c}, !.pc = at(c)]
<1>7. s \in Local BY <1>5 DEF Local, PCs
<1>8. /\ s.pc \in {"restart", "verify"} /\ s.mode = r.mode /\ s.target = r.target
      /\ s.before = r.before /\ s.todo = r.todo /\ s.journal = r.journal \cup {c}
      /\ s.foreign = r.foreign /\ s.prestate = r.prestate
      /\ s.pc = "restart" => s.mode \in {"repair", "advance"}
      /\ s.pc = "verify" /\ s.mode \in {"repair", "advance"} => c \notin Services
  BY DEF Local
<1>9. BecomeTouching(p, s, c) BY <1>4
<1> HIDE DEF s, at
<1>10. Carried(s)'
  <2>1. Carried(r) BY <1>3 DEF TrackInv, Applying
  <2> QED BY <1>1, <1>4, <1>6, <1>8, <2>1 DEF Carried
<1>11. Between(s)' BY <1>4, <1>5, <1>8, FirstUnique DEF Between
<1>12. TrackInv(s)' BY <1>8, <1>10, <1>11 DEF TrackInv, Undo
<1> QED BY <1>1, <1>6, <1>7, <1>9, <1>12, TrackTouched

LEMMA InstallFailsTracks ==
  ASSUME RInv, NEW p \in Procs, InstallFails(p) PROVE Tracked'
<1>1. UNCHANGED running BY DEF InstallFails
<1>2. PICK r \in Local : r = proc[p] BY DEF RInv, IInv, TypeOK
<1>3. r.pc = "install" /\ TrackInv(r) /\ PlanInv(r)
  BY <1>2 DEF InstallFails, At, RInv, Tracked, IInv, ProcInv
<1>4. PICK c \in r.todo, e \in Effects :
          /\ First(c, r.todo)
          /\ runtime' = [runtime EXCEPT ![c] = LeftBy(e, @, r.target[c])]
          /\ BecomeTouching(p, Undoing(r, FALSE), c)
  BY <1>2 DEF InstallFails
<1>5. \A d \in Components : d # c => runtime'[d] = runtime[d]
  BY <1>4 DEF RInv, IInv, TypeOK
<1>6. Carried(r) /\ r.mode # "none" BY <1>3 DEF TrackInv, PlanInv, Applying
<1>7. TrackInv(Undoing(r, FALSE))' BY <1>4, <1>5, <1>6, TrackUndoing DEF Carried
<1>8. Undoing(r, FALSE) \in Local BY UndoingType
<1> QED BY <1>1, <1>4, <1>5, <1>7, <1>8, TrackTouched

LEMMA RestartTracks ==
  ASSUME RInv, NEW p \in Procs, Restart(p) PROVE Tracked'
<1>1. UNCHANGED runtime BY DEF Restart
<1>2. PICK r \in Local : r = proc[p] BY DEF RInv, IInv, TypeOK
<1>3. r.pc = "restart" /\ TrackInv(r) /\ PlanInv(r)
  BY <1>2 DEF Restart, At, RInv, Tracked, IInv, ProcInv
<1>4. PICK c \in r.todo \cap Services :
          /\ First(c, r.todo)
          /\ running' = [running EXCEPT ![c] = runtime[c].ver]
          /\ BecomeTouching(p, IF r.mode \in {"repair", "advance"}
                               THEN [r EXCEPT !.pc = "verify"] ELSE Settled(r, c), c)
  BY <1>2 DEF Restart
<1>5. /\ running'[c] = runtime[c].ver
      /\ \A d \in Services : d # c => running'[d] = running[d]
      /\ r.todo \in SUBSET Components
  BY <1>4 DEF RInv, IInv, TypeOK, Local
<1>6. Carried(r) BY <1>3 DEF TrackInv, Applying
<1>7. CASE r.mode \in {"repair", "advance"}
  <2> DEFINE s == [r EXCEPT !.pc = "verify"]
  <2>1. BecomeTouching(p, s, c) BY <1>4, <1>7
  <2>2. s \in Local BY DEF Local, PCs
  <2>3. /\ s.pc = "verify" /\ s.mode = r.mode /\ s.target = r.target /\ s.before = r.before
        /\ s.todo = r.todo /\ s.journal = r.journal /\ s.foreign = r.foreign
        /\ s.prestate = r.prestate
    BY DEF Local
  <2> HIDE DEF s
  <2>4. Carried(s)' BY <1>1, <1>4, <1>5, <1>6, <1>7, <2>3 DEF Carried
  <2>5. \A d \in r.todo : First(d, r.todo) => d = c BY <1>4, <1>5, FirstUnique
  <2>6. Between(s)' BY <1>1, <1>5, <2>3, <2>5 DEF Between
  <2>7. TrackInv(s)' BY <2>3, <2>4, <2>6 DEF TrackInv, Undo
  <2> QED BY <1>1, <1>5, <2>1, <2>2, <2>7, TrackTouched
<1>8. CASE r.mode \notin {"repair", "advance"}
  <2>1. BecomeTouching(p, Settled(r, c), c) BY <1>4, <1>8
  <2>2. Settled(r, c) \in Local BY SettledType
  <2>3. r.mode \in {"rollback", "recover"} BY <1>3, <1>8 DEF PlanInv, Applying
  <2>4. c \notin r.foreign => runtime[c].ver = r.target[c]
    BY <1>3, <1>4, <2>3 DEF TrackInv, Between
  <2>5. TrackInv(Settled(r, c))'
    <3>1. r.pc \in Applying /\ c \in r.todo BY <1>3 DEF Applying
    <3> QED BY <1>1, <1>3, <1>5, <1>6, <2>4, <3>1, TrackSettled
  <2> QED BY <1>1, <1>5, <2>1, <2>2, <2>5, TrackTouched
<1> QED BY <1>7, <1>8

LEMMA RestartFailsTracks ==
  ASSUME RInv, NEW p \in Procs, RestartFails(p) PROVE Tracked'
<1>1. UNCHANGED runtime BY DEF RestartFails
<1>2. PICK r \in Local : r = proc[p] BY DEF RInv, IInv, TypeOK
<1>3. r.pc = "restart" /\ TrackInv(r) /\ PlanInv(r)
  BY <1>2 DEF RestartFails, At, RInv, Tracked, IInv, ProcInv
<1>4. PICK c \in r.todo \cap Services :
          /\ \E v : running' = [running EXCEPT ![c] = v]
          /\ BecomeTouching(p, Undoing(r, FALSE), c)
  BY <1>2 DEF RestartFails
<1>5. \A d \in Services : d # c => running'[d] = running[d]
  BY <1>4 DEF RInv, IInv, TypeOK
<1>6. Carried(r) /\ r.mode # "none" BY <1>3 DEF TrackInv, PlanInv, Applying
<1>7. TrackInv(Undoing(r, FALSE))' BY <1>1, <1>6, TrackUndoing DEF Carried
<1>8. Undoing(r, FALSE) \in Local BY UndoingType
<1> QED BY <1>1, <1>4, <1>5, <1>7, <1>8, TrackTouched

LEMMA VerifyTracks ==
  ASSUME RInv, NEW p \in Procs, Verify(p) PROVE Tracked'
<1>1. UNCHANGED <<runtime, running>> BY DEF Verify
<1>2. PICK r \in Local : r = proc[p] BY DEF RInv, IInv, TypeOK
<1>3. r.pc = "verify" /\ TrackInv(r) /\ PlanInv(r)
  BY <1>2 DEF Verify, At, RInv, Tracked, IInv, ProcInv
<1> DEFINE restarts(c) == r.mode \in {"rollback", "recover"} /\ c \in Services
<1>4. PICK c \in r.todo :
          /\ First(c, r.todo)
          /\ \/ /\ runtime[c].ver = r.target[c]
                /\ Become(p, IF restarts(c) THEN [r EXCEPT !.pc = "restart"]
                             ELSE Settled(r, c))
             \/ Become(p, Undoing(r, FALSE))
  BY <1>2 DEF Verify
<1>5. Carried(r) /\ r.pc \in Applying /\ r.todo \in SUBSET Components
  BY <1>3 DEF TrackInv, Applying, Local
<1>6. CASE Become(p, Undoing(r, FALSE)) BY <1>1, <1>2, <1>5, <1>6, GivesUp
<1>7. CASE runtime[c].ver = r.target[c] /\ ~restarts(c) /\ Become(p, Settled(r, c))
  <2>1. Settled(r, c) \in Local BY SettledType
  <2>2. c \in Services => r.mode \in {"repair", "advance"}
    BY <1>3, <1>5, <1>7 DEF PlanInv
  <2>3. c \in Services /\ c \notin r.foreign => running[c] = runtime[c].ver
    BY <1>3, <1>4, <2>2 DEF TrackInv, Between
  <2>4. TrackInv(Settled(r, c))' BY <1>1, <1>3, <1>5, <1>7, <2>3, TrackSettled
  <2> QED BY <1>1, <1>7, <2>1, <2>4, TrackMoved
<1>8. CASE /\ runtime[c].ver = r.target[c] /\ restarts(c)
           /\ Become(p, [r EXCEPT !.pc = "restart"])
  <2> DEFINE s == [r EXCEPT !.pc = "restart"]
  <2>1. Become(p, s) BY <1>8
  <2>2. s \in Local BY DEF Local, PCs
  <2>3. /\ s.pc = "restart" /\ s.mode = r.mode /\ s.target = r.target /\ s.before = r.before
        /\ s.todo = r.todo /\ s.journal = r.journal /\ s.foreign = r.foreign
        /\ s.prestate = r.prestate
    BY DEF Local
  <2> HIDE DEF s
  <2>4. Carried(s)' BY <1>1, <1>5, <2>3 DEF Carried
  <2>5. \A d \in r.todo : First(d, r.todo) => d = c BY <1>4, <1>5, FirstUnique
  <2>6. Between(s)' BY <1>1, <1>8, <2>3, <2>5 DEF Between
  <2>7. TrackInv(s)' BY <2>3, <2>4, <2>6 DEF TrackInv, Undo
  <2> QED BY <1>1, <2>1, <2>2, <2>7, TrackMoved
<1> QED BY <1>4, <1>6, <1>7, <1>8

\* A configuration that goes on to be written, and one that could not be.
LEMMA GoesOnToWrite ==
  ASSUME RInv, NEW p \in Procs, NEW r \in Local, r = proc[p], r.pc \in {"gate", "write"},
         NEW pc \in {"write", "replace"}, NEW quad \in Pins,
         Become(p, [r EXCEPT !.pc = pc, !.quad = quad]), UNCHANGED <<runtime, running>>
  PROVE Tracked'
<1> DEFINE s == [r EXCEPT !.pc = pc, !.quad = quad]
<1>1. Become(p, s) OBVIOUS
<1>2. s \in Local BY DEF Local, PCs
<1>3. /\ s.pc = pc /\ s.mode = r.mode /\ s.target = r.target /\ s.before = r.before
      /\ s.todo = r.todo /\ s.journal = r.journal /\ s.foreign = r.foreign
      /\ s.prestate = r.prestate
  BY DEF Local
<1> HIDE DEF s
<1>4. Carried(r) BY DEF RInv, Tracked, TrackInv, Closing
<1>5. Carried(s)' BY <1>3, <1>4 DEF Carried
<1>6. TrackInv(s)' BY <1>3, <1>5 DEF TrackInv, Between, Undo
<1> QED BY <1>1, <1>2, <1>6, TrackMoved

LEMMA WriteFailedTracks ==
  ASSUME RInv, NEW p \in Procs, NEW r \in Local, r = proc[p], r.pc \in {"write", "replace"},
         Become(p, WriteFailed(r)), UNCHANGED <<runtime, running>>
  PROVE Tracked'
<1>1. CASE r.mode = "advance"
  <2>1. Become(p, Undoing(r, FALSE)) BY <1>1 DEF WriteFailed
  <2> QED BY <2>1, GivesUp DEF Closing
<1>2. CASE r.mode # "advance"
  <2> DEFINE s == [r EXCEPT !.pc = "preflight", !.mode = "recover", !.target = r.prestate,
                !.journal = {}, !.todo = {c \in Components : r.prestate[c] # Absent}]
  <2>1. Become(p, s) BY <1>2 DEF WriteFailed
  <2>2. s \in Local BY DEF Local, PCs, Modes
  <2>3. /\ s.pc = "preflight" /\ s.mode = "recover" /\ s.target = r.prestate
        /\ s.prestate = r.prestate /\ s.journal = {}
        /\ s.todo = {c \in Components : r.prestate[c] # Absent}
    BY DEF Local
  <2> HIDE DEF s
  <2>4. Carried(s)' BY <2>3, ShapeAssumption DEF Carried
  <2>5. TrackInv(s)' BY <2>3, <2>4 DEF TrackInv, Between, Undo
  <2> QED BY <2>1, <2>2, <2>5, TrackMoved
<1> QED BY <1>1, <1>2

LEMMA GateTracks ==
  ASSUME RInv, NEW p \in Procs, Gate(p) PROVE Tracked'
<1>1. UNCHANGED <<runtime, running>> BY DEF Gate
<1>2. PICK r \in Local : r = proc[p] BY DEF RInv, IInv, TypeOK
<1>3. r.pc = "gate" /\ TrackInv(r) /\ PlanInv(r)
  BY <1>2 DEF Gate, At, RInv, Tracked, IInv, ProcInv
<1>4. \/ \E q \in Pins : Become(p, [r EXCEPT !.pc = "write", !.quad = q])
      \/ Become(p, Finished(r, "ok"))
      \/ Become(p, Undoing(r, FALSE))
  BY <1>2, GateStep
<1>5. ASSUME NEW q \in Pins, Become(p, [r EXCEPT !.pc = "write", !.quad = q])
      PROVE Tracked'
  BY <1>1, <1>2, <1>3, <1>5, GoesOnToWrite
<1>6. CASE Become(p, Undoing(r, FALSE)) BY <1>1, <1>2, <1>3, <1>6, GivesUp DEF Closing
<1>7. CASE Become(p, Finished(r, "ok"))
  <2>1. r.todo = {} /\ Carried(r) BY <1>3 DEF PlanInv, TrackInv, Closing
  <2>2. Carried(r)' BY <1>1, <2>1 DEF Carried
  <2>3. TrackInv(Finished(r, "ok"))' BY <2>1, <2>2, TrackOk
  <2>4. Finished(r, "ok") \in Local BY FinishedType DEF Results
  <2> QED BY <1>1, <1>7, <2>3, <2>4, TrackMoved
<1> QED BY <1>4, <1>5, <1>6, <1>7

LEMMA WriteSiblingTracks ==
  ASSUME RInv, NEW p \in Procs, WriteSibling(p) PROVE Tracked'
<1>1. UNCHANGED <<runtime, running>> BY DEF WriteSibling
<1>2. PICK r \in Local : r = proc[p] BY DEF RInv, IInv, TypeOK
<1>3. r.pc = "write" BY <1>2 DEF WriteSibling, At
<1>4. Become(p, [r EXCEPT !.pc = "replace"]) \/ Become(p, WriteFailed(r))
  BY <1>2 DEF WriteSibling
<1>5. CASE Become(p, [r EXCEPT !.pc = "replace"])
  <2>1. PICK quad \in Pins : quad = r.quad BY DEF Local
  <2>2. [r EXCEPT !.pc = "replace"] = [r EXCEPT !.pc = "replace", !.quad = quad]
    BY <2>1 DEF Local
  <2>3. Become(p, [r EXCEPT !.pc = "replace", !.quad = quad]) BY <1>5, <2>2
  <2>4. r.pc \in {"gate", "write"} BY <1>3
  <2> QED BY <1>1, <1>2, <2>1, <2>3, <2>4, GoesOnToWrite
<1>6. CASE Become(p, WriteFailed(r)) BY <1>1, <1>2, <1>3, <1>6, WriteFailedTracks
<1> QED BY <1>4, <1>5, <1>6

LEMMA ReplaceTracks ==
  ASSUME RInv, NEW p \in Procs, Replace(p) PROVE Tracked'
<1>1. UNCHANGED <<runtime, running>> BY DEF Replace
<1>2. PICK r \in Local : r = proc[p] BY DEF RInv, IInv, TypeOK
<1>3. r.pc = "replace" /\ TrackInv(r) /\ PlanInv(r)
  BY <1>2 DEF Replace, At, RInv, Tracked, IInv, ProcInv
<1>4. Become(p, Finished(r, "ok")) \/ Become(p, WriteFailed(r)) BY <1>2 DEF Replace
<1>5. CASE Become(p, Finished(r, "ok"))
  <2>1. r.todo = {} /\ Carried(r) BY <1>3 DEF PlanInv, TrackInv, Closing
  <2>2. Carried(r)' BY <1>1, <2>1 DEF Carried
  <2>3. TrackInv(Finished(r, "ok"))' BY <2>1, <2>2, TrackOk
  <2>4. Finished(r, "ok") \in Local BY FinishedType DEF Results
  <2> QED BY <1>1, <1>5, <2>3, <2>4, TrackMoved
<1>6. CASE Become(p, WriteFailed(r)) BY <1>1, <1>2, <1>3, <1>6, WriteFailedTracks
<1> QED BY <1>4, <1>5, <1>6

LEMMA LastUnique ==
  ASSUME NEW S \in SUBSET Components, NEW c, NEW d, Last(c, S), Last(d, S) PROVE c = d
  BY DEF Last, Components

LEMMA UndoInstallTracks ==
  ASSUME RInv, NEW p \in Procs, UndoInstall(p) PROVE Tracked'
<1>1. UNCHANGED running BY DEF UndoInstall
<1>2. PICK r \in Local : r = proc[p] BY DEF RInv, IInv, TypeOK
<1>3. r.pc = "undo" /\ r.pc \in Undo /\ TrackInv(r)
  BY <1>2 DEF UndoInstall, At, RInv, Tracked, Undo
<1>4. PICK c \in r.undo :
          \/ /\ runtime' = [runtime EXCEPT ![c] = Managed(r.before[c].ver)]
             /\ BecomeTouching(p, [r EXCEPT !.pc = "undoVerify"], c)
          \/ Become(p, Dropped(r, c, TRUE)) /\ UNCHANGED runtime
          \/ /\ \E v : runtime' = [runtime EXCEPT ![c] = v]
             /\ BecomeTouching(p, Dropped(r, c, TRUE), c)
  BY <1>2 DEF UndoInstall
<1>5. c \in Components /\ c \in r.journal BY <1>3 DEF TrackInv, Local
<1>6. Dropped(r, c, TRUE) \in Local BY DroppedType
<1>7. CASE Become(p, Dropped(r, c, TRUE)) /\ UNCHANGED runtime
  <2>1. TrackInv(Dropped(r, c, TRUE))' BY <1>1, <1>3, <1>7, TrackDropped
  <2> QED BY <1>1, <1>6, <1>7, <2>1, TrackMoved
<1>8. CASE /\ \E v : runtime' = [runtime EXCEPT ![c] = v]
           /\ BecomeTouching(p, Dropped(r, c, TRUE), c)
  <2>1. \A d \in Components : d # c => runtime'[d] = runtime[d]
    BY <1>8 DEF RInv, IInv, TypeOK
  <2>2. TrackInv(Dropped(r, c, TRUE))' BY <1>1, <1>3, <2>1, TrackDropped
  <2> QED BY <1>1, <1>6, <1>8, <2>1, <2>2, TrackTouched
<1>9. CASE /\ runtime' = [runtime EXCEPT ![c] = Managed(r.before[c].ver)]
           /\ BecomeTouching(p, [r EXCEPT !.pc = "undoVerify"], c)
  <2>1. \A d \in Components : d # c => runtime'[d] = runtime[d]
    BY <1>9 DEF RInv, IInv, TypeOK
  <2> DEFINE s == [r EXCEPT !.pc = "undoVerify"]
  <2>2. s \in Local BY DEF Local, PCs
  <2>3. /\ s.pc = "undoVerify" /\ s.mode = r.mode /\ s.before = r.before /\ s.todo = r.todo
        /\ s.journal = r.journal /\ s.undo = r.undo /\ s.undoFailed = r.undoFailed
        /\ s.foreign = r.foreign /\ r.journal \subseteq Components
    BY DEF Local
  <2>4. BecomeTouching(p, s, c) BY <1>9
  <2> HIDE DEF s
  <2>5. Unwound(r) => Unwound(s)' BY <1>1, <1>5, <2>1, <2>3 DEF Unwound
  <2>6. TrackInv(s)'
    BY <1>3, <2>3, <2>5 DEF TrackInv, Between, Early, Applying, Closing, Undo
  <2> QED BY <1>1, <2>1, <2>2, <2>4, <2>6, TrackTouched
<1> QED BY <1>4, <1>7, <1>8, <1>9

LEMMA UndoVerifyTracks ==
  ASSUME RInv, NEW p \in Procs, UndoVerify(p) PROVE Tracked'
<1>1. UNCHANGED <<runtime, running>> BY DEF UndoVerify
<1>2. PICK r \in Local : r = proc[p] BY DEF RInv, IInv, TypeOK
<1>3. r.pc = "undoVerify" /\ r.pc \in Undo /\ TrackInv(r)
  BY <1>2 DEF UndoVerify, At, RInv, Tracked, Undo
<1>4. PICK c \in r.undo :
          /\ Last(c, r.undo)
          /\ \/ /\ runtime[c].ver = r.before[c].ver
                /\ Become(p, IF c \in Services THEN [r EXCEPT !.pc = "undoRestart"]
                             ELSE Dropped(r, c, FALSE))
             \/ Become(p, Dropped(r, c, TRUE))
  BY <1>2 DEF UndoVerify
<1>5. r.undo \in SUBSET Components BY DEF Local
<1>6. ASSUME NEW f \in BOOLEAN, Become(p, Dropped(r, c, f)),
             ~f => runtime[c].ver = r.before[c].ver /\ c \notin Services
      PROVE Tracked'
  <2>1. Dropped(r, c, f) \in Local BY DroppedType
  <2>2. TrackInv(Dropped(r, c, f))' BY <1>1, <1>3, <1>6, TrackDropped
  <2> QED BY <1>1, <1>6, <2>1, <2>2, TrackMoved
<1>7. CASE /\ runtime[c].ver = r.before[c].ver
           /\ Become(p, [r EXCEPT !.pc = "undoRestart"])
  <2> DEFINE s == [r EXCEPT !.pc = "undoRestart"]
  <2>1. s \in Local BY DEF Local, PCs
  <2>2. /\ s.pc = "undoRestart" /\ s.mode = r.mode /\ s.before = r.before /\ s.todo = r.todo
        /\ s.journal = r.journal /\ s.undo = r.undo /\ s.undoFailed = r.undoFailed
        /\ s.foreign = r.foreign
    BY DEF Local
  <2>3. Become(p, s) BY <1>7
  <2> HIDE DEF s
  <2>4. Unwound(r) => Unwound(s)' BY <1>1, <2>2 DEF Unwound
  <2>5. \A d \in s.undo : Last(d, s.undo) => d = c BY <1>4, <1>5, <2>2, LastUnique
  <2>6. TrackInv(s)'
    BY <1>1, <1>3, <1>7, <2>2, <2>4, <2>5
    DEF TrackInv, Between, Early, Applying, Closing, Undo
  <2> QED BY <1>1, <2>1, <2>3, <2>6, TrackMoved
<1> QED BY <1>4, <1>6, <1>7

LEMMA UndoRestartTracks ==
  ASSUME RInv, NEW p \in Procs, UndoRestart(p) PROVE Tracked'
<1>1. UNCHANGED runtime BY DEF UndoRestart
<1>2. PICK r \in Local : r = proc[p] BY DEF RInv, IInv, TypeOK
<1>3. r.pc = "undoRestart" /\ r.pc \in Undo /\ TrackInv(r)
  BY <1>2 DEF UndoRestart, At, RInv, Tracked, Undo
<1>4. PICK c \in r.undo \cap Services, f \in BOOLEAN :
          /\ Last(c, r.undo)
          /\ \E v : running' = [running EXCEPT ![c] = v] /\ (~f => v = runtime[c].ver)
          /\ BecomeTouching(p, Dropped(r, c, f), c)
  <2>1. PICK c \in r.undo \cap Services :
          /\ Last(c, r.undo)
          /\ \/ /\ running' = [running EXCEPT ![c] = runtime[c].ver]
                /\ BecomeTouching(p, Dropped(r, c, FALSE), c)
             \/ /\ \E v : running' = [running EXCEPT ![c] = v]
                /\ BecomeTouching(p, Dropped(r, c, TRUE), c)
    BY <1>2 DEF UndoRestart
  <2> QED BY <2>1
<1>5. /\ \A d \in Services : d # c => running'[d] = running[d]
      /\ ~f => running'[c] = runtime[c].ver
  BY <1>4 DEF RInv, IInv, TypeOK
<1>6. c \notin r.foreign => runtime[c].ver = r.before[c].ver BY <1>3, <1>4 DEF TrackInv
<1>7. c \in r.undo BY <1>4
<1>8. TrackInv(Dropped(r, c, f))' BY <1>1, <1>3, <1>5, <1>6, <1>7, TrackDropped
<1>9. Dropped(r, c, f) \in Local BY DroppedType
<1> QED BY <1>1, <1>4, <1>5, <1>8, <1>9, TrackTouched

\* The command ends, returns or dies.
LEMMA EndTracks ==
  ASSUME RInv, NEW p \in Procs, UndoDone(p) \/ Return(p) \/ Crash(p) PROVE Tracked'
<1>1. UNCHANGED <<runtime, running>> BY DEF UndoDone, Return, Crash
<1>2. PICK r \in Local : r = proc[p] BY DEF RInv, IInv, TypeOK
<1>3. CASE Return(p) \/ Crash(p)
  <2>1. Become(p, Fresh) BY <1>3 DEF Return, Crash
  <2>2. Fresh.pc = "idle" BY DEF Fresh
  <2>3. TrackInv(Fresh)' BY <2>2 DEF TrackInv, Between, Early, Applying, Closing, Undo
  <2> QED BY <1>1, <2>1, <2>3, FreshType, TrackMoved
<1>4. CASE UndoDone(p)
  <2>1. r.pc = "undo" /\ TrackInv(r) /\ r.undo = {}
    BY <1>2, <1>4 DEF UndoDone, At, RInv, Tracked
  <2>2. Become(p, Finished(r, UndoReport(r))) BY <1>2, <1>4 DEF UndoDone
  <2>3. UndoReport(r) \in Results BY DEF UndoReport, Results
  <2> DEFINE s == Finished(r, UndoReport(r))
  <2>4. /\ s.result = UndoReport(r) /\ s.before = r.before /\ s.todo = r.todo
        /\ s.journal = r.journal /\ s.foreign = r.foreign /\ r.journal \subseteq Components
    BY DEF Finished, Local
  <2>5. s \in Local BY <2>3, FinishedType
  <2> HIDE DEF s
  <2>6. UndoReport(r) \in {"failed", "incomplete", "rolled_back"} BY DEF UndoReport
  <2>7. UndoReport(r) = "rolled_back" => Unwound(r)
    <3>1. r.mode \in Modes /\ r.mode # "none" BY <2>1 DEF TrackInv, Undo, Local
    <3> QED BY <2>1, <3>1 DEF TrackInv, UndoReport, Undo, Modes
  <2>8. RolledBackIsTrue(s)'
    BY <1>1, <2>1, <2>4, <2>7, ShapeAssumption DEF Unwound, RolledBackIsTrue
  <2>9. OkIsTrue(s)' /\ RestoredIsTrue(s)'
    BY <2>4, <2>6 DEF OkIsTrue, RestoredIsTrue
  <2>10. TrackInv(s)' BY <2>8, <2>9, TrackFinished DEF s
  <2> QED BY <1>1, <2>2, <2>5, <2>10, TrackMoved DEF s
<1> QED BY <1>3, <1>4

LEMMA ForeignInstallTracks == ASSUME RInv, ForeignInstall PROVE Tracked'
<1>1. PICK c \in Components :
          /\ \E a : runtime' = [runtime EXCEPT ![c] = a]
          /\ proc' = [q \in Procs |-> Saw(proc[q], c)]
  BY DEF ForeignInstall
<1>2. UNCHANGED running BY DEF ForeignInstall
<1>3. \A d \in Components : d # c => runtime'[d] = runtime[d]
  BY <1>1 DEF RInv, IInv, TypeOK
<1> SUFFICES ASSUME NEW q \in Procs PROVE TrackInv(proc[q])' BY DEF Tracked
<1>4. PICK s \in Local : s = proc[q] BY DEF RInv, IInv, TypeOK
<1>5. proc'[q] = Saw(s, c) BY <1>1, <1>4
<1>6. TrackInv(s) BY <1>4 DEF RInv, Tracked
<1>7. TrackInv(Saw(s, c))' BY <1>2, <1>3, <1>6, TrackOthers
<1> QED BY <1>5, <1>7

LEMMA TrackNext == RInv /\ [Next]_vars => Tracked'
<1> SUFFICES ASSUME RInv, [Next]_vars PROVE Tracked' OBVIOUS
<1>1. CASE UNCHANGED vars
  <2> SUFFICES ASSUME NEW q \in Procs PROVE TrackInv(proc[q])' BY DEF Tracked
  <2>1. PICK s : s = proc[q] OBVIOUS
  <2>2. proc'[q] = s /\ TrackInv(s) BY <1>1, <2>1 DEF vars, RInv, Tracked
  <2>3. TrackInv(s)' BY <1>1, <2>2, TrackStays DEF vars
  <2> QED BY <2>2, <2>3
<1>2. CASE ForeignInstall BY <1>2, ForeignInstallTracks
<1>3. ASSUME NEW p \in Procs, Begin(p) PROVE Tracked'
  BY <1>3, BeginUpgradeTracks, BeginRollbackTracks DEF Begin
<1>4. ASSUME NEW p \in Procs, Work(p) PROVE Tracked'
  BY <1>4, PlanRefusedTracks, PlanRepairTracks, PlanAdvanceTracks, CapturePrestateTracks,
     PreflightTracks, CheckFingerprintTracks, InstallTracks, InstallFailsTracks,
     RestartTracks, RestartFailsTracks, VerifyTracks, GateTracks, WriteSiblingTracks,
     ReplaceTracks, UndoInstallTracks, UndoVerifyTracks, UndoRestartTracks, EndTracks
  DEF Work
<1>5. ASSUME NEW p \in Procs, Crash(p) PROVE Tracked' BY <1>5, EndTracks
<1> QED BY <1>1, <1>2, <1>3, <1>4, <1>5 DEF Next

\* What every finished command reports holds of every component nobody else touched.
THEOREM ReportsAreTrueHolds == Spec => []ReportsAreTrue
<1>1. Init => RInv BY InvInit, TrackInit DEF RInv
<1>2. RInv /\ [Next]_vars => RInv' BY InvNext, TrackNext DEF RInv
<1>3. RInv => ReportsAreTrue BY DEF RInv, Tracked, TrackInv, ReportsAreTrue, At
<1> QED BY <1>1, <1>2, <1>3, PTL DEF Spec

-----------------------------------------------------------------------------
(* The migration boundary is crossed by no part of a --to whose target lock    *)
(* records the schema of the regista it pins: the versions of regista it aims  *)
(* at, may recover to and has captured all have the schema of the one          *)
(* installed.                                                                  *)

Live(r) == r.mode \in {"rollback", "recover"} /\ r.pc \notin {"idle", "done"}

\* Every version of regista the invocation may leave in place.
Spines(r) == {Absent, runtime[Spine].ver, r.target[Spine], r.prestate[Spine],
              r.before[Spine].ver}

SchemaInv(r) ==
  Live(r) /\ r.vouched /\ Spine \notin r.foreign =>
     \A v, w \in Spines(r) \ {Absent} : SchemaOf[v] = SchemaOf[w]

Schemed == \A p \in Procs : SchemaInv(proc[p])
BInv == IInv /\ Schemed

\* An invocation that goes on as s knows no version of regista it did not know as r.
Follows(r, s) ==
  Live(s) =>
     /\ Live(r) /\ s.foreign = r.foreign /\ s.vouched = r.vouched
     /\ s.target[Spine] \in Spines(r) /\ s.prestate[Spine] \in Spines(r)
     /\ s.before[Spine].ver \in Spines(r)

SameRecords(r, s) ==
  /\ s.mode = r.mode /\ s.foreign = r.foreign /\ s.vouched = r.vouched
  /\ s.target = r.target /\ s.prestate = r.prestate /\ s.before = r.before

LEMMA SameFollows ==
  ASSUME NEW r, NEW s, SameRecords(r, s), r.pc \notin {"idle", "done"} PROVE Follows(r, s)
  BY DEF SameRecords, Follows, Live, Spines

LEMMA HelpersKeepRecords ==
  ASSUME NEW r \in Local, NEW c, NEW f
  PROVE /\ SameRecords(r, Finished(r, f)) /\ Finished(r, f).pc = "done"
        /\ SameRecords(r, Undoing(r, f)) /\ SameRecords(r, Dropped(r, c, f))
        /\ SameRecords(r, Continue(r)) /\ SameRecords(r, Settled(r, c))
  BY DEF SameRecords, Finished, Undoing, Dropped, Continue, Settled, Local

LEMMA SchemaFollows ==
  ASSUME NEW r, NEW s, SchemaInv(r), Follows(r, s),
         Live(r) /\ Live(s) => runtime'[Spine].ver \in Spines(r)
  PROVE SchemaInv(s)'
<1> SUFFICES ASSUME Live(s), s.vouched, Spine \notin s.foreign,
                    NEW v \in Spines(s)' \ {Absent}, NEW w \in Spines(s)' \ {Absent}
             PROVE SchemaOf[v] = SchemaOf[w]
  BY DEF SchemaInv, Live
<1>1. v \in Spines(r) \ {Absent} /\ w \in Spines(r) \ {Absent}
  BY DEF Follows, Spines
<1> QED BY <1>1 DEF SchemaInv, Follows

LEMMA SchemaStays ==
  ASSUME NEW r, SchemaInv(r), runtime'[Spine] = runtime[Spine] PROVE SchemaInv(r)'
<1>1. Follows(r, r) BY DEF Follows, Spines
<1> QED BY <1>1, SchemaFollows DEF Spines

LEMMA SchemaMoved ==
  ASSUME BInv, NEW p \in Procs, NEW r \in Local, r = proc[p], NEW s, Become(p, s),
         UNCHANGED runtime, Follows(r, s)
  PROVE Schemed'
<1> SUFFICES ASSUME NEW q \in Procs PROVE SchemaInv(proc[q])' BY DEF Schemed
<1>1. CASE q = p
  <2>1. proc'[q] = s BY <1>1 DEF Become, BInv, IInv, TypeOK
  <2>2. SchemaInv(r) BY DEF BInv, Schemed
  <2>3. SchemaInv(s)' BY <2>2, SchemaFollows DEF Spines
  <2> QED BY <2>1, <2>3
<1>2. CASE q # p
  <2>1. PICK t : t = proc[q] OBVIOUS
  <2>2. proc'[q] = t BY <1>2, <2>1 DEF Become, BInv, IInv, TypeOK
  <2>3. SchemaInv(t)' BY <2>1, SchemaStays DEF BInv, Schemed
  <2> QED BY <2>2, <2>3
<1> QED BY <1>1, <1>2

\* A step of another actor is of another component, or marks this one.
LEMMA SchemaOthers ==
  ASSUME NEW t \in Local, SchemaInv(t), NEW c,
         \A d \in Components : d # c => runtime'[d] = runtime[d]
  PROVE SchemaInv(Saw(t, c))'
<1> DEFINE s == Saw(t, c)
<1>1. CASE t.pc = "idle"
  <2>1. s.pc = "idle" BY <1>1 DEF Saw
  <2> HIDE DEF s
  <2>2. SchemaInv(s)' BY <2>1 DEF SchemaInv, Live
  <2> QED BY <2>2 DEF s
<1>2. CASE t.pc # "idle" /\ c = Spine
  <2>1. Spine \in s.foreign BY <1>2 DEF Saw, Local
  <2> HIDE DEF s
  <2>2. SchemaInv(s)' BY <2>1 DEF SchemaInv
  <2> QED BY <2>2 DEF s
<1>3. CASE t.pc # "idle" /\ c # Spine
  <2>1. /\ s.pc = t.pc /\ s.mode = t.mode /\ s.target = t.target
        /\ s.prestate = t.prestate /\ s.before = t.before /\ t.foreign \subseteq s.foreign
        /\ s.vouched = t.vouched
    BY <1>3 DEF Saw, Local
  <2>2. runtime'[Spine] = runtime[Spine] BY <1>3, SpineExists
  <2>3. SchemaInv(t)' BY <2>2, SchemaStays
  <2> HIDE DEF s
  <2>4. SchemaInv(s)' BY <2>1, <2>3 DEF SchemaInv, Live, Spines
  <2> QED BY <2>4 DEF s
<1> QED BY <1>1, <1>2, <1>3

LEMMA SchemaTouched ==
  ASSUME BInv, NEW p \in Procs, NEW r \in Local, r = proc[p], NEW s, NEW c,
         BecomeTouching(p, s, c), \A d \in Components : d # c => runtime'[d] = runtime[d],
         Follows(r, s), runtime'[Spine].ver \in Spines(r)
  PROVE Schemed'
<1> SUFFICES ASSUME NEW q \in Procs PROVE SchemaInv(proc[q])' BY DEF Schemed
<1>1. CASE q = p
  <2>1. proc'[q] = s BY <1>1 DEF BecomeTouching
  <2>2. SchemaInv(r) BY DEF BInv, Schemed
  <2>3. SchemaInv(s)' BY <2>2, SchemaFollows
  <2> QED BY <2>1, <2>3
<1>2. CASE q # p
  <2>1. PICK t \in Local : t = proc[q] BY DEF BInv, IInv, TypeOK
  <2>2. proc'[q] = Saw(t, c) BY <1>2, <2>1 DEF BecomeTouching
  <2>3. SchemaInv(t) BY <2>1 DEF BInv, Schemed
  <2>4. SchemaInv(Saw(t, c))' BY <2>3, SchemaOthers
  <2> QED BY <2>2, <2>4
<1> QED BY <1>1, <1>2

\* What an installer leaves, of a step or of its undoing, is absent, as it was, as the
\* invocation aims at or as it captured.
LEMMA MutationStep ==
  ASSUME IInv, NEW p \in Procs, NEW r \in Local, r = proc[p],
         Install(p) \/ InstallFails(p) \/ UndoInstall(p)
  PROVE /\ r.pc \notin {"idle", "done"}
        /\ \E c \in Components : \E s :
              /\ SameRecords(r, s)
              /\ \A d \in Components : d # c => runtime'[d] = runtime[d]
              /\ runtime'[c].ver \in {Absent, runtime[c].ver, r.target[c], r.before[c].ver}
              /\ BecomeTouching(p, s, c) \/ (Become(p, s) /\ UNCHANGED runtime)
<1>1. r.pc \notin {"idle", "done"} BY DEF Install, InstallFails, UndoInstall, At
<1>2. ASSUME NEW c \in Components, NEW s, NEW v, SameRecords(r, s),
             \/ v = Managed(r.target[c]) \/ v = Managed(r.before[c].ver)
             \/ \E e : v = LeftBy(e, runtime[c], r.target[c])
             \/ \E e : v = LeftBy(e, runtime[c], r.before[c].ver),
             runtime' = [runtime EXCEPT ![c] = v], BecomeTouching(p, s, c)
      PROVE \E d \in Components : \E t :
              /\ SameRecords(r, t)
              /\ \A e \in Components : e # d => runtime'[e] = runtime[e]
              /\ runtime'[d].ver \in {Absent, runtime[d].ver, r.target[d], r.before[d].ver}
              /\ BecomeTouching(p, t, d) \/ (Become(p, t) /\ UNCHANGED runtime)
  <2>1. /\ \A e \in Components : e # c => runtime'[e] = runtime[e]
        /\ runtime'[c] = v
    BY <1>2 DEF IInv, TypeOK
  <2>2. v.ver \in {Absent, runtime[c].ver, r.target[c], r.before[c].ver}
    BY <1>2 DEF Managed, LeftBy, Gone
  <2> QED BY <1>2, <2>1, <2>2, Zenon
<1>3. CASE Install(p)
  <2> DEFINE at(c) == IF r.mode \in {"repair", "advance"} /\ c \in Services
                      THEN "restart" ELSE "verify"
  <2>1. PICK c \in r.todo :
          /\ runtime' = [runtime EXCEPT ![c] = Managed(r.target[c])]
          /\ BecomeTouching(p, [r EXCEPT !.journal = @ \cup {c}, !.pc = at(c)], c)
    BY <1>3 DEF Install
  <2> DEFINE s == [r EXCEPT !.journal = @ \cup {c}, !.pc = at(c)]
  <2>2. SameRecords(r, s) BY DEF SameRecords, Local
  <2>3. c \in Components /\ BecomeTouching(p, s, c) BY <2>1 DEF Local
  <2> HIDE DEF s
  <2> QED BY <1>1, <1>2, <2>1, <2>2, <2>3
<1>4. CASE InstallFails(p)
  <2>1. PICK c \in r.todo, e \in Effects :
          /\ runtime' = [runtime EXCEPT ![c] = LeftBy(e, @, r.target[c])]
          /\ BecomeTouching(p, Undoing(r, FALSE), c)
    BY <1>4 DEF InstallFails
  <2>2. c \in Components BY DEF Local
  <2>3. SameRecords(r, Undoing(r, FALSE)) BY HelpersKeepRecords
  <2>4. runtime' = [runtime EXCEPT ![c] = LeftBy(e, runtime[c], r.target[c])]
    BY <2>1
  <2> QED BY <1>1, <1>2, <2>1, <2>2, <2>3, <2>4
<1>5. CASE UndoInstall(p)
  <2>1. PICK c \in r.undo :
          \/ /\ runtime' = [runtime EXCEPT ![c] = Managed(r.before[c].ver)]
             /\ BecomeTouching(p, [r EXCEPT !.pc = "undoVerify"], c)
          \/ Become(p, Dropped(r, c, TRUE)) /\ UNCHANGED runtime
          \/ /\ \E e : runtime' = [runtime EXCEPT ![c] = LeftBy(e, @, r.before[c].ver)]
             /\ BecomeTouching(p, Dropped(r, c, TRUE), c)
    BY <1>5 DEF UndoInstall
  <2>2. c \in Components BY DEF Local
  <2>3. SameRecords(r, Dropped(r, c, TRUE)) BY HelpersKeepRecords
  <2>4. CASE Become(p, Dropped(r, c, TRUE)) /\ UNCHANGED runtime
    BY <1>1, <2>2, <2>3, <2>4
  <2>5. CASE /\ \E e : runtime' = [runtime EXCEPT ![c] = LeftBy(e, @, r.before[c].ver)]
             /\ BecomeTouching(p, Dropped(r, c, TRUE), c)
    <3>1. PICK e : runtime' = [runtime EXCEPT ![c] = LeftBy(e, runtime[c], r.before[c].ver)]
      BY <2>5
    <3> QED BY <1>1, <1>2, <2>2, <2>3, <2>5, <3>1
  <2>6. CASE /\ runtime' = [runtime EXCEPT ![c] = Managed(r.before[c].ver)]
             /\ BecomeTouching(p, [r EXCEPT !.pc = "undoVerify"], c)
    <3> DEFINE s == [r EXCEPT !.pc = "undoVerify"]
    <3>1. SameRecords(r, s) BY DEF SameRecords, Local
    <3>2. BecomeTouching(p, s, c) BY <2>6
    <3> HIDE DEF s
    <3> QED BY <1>1, <1>2, <2>2, <2>6, <3>1, <3>2
  <2> QED BY <2>1, <2>4, <2>5, <2>6
<1> QED BY <1>3, <1>4, <1>5

\* A step of the invocation that leaves the artifacts alone and keeps its records.
LEMMA SameStep ==
  ASSUME IInv, NEW p \in Procs, NEW r \in Local, r = proc[p],
         CheckFingerprint(p) \/ Restart(p) \/ RestartFails(p) \/ Verify(p) \/ Gate(p)
         \/ UndoVerify(p) \/ UndoRestart(p)
  PROVE /\ r.pc \notin {"idle", "done"} /\ UNCHANGED runtime
        /\ \E c, s : SameRecords(r, s) /\ (Become(p, s) \/ BecomeTouching(p, s, c))
<1>1. r.pc \notin {"idle", "done"} /\ UNCHANGED runtime
  BY DEF CheckFingerprint, Restart, RestartFails, Verify, Gate, UndoVerify, UndoRestart, At
<1>2. ASSUME NEW pc PROVE SameRecords(r, [r EXCEPT !.pc = pc])
  BY DEF SameRecords, Local
<1>3. ASSUME NEW c PROVE SameRecords(r, [r EXCEPT !.pc = "install", !.unseen = @ \ {c}])
  BY DEF SameRecords, Local
<1>4. CASE CheckFingerprint(p)
  <2>1. PICK c : \/ Become(p, [r EXCEPT !.pc = "install", !.unseen = @ \ {c}])
                 \/ Become(p, Undoing(r, FALSE))
    BY <1>4 DEF CheckFingerprint
  <2> QED BY <1>1, <1>3, <2>1, HelpersKeepRecords
<1>5. CASE Restart(p) \/ RestartFails(p)
  <2>1. PICK c : \/ BecomeTouching(p, [r EXCEPT !.pc = "verify"], c)
                 \/ BecomeTouching(p, Settled(r, c), c)
                 \/ BecomeTouching(p, Undoing(r, FALSE), c)
    BY <1>5 DEF Restart, RestartFails
  <2> QED BY <1>1, <1>2, <2>1, HelpersKeepRecords
<1>6. CASE Verify(p)
  <2>1. PICK c : \/ Become(p, [r EXCEPT !.pc = "restart"])
                 \/ Become(p, Settled(r, c))
                 \/ Become(p, Undoing(r, FALSE))
    BY <1>6 DEF Verify
  <2> QED BY <1>1, <1>2, <2>1, HelpersKeepRecords
<1>7. CASE Gate(p)
  <2>1. \/ \E q \in Pins : Become(p, [r EXCEPT !.pc = "write", !.quad = q])
        \/ Become(p, Finished(r, "ok"))
        \/ Become(p, Undoing(r, FALSE))
    BY <1>7, GateStep
  <2>2. ASSUME NEW q PROVE SameRecords(r, [r EXCEPT !.pc = "write", !.quad = q])
    BY DEF SameRecords, Local
  <2> QED BY <1>1, <2>1, <2>2, HelpersKeepRecords
<1>8. CASE UndoVerify(p)
  <2>1. PICK c : \/ Become(p, [r EXCEPT !.pc = "undoRestart"])
                 \/ Become(p, Dropped(r, c, TRUE))
                 \/ Become(p, Dropped(r, c, FALSE))
    BY <1>8 DEF UndoVerify
  <2> QED BY <1>1, <1>2, <2>1, HelpersKeepRecords
<1>9. CASE UndoRestart(p)
  <2>1. PICK c : \/ BecomeTouching(p, Dropped(r, c, TRUE), c)
                 \/ BecomeTouching(p, Dropped(r, c, FALSE), c)
    BY <1>9 DEF UndoRestart
  <2> QED BY <1>1, <2>1, HelpersKeepRecords
<1> QED BY <1>4, <1>5, <1>6, <1>7, <1>8, <1>9

LEMMA QuietSchema ==
  ASSUME BInv, NEW p \in Procs, NEW s, Become(p, s), UNCHANGED runtime, ~Live(s)
  PROVE Schemed'
<1>1. PICK r \in Local : r = proc[p] BY DEF BInv, IInv, TypeOK
<1>2. Follows(r, s) BY DEF Follows
<1> QED BY <1>1, <1>2, SchemaMoved

\* Upgrades and the ends of an invocation.
LEMMA EndsSchema ==
  ASSUME BInv, NEW p \in Procs,
         \/ \E sel \in Selections : BeginUpgrade(p, sel)
         \/ PlanRefused(p) \/ PlanRepair(p) \/ PlanAdvance(p)
         \/ UndoDone(p) \/ Return(p) \/ Crash(p)
  PROVE Schemed'
<1>1. UNCHANGED runtime
  BY DEF BeginUpgrade, PlanRefused, Refuse, PlanRepair, PlanAdvance, UndoDone, Return, Crash
<1>2. PICK r \in Local : r = proc[p] BY DEF BInv, IInv, TypeOK
<1>3. ASSUME NEW x \in Local, NEW res PROVE ~Live(Finished(x, res))
  BY <1>3, HelpersKeepRecords DEF Live
<1>4. Fresh.pc = "idle" /\ ~Live(Fresh) BY DEF Fresh, Live
<1>5. CASE PlanRefused(p) \/ UndoDone(p) \/ Return(p) \/ Crash(p)
  <2>1. Become(p, Fresh) \/ \E res : Become(p, Finished(r, res))
    BY <1>2, <1>5 DEF PlanRefused, Refuse, UndoDone, Return, Crash
  <2> QED BY <1>1, <1>3, <1>4, <2>1, QuietSchema
<1>6. ASSUME NEW sel \in Selections, BeginUpgrade(p, sel) PROVE Schemed'
  <2>1. CASE Become(p, Finished(Fresh, "refused"))
    BY <1>1, <1>3, <2>1, FreshType, QuietSchema
  <2>2. CASE Become(p, [Fresh EXCEPT !.pc = "plan", !.target = lock.pins,
                            !.quad = lock.quad, !.todo = sel])
    <3> DEFINE s == [Fresh EXCEPT !.pc = "plan", !.target = lock.pins,
                            !.quad = lock.quad, !.todo = sel]
    <3>1. s.mode = "none" BY DEF Fresh
    <3>2. Become(p, s) BY <2>2
    <3> HIDE DEF s
    <3>3. ~Live(s) BY <3>1 DEF Live
    <3> QED BY <1>1, <3>2, <3>3, QuietSchema
  <2> QED BY <1>6, <2>1, <2>2 DEF BeginUpgrade
<1>7. CASE PlanRepair(p)
  <2> DEFINE s == [r EXCEPT !.pc = "check", !.mode = "repair", !.todo = Drifted(r.target),
                            !.before = runtime, !.unseen = {}]
  <2>1. Become(p, s) BY <1>2, <1>7 DEF PlanRepair
  <2>2. s.mode = "repair" BY DEF Local
  <2> HIDE DEF s
  <2>3. ~Live(s) BY <2>2 DEF Live
  <2> QED BY <1>1, <2>1, <2>3, QuietSchema
<1>8. CASE PlanAdvance(p)
  <2> DEFINE s(v) == [r EXCEPT !.pc = "check", !.mode = "advance", !.todo = Drifted(v),
                               !.before = runtime, !.target = v, !.unseen = {}]
  <2>1. PICK v : Become(p, Finished(r, "current")) \/ Become(p, s(v))
    BY <1>2, <1>8 DEF PlanAdvance
  <2>2. s(v).mode = "advance" BY DEF Local
  <2> HIDE DEF s
  <2>3. ~Live(s(v)) BY <2>2 DEF Live
  <2> QED BY <1>1, <1>3, <2>1, <2>3, QuietSchema
<1> QED BY <1>5, <1>6, <1>7, <1>8

\* A --to begins inside the schema of the installed regista, or not at all.
LEMMA BeginRollbackSchema ==
  ASSUME BInv, NEW p \in Procs, NEW ref \in Refs, BeginRollback(p, ref)
  PROVE Schemed'
<1>1. UNCHANGED runtime BY DEF BeginRollback
<1>2. PICK s \in Local : s = Aims(ref) BY AimsType
<1>3. /\ s.target = ref.pins /\ s.prestate = NoPins /\ s.vouched = Vouches(ref)
      /\ s.before = [c \in Components |-> Gone]
  BY <1>2, AimsType
<1>4. \/ \E res : Become(p, Finished(s, res))
      \/ /\ Become(p, s)
         /\ Vouches(ref) /\ runtime[Spine].ver # Absent /\ ref.pins[Spine] # Absent =>
               SchemaOf[runtime[Spine].ver] = SchemaOf[ref.pins[Spine]]
  <2>1. ASSUME NEW q \in Pins, ReadsQuad(q), ref.quad # Absent, q # Absent,
               SchemaOf[q] = SchemaOf[ref.quad], Vouches(ref), ref.pins[Spine] # Absent
        PROVE SchemaOf[runtime[Spine].ver] = SchemaOf[ref.pins[Spine]]
    BY <2>1 DEF ReadsQuad, Vouches
  <2>2. ref.quad = Absent => ~Vouches(ref) BY DEF Vouches
  <2> QED BY <1>2, <2>1, <2>2 DEF BeginRollback
<1>5. CASE \E res : Become(p, Finished(s, res))
  <2>1. PICK res : Become(p, Finished(s, res)) BY <1>5
  <2>2. ~Live(Finished(s, res)) BY HelpersKeepRecords DEF Live
  <2> QED BY <1>1, <2>1, <2>2, QuietSchema
<1>6. CASE /\ Become(p, s)
           /\ Vouches(ref) /\ runtime[Spine].ver # Absent /\ ref.pins[Spine] # Absent =>
                 SchemaOf[runtime[Spine].ver] = SchemaOf[ref.pins[Spine]]
  <2>1. s.prestate[Spine] = Absent /\ s.before[Spine].ver = Absent
    BY <1>3, SpineExists DEF NoPins, Gone
  <2>2. Spines(s)' = {Absent, runtime[Spine].ver, ref.pins[Spine]}
    BY <1>1, <1>3, <2>1 DEF Spines
  <2>3. SchemaInv(s)' BY <1>3, <1>6, <2>2 DEF SchemaInv
  <2> SUFFICES ASSUME NEW q \in Procs PROVE SchemaInv(proc[q])' BY DEF Schemed
  <2>4. CASE q = p
    <3>1. proc'[q] = s BY <1>6, <2>4 DEF Become, BInv, IInv, TypeOK
    <3> QED BY <2>3, <3>1
  <2>5. CASE q # p
    <3>1. PICK t : t = proc[q] OBVIOUS
    <3>2. proc'[q] = t BY <1>6, <2>5, <3>1 DEF Become, BInv, IInv, TypeOK
    <3>3. SchemaInv(t)' BY <1>1, <3>1, SchemaStays DEF BInv, Schemed
    <3> QED BY <3>2, <3>3
  <2> QED BY <2>4, <2>5
<1> QED BY <1>4, <1>5, <1>6

\* What it captures is what it finds installed.
LEMMA CapturesSchema ==
  ASSUME BInv, NEW p \in Procs, CapturePrestate(p) \/ Preflight(p) PROVE Schemed'
<1>1. UNCHANGED runtime BY DEF CapturePrestate, Preflight
<1>2. PICK r \in Local : r = proc[p] BY DEF BInv, IInv, TypeOK
<1>3. r.pc \in Early /\ PlanInv(r)
  BY <1>2 DEF CapturePrestate, Preflight, At, BInv, IInv, ProcInv, Early
<1>4. Live(r) BY <1>3 DEF PlanInv, Live, Early
<1>5. ASSUME NEW res, Become(p, Finished(r, res)) PROVE Schemed'
  <2>1. ~Live(Finished(r, res)) BY HelpersKeepRecords DEF Live
  <2> QED BY <1>1, <1>5, <2>1, QuietSchema
<1>6. CASE CapturePrestate(p)
  <2> DEFINE pre == [c \in Components |-> IF c \in r.todo THEN runtime[c].ver ELSE Absent]
             s == [r EXCEPT !.pc = "preflight", !.prestate = pre]
  <2>1. Become(p, s) \/ \E res : Become(p, Finished(r, res))
    BY <1>2, <1>6 DEF CapturePrestate
  <2>2. pre[Spine] \in Spines(r) BY SpineExists DEF Spines
  <2> HIDE DEF pre
  <2>3. /\ s.prestate = pre /\ s.target = r.target /\ s.before = r.before
        /\ s.foreign = r.foreign /\ s.vouched = r.vouched
    BY DEF Local
  <2> HIDE DEF s
  <2>4. Follows(r, s) BY <1>4, <2>2, <2>3 DEF Follows, Spines
  <2> QED BY <1>1, <1>2, <1>5, <2>1, <2>4, SchemaMoved
<1>7. CASE Preflight(p)
  <2>1. PICK est \in [Components -> Artifact] : est = runtime BY DEF BInv, IInv, TypeOK
  <2> DEFINE s == [r EXCEPT !.before = est, !.unseen = {}]
  <2>2. Become(p, Continue(s)) \/ \E res : Become(p, Finished(r, res))
    BY <1>2, <1>7, <2>1 DEF Preflight
  <2>3. s \in Local BY DEF Local
  <2>4. /\ s.prestate = r.prestate /\ s.target = r.target /\ s.before = est
        /\ s.foreign = r.foreign /\ s.vouched = r.vouched
    BY DEF Local
  <2> HIDE DEF s
  <2>5. SameRecords(s, Continue(s)) BY <2>3, HelpersKeepRecords
  <2>6. Follows(r, Continue(s))
    BY <1>4, <2>1, <2>4, <2>5 DEF Follows, Spines, SameRecords
  <2> QED BY <1>1, <1>2, <1>5, <2>2, <2>6, SchemaMoved
<1> QED BY <1>6, <1>7

\* Recovering aims at what it had captured.
LEMMA WritesSchema ==
  ASSUME BInv, NEW p \in Procs, WriteSibling(p) \/ Replace(p) PROVE Schemed'
<1>1. UNCHANGED runtime BY DEF WriteSibling, Replace
<1>2. PICK r \in Local : r = proc[p] BY DEF BInv, IInv, TypeOK
<1>3. r.pc \in {"write", "replace"} /\ PlanInv(r)
  BY <1>2 DEF WriteSibling, Replace, At, BInv, IInv, ProcInv
<1>4. \/ Become(p, [r EXCEPT !.pc = "replace"])
      \/ Become(p, Finished(r, "ok"))
      \/ Become(p, WriteFailed(r))
  BY <1>2 DEF WriteSibling, Replace
<1>5. ASSUME NEW s, SameRecords(r, s), Become(p, s) PROVE Schemed'
  <2>1. Follows(r, s) BY <1>3, <1>5, SameFollows
  <2> QED BY <1>1, <1>2, <1>5, <2>1, SchemaMoved
<1>6. CASE Become(p, [r EXCEPT !.pc = "replace"])
  <2>1. SameRecords(r, [r EXCEPT !.pc = "replace"]) BY DEF SameRecords, Local
  <2> QED BY <1>5, <1>6, <2>1
<1>7. CASE Become(p, Finished(r, "ok")) BY <1>5, <1>7, HelpersKeepRecords
<1>8. CASE Become(p, WriteFailed(r)) /\ r.mode = "advance"
  BY <1>5, <1>8, HelpersKeepRecords DEF WriteFailed
<1>9. CASE Become(p, WriteFailed(r)) /\ r.mode # "advance"
  <2> DEFINE s == [r EXCEPT !.pc = "preflight", !.mode = "recover", !.target = r.prestate,
                !.journal = {}, !.todo = {c \in Components : r.prestate[c] # Absent}]
  <2>1. Become(p, s) BY <1>9 DEF WriteFailed
  <2>2. /\ s.prestate = r.prestate /\ s.target = r.prestate /\ s.before = r.before
        /\ s.foreign = r.foreign /\ s.vouched = r.vouched
    BY DEF Local
  <2> HIDE DEF s
  <2>3. Live(r) BY <1>3, <1>9 DEF PlanInv, Live
  <2>4. Follows(r, s) BY <2>2, <2>3 DEF Follows, Spines
  <2> QED BY <1>1, <1>2, <2>1, <2>4, SchemaMoved
<1> QED BY <1>4, <1>6, <1>7, <1>8, <1>9

LEMMA MutationSchema ==
  ASSUME BInv, NEW p \in Procs, Install(p) \/ InstallFails(p) \/ UndoInstall(p)
  PROVE Schemed'
<1>1. PICK r \in Local : r = proc[p] BY DEF BInv, IInv, TypeOK
<1>2. r.pc \notin {"idle", "done"} BY <1>1, MutationStep DEF BInv
<1>3. PICK c, s :
              /\ c \in Components
              /\ SameRecords(r, s)
              /\ \A d \in Components : d # c => runtime'[d] = runtime[d]
              /\ runtime'[c].ver \in {Absent, runtime[c].ver, r.target[c], r.before[c].ver}
              /\ BecomeTouching(p, s, c) \/ (Become(p, s) /\ UNCHANGED runtime)
  BY <1>1, MutationStep DEF BInv
<1>4. Follows(r, s) BY <1>2, <1>3, SameFollows
<1>5. runtime'[Spine].ver \in Spines(r) BY <1>3, SpineExists DEF Spines
<1>6. CASE BecomeTouching(p, s, c) BY <1>1, <1>3, <1>4, <1>5, <1>6, SchemaTouched
<1>7. CASE Become(p, s) /\ UNCHANGED runtime BY <1>1, <1>4, <1>7, SchemaMoved
<1> QED BY <1>3, <1>6, <1>7

LEMMA SameSchema ==
  ASSUME BInv, NEW p \in Procs,
         CheckFingerprint(p) \/ Restart(p) \/ RestartFails(p) \/ Verify(p) \/ Gate(p)
         \/ UndoVerify(p) \/ UndoRestart(p)
  PROVE Schemed'
<1>1. PICK r \in Local : r = proc[p] BY DEF BInv, IInv, TypeOK
<1>2. r.pc \notin {"idle", "done"} /\ UNCHANGED runtime BY <1>1, SameStep DEF BInv
<1>3. PICK c, s : SameRecords(r, s) /\ (Become(p, s) \/ BecomeTouching(p, s, c))
  BY <1>1, SameStep DEF BInv
<1>4. Follows(r, s) BY <1>2, <1>3, SameFollows
<1>5. runtime'[Spine].ver \in Spines(r) /\ \A d \in Components : runtime'[d] = runtime[d]
  BY <1>2 DEF Spines
<1>6. CASE Become(p, s) BY <1>1, <1>2, <1>4, <1>6, SchemaMoved
<1>7. CASE BecomeTouching(p, s, c) BY <1>1, <1>4, <1>5, <1>7, SchemaTouched
<1> QED BY <1>3, <1>6, <1>7

LEMMA ForeignSchema == ASSUME BInv, ForeignInstall PROVE Schemed'
<1>1. PICK c \in Components :
          /\ \E a : runtime' = [runtime EXCEPT ![c] = a]
          /\ proc' = [q \in Procs |-> Saw(proc[q], c)]
  BY DEF ForeignInstall
<1>2. \A d \in Components : d # c => runtime'[d] = runtime[d]
  BY <1>1 DEF BInv, IInv, TypeOK
<1> SUFFICES ASSUME NEW q \in Procs PROVE SchemaInv(proc[q])' BY DEF Schemed
<1>3. PICK t \in Local : t = proc[q] BY DEF BInv, IInv, TypeOK
<1>4. proc'[q] = Saw(t, c) BY <1>1, <1>3
<1>5. SchemaInv(t) BY <1>3 DEF BInv, Schemed
<1>6. SchemaInv(Saw(t, c))' BY <1>2, <1>5, SchemaOthers
<1> QED BY <1>4, <1>6

LEMMA SchemaNext == BInv /\ [Next]_vars => Schemed'
<1> SUFFICES ASSUME BInv, [Next]_vars PROVE Schemed' OBVIOUS
<1>1. CASE UNCHANGED vars
  BY <1>1 DEF vars, BInv, Schemed, SchemaInv, Live, Spines
<1>2. CASE ForeignInstall BY <1>2, ForeignSchema
<1>3. ASSUME NEW p \in Procs, Begin(p) \/ Crash(p) PROVE Schemed'
  BY <1>3, EndsSchema, BeginRollbackSchema DEF Begin
<1>4. ASSUME NEW p \in Procs, Work(p) PROVE Schemed'
  BY <1>4, EndsSchema, CapturesSchema, WritesSchema, MutationSchema, SameSchema DEF Work
<1> QED BY <1>1, <1>2, <1>3, <1>4 DEF Next

LEMMA BoundaryStep ==
  ASSUME BInv, [Next]_vars, NEW p \in Procs, Moves(p),
         proc[p].mode \in {"rollback", "recover"}, proc[p].vouched,
         Spine \notin proc[p].foreign,
         runtime[Spine].ver # Absent, runtime'[Spine].ver # Absent
  PROVE SchemaOf[runtime'[Spine].ver] = SchemaOf[runtime[Spine].ver]
<1>1. PICK r \in Local : r = proc[p] BY DEF BInv, IInv, TypeOK
<1>2. CASE UNCHANGED runtime BY <1>2
<1>3. ASSUME NEW q \in Procs, Install(q) \/ InstallFails(q) \/ UndoInstall(q)
      PROVE SchemaOf[runtime'[Spine].ver] = SchemaOf[runtime[Spine].ver]
  <2>1. CASE q = p
    <3>1. PICK c \in Components :
              /\ r.pc \notin {"idle", "done"}
              /\ \A d \in Components : d # c => runtime'[d] = runtime[d]
              /\ runtime'[c].ver \in {Absent, runtime[c].ver, r.target[c], r.before[c].ver}
      BY <1>1, <1>3, <2>1, MutationStep DEF BInv
    <3>2. runtime'[Spine].ver \in Spines(r) BY <3>1, SpineExists DEF Spines
    <3>3. runtime[Spine].ver \in Spines(r) BY DEF Spines
    <3>4. Live(r) /\ SchemaInv(r) BY <1>1, <3>1 DEF Live, BInv, Schemed
    <3> QED BY <1>1, <3>2, <3>3, <3>4 DEF SchemaInv
  <2>2. CASE q # p
    <3>1. \E s, d : Become(q, s) \/ BecomeTouching(q, s, d)
      BY <1>3 DEF Install, InstallFails, UndoInstall
    <3>2. PICK s, d : Become(q, s) \/ BecomeTouching(q, s, d) BY <3>1
    <3>3. proc'[p] = proc[p] \/ proc'[p] = Saw(proc[p], d)
      BY <2>2, <3>2 DEF Become, BecomeTouching, BInv, IInv, TypeOK
    <3> QED BY <3>3, BystanderStays DEF BInv, IInv
  <2> QED BY <2>1, <2>2
<1>4. CASE ForeignInstall
  <2>1. PICK d : proc' = [q \in Procs |-> Saw(proc[q], d)] BY <1>4 DEF ForeignInstall
  <2>2. proc'[p] = Saw(proc[p], d) BY <2>1
  <2> QED BY <2>2, BystanderStays DEF BInv, IInv
<1>5. \/ UNCHANGED runtime \/ ForeignInstall
      \/ \E q \in Procs : Install(q) \/ InstallFails(q) \/ UndoInstall(q)
  BY DEF Next, Begin, Work, vars, BeginUpgrade, PlanRefused, Refuse, PlanRepair,
     PlanAdvance, BeginRollback, CapturePrestate, Preflight, CheckFingerprint, Restart,
     RestartFails, Verify, Gate, WriteSibling, Replace, UndoVerify, UndoRestart, UndoDone,
     Return, Crash
<1> QED BY <1>2, <1>3, <1>4, <1>5

\* No step of a --to whose target lock records the schema of the regista it pins, of its
\* undoing or of its recovery puts a regista of another schema in the place of the one
\* installed (run_rollback 1835-1873), unless somebody else replaced regista meanwhile.
THEOREM RollbackKeepsSchemaHolds == Spec => RollbackKeepsSchema
<1>1. Init => BInv
  <2>1. Init => Schemed BY DEF Init, Schemed, SchemaInv, Live, Fresh
  <2> QED BY <2>1, InvInit DEF BInv
<1>2. BInv /\ [Next]_vars => BInv' BY InvNext, SchemaNext DEF BInv
<1>3. BInv /\ [Next]_vars =>
        \A p \in Procs :
          /\ Moves(p)
          /\ proc[p].mode \in {"rollback", "recover"} /\ proc[p].vouched
          /\ Spine \notin proc[p].foreign
          /\ runtime[Spine].ver # Absent /\ runtime'[Spine].ver # Absent
          => SchemaOf[runtime'[Spine].ver] = SchemaOf[runtime[Spine].ver]
  BY BoundaryStep
<1> QED BY <1>1, <1>2, <1>3, PTL DEF Spec, RollbackKeepsSchema

-----------------------------------------------------------------------------
(* One writer.  The temporary sibling of the lock has one name, so what a      *)
(* rename puts in place is what the invocation wrote only while it is alone.   *)

OneWriter == \A p, q \in Procs : p = q

WriterInv(r) ==
  /\ r.pc = "replace" => tmp = Full(r.target, r.quad)
  /\ r.pc # "done" => r.result = "none"

Written == \A p \in Procs : WriterInv(proc[p])
WInv == IInv /\ Written

\* What an invocation becomes that is not about to rename.
Unhurried(s) == s.pc # "replace" /\ (s.pc # "done" => s.result = "none")

LEMMA UnhurriedHelpers ==
  ASSUME NEW r \in Local, NEW c, NEW f
  PROVE /\ Unhurried(Finished(r, f))
        /\ r.result = "none" =>
              /\ Unhurried(Undoing(r, f)) /\ Unhurried(Dropped(r, c, f))
              /\ Unhurried(Continue(r)) /\ Unhurried(Settled(r, c))
  BY DEF Unhurried, Finished, Undoing, Dropped, Continue, Settled, Local

LEMMA UnhurriedMoves ==
  ASSUME NEW r \in Local, r.result = "none", NEW pc \in PCs \ {"replace"}
  PROVE Unhurried([r EXCEPT !.pc = pc])
  BY DEF Unhurried, Local

LEMMA UnhurriedStep ==
  ASSUME OneWriter, WInv, NEW p \in Procs, NEW s, NEW c,
         Become(p, s) \/ BecomeTouching(p, s, c), Unhurried(s)
  PROVE Written'
<1> SUFFICES ASSUME NEW q \in Procs PROVE WriterInv(proc[q])' BY DEF Written
<1>1. q = p BY DEF OneWriter
<1>2. proc'[q] = s BY <1>1 DEF Become, BecomeTouching, WInv, IInv, TypeOK
<1> QED BY <1>2 DEF WriterInv, Unhurried

LEMMA BeginWritten ==
  ASSUME OneWriter, WInv, NEW p \in Procs, Begin(p) \/ Crash(p) \/ Return(p)
  PROVE Written'
<1>1. Unhurried(Fresh) BY DEF Unhurried, Fresh
<1>2. CASE Crash(p) \/ Return(p) BY <1>1, <1>2, UnhurriedStep DEF Crash, Return
<1>3. ASSUME NEW sel \in Selections, BeginUpgrade(p, sel) PROVE Written'
  <2>1. CASE Become(p, Finished(Fresh, "refused"))
    BY <2>1, FreshType, UnhurriedHelpers, UnhurriedStep
  <2>2. CASE Become(p, [Fresh EXCEPT !.pc = "plan", !.target = lock.pins,
                            !.quad = lock.quad, !.todo = sel])
    <3> DEFINE s == [Fresh EXCEPT !.pc = "plan", !.target = lock.pins,
                            !.quad = lock.quad, !.todo = sel]
    <3>1. s.pc = "plan" /\ s.result = "none" BY DEF Fresh
    <3>2. Become(p, s) BY <2>2
    <3> HIDE DEF s
    <3>3. Unhurried(s) BY <3>1 DEF Unhurried
    <3> QED BY <3>2, <3>3, UnhurriedStep
  <2> QED BY <1>3, <2>1, <2>2 DEF BeginUpgrade
<1>4. ASSUME NEW ref \in Refs, BeginRollback(p, ref) PROVE Written'
  <2>1. PICK s \in Local : s = Aims(ref) BY AimsType
  <2>2. Become(p, s) \/ \E res : Become(p, Finished(s, res)) BY <1>4, <2>1, RollbackBegins
  <2>3. s.pc = "prestate" /\ s.result = "none" BY <2>1, AimsType
  <2>4. Unhurried(s) BY <2>3 DEF Unhurried
  <2>5. ASSUME NEW res PROVE Unhurried(Finished(s, res)) BY UnhurriedHelpers
  <2> QED BY <2>2, <2>4, <2>5, UnhurriedStep
<1> QED BY <1>2, <1>3, <1>4 DEF Begin

LEMMA PlanWritten ==
  ASSUME OneWriter, WInv, NEW p \in Procs,
         PlanRefused(p) \/ PlanRepair(p) \/ PlanAdvance(p) \/ CapturePrestate(p)
         \/ Preflight(p) \/ UndoDone(p)
  PROVE Written'
<1>1. PICK r \in Local : r = proc[p] BY DEF WInv, IInv, TypeOK
<1>2. r.pc # "done" BY <1>1 DEF PlanRefused, PlanRepair, PlanAdvance, CapturePrestate, Preflight, UndoDone, At
<1>3. r.result = "none" BY <1>1, <1>2 DEF WInv, Written, WriterInv
<1>4. ASSUME NEW res, Become(p, Finished(r, res)) PROVE Written'
  BY <1>4, UnhurriedHelpers, UnhurriedStep
<1>5. CASE PlanRefused(p) \/ UndoDone(p)
  BY <1>1, <1>4, <1>5 DEF PlanRefused, Refuse, UndoDone
<1>6. CASE PlanRepair(p)
  <2> DEFINE s == [r EXCEPT !.pc = "check", !.mode = "repair", !.todo = Drifted(r.target),
                            !.before = runtime, !.unseen = {}]
  <2>1. Become(p, s) BY <1>1, <1>6 DEF PlanRepair
  <2>2. s.pc = "check" /\ s.result = r.result BY DEF Local
  <2> HIDE DEF s
  <2>3. Unhurried(s) BY <1>3, <2>2 DEF Unhurried
  <2> QED BY <2>1, <2>3, UnhurriedStep
<1>7. CASE PlanAdvance(p)
  <2> DEFINE s(v) == [r EXCEPT !.pc = "check", !.mode = "advance", !.todo = Drifted(v),
                               !.before = runtime, !.target = v, !.unseen = {}]
  <2>1. PICK v : Become(p, Finished(r, "current")) \/ Become(p, s(v))
    BY <1>1, <1>7 DEF PlanAdvance
  <2>2. s(v).pc = "check" /\ s(v).result = r.result BY DEF Local
  <2> HIDE DEF s
  <2>3. Unhurried(s(v)) BY <1>3, <2>2 DEF Unhurried
  <2> QED BY <1>4, <2>1, <2>3, UnhurriedStep
<1>8. CASE CapturePrestate(p)
  <2> DEFINE pre == [c \in Components |-> IF c \in r.todo THEN runtime[c].ver ELSE Absent]
             s == [r EXCEPT !.pc = "preflight", !.prestate = pre]
  <2>1. Become(p, s) \/ \E res : Become(p, Finished(r, res))
    BY <1>1, <1>8 DEF CapturePrestate
  <2> HIDE DEF pre
  <2>2. s.pc = "preflight" /\ s.result = r.result BY DEF Local
  <2> HIDE DEF s
  <2>3. Unhurried(s) BY <1>3, <2>2 DEF Unhurried
  <2> QED BY <1>4, <2>1, <2>3, UnhurriedStep
<1>9. CASE Preflight(p)
  <2>1. PICK est \in [Components -> Artifact] : est = runtime BY DEF WInv, IInv, TypeOK
  <2> DEFINE s == [r EXCEPT !.before = est, !.unseen = {}]
  <2>2. Become(p, Continue(s)) \/ \E res : Become(p, Finished(r, res))
    BY <1>1, <1>9, <2>1 DEF Preflight
  <2>3. s \in Local /\ s.result = r.result BY DEF Local
  <2> HIDE DEF s
  <2>4. Unhurried(Continue(s)) BY <1>3, <2>3, UnhurriedHelpers
  <2> QED BY <1>4, <2>2, <2>4, UnhurriedStep
<1> QED BY <1>5, <1>6, <1>7, <1>8, <1>9

LEMMA ApplyWritten ==
  ASSUME OneWriter, WInv, NEW p \in Procs,
         CheckFingerprint(p) \/ Install(p) \/ InstallFails(p) \/ Restart(p)
         \/ RestartFails(p) \/ Verify(p) \/ Gate(p)
         \/ UndoInstall(p) \/ UndoVerify(p) \/ UndoRestart(p)
  PROVE Written'
<1>1. PICK r \in Local : r = proc[p] BY DEF WInv, IInv, TypeOK
<1>2. r.pc # "done"
  BY <1>1 DEF CheckFingerprint, Install, InstallFails, Restart, RestartFails, Verify, Gate,
              UndoInstall, UndoVerify, UndoRestart, At
<1>3. r.result = "none" BY <1>1, <1>2 DEF WInv, Written, WriterInv
<1>4. ASSUME NEW s, NEW c, Become(p, s) \/ BecomeTouching(p, s, c),
             \/ s = Finished(r, "ok") \/ s = Undoing(r, FALSE) \/ s = Settled(r, c)
             \/ s = Dropped(r, c, TRUE) \/ s = Dropped(r, c, FALSE)
             \/ \E pc \in PCs \ {"replace"} : s = [r EXCEPT !.pc = pc]
      PROVE Written'
  <2>1. Unhurried(s) BY <1>3, <1>4, UnhurriedHelpers, UnhurriedMoves
  <2> QED BY <1>4, <2>1, UnhurriedStep
<1>5. CASE CheckFingerprint(p)
  <2>1. PICK c : \/ Become(p, [r EXCEPT !.pc = "install", !.unseen = @ \ {c}])
                 \/ Become(p, Undoing(r, FALSE))
    BY <1>1, <1>5 DEF CheckFingerprint
  <2>2. CASE Become(p, [r EXCEPT !.pc = "install", !.unseen = @ \ {c}])
    <3> DEFINE s == [r EXCEPT !.pc = "install", !.unseen = @ \ {c}]
    <3>1. s.pc = "install" /\ s.result = r.result BY DEF Local
    <3>2. Become(p, s) BY <2>2
    <3> HIDE DEF s
    <3>3. Unhurried(s) BY <1>3, <3>1 DEF Unhurried
    <3> QED BY <3>2, <3>3, UnhurriedStep
  <2> QED BY <1>4, <2>1, <2>2
<1>6. CASE Install(p)
  <2> DEFINE at(c) == IF r.mode \in {"repair", "advance"} /\ c \in Services
                      THEN "restart" ELSE "verify"
             s(c) == [r EXCEPT !.journal = @ \cup {c}, !.pc = at(c)]
  <2>1. PICK c : BecomeTouching(p, s(c), c) BY <1>1, <1>6 DEF Install
  <2>2. s(c).pc \in {"restart", "verify"} /\ s(c).result = r.result BY DEF Local
  <2> HIDE DEF s
  <2>3. Unhurried(s(c)) BY <1>3, <2>2 DEF Unhurried
  <2> QED BY <2>1, <2>3, UnhurriedStep
<1>7. CASE InstallFails(p) BY <1>1, <1>4, <1>7 DEF InstallFails
<1>8. CASE Restart(p) \/ RestartFails(p)
  <2>1. PICK c : \/ BecomeTouching(p, [r EXCEPT !.pc = "verify"], c)
                 \/ BecomeTouching(p, Settled(r, c), c)
                 \/ BecomeTouching(p, Undoing(r, FALSE), c)
    BY <1>1, <1>8 DEF Restart, RestartFails
  <2>2. "verify" \in PCs \ {"replace"} BY DEF PCs
  <2> QED BY <1>4, <2>1, <2>2
<1>9. CASE Verify(p)
  <2>1. PICK c : \/ Become(p, [r EXCEPT !.pc = "restart"])
                 \/ Become(p, Settled(r, c))
                 \/ Become(p, Undoing(r, FALSE))
    BY <1>1, <1>9 DEF Verify
  <2>2. "restart" \in PCs \ {"replace"} BY DEF PCs
  <2> QED BY <1>4, <2>1, <2>2
<1>13. CASE Gate(p)
  <2> DEFINE s(q) == [r EXCEPT !.pc = "write", !.quad = q]
  <2>1. PICK q : \/ Become(p, s(q))
                 \/ Become(p, Finished(r, "ok"))
                 \/ Become(p, Undoing(r, FALSE))
    BY <1>1, <1>13, GateStep
  <2>2. s(q).pc = "write" /\ s(q).result = r.result BY DEF Local
  <2> HIDE DEF s
  <2>3. Unhurried(s(q)) BY <1>3, <2>2 DEF Unhurried
  <2> QED BY <1>4, <2>1, <2>3, UnhurriedStep
<1>10. CASE UndoInstall(p)
  <2>1. PICK c : \/ BecomeTouching(p, [r EXCEPT !.pc = "undoVerify"], c)
                 \/ Become(p, Dropped(r, c, TRUE))
                 \/ BecomeTouching(p, Dropped(r, c, TRUE), c)
    BY <1>1, <1>10 DEF UndoInstall
  <2>2. "undoVerify" \in PCs \ {"replace"} BY DEF PCs
  <2> QED BY <1>4, <2>1, <2>2
<1>11. CASE UndoVerify(p)
  <2>1. PICK c : \/ Become(p, [r EXCEPT !.pc = "undoRestart"])
                 \/ Become(p, Dropped(r, c, TRUE))
                 \/ Become(p, Dropped(r, c, FALSE))
    BY <1>1, <1>11 DEF UndoVerify
  <2>2. "undoRestart" \in PCs \ {"replace"} BY DEF PCs
  <2> QED BY <1>4, <2>1, <2>2
<1>12. CASE UndoRestart(p)
  <2>1. PICK c : \/ BecomeTouching(p, Dropped(r, c, TRUE), c)
                 \/ BecomeTouching(p, Dropped(r, c, FALSE), c)
    BY <1>1, <1>12 DEF UndoRestart
  <2> QED BY <1>4, <2>1
<1> QED BY <1>5, <1>6, <1>7, <1>8, <1>9, <1>10, <1>11, <1>12, <1>13

LEMMA WriteFailedUnhurried ==
  ASSUME NEW r \in Local, r.result = "none" PROVE Unhurried(WriteFailed(r))
<1>1. CASE r.mode = "advance"
  <2>1. WriteFailed(r) = Undoing(r, FALSE) BY <1>1 DEF WriteFailed
  <2> QED BY <2>1, UnhurriedHelpers
<1>2. CASE r.mode # "advance"
  <2> DEFINE s == WriteFailed(r)
  <2>1. s.pc = "preflight" /\ s.result = r.result BY <1>2 DEF WriteFailed, Local
  <2> HIDE DEF s
  <2>2. Unhurried(s) BY <2>1 DEF Unhurried
  <2> QED BY <2>2 DEF s
<1> QED BY <1>1, <1>2

LEMMA LockWritten ==
  ASSUME OneWriter, WInv, NEW p \in Procs, WriteSibling(p) \/ Replace(p) PROVE Written'
<1>1. PICK r \in Local : r = proc[p] BY DEF WInv, IInv, TypeOK
<1>2. r.pc # "done" BY <1>1 DEF WriteSibling, Replace, At
<1>3. r.result = "none" BY <1>1, <1>2 DEF WInv, Written, WriterInv
<1>4. \/ tmp' = Full(r.target, r.quad) /\ Become(p, [r EXCEPT !.pc = "replace"])
      \/ Become(p, Finished(r, "ok"))
      \/ Become(p, WriteFailed(r))
  BY <1>1 DEF WriteSibling, Replace
<1>5. CASE Become(p, Finished(r, "ok")) BY <1>5, UnhurriedHelpers, UnhurriedStep
<1>6. CASE Become(p, WriteFailed(r)) BY <1>3, <1>6, WriteFailedUnhurried, UnhurriedStep
<1>7. CASE tmp' = Full(r.target, r.quad) /\ Become(p, [r EXCEPT !.pc = "replace"])
  <2> DEFINE s == [r EXCEPT !.pc = "replace"]
  <2>1. /\ s.pc = "replace" /\ s.result = r.result /\ s.target = r.target
        /\ s.quad = r.quad
    BY DEF Local
  <2>2. Become(p, s) BY <1>7
  <2> HIDE DEF s
  <2> SUFFICES ASSUME NEW q \in Procs PROVE WriterInv(proc[q])' BY DEF Written
  <2>3. q = p BY DEF OneWriter
  <2>4. proc'[q] = s BY <2>2, <2>3 DEF Become, WInv, IInv, TypeOK
  <2> QED BY <1>3, <1>7, <2>1, <2>4 DEF WriterInv, Full
<1> QED BY <1>4, <1>5, <1>6, <1>7

LEMMA ForeignWritten ==
  ASSUME WInv, ForeignInstall PROVE Written'
<1> SUFFICES ASSUME NEW q \in Procs PROVE WriterInv(proc[q])' BY DEF Written
<1>1. PICK t \in Local : t = proc[q] BY DEF WInv, IInv, TypeOK
<1>2. PICK c : proc'[q] = Saw(t, c) BY <1>1 DEF ForeignInstall
<1> DEFINE s == Saw(t, c)
<1>3. s.pc = t.pc /\ s.result = t.result /\ s.target = t.target /\ s.quad = t.quad
  BY DEF Saw, Local
<1> HIDE DEF s
<1>4. WriterInv(t) BY <1>1 DEF WInv, Written
<1>5. WriterInv(s)' BY <1>3, <1>4 DEF WriterInv, ForeignInstall, Full
<1> QED BY <1>2, <1>5 DEF s

LEMMA WriterNext == ASSUME OneWriter, WInv, [Next]_vars PROVE Written'
<1>1. CASE UNCHANGED vars BY <1>1 DEF vars, WInv, Written, WriterInv, Full
<1>2. CASE ForeignInstall BY <1>2, ForeignWritten
<1>3. ASSUME NEW p \in Procs, Begin(p) \/ Crash(p) PROVE Written' BY <1>3, BeginWritten
<1>4. ASSUME NEW p \in Procs, Work(p) PROVE Written'
  BY <1>4, BeginWritten, PlanWritten, ApplyWritten, LockWritten DEF Work
<1> QED BY <1>1, <1>2, <1>3, <1>4 DEF Next

\* The lock moves only by a rename of what the invocation wrote.
LEMMA RenameStep ==
  ASSUME WInv, [Next]_vars, lock' # lock
  PROVE \E p \in Procs :
           /\ At(p, "replace")
           /\ proc[p].mode \in {"advance", "rollback"}
           /\ lock' = Full(proc[p].target, proc[p].quad)
<1>1. \E p \in Procs : Replace(p)
  BY DEF Next, Begin, Work, vars, BeginUpgrade, PlanRefused, Refuse, PlanRepair, PlanAdvance,
     BeginRollback, CapturePrestate, Preflight, CheckFingerprint, Install, InstallFails,
     Restart, RestartFails, Verify, Gate, WriteSibling, UndoInstall, UndoVerify, UndoRestart,
     UndoDone, Return, Crash, ForeignInstall
<1>2. PICK p \in Procs : Replace(p) BY <1>1
<1>3. At(p, "replace") /\ lock' = tmp BY <1>2 DEF Replace
<1>4. PlanInv(proc[p]) /\ WriterInv(proc[p]) BY DEF WInv, IInv, ProcInv, Written
<1>5. proc[p].mode \in {"advance", "rollback"} BY <1>3, <1>4 DEF PlanInv, At
<1>6. lock' = Full(proc[p].target, proc[p].quad) BY <1>3, <1>4 DEF WriterInv, At
<1> QED BY <1>3, <1>5, <1>6

\* An invocation that reports success as it renames has renamed its own candidate.
LEMMA SuccessStep ==
  ASSUME OneWriter, WInv, [Next]_vars, NEW p \in Procs, At(p, "replace"),
         proc'[p].result = "ok"
  PROVE lock' = Full(proc[p].target, proc[p].quad)
<1>1. PICK r \in Local : r = proc[p] BY DEF WInv, IInv, TypeOK
<1>2. WriterInv(r) /\ r.pc = "replace" /\ r.result = "none"
  BY <1>1 DEF WInv, Written, WriterInv, At
<1>3. ASSUME UNCHANGED vars PROVE FALSE BY <1>1, <1>2, <1>3 DEF vars
<1>4. ASSUME ForeignInstall PROVE FALSE
  <2>1. PICK c : proc'[p] = Saw(r, c) BY <1>1, <1>4 DEF ForeignInstall
  <2>2. Saw(r, c).result = r.result BY DEF Saw, Local
  <2> QED BY <1>2, <2>1, <2>2
<1>5. ASSUME Crash(p) PROVE FALSE
  <2>1. proc'[p] = Fresh BY <1>5 DEF Crash, Become, WInv, IInv, TypeOK
  <2> QED BY <2>1 DEF Fresh
<1>6. Begin(p) \/ Work(p)
  <2>1. \A q \in Procs : q = p BY DEF OneWriter
  <2> QED BY <1>3, <1>4, <1>5, <2>1 DEF Next
<1>7. Replace(p)
  BY <1>1, <1>2, <1>6
  DEF Begin, Work, BeginUpgrade, PlanRefused, PlanRepair, PlanAdvance, BeginRollback,
      CapturePrestate, Preflight, CheckFingerprint, Install, InstallFails, Restart,
      RestartFails, Verify, Gate, WriteSibling, UndoInstall, UndoVerify, UndoRestart,
      UndoDone, Return, At
<1>8. CASE lock' = tmp BY <1>1, <1>2, <1>8 DEF WriterInv
<1>9. ASSUME Become(p, WriteFailed(r)) PROVE FALSE
  <2>1. proc'[p] = WriteFailed(r) BY <1>9 DEF Become, WInv, IInv, TypeOK
  <2>2. Unhurried(WriteFailed(r)) BY <1>2, WriteFailedUnhurried
  <2>3. WriteFailed(r).pc # "done" BY DEF WriteFailed, Undoing, Local
  <2> QED BY <2>1, <2>2, <2>3 DEF Unhurried
<1> QED BY <1>1, <1>7, <1>8, <1>9 DEF Replace

\* While one invocation runs at a time, SUITE.lock changes only when an advancement or a
\* --to replaces it with the configuration that invocation verified.
THEOREM LockMovesOnlyAsVerifiedHolds ==
  ASSUME OneWriter PROVE Spec => LockMovesOnlyAsVerified
<1>1. Init => WInv
  <2>1. Init => Written BY DEF Init, Written, WriterInv, Fresh
  <2> QED BY <2>1, InvInit DEF WInv
<1>2. WInv /\ [Next]_vars => WInv' BY InvNext, WriterNext DEF WInv
<1>3. WInv /\ [Next]_vars =>
        (lock' # lock =>
          \E p \in Procs :
              /\ At(p, "replace")
              /\ proc[p].mode \in {"advance", "rollback"}
              /\ lock' = Full(proc[p].target, proc[p].quad))
  BY RenameStep
<1> QED BY <1>1, <1>2, <1>3, PTL DEF Spec, LockMovesOnlyAsVerified

\* And an advancement that reports success has written its own candidate: the only way
\* to that violation is a second writer.
THEOREM AdvancementWritesCandidateAlone ==
  ASSUME OneWriter PROVE Spec => AdvancementWritesCandidate
<1>1. Init => WInv
  <2>1. Init => Written BY DEF Init, Written, WriterInv, Fresh
  <2> QED BY <2>1, InvInit DEF WInv
<1>2. WInv /\ [Next]_vars => WInv' BY InvNext, WriterNext DEF WInv
<1>3. WInv /\ [Next]_vars =>
        \A p \in Procs :
          At(p, "replace") /\ proc'[p].result = "ok" => lock' = Full(proc[p].target, proc[p].quad)
  BY SuccessStep
<1> QED BY <1>1, <1>2, <1>3, PTL DEF Spec, AdvancementWritesCandidate

-----------------------------------------------------------------------------
(* The journal (the finding of upgrade_partial).  It holds every mutation      *)
(* unless an installer that fails leaves an effect.                            *)

FailuresAreClean == Effects \subseteq {"none"}

\* Outside the journal of an upgrade that is undone everything is as captured, and once
\* the undoing is reported complete, the journal's own components too.
BackInv(r) ==
  /\ r.pc \in Undo /\ r.mode \in {"repair", "advance"} =>
        \A c \in Components \ (r.journal \cup r.foreign) : runtime[c].ver = r.before[c].ver
  /\ r.pc = "done" /\ r.result = "rolled_back" =>
        \A c \in Components \ r.foreign : runtime[c].ver = r.before[c].ver

Backed == \A p \in Procs : BackInv(proc[p])
JInv == RInv /\ Backed

\* An invocation that goes on as s has nothing to undo, or undoes the journal it has.
Forward(s) == s.pc \notin Undo \cup {"done"} \/ (s.pc = "done" /\ s.result # "rolled_back")
Backward(r, s) ==
  /\ r.pc \in Applying \cup Closing \cup Undo
  /\ s.pc \in Undo /\ SameRecords(r, s) /\ s.journal = r.journal
  /\ \A c \in Components \ (r.journal \cup r.foreign) : runtime'[c].ver = runtime[c].ver

LEMMA ForwardHelpers ==
  ASSUME NEW r \in Local, NEW c
  PROVE /\ \A res : res # "rolled_back" => Forward(Finished(r, res))
        /\ Forward(Continue(r)) /\ Forward(Settled(r, c)) /\ Forward(Fresh)
<1>1. \A x \in Local : \A res : Finished(x, res).pc = "done" /\ Finished(x, res).result = res
  BY DEF Finished, Local
<1>2. ASSUME NEW x \in Local PROVE Forward(Continue(x))
  <2>1. \/ Continue(x).pc \in {"check", "gate", "write"}
        \/ Continue(x) = Finished(x, "restored")
    BY DEF Continue, Local
  <2> QED BY <1>1, <2>1 DEF Forward, Undo
<1>3. [r EXCEPT !.todo = @ \ {c}] \in Local BY DEF Local
<1>4. Forward(Fresh) BY DEF Forward, Fresh, Undo
<1> QED BY <1>1, <1>2, <1>3, <1>4 DEF Forward, Settled

LEMMA ForwardMoves ==
  ASSUME NEW r \in Local, NEW pc \in PCs \ (Undo \cup {"done"})
  PROVE Forward([r EXCEPT !.pc = pc])
  BY DEF Forward, Local

LEMMA BackwardHelpers ==
  ASSUME NEW r \in Local, NEW c, NEW f, r.pc \in Applying \cup Closing \cup Undo,
         \A d \in Components \ (r.journal \cup r.foreign) : runtime'[d].ver = runtime[d].ver
  PROVE /\ Backward(r, Undoing(r, f)) /\ Backward(r, Dropped(r, c, f))
        /\ \A pc \in Undo : Backward(r, [r EXCEPT !.pc = pc])
<1>1. \A pc \in Undo : SameRecords(r, [r EXCEPT !.pc = pc]) BY DEF SameRecords, Local
<1>2. /\ Undoing(r, f).pc = "undo" /\ Undoing(r, f).journal = r.journal
      /\ Dropped(r, c, f).pc = "undo" /\ Dropped(r, c, f).journal = r.journal
      /\ \A pc \in Undo : [r EXCEPT !.pc = pc].pc = pc /\ [r EXCEPT !.pc = pc].journal = r.journal
  BY DEF Undoing, Dropped, Local
<1> QED BY <1>1, <1>2, HelpersKeepRecords DEF Backward, Undo

LEMMA BackFollows ==
  ASSUME NEW r \in Local, TrackInv(r), BackInv(r), NEW s, Forward(s) \/ Backward(r, s)
  PROVE BackInv(s)'
<1>1. CASE Forward(s) BY <1>1 DEF Forward, BackInv, Undo
<1>2. CASE Backward(r, s)
  <2>1. /\ s.pc \in Undo /\ s.mode = r.mode /\ s.foreign = r.foreign /\ s.before = r.before
        /\ s.journal = r.journal
    BY <1>2 DEF Backward, SameRecords
  <2>2. s.pc # "done" BY <2>1 DEF Undo
  <2>3. r.mode \in {"repair", "advance"} =>
          \A c \in Components \ (r.journal \cup r.foreign) : runtime[c].ver = r.before[c].ver
    BY <1>2 DEF Backward, BackInv, TrackInv, Carried
  <2>4. \A c \in Components \ (r.journal \cup r.foreign) : runtime'[c].ver = runtime[c].ver
    BY <1>2 DEF Backward
  <2> QED BY <2>1, <2>2, <2>3, <2>4 DEF BackInv
<1> QED BY <1>1, <1>2

LEMMA BackOthers ==
  ASSUME NEW t \in Local, BackInv(t), NEW c,
         \A d \in Components : d # c => runtime'[d] = runtime[d]
  PROVE BackInv(Saw(t, c))'
<1> DEFINE s == Saw(t, c)
<1>1. CASE t.pc = "idle"
  <2>1. s.pc = "idle" BY <1>1 DEF Saw
  <2> HIDE DEF s
  <2>2. BackInv(s)' BY <2>1 DEF BackInv, Undo
  <2> QED BY <2>2 DEF s
<1>2. CASE t.pc # "idle"
  <2>1. /\ s.pc = t.pc /\ s.mode = t.mode /\ s.result = t.result /\ s.before = t.before
        /\ s.journal = t.journal /\ s.foreign = t.foreign \cup {c}
    BY <1>2 DEF Saw, Local
  <2> HIDE DEF s
  <2>2. BackInv(s)' BY <2>1 DEF BackInv
  <2> QED BY <2>2 DEF s
<1> QED BY <1>1, <1>2

\* A step that only moves its invocation.
LEMMA BackMoved ==
  ASSUME JInv, NEW p \in Procs, NEW s, Become(p, s), UNCHANGED runtime, BackInv(s)'
  PROVE Backed'
<1> SUFFICES ASSUME NEW q \in Procs PROVE BackInv(proc[q])' BY DEF Backed
<1>1. CASE q = p
  <2>1. proc'[q] = s BY <1>1 DEF Become, JInv, RInv, IInv, TypeOK
  <2> QED BY <2>1
<1>2. CASE q # p
  <2>1. PICK t : t = proc[q] OBVIOUS
  <2>2. proc'[q] = t BY <1>2, <2>1 DEF Become, JInv, RInv, IInv, TypeOK
  <2>3. BackInv(t)' BY <2>1 DEF JInv, Backed, BackInv
  <2> QED BY <2>2, <2>3
<1> QED BY <1>1, <1>2

\* A step that touches a component.
LEMMA BackTouched ==
  ASSUME JInv, NEW p \in Procs, NEW s, NEW c, BecomeTouching(p, s, c), BackInv(s)',
         \A d \in Components : d # c => runtime'[d] = runtime[d]
  PROVE Backed'
<1> SUFFICES ASSUME NEW q \in Procs PROVE BackInv(proc[q])' BY DEF Backed
<1>1. CASE q = p
  <2>1. proc'[q] = s BY <1>1 DEF BecomeTouching
  <2> QED BY <2>1
<1>2. CASE q # p
  <2>1. PICK t \in Local : t = proc[q] BY DEF JInv, RInv, IInv, TypeOK
  <2>2. proc'[q] = Saw(t, c) BY <1>2, <2>1 DEF BecomeTouching
  <2>3. BackInv(Saw(t, c))' BY <2>1, BackOthers DEF JInv, Backed
  <2> QED BY <2>2, <2>3
<1> QED BY <1>1, <1>2

\* Either, for an invocation that goes on as s.
LEMMA BackStep ==
  ASSUME JInv, NEW p \in Procs, NEW r \in Local, r = proc[p], NEW s, NEW c,
         \/ Become(p, s) /\ UNCHANGED runtime
         \/ BecomeTouching(p, s, c) /\ \A d \in Components : d # c => runtime'[d] = runtime[d],
         Forward(s) \/ Backward(r, s)
  PROVE Backed'
<1>1. BackInv(s)'
  BY BackFollows DEF JInv, RInv, Tracked, Backed
<1> QED BY <1>1, BackMoved, BackTouched

\* Planning, and an invocation that ends without undoing anything.
LEMMA BeginBacked ==
  ASSUME JInv, NEW p \in Procs,
         Begin(p) \/ PlanRefused(p) \/ CapturePrestate(p) \/ Preflight(p)
         \/ Return(p) \/ Crash(p)
  PROVE Backed'
<1>1. PICK r \in Local : r = proc[p] BY DEF JInv, RInv, IInv, TypeOK
<1>2. UNCHANGED runtime
  BY DEF Begin, BeginUpgrade, BeginRollback, PlanRefused, Refuse, CapturePrestate, Preflight,
         Return, Crash
<1>3. ASSUME NEW s, Become(p, s), Forward(s) PROVE Backed'
  BY <1>1, <1>2, <1>3, BackStep
<1>4. ASSUME NEW x \in Local, NEW res, res # "rolled_back", Become(p, Finished(x, res))
      PROVE Backed'
  BY <1>3, <1>4, ForwardHelpers
<1>5. ASSUME NEW sel \in Selections, BeginUpgrade(p, sel) PROVE Backed'
  <2> DEFINE s == [Fresh EXCEPT !.pc = "plan", !.target = lock.pins,
                            !.quad = lock.quad, !.todo = sel]
  <2>1. s.pc = "plan" BY DEF Fresh
  <2>2. Become(p, s) \/ Become(p, Finished(Fresh, "refused")) BY <1>5 DEF BeginUpgrade
  <2> HIDE DEF s
  <2>3. Forward(s) BY <2>1 DEF Forward, Undo
  <2> QED BY <1>3, <1>4, <2>2, <2>3, FreshType
<1>6. ASSUME NEW ref \in Refs, BeginRollback(p, ref) PROVE Backed'
  <2>1. PICK s \in Local : s = Aims(ref) /\ s.pc = "prestate" BY AimsType
  <2>2. Become(p, s) \/ \E res \in {"failed", "refused"} : Become(p, Finished(s, res))
    BY <1>6, <2>1, RollbackBegins
  <2>3. Forward(s) BY <2>1 DEF Forward, Undo
  <2> QED BY <1>3, <1>4, <2>1, <2>2, <2>3
<1>7. CASE PlanRefused(p) BY <1>1, <1>4, <1>7 DEF PlanRefused, Refuse
<1>8. CASE Return(p) \/ Crash(p)
  BY <1>1, <1>3, <1>8, ForwardHelpers DEF Return, Crash
<1>9. CASE CapturePrestate(p)
  <2> DEFINE s == [r EXCEPT !.pc = "preflight",
                            !.prestate = [c \in Components |->
                                IF c \in r.todo THEN runtime[c].ver ELSE Absent]]
  <2>1. s.pc = "preflight" BY DEF Local
  <2>2. Become(p, s) \/ Become(p, Finished(r, "failed")) BY <1>1, <1>9 DEF CapturePrestate
  <2> HIDE DEF s
  <2>3. Forward(s) BY <2>1 DEF Forward, Undo
  <2> QED BY <1>3, <1>4, <2>2, <2>3
<1>10. CASE Preflight(p)
  <2> DEFINE x == [r EXCEPT !.before = runtime, !.unseen = {}]
  <2>1. x \in Local BY DEF JInv, RInv, IInv, TypeOK, Local
  <2>2. \/ Become(p, Continue(x))
        \/ \E res \in {"incomplete", "failed"} : Become(p, Finished(r, res))
    BY <1>1, <1>10 DEF Preflight
  <2> HIDE DEF x
  <2>3. Forward(Continue(x)) BY <2>1, ForwardHelpers
  <2> QED BY <1>3, <1>4, <2>2, <2>3
<1> QED BY <1>5, <1>6, <1>7, <1>8, <1>9, <1>10 DEF Begin

LEMMA PlanBacked ==
  ASSUME JInv, NEW p \in Procs, PlanRepair(p) \/ PlanAdvance(p)
  PROVE Backed'
<1>1. PICK r \in Local : r = proc[p] BY DEF JInv, RInv, IInv, TypeOK
<1>2. UNCHANGED runtime BY DEF PlanRepair, PlanAdvance
<1>3. ASSUME NEW s, Become(p, s), Forward(s) PROVE Backed'
  BY <1>1, <1>2, <1>3, BackStep
<1>4. CASE PlanRepair(p)
  <2> DEFINE s == [r EXCEPT !.pc = "check", !.mode = "repair", !.todo = Drifted(r.target),
                            !.before = runtime, !.unseen = {}]
  <2>1. s.pc = "check" BY DEF Local
  <2>2. Become(p, s) BY <1>1, <1>4 DEF PlanRepair
  <2> HIDE DEF s
  <2>3. Forward(s) BY <2>1 DEF Forward, Undo
  <2> QED BY <1>3, <2>2, <2>3
<1>5. CASE PlanAdvance(p)
  <2> DEFINE s(v) == [r EXCEPT !.pc = "check", !.mode = "advance", !.todo = Drifted(v),
                               !.before = runtime, !.target = v, !.unseen = {}]
  <2>1. PICK v : Become(p, Finished(r, "current")) \/ Become(p, s(v))
    BY <1>1, <1>5 DEF PlanAdvance
  <2>2. s(v).pc = "check" BY DEF Local
  <2> HIDE DEF s
  <2>3. Forward(s(v)) BY <2>2 DEF Forward, Undo
  <2> QED BY <1>3, <2>1, <2>3, ForwardHelpers
<1> QED BY <1>4, <1>5

\* Applying: an installer that fails leaves the artifact as it was.
LEMMA ApplyBacked ==
  ASSUME FailuresAreClean, JInv, NEW p \in Procs,
         CheckFingerprint(p) \/ Install(p) \/ InstallFails(p) \/ Restart(p)
         \/ RestartFails(p) \/ Verify(p)
  PROVE Backed'
<1>1. PICK r \in Local : r = proc[p] BY DEF JInv, RInv, IInv, TypeOK
<1>2. r.pc \in Applying
  BY <1>1 DEF CheckFingerprint, Install, InstallFails, Restart, RestartFails, Verify, At, Applying
<1>3. ASSUME NEW s, NEW c, UNCHANGED runtime, Become(p, s) \/ BecomeTouching(p, s, c),
             Forward(s) \/ s = Undoing(r, FALSE)
      PROVE Backed'
  <2>1. s = Undoing(r, FALSE) => Backward(r, s) BY <1>2, <1>3, BackwardHelpers
  <2> QED BY <1>1, <1>3, <2>1, BackStep
<1>4. CASE CheckFingerprint(p)
  <2> DEFINE s(c) == [r EXCEPT !.pc = "install", !.unseen = @ \ {c}]
  <2>1. PICK c : Become(p, s(c)) \/ Become(p, Undoing(r, FALSE))
    BY <1>1, <1>4 DEF CheckFingerprint
  <2>2. s(c).pc = "install" BY DEF Local
  <2>3. UNCHANGED runtime BY <1>4 DEF CheckFingerprint
  <2> HIDE DEF s
  <2>4. Forward(s(c)) BY <2>2 DEF Forward, Undo
  <2> QED BY <1>3, <2>1, <2>3, <2>4
<1>5. CASE Install(p)
  <2> DEFINE s(c) == [r EXCEPT !.journal = @ \cup {c},
                               !.pc = IF r.mode \in {"repair", "advance"} /\ c \in Services
                                      THEN "restart" ELSE "verify"]
  <2>1. PICK c \in Components : /\ runtime' = [runtime EXCEPT ![c] = Managed(r.target[c])]
                                /\ BecomeTouching(p, s(c), c)
    BY <1>1, <1>5 DEF Install, Local
  <2>2. s(c).pc \in {"restart", "verify"} BY DEF Local
  <2>3. \A d \in Components : d # c => runtime'[d] = runtime[d]
    BY <2>1 DEF JInv, RInv, IInv, TypeOK
  <2> HIDE DEF s
  <2>4. Forward(s(c)) BY <2>2 DEF Forward, Undo
  <2> QED BY <1>1, <2>1, <2>3, <2>4, BackStep
<1>6. CASE InstallFails(p)
  <2>1. PICK c \in r.todo, e \in Effects :
          /\ runtime' = [runtime EXCEPT ![c] = LeftBy(e, runtime[c], r.target[c])]
          /\ BecomeTouching(p, Undoing(r, FALSE), c)
    BY <1>1, <1>6 DEF InstallFails
  <2>2. LeftBy(e, runtime[c], r.target[c]) = runtime[c]
    BY <2>1 DEF FailuresAreClean, LeftBy
  <2>3. UNCHANGED runtime BY <2>1, <2>2 DEF JInv, RInv, IInv, TypeOK
  <2> QED BY <1>3, <2>1, <2>3
<1>7. CASE Restart(p) \/ RestartFails(p)
  <2>1. PICK c : \/ BecomeTouching(p, [r EXCEPT !.pc = "verify"], c)
                 \/ BecomeTouching(p, Settled(r, c), c)
                 \/ BecomeTouching(p, Undoing(r, FALSE), c)
    BY <1>1, <1>7 DEF Restart, RestartFails
  <2>2. UNCHANGED runtime BY <1>7 DEF Restart, RestartFails
  <2>3. Forward([r EXCEPT !.pc = "verify"]) BY ForwardMoves DEF PCs, Undo
  <2> QED BY <1>3, <2>1, <2>2, <2>3, ForwardHelpers
<1>8. CASE Verify(p)
  <2>1. PICK c : \/ Become(p, [r EXCEPT !.pc = "restart"])
                 \/ Become(p, Settled(r, c))
                 \/ Become(p, Undoing(r, FALSE))
    BY <1>1, <1>8 DEF Verify
  <2>2. UNCHANGED runtime BY <1>8 DEF Verify
  <2>3. Forward([r EXCEPT !.pc = "restart"]) BY ForwardMoves DEF PCs, Undo
  <2> QED BY <1>3, <2>1, <2>2, <2>3, ForwardHelpers
<1> QED BY <1>4, <1>5, <1>6, <1>7, <1>8

\* The gate and the lock.
LEMMA LockBacked ==
  ASSUME JInv, NEW p \in Procs, Gate(p) \/ WriteSibling(p) \/ Replace(p)
  PROVE Backed'
<1>1. PICK r \in Local : r = proc[p] BY DEF JInv, RInv, IInv, TypeOK
<1>2. r.pc \in Closing /\ UNCHANGED runtime
  BY <1>1 DEF Gate, WriteSibling, Replace, At, Closing
<1>3. ASSUME NEW s, Become(p, s), Forward(s) \/ s = Undoing(r, FALSE) PROVE Backed'
  <2>1. s = Undoing(r, FALSE) => Backward(r, s) BY <1>2, BackwardHelpers
  <2> QED BY <1>1, <1>2, <1>3, <2>1, BackStep
<1>4. ASSUME Become(p, WriteFailed(r)) PROVE Backed'
  <2> DEFINE s == [r EXCEPT !.pc = "preflight", !.mode = "recover", !.target = r.prestate,
                !.journal = {}, !.todo = {c \in Components : r.prestate[c] # Absent}]
  <2>1. Become(p, s) \/ Become(p, Undoing(r, FALSE)) BY <1>4 DEF WriteFailed
  <2>2. s.pc = "preflight" BY DEF Local
  <2> HIDE DEF s
  <2>3. Forward(s) BY <2>2 DEF Forward, Undo
  <2> QED BY <1>3, <2>1, <2>3
<1> DEFINE s(q) == [r EXCEPT !.pc = "write", !.quad = q]
<1>5. Forward([r EXCEPT !.pc = "replace"]) /\ \A q : Forward(s(q))
  <2>1. \A q : s(q).pc = "write" BY DEF Local
  <2> HIDE DEF s
  <2>2. \A q : Forward(s(q)) BY <2>1 DEF Forward, Undo
  <2> QED BY <2>2, ForwardMoves DEF PCs, Undo
<1>6. \/ \E q : Become(p, s(q))
      \/ Become(p, [r EXCEPT !.pc = "replace"])
      \/ Become(p, Finished(r, "ok")) \/ Become(p, Undoing(r, FALSE))
      \/ Become(p, WriteFailed(r))
  BY <1>1, GateStep DEF WriteSibling, Replace
<1> HIDE DEF s
<1> QED BY <1>3, <1>4, <1>5, <1>6, ForwardHelpers

\* The undoing touches its journal only, and reports when nothing of it is left.
LEMMA UndoBacked ==
  ASSUME JInv, NEW p \in Procs,
         UndoInstall(p) \/ UndoVerify(p) \/ UndoRestart(p) \/ UndoDone(p)
  PROVE Backed'
<1>1. PICK r \in Local : r = proc[p] BY DEF JInv, RInv, IInv, TypeOK
<1>2. r.pc \in Undo
  BY <1>1 DEF UndoInstall, UndoVerify, UndoRestart, UndoDone, At, Undo
<1>3. TrackInv(r) /\ BackInv(r) BY <1>1 DEF JInv, RInv, Tracked, Backed
<1>4. CASE UndoInstall(p)
  <2>1. PICK c \in r.undo :
          \/ Become(p, Dropped(r, c, TRUE)) /\ UNCHANGED runtime
          \/ /\ \E v : runtime' = [runtime EXCEPT ![c] = v]
             /\ \/ BecomeTouching(p, [r EXCEPT !.pc = "undoVerify"], c)
                \/ BecomeTouching(p, Dropped(r, c, TRUE), c)
    BY <1>1, <1>4 DEF UndoInstall
  <2>2. c \in r.journal BY <1>2, <1>3 DEF TrackInv
  <2>3. \A d \in Components : d # c => runtime'[d] = runtime[d]
    BY <2>1 DEF JInv, RInv, IInv, TypeOK
  <2>4. /\ Backward(r, Dropped(r, c, TRUE))
        /\ Backward(r, [r EXCEPT !.pc = "undoVerify"])
    BY <1>2, <2>2, <2>3, BackwardHelpers DEF Undo
  <2> QED BY <1>1, <2>1, <2>3, <2>4, BackStep
<1>5. CASE UndoVerify(p) \/ UndoRestart(p)
  <2>1. PICK c, f, s : /\ \/ s = Dropped(r, c, f) \/ s = [r EXCEPT !.pc = "undoRestart"]
                       /\ Become(p, s) \/ BecomeTouching(p, s, c)
    BY <1>1, <1>5 DEF UndoVerify, UndoRestart
  <2>2. UNCHANGED runtime BY <1>5 DEF UndoVerify, UndoRestart
  <2>3. /\ Backward(r, Dropped(r, c, f))
        /\ Backward(r, [r EXCEPT !.pc = "undoRestart"])
    BY <1>2, <2>2, BackwardHelpers DEF Undo
  <2>4. Backward(r, s) BY <2>1, <2>3
  <2> QED BY <1>1, <2>1, <2>2, <2>4, BackStep
<1>6. CASE UndoDone(p)
  <2> DEFINE s == Finished(r, UndoReport(r))
  <2>1. Become(p, s) /\ UNCHANGED runtime /\ r.undo = {} BY <1>1, <1>6 DEF UndoDone
  <2>2. /\ s.pc = "done" /\ s.result = UndoReport(r) /\ s.foreign = r.foreign
        /\ s.before = r.before
    BY DEF Finished, Local
  <2> HIDE DEF s
  <2>3. ASSUME UndoReport(r) = "rolled_back"
        PROVE \A c \in Components \ r.foreign : runtime[c].ver = r.before[c].ver
    <3>1. r.mode \in {"repair", "advance"} /\ ~r.undoFailed
      BY <1>2, <1>3, <2>3 DEF UndoReport, TrackInv, Local, Modes
    <3>2. \A c \in r.journal \ r.foreign : runtime[c].ver = r.before[c].ver
      BY <1>2, <1>3, <2>1, <3>1 DEF TrackInv, Unwound
    <3>3. \A c \in Components \ (r.journal \cup r.foreign) : runtime[c].ver = r.before[c].ver
      BY <1>2, <1>3, <3>1 DEF BackInv
    <3> QED BY <3>2, <3>3
  <2>4. BackInv(s)' BY <2>1, <2>2, <2>3 DEF BackInv, Undo
  <2> QED BY <2>1, <2>4, BackMoved
<1> QED BY <1>4, <1>5, <1>6

LEMMA ForeignBacked == ASSUME JInv, ForeignInstall PROVE Backed'
<1>1. PICK c \in Components :
          /\ \E a : runtime' = [runtime EXCEPT ![c] = a]
          /\ proc' = [q \in Procs |-> Saw(proc[q], c)]
  BY DEF ForeignInstall
<1>2. \A d \in Components : d # c => runtime'[d] = runtime[d]
  BY <1>1 DEF JInv, RInv, IInv, TypeOK
<1> SUFFICES ASSUME NEW q \in Procs PROVE BackInv(proc[q])' BY DEF Backed
<1>3. PICK t \in Local : t = proc[q] BY DEF JInv, RInv, IInv, TypeOK
<1>4. proc'[q] = Saw(t, c) BY <1>1, <1>3
<1>5. BackInv(Saw(t, c))' BY <1>2, <1>3, BackOthers DEF JInv, Backed
<1> QED BY <1>4, <1>5

LEMMA BackNext == ASSUME FailuresAreClean PROVE JInv /\ [Next]_vars => Backed'
<1> SUFFICES ASSUME JInv, [Next]_vars PROVE Backed' OBVIOUS
<1>1. CASE UNCHANGED vars BY <1>1 DEF vars, JInv, Backed, BackInv
<1>2. CASE ForeignInstall BY <1>2, ForeignBacked
<1>3. ASSUME NEW p \in Procs, Begin(p) \/ Crash(p) PROVE Backed'
  BY <1>3, BeginBacked
<1>4. ASSUME NEW p \in Procs, Work(p) PROVE Backed'
  BY <1>4, BeginBacked, PlanBacked, ApplyBacked, LockBacked, UndoBacked DEF Work
<1> QED BY <1>1, <1>2, <1>3, <1>4 DEF Next

\* "Every mutation is journalled" (upgrade.py:7-9) holds of every component nobody else
\* touched when an installer that fails leaves nothing behind: its effect without a journal
\* entry is the one way to the violation.
THEOREM EveryMutationRolledBackIfClean ==
  ASSUME FailuresAreClean PROVE Spec => []EveryMutationRolledBack
<1>1. Init => JInv
  <2>1. Init => Backed BY DEF Init, Backed, BackInv, Fresh, Undo
  <2>2. Init => Tracked BY TrackInit
  <2> QED BY <2>1, <2>2, InvInit DEF JInv, RInv
<1>2. JInv /\ [Next]_vars => JInv' BY InvNext, TrackNext, BackNext DEF JInv, RInv
<1>3. JInv => EveryMutationRolledBack BY DEF JInv, Backed, BackInv, EveryMutationRolledBack, At
<1> QED BY <1>1, <1>2, <1>3, PTL DEF Spec

=============================================================================

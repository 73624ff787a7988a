--------------------------- MODULE IdentityProofs ---------------------------
(***************************************************************************)
(* Proofs about Identity: what the success of an onboarding or of an       *)
(* offboarding says, for any principals, keys, files and concurrent runs.  *)
(***************************************************************************)
EXTENDS Identity, TLAPS

OnboardPCs == {"overlay", "truncate", "fill", "enroll", "bind", "bindWrite"}
OffboardPCs == {"list", "revoke", "delete", "unbind", "unbindWrite", "remove"}

\* A run that has reported nothing but ok, and is at one of these steps or at the end.
Sofar(p, verb, pcs) ==
    proc[p].verb = verb /\ proc[p].worst = "ok" /\ proc[p].pc \in pcs \cup {"done"}
Calm(p, facet) == facet \notin proc[p].raced

\* Where a run is says what it is.
ControlInv(p) ==
    /\ proc[p].pc # "idle" => proc[p].who \in Principals
    /\ proc[p].pc \in OnboardPCs => proc[p].verb = "onboard"
    /\ proc[p].pc \in OffboardPCs => proc[p].verb = "offboard"

\* A run works on its principal's keys, and deletes those that it revoked itself.
OwnKeysInv(p) ==
    /\ proc[p].left \subseteq KeysOf(proc[p].who)
    /\ proc[p].revoked \subseteq KeysOf(proc[p].who)
    /\ proc[p].refs \subseteq proc[p].revoked
    /\ \A k \in proc[p].revoked : status[k] = "revoked"
    /\ proc[p].pc = "list" => proc[p].revoked = {}

KeysInv(p) ==
    /\ proc[p].pc = "revoke" /\ Calm(p, "keys") => Active(proc[p].who) = proc[p].left
    /\ Sofar(p, "offboard", {"delete", "unbind", "unbindWrite", "remove"}) =>
          /\ Calm(p, "keys") => Active(proc[p].who) = {}
          /\ \A k \in proc[p].revoked : held[k] => proc[p].pc = "delete" /\ k \in proc[p].refs
    /\ Sofar(p, "onboard", {"bind", "bindWrite"}) /\ Calm(p, "keys") =>
          \E k \in Active(proc[p].who) : held[k]

\* What a run has read of the users file is what it rewrites.
UsersInv(p) ==
    /\ proc[p].pc \in {"bindWrite", "unbindWrite"} /\ Calm(p, "users") => proc[p].seen = users
    /\ proc[p].pc = "bindWrite" => proc[p].seen[UserOf[proc[p].who]] = NoOne
    /\ Calm(p, "users") /\ dossier = "local" =>
          /\ Sofar(p, "offboard", {"remove"}) => Bound(users, proc[p].who) = {}
          /\ Sofar(p, "onboard", {}) => users[UserOf[proc[p].who]] = proc[p].who

OverlayInv(p) ==
    Calm(p, "overlay") =>
        /\ Sofar(p, "onboard", {"enroll", "bind", "bindWrite"}) => overlay[Path(p)] = proc[p].text
        /\ Sofar(p, "offboard", {}) /\ ~proc[p].keep => ~overlay[Path(p)].there

RunInv(p) == ControlInv(p) /\ OwnKeysInv(p) /\ KeysInv(p) /\ UsersInv(p) /\ OverlayInv(p)

IInv == TypeOK /\ DeletedOnlyIfRevoked /\ \A p \in Procs : RunInv(p)
-----------------------------------------------------------------------------
(* Helpers *)

LEMMA NoUsersType == NoUsers \in [Users -> Binding]
  BY DEF NoUsers, Binding

LEMMA NoOverlayType == NoOverlay \in Overlay /\ Truncated \in Overlay
  BY DEF NoOverlay, Truncated, Overlay

LEMMA FreshIs ==
  /\ Fresh \in Local
  /\ Fresh.pc = "idle" /\ Fresh.verb = "none" /\ Fresh.who = NoOne /\ Fresh.worst = "ok"
  /\ Fresh.left = {} /\ Fresh.revoked = {} /\ Fresh.refs = {} /\ Fresh.raced = {}
  BY NoUsersType, NoOverlayType DEF Fresh, Local, PCs, Outcomes

LEMMA WorseIs ==
  ASSUME NEW a \in Outcomes, NEW b \in Outcomes
  PROVE  Worse(a, b) \in Outcomes /\ (Worse(a, b) = "ok" <=> a = "ok" /\ b = "ok")
  BY DEF Worse, Outcomes

\* A report changes the worst outcome and where the run is, and forgets the users file.
LEMMA ReportsIs ==
  ASSUME NEW r \in Local, NEW outcome \in Outcomes, NEW next \in PCs
  PROVE  LET s == Reports(r, outcome, next) IN
         /\ s \in Local
         /\ s.pc = next
         /\ s.worst = "ok" <=> r.worst = "ok" /\ outcome = "ok"
         /\ s.verb = r.verb /\ s.who = r.who /\ s.keep = r.keep /\ s.text = r.text
         /\ s.left = r.left /\ s.revoked = r.revoked /\ s.refs = r.refs
         /\ s.raced = r.raced
  <1>1. r.worst \in Outcomes
    BY DEF Local
  <1>2. Worse(r.worst, outcome) \in Outcomes
        /\ (Worse(r.worst, outcome) = "ok" <=> r.worst = "ok" /\ outcome = "ok")
    BY <1>1, WorseIs
  <1> DEFINE w == Worse(r.worst, outcome)
  <1>3. Reports(r, outcome, next) = [r EXCEPT !.worst = w, !.pc = next, !.seen = NoUsers]
    BY DEF Reports
  <1> HIDE DEF w
  <1>4. QED
    BY <1>2, <1>3, NoUsersType DEF Local, w

LEMMA ReadIs ==
  ASSUME NEW r \in Local, NEW facet \in Facets
  PROVE  LET s == Read(r, facet) IN
         /\ s \in Local
         /\ s.pc = r.pc /\ s.worst = r.worst
         /\ s.verb = r.verb /\ s.who = r.who /\ s.keep = r.keep /\ s.text = r.text
         /\ s.left = r.left /\ s.revoked = r.revoked /\ s.refs = r.refs /\ s.seen = r.seen
         /\ s.raced = r.raced \ {facet}
  BY DEF Read, Local, Facets

LEMMA FaultsType ==
  ASSUME TypeOK, NoFault \/ Fault
  PROVE  faults' \in 0 .. MaxFaults
  BY ShapeAssumption DEF TypeOK, NoFault, Fault

-----------------------------------------------------------------------------
(* What a step of one run leaves to the others *)

\* The run q is as it was, but for what the step has written that concerns it.
Undisturbed(q) ==
    /\ proc'[q] = [proc[q] EXCEPT !.raced = proc'[q].raced]
    /\ proc'[q].raced \subseteq Facets /\ proc[q].raced \subseteq proc'[q].raced
    /\ proc[q].pc # "idle" =>
          /\ "keys" \notin proc'[q].raced => \A k \in KeysOf(proc[q].who) :
                status'[k] = status[k] /\ held'[k] = held[k]
          /\ "users" \notin proc'[q].raced => users' = users
          /\ "overlay" \notin proc'[q].raced => overlay'[Path(q)] = overlay[Path(q)]

\* No key comes back from being revoked or, once revoked, from being deleted.
Final == \A k \in Keys : status[k] = "revoked" =>
            status'[k] = "revoked" /\ (held'[k] => held[k])

GlobalsType ==
    /\ status \in [Keys -> {"unused", "active", "revoked"}]
    /\ held \in [Keys -> BOOLEAN]
    /\ users \in [Users -> Binding]
    /\ overlay \in [Paths -> Overlay]

LEMMA BystanderKeeps ==
  ASSUME IInv, NEW q \in Procs, Undisturbed(q), Final, dossier' = dossier
  PROVE  proc'[q] \in Local /\ RunInv(q)'
  <1> DEFINE r == proc[q]
             s == proc'[q]
  <1>0. r \in Local /\ RunInv(q)
    BY DEF IInv, TypeOK
  <1>1. /\ s \in Local
        /\ s.pc = r.pc /\ s.worst = r.worst
        /\ s.verb = r.verb /\ s.who = r.who /\ s.keep = r.keep /\ s.text = r.text
        /\ s.left = r.left /\ s.revoked = r.revoked /\ s.refs = r.refs /\ s.seen = r.seen
        /\ r.raced \subseteq s.raced
    BY <1>0 DEF Undisturbed, Local
  <1>2. ControlInv(q)'
    BY <1>0, <1>1 DEF RunInv, ControlInv
  <1>3. OwnKeysInv(q)'
    BY <1>0, <1>1 DEF RunInv, OwnKeysInv, Final, KeysOf
  <1>4. CASE r.pc = "idle"
    BY <1>1, <1>2, <1>3, <1>4
        DEF RunInv, KeysInv, UsersInv, OverlayInv, Sofar, Calm
  <1>5. CASE r.pc # "idle"
    <2>1. KeysInv(q)'
      <3>1. "keys" \notin s.raced => /\ Active(proc[q].who)' = Active(r.who)
                                     /\ \A k \in KeysOf(r.who) : held'[k] = held[k]
        BY <1>1, <1>5 DEF Undisturbed, Active, KeysOf
      <3>2. \A k \in r.revoked : held'[k] => held[k]
        BY <1>0 DEF RunInv, OwnKeysInv, Final, KeysOf
      <3>3. Active(r.who) \subseteq KeysOf(r.who)
        BY DEF Active
      <3>4. QED
        BY <1>0, <1>1, <3>1, <3>2, <3>3 DEF RunInv, KeysInv, Sofar, Calm
    <2>2. UsersInv(q)'
      <3>1. "users" \notin s.raced => users' = users
        BY <1>5 DEF Undisturbed
      <3>2. QED
        BY <1>0, <1>1, <3>1 DEF RunInv, UsersInv, Sofar, Calm, Bound
    <2>3. OverlayInv(q)'
      <3>1. "overlay" \notin s.raced => overlay'[Path(q)] = overlay[Path(q)]
        BY <1>5 DEF Undisturbed
      <3>2. Path(q)' = Path(q)
        BY <1>1 DEF Path
      <3>3. QED
        BY <1>0, <1>1, <3>1, <3>2 DEF RunInv, OverlayInv, Sofar, Calm
    <2>4. QED
      BY <1>1, <1>2, <1>3, <2>1, <2>2, <2>3 DEF RunInv
  <1>6. QED
    BY <1>4, <1>5

\* What is left to prove of a step is its own run.
LEMMA StepKeeps ==
  ASSUME IInv, NEW p \in Procs, GlobalsType', DeletedOnlyIfRevoked', Final,
         dossier' = dossier, NoFault \/ Fault,
         DOMAIN proc' = Procs, proc' = [q \in Procs |-> proc'[q]],
         proc'[p] \in Local, RunInv(p)',
         \A q \in Procs \ {p} : Undisturbed(q)
  PROVE  IInv'
  <1>1. \A q \in Procs : proc'[q] \in Local /\ RunInv(q)'
    BY BystanderKeeps
  <1>2. proc' \in [Procs -> Local]
    BY <1>1
  <1>3. faults' \in 0 .. MaxFaults
    BY FaultsType DEF IInv
  <1>4. TypeOK'
    BY <1>2, <1>3 DEF IInv, TypeOK, GlobalsType
  <1>5. QED
    BY <1>1, <1>4 DEF IInv

\* A step that changes nothing but its own run.
LEMMA AloneKeeps ==
  ASSUME IInv, NEW p \in Procs, NEW r \in Local, Become(p, r), NoFault \/ Fault,
         UNCHANGED <<status, held, users, overlay, dossier>>,
         RunInv(p)'
  PROVE  IInv'
  <1>1. proc \in [Procs -> Local]
    BY DEF IInv, TypeOK
  <1>2. /\ DOMAIN proc' = Procs /\ proc' = [q \in Procs |-> proc'[q]]
        /\ proc'[p] = r
        /\ \A q \in Procs \ {p} : proc'[q] = proc[q]
    BY <1>1 DEF Become
  <1>3. ASSUME NEW q \in Procs \ {p}
        PROVE  Undisturbed(q)
    <2>1. proc'[q] = proc[q] /\ proc[q] \in Local
      BY <1>1, <1>2
    <2>2. QED
      BY <2>1 DEF Undisturbed, Local
  <1>4. GlobalsType' /\ DeletedOnlyIfRevoked' /\ Final
    BY DEF GlobalsType, IInv, TypeOK, DeletedOnlyIfRevoked, Final
  <1>5. QED
    BY <1>2, <1>3, <1>4, StepKeeps

\* A step that writes one of the three things that runs share.
LEMMA TouchingKeeps ==
  ASSUME IInv, NEW p \in Procs, NEW r \in Local, NEW facet \in Facets,
         BecomeTouching(p, r, facet), NoFault \/ Fault, proc[p].pc # "idle",
         facet = "keys" \/ UNCHANGED <<status, held>>,
         facet = "users" \/ UNCHANGED users,
         facet = "overlay" \/ UNCHANGED overlay,
         \A k \in Keys \ KeysOf(proc[p].who) : status'[k] = status[k] /\ held'[k] = held[k],
         \A path \in Paths \ {Path(p)} : overlay'[path] = overlay[path],
         dossier' = dossier,
         GlobalsType', DeletedOnlyIfRevoked', Final, RunInv(p)'
  PROVE  IInv'
  <1>1. proc \in [Procs -> Local]
    BY DEF IInv, TypeOK
  <1>2. /\ DOMAIN proc' = Procs /\ proc' = [q \in Procs |-> proc'[q]]
        /\ proc'[p] = r
    BY DEF BecomeTouching
  <1>3. ASSUME NEW q \in Procs \ {p}
        PROVE  Undisturbed(q)
    <2>1. proc[q] \in Local /\ proc[q].raced \subseteq Facets
      BY <1>1 DEF Local
    <2>2. CASE proc[q].pc # "idle" /\ Concerns(facet, q, p)
      <3>1. proc'[q] = [proc[q] EXCEPT !.raced = @ \cup {facet}]
        BY <2>2 DEF BecomeTouching
      <3>2. proc'[q].raced = proc[q].raced \cup {facet}
        BY <2>1, <3>1 DEF Local
      <3>3. proc'[q] = [proc[q] EXCEPT !.raced = proc'[q].raced]
        BY <3>1, <3>2
      <3>4. QED
        BY <2>1, <3>2, <3>3 DEF Undisturbed
    <2>3. CASE ~(proc[q].pc # "idle" /\ Concerns(facet, q, p))
      <3>1. proc'[q] = proc[q]
        BY <2>3 DEF BecomeTouching
      <3>2. ASSUME proc[q].pc # "idle"
            PROVE  /\ \A k \in KeysOf(proc[q].who) : status'[k] = status[k] /\ held'[k] = held[k]
                   /\ users' = users
                   /\ overlay'[Path(q)] = overlay[Path(q)]
        <4>1. proc[q].who \in Principals
          BY <3>2 DEF IInv, RunInv, ControlInv
        <4>2. Path(q) \in Paths
          BY <4>1, ShapeAssumption DEF Path
        <4>3. facet = "keys" => proc[q].who # proc[p].who
          BY <2>3, <3>2 DEF Concerns
        <4>4. facet # "users"
          BY <2>3, <3>2 DEF Concerns
        <4>5. facet = "overlay" => Path(q) # Path(p)
          BY <2>3, <3>2 DEF Concerns
        <4>6. \A k \in KeysOf(proc[q].who) : status'[k] = status[k] /\ held'[k] = held[k]
          BY <4>3 DEF KeysOf
        <4>7. QED
          BY <4>2, <4>4, <4>5, <4>6
      <3>3. QED
        BY <2>1, <3>1, <3>2 DEF Undisturbed, Local
    <2>4. QED
      BY <2>2, <2>3
  <1>4. QED
    BY <1>2, <1>3, StepKeeps

-----------------------------------------------------------------------------
(* Onboarding *)

LEMMA Steps == OnboardPCs \cup OffboardPCs \cup {"idle", "done"} = PCs
  BY DEF OnboardPCs, OffboardPCs, PCs

\* What is known of a run before its step.
LEMMA RunIs ==
  ASSUME IInv, NEW p \in Procs
  PROVE  proc[p] \in Local /\ RunInv(p) /\ proc \in [Procs -> Local]
  BY DEF IInv, TypeOK

LEMMA BecomeIs ==
  ASSUME proc \in [Procs -> Local], NEW p \in Procs, NEW r,
         Become(p, r) \/ \E facet \in Facets : BecomeTouching(p, r, facet)
  PROVE  proc'[p] = r
  BY DEF Become, BecomeTouching

LEMMA BeginOnboardKeeps ==
  ASSUME IInv, NEW p \in Procs, NEW who \in Principals, BeginOnboard(p, who)
  PROVE  IInv'
  <1> DEFINE r == [Fresh EXCEPT !.pc = "overlay", !.verb = "onboard", !.who = who]
  <1>1. /\ r \in Local
        /\ r.pc = "overlay" /\ r.verb = "onboard" /\ r.who = who
        /\ r.left = {} /\ r.revoked = {} /\ r.refs = {}
    BY FreshIs DEF Local, PCs
  <1> HIDE DEF r
  <1>2. Become(p, r) /\ NoFault /\ UNCHANGED <<status, held, users, overlay, dossier>>
    BY DEF BeginOnboard, r
  <1>3. proc'[p] = r
    BY <1>2, RunIs, BecomeIs
  <1>4. RunInv(p)'
    BY <1>1, <1>3 DEF RunInv, ControlInv, OwnKeysInv, KeysInv, UsersInv, OverlayInv, Sofar,
                      OnboardPCs, OffboardPCs
  <1>5. QED
    BY <1>1, <1>2, <1>4, AloneKeeps

LEMMA ReadOverlayKeeps ==
  ASSUME IInv, NEW p \in Procs, ReadOverlay(p)
  PROVE  IInv'
  <1> DEFINE old == overlay[Path(p)]
             merged == [old EXCEPT !.there = TRUE, !.who = proc[p].who]
             s == Read(proc[p], "overlay")
             t == [s EXCEPT !.text = merged]
             r == IF old = merged THEN Reports(t, "ok", "enroll") ELSE [t EXCEPT !.pc = "truncate"]
  <1>0. /\ proc[p] \in Local /\ RunInv(p) /\ proc[p].pc = "overlay"
        /\ proc[p].who \in Principals /\ proc[p].verb = "onboard"
    BY RunIs DEF ReadOverlay, At, RunInv, ControlInv, OnboardPCs
  <1>1. Path(p) \in Paths /\ old \in Overlay
    BY <1>0, ShapeAssumption DEF Path, IInv, TypeOK
  <1>2. merged \in Overlay
    BY <1>0, <1>1 DEF Overlay
  <1>3. s \in Local /\ s.who = proc[p].who /\ s.verb = "onboard"
        /\ s.left = proc[p].left /\ s.revoked = proc[p].revoked /\ s.refs = proc[p].refs
    BY <1>0, ReadIs DEF Facets
  <1> HIDE DEF old, merged, s
  <1>4. t \in Local /\ t.who = proc[p].who /\ t.verb = "onboard" /\ t.text = merged
        /\ t.left = proc[p].left /\ t.revoked = proc[p].revoked /\ t.refs = proc[p].refs
    BY <1>2, <1>3 DEF Local
  <1> HIDE DEF t
  <1>5. /\ r \in Local /\ r.who = proc[p].who /\ r.verb = "onboard" /\ r.text = merged
        /\ r.left = proc[p].left /\ r.revoked = proc[p].revoked /\ r.refs = proc[p].refs
        /\ r.pc \in {"enroll", "truncate"} /\ (r.pc = "enroll" => old = merged)
    <2>1. CASE old = merged
      BY <1>4, <2>1, ReportsIs DEF Outcomes, PCs
    <2>2. CASE old # merged
      BY <1>4, <2>2 DEF Local, PCs
    <2>3. QED
      BY <2>1, <2>2
  <1>6. Become(p, r) /\ NoFault /\ UNCHANGED <<status, held, users, overlay, dossier>>
    BY DEF ReadOverlay, r, t, s, merged, old
  <1> HIDE DEF r
  <1>7. proc'[p] = r
    BY <1>6, RunIs, BecomeIs
  <1>8. ControlInv(p)' /\ OwnKeysInv(p)'
    BY <1>0, <1>5, <1>6, <1>7 DEF RunInv, ControlInv, OwnKeysInv, OnboardPCs, OffboardPCs, KeysOf
  <1>9. KeysInv(p)' /\ UsersInv(p)'
    BY <1>5, <1>7 DEF KeysInv, UsersInv, Sofar
  <1>10. Path(p)' = Path(p)
    BY <1>5, <1>7 DEF Path
  <1>11. OverlayInv(p)'
    BY <1>5, <1>6, <1>7, <1>10 DEF OverlayInv, Sofar, old
  <1>12. QED
    BY <1>5, <1>6, <1>8, <1>9, <1>11, AloneKeeps DEF RunInv

\* A run that reports a failure says nothing more of what it touched.
LEMMA FailedInv ==
  ASSUME IInv, NEW p \in Procs, NEW r \in Local, proc'[p] = r, Final,
         r.worst # "ok", r.pc \in PCs \ {"revoke", "bindWrite", "unbindWrite", "idle", "list"},
         r.who \in Principals, r.left \subseteq KeysOf(r.who),
         r.revoked \subseteq KeysOf(r.who), r.refs \subseteq r.revoked,
         \A k \in r.revoked : status'[k] = "revoked",
         r.pc \in OnboardPCs => r.verb = "onboard",
         r.pc \in OffboardPCs => r.verb = "offboard"
  PROVE  RunInv(p)'
  <1>1. ControlInv(p)' /\ OwnKeysInv(p)'
    BY DEF ControlInv, OwnKeysInv, KeysOf
  <1>2. KeysInv(p)' /\ UsersInv(p)' /\ OverlayInv(p)'
    BY DEF KeysInv, UsersInv, OverlayInv, Sofar
  <1>3. QED
    BY <1>1, <1>2 DEF RunInv

\* A step of a run that fails, without an effect.
LEMMA FailingKeeps ==
  ASSUME IInv, NEW p \in Procs, NEW r \in Local, NEW outcome \in Outcomes \ {"ok"},
         NEW next \in {"enroll", "bind", "done", "unbind", "remove", "delete"},
         proc[p].pc # "idle",
         r.who = proc[p].who, r.verb = proc[p].verb, r.left = proc[p].left,
         r.revoked = proc[p].revoked, r.refs \subseteq proc[p].refs,
         Become(p, Reports(r, outcome, next)), NoFault \/ Fault,
         next \in OnboardPCs => r.verb = "onboard",
         next \in OffboardPCs => r.verb = "offboard",
         UNCHANGED <<status, held, users, overlay, dossier>>
  PROVE  IInv'
  <1> DEFINE t == Reports(r, outcome, next)
  <1>0. proc[p] \in Local /\ RunInv(p)
    BY RunIs
  <1>1. outcome \in Outcomes /\ next \in PCs \ {"revoke", "bindWrite", "unbindWrite", "idle", "list"}
    BY DEF Outcomes, PCs
  <1>2. /\ t \in Local /\ t.pc = next /\ t.worst # "ok" /\ t.who = r.who /\ t.verb = r.verb
        /\ t.left = r.left /\ t.revoked = r.revoked /\ t.refs = r.refs
    BY <1>1, ReportsIs
  <1>3. Become(p, t)
    OBVIOUS
  <1> HIDE DEF t
  <1>4. proc'[p] = t
    BY <1>3, RunIs, BecomeIs
  <1>5. Final
    BY DEF Final
  <1>6. /\ t.who \in Principals /\ t.left \subseteq KeysOf(t.who)
        /\ t.revoked \subseteq KeysOf(t.who) /\ t.refs \subseteq t.revoked
        /\ \A k \in t.revoked : status'[k] = "revoked"
    BY <1>0, <1>2 DEF RunInv, ControlInv, OwnKeysInv
  <1>7. RunInv(p)'
    BY <1>1, <1>2, <1>4, <1>5, <1>6, FailedInv
  <1>8. QED
    BY <1>2, <1>3, <1>7, AloneKeeps

LEMMA TruncateOverlayKeeps ==
  ASSUME IInv, NEW p \in Procs, TruncateOverlay(p)
  PROVE  IInv'
  <1>0. /\ proc[p] \in Local /\ RunInv(p) /\ proc[p].pc = "truncate"
        /\ proc[p].who \in Principals /\ proc[p].verb = "onboard"
    BY RunIs DEF TruncateOverlay, At, RunInv, ControlInv, OnboardPCs
  <1>1. Path(p) \in Paths
    BY <1>0, ShapeAssumption DEF Path
  <1>2. CASE BecomeTouching(p, [proc[p] EXCEPT !.pc = "fill"], "overlay") /\ NoFault
             /\ overlay' = [overlay EXCEPT ![Path(p)] = Truncated]
             /\ UNCHANGED <<status, held, users, dossier>>
    <2> DEFINE r == [proc[p] EXCEPT !.pc = "fill"]
    <2>1. /\ r \in Local /\ r.pc = "fill" /\ r.who = proc[p].who /\ r.verb = "onboard"
          /\ r.left = proc[p].left /\ r.revoked = proc[p].revoked /\ r.refs = proc[p].refs
      BY <1>0 DEF Local, PCs
    <2>2. BecomeTouching(p, r, "overlay")
      BY <1>2
    <2> HIDE DEF r
    <2>3. proc'[p] = r
      BY <2>2, RunIs, BecomeIs DEF Facets
    <2>4. RunInv(p)'
      BY <1>0, <1>2, <2>1, <2>3 DEF RunInv, ControlInv, OwnKeysInv, KeysInv, UsersInv, OverlayInv,
                                    Sofar, OnboardPCs, OffboardPCs, KeysOf
    <2>5. GlobalsType' /\ DeletedOnlyIfRevoked' /\ Final
          /\ \A path \in Paths \ {Path(p)} : overlay'[path] = overlay[path]
      BY <1>1, <1>2, NoOverlayType DEF GlobalsType, IInv, TypeOK, DeletedOnlyIfRevoked, Final
    <2>6. QED
      BY <1>0, <1>2, <2>1, <2>2, <2>4, <2>5, TouchingKeeps DEF Facets
  <1>3. CASE Become(p, Reports(proc[p], "failed", "enroll")) /\ Fault
             /\ UNCHANGED <<status, held, users, overlay, dossier>>
    BY <1>0, <1>3, FailingKeeps DEF Outcomes, OffboardPCs
  <1>4. QED
    BY <1>2, <1>3 DEF TruncateOverlay

LEMMA FillOverlayKeeps ==
  ASSUME IInv, NEW p \in Procs, FillOverlay(p)
  PROVE  IInv'
  <1>0. /\ proc[p] \in Local /\ RunInv(p) /\ proc[p].pc = "fill"
        /\ proc[p].who \in Principals /\ proc[p].verb = "onboard"
    BY RunIs DEF FillOverlay, At, RunInv, ControlInv, OnboardPCs
  <1>1. Path(p) \in Paths /\ proc[p].text \in Overlay
    BY <1>0, ShapeAssumption DEF Path, Local
  <1>2. CASE BecomeTouching(p, Reports(proc[p], "ok", "enroll"), "overlay") /\ NoFault
             /\ overlay' = [overlay EXCEPT ![Path(p)] = proc[p].text]
             /\ UNCHANGED <<status, held, users, dossier>>
    <2> DEFINE r == Reports(proc[p], "ok", "enroll")
    <2>1. /\ r \in Local /\ r.pc = "enroll" /\ r.who = proc[p].who /\ r.verb = "onboard"
          /\ r.left = proc[p].left /\ r.revoked = proc[p].revoked /\ r.refs = proc[p].refs
          /\ r.text = proc[p].text
      BY <1>0, ReportsIs DEF Outcomes, PCs
    <2>2. BecomeTouching(p, r, "overlay")
      BY <1>2
    <2> HIDE DEF r
    <2>3. proc'[p] = r
      BY <2>2, RunIs, BecomeIs DEF Facets
    <2>4. ControlInv(p)' /\ OwnKeysInv(p)' /\ KeysInv(p)' /\ UsersInv(p)'
      BY <1>0, <1>2, <2>1, <2>3 DEF RunInv, ControlInv, OwnKeysInv, KeysInv, UsersInv,
                                    Sofar, OnboardPCs, OffboardPCs, KeysOf
    <2>5. Path(p)' = Path(p) /\ overlay'[Path(p)] = r.text
      BY <1>1, <1>2, <2>1, <2>3 DEF Path, IInv, TypeOK
    <2>6. OverlayInv(p)'
      BY <2>1, <2>3, <2>5 DEF OverlayInv, Sofar
    <2>7. GlobalsType' /\ DeletedOnlyIfRevoked' /\ Final
          /\ \A path \in Paths \ {Path(p)} : overlay'[path] = overlay[path]
      BY <1>1, <1>2 DEF GlobalsType, IInv, TypeOK, DeletedOnlyIfRevoked, Final
    <2>8. QED
      BY <1>0, <1>2, <2>1, <2>2, <2>4, <2>6, <2>7, TouchingKeeps DEF Facets, RunInv
  <1>3. CASE Become(p, Reports(proc[p], "failed", "enroll")) /\ Fault
             /\ UNCHANGED <<status, held, users, overlay, dossier>>
    BY <1>0, <1>3, FailingKeeps DEF Outcomes, OffboardPCs
  <1>4. QED
    BY <1>2, <1>3 DEF FillOverlay

\* What a run has found of its overlay and of its keys stays found while it goes on.
LEMMA OverlayStays ==
  ASSUME IInv, NEW p \in Procs, NEW r \in Local, proc'[p] = r, UNCHANGED overlay,
         r.who = proc[p].who, r.verb = proc[p].verb, r.text = proc[p].text,
         r.verb = "onboard", proc[p].pc \in {"enroll", "bind", "bindWrite"},
         "overlay" \in proc[p].raced => "overlay" \in r.raced,
         r.worst = "ok" => proc[p].worst = "ok"
  PROVE  OverlayInv(p)'
  <1>1. OverlayInv(p) /\ Path(p)' = Path(p)
    BY RunIs DEF RunInv, Path
  <1>2. QED
    BY <1>1 DEF OverlayInv, Sofar, Calm

LEMMA OwnStays ==
  ASSUME IInv, NEW p \in Procs, NEW r \in Local, proc'[p] = r, UNCHANGED status,
         r.who = proc[p].who, r.verb = proc[p].verb, proc[p].pc # "idle", r.pc # "list",
         r.pc \in OnboardPCs => r.verb = "onboard",
         r.pc \in OffboardPCs => r.verb = "offboard",
         r.left \subseteq KeysOf(r.who), r.revoked = proc[p].revoked, r.refs \subseteq r.revoked
  PROVE  ControlInv(p)' /\ OwnKeysInv(p)'
  <1>1. ControlInv(p) /\ OwnKeysInv(p)
    BY RunIs DEF RunInv
  <1>2. QED
    BY <1>1 DEF ControlInv, OwnKeysInv, KeysOf

LEMMA KeysStay ==
  ASSUME IInv, NEW p \in Procs, NEW r \in Local, proc'[p] = r, UNCHANGED <<status, held>>,
         r.who = proc[p].who, r.verb = proc[p].verb, r.revoked = proc[p].revoked,
         \/ proc[p].pc \in {"bind", "bindWrite"} /\ r.verb = "onboard"
         \/ proc[p].pc \in {"unbind", "unbindWrite", "remove"} /\ r.verb = "offboard",
         r.pc # "revoke",
         "keys" \in proc[p].raced => "keys" \in r.raced,
         r.worst = "ok" => proc[p].worst = "ok"
  PROVE  KeysInv(p)'
  <1>1. KeysInv(p)
    BY RunIs DEF RunInv
  <1>2. Active(proc[p].who)' = Active(proc[p].who)
    BY DEF Active, KeysOf
  <1>3. QED
    BY <1>1, <1>2 DEF KeysInv, Sofar, Calm

LEMMA EnrollKeeps ==
  ASSUME IInv, NEW p \in Procs, Enroll(p)
  PROVE  IInv'
  <1> DEFINE r == Read(proc[p], "keys")
             free == {k \in KeysOf(r.who) : status[k] = "unused"}
  <1>0. /\ proc[p] \in Local /\ RunInv(p) /\ proc[p].pc = "enroll"
        /\ proc[p].who \in Principals /\ proc[p].verb = "onboard"
    BY RunIs DEF Enroll, At, RunInv, ControlInv, OnboardPCs
  <1>1. /\ r \in Local /\ r.pc = "enroll" /\ r.who = proc[p].who /\ r.verb = "onboard"
        /\ r.left = proc[p].left /\ r.revoked = proc[p].revoked /\ r.refs = proc[p].refs
        /\ r.text = proc[p].text /\ r.worst = proc[p].worst
        /\ r.raced = proc[p].raced \ {"keys"}
    BY <1>0, ReadIs DEF Facets
  <1>2. UNCHANGED <<users, overlay, dossier>>
    BY DEF Enroll
  <1>e. \/ Active(r.who) # {} /\ NoFault /\ Become(p, Reports(r, "ok", "bind"))
           /\ UNCHANGED <<status, held>>
        \/ \E outcome \in {"refused", "failed"} :
              Become(p, Reports(r, outcome, "bind")) /\ (NoFault \/ Fault)
              /\ UNCHANGED <<status, held>>
        \/ \E k \in free, outcome \in {"ok", "failed"} :
              /\ status' = [status EXCEPT ![k] = "active"]
              /\ held' = [held EXCEPT ![k] = TRUE]
              /\ (NoFault \/ Fault) /\ BecomeTouching(p, Reports(r, outcome, "bind"), "keys")
    BY DEF Enroll
  <1> HIDE DEF r
  <1>3. CASE Active(r.who) # {} /\ NoFault /\ Become(p, Reports(r, "ok", "bind"))
             /\ UNCHANGED <<status, held>>
    <2> DEFINE t == Reports(r, "ok", "bind")
    <2>1. /\ t \in Local /\ t.pc = "bind" /\ t.who = proc[p].who /\ t.verb = "onboard"
          /\ t.left = proc[p].left /\ t.revoked = proc[p].revoked /\ t.refs = proc[p].refs
          /\ t.text = proc[p].text /\ t.raced = proc[p].raced \ {"keys"}
          /\ (t.worst = "ok" => proc[p].worst = "ok")
      BY <1>1, ReportsIs DEF Outcomes, PCs
    <2>2. Become(p, t)
      BY <1>3
    <2> HIDE DEF t
    <2>3. proc'[p] = t
      BY <2>2, RunIs, BecomeIs
    <2>4. ControlInv(p)' /\ OwnKeysInv(p)'
      BY <1>0, <1>3, <2>1, <2>3, OwnStays DEF RunInv, OwnKeysInv, OffboardPCs
    <2>5. OverlayInv(p)'
      BY <1>0, <1>2, <2>1, <2>3, OverlayStays
    <2>6. \E k \in Active(proc[p].who) : held[k]
      BY <1>1, <1>3 DEF Active, KeysOf, IInv, DeletedOnlyIfRevoked
    <2>7. \E k \in Active(proc[p].who)' : held'[k]
      BY <1>3, <2>1, <2>3, <2>6 DEF Active, KeysOf
    <2>8. KeysInv(p)' /\ UsersInv(p)'
      BY <2>1, <2>3, <2>7 DEF KeysInv, UsersInv, Sofar
    <2>9. QED
      BY <1>2, <1>3, <2>1, <2>2, <2>4, <2>5, <2>8, AloneKeeps DEF RunInv
  <1>4. ASSUME NEW outcome \in {"refused", "failed"},
               Become(p, Reports(r, outcome, "bind")), NoFault \/ Fault,
               UNCHANGED <<status, held>>
        PROVE  IInv'
    BY <1>0, <1>1, <1>2, <1>4, FailingKeeps DEF Outcomes, OffboardPCs
  <1>5. ASSUME NEW k \in free, NEW outcome \in {"ok", "failed"},
               status' = [status EXCEPT ![k] = "active"], held' = [held EXCEPT ![k] = TRUE],
               NoFault \/ Fault, BecomeTouching(p, Reports(r, outcome, "bind"), "keys")
        PROVE  IInv'
    <2> DEFINE t == Reports(r, outcome, "bind")
    <2>1. /\ t \in Local /\ t.pc = "bind" /\ t.who = proc[p].who /\ t.verb = "onboard"
          /\ t.left = proc[p].left /\ t.revoked = proc[p].revoked /\ t.refs = proc[p].refs
          /\ t.text = proc[p].text /\ t.raced = proc[p].raced \ {"keys"}
          /\ (t.worst = "ok" => proc[p].worst = "ok")
      BY <1>1, ReportsIs DEF Outcomes, PCs
    <2>2. BecomeTouching(p, t, "keys")
      BY <1>5
    <2> HIDE DEF t
    <2>3. proc'[p] = t
      BY <2>2, RunIs, BecomeIs DEF Facets
    <2>4. k \in KeysOf(proc[p].who) /\ k \in Keys /\ status[k] = "unused"
      BY <1>1 DEF KeysOf
    <2>5. /\ \A j \in Keys \ {k} : status'[j] = status[j] /\ held'[j] = held[j]
          /\ status'[k] = "active" /\ held'[k]
      BY <1>5, <2>4 DEF IInv, TypeOK
    <2>6. GlobalsType' /\ DeletedOnlyIfRevoked' /\ Final
      <3>1. GlobalsType'
        BY <1>2, <1>5, <2>4 DEF GlobalsType, IInv, TypeOK
      <3>2. DeletedOnlyIfRevoked' /\ Final
        BY <2>4, <2>5 DEF IInv, DeletedOnlyIfRevoked, Final
      <3>3. QED
        BY <3>1, <3>2
    <2>7. \A j \in Keys \ KeysOf(proc[p].who) : status'[j] = status[j] /\ held'[j] = held[j]
      BY <2>4, <2>5
    <2>8. ControlInv(p)'
      BY <1>0, <2>1, <2>3 DEF ControlInv, OnboardPCs, OffboardPCs
    <2>9. OwnKeysInv(p)'
      BY <1>0, <2>1, <2>3, <2>6 DEF RunInv, OwnKeysInv, KeysOf, Final
    <2>10. OverlayInv(p)'
      BY <1>0, <1>2, <2>1, <2>3, OverlayStays
    <2>11. k \in Active(proc[p].who)' /\ held'[k]
      BY <2>1, <2>3, <2>4, <2>5 DEF Active, KeysOf
    <2>12. KeysInv(p)' /\ UsersInv(p)'
      BY <2>1, <2>3, <2>11 DEF KeysInv, UsersInv, Sofar
    <2>13. QED
      BY <1>0, <1>2, <1>5, <2>1, <2>2, <2>6, <2>7, <2>8, <2>9, <2>10, <2>12, TouchingKeeps
          DEF RunInv, Facets
  <1>6. QED
    BY <1>2, <1>3, <1>4, <1>5, <1>e

LEMMA BindKeeps ==
  ASSUME IInv, NEW p \in Procs, Bind(p)
  PROVE  IInv'
  <1> DEFINE r == Read(proc[p], "users")
             found == users[UserOf[r.who]]
             verdict == BindVerdict(found, r.who)
  <1>0. /\ proc[p] \in Local /\ RunInv(p) /\ proc[p].pc = "bind"
        /\ proc[p].who \in Principals /\ proc[p].verb = "onboard"
    BY RunIs DEF Bind, At, RunInv, ControlInv, OnboardPCs
  <1>1. /\ r \in Local /\ r.pc = "bind" /\ r.who = proc[p].who /\ r.verb = "onboard"
        /\ r.left = proc[p].left /\ r.revoked = proc[p].revoked /\ r.refs = proc[p].refs
        /\ r.text = proc[p].text /\ r.worst = proc[p].worst
        /\ r.raced = proc[p].raced \ {"users"}
    BY <1>0, ReadIs DEF Facets
  <1>2. UNCHANGED <<status, held, users, overlay, dossier>>
    BY DEF Bind
  <1>3. /\ verdict \in {"ok", "manual", "write", "refused"}
        /\ verdict = "write" => found = NoOne
        /\ verdict = "ok" /\ dossier = "local" => found = r.who
    BY DEF BindVerdict
  <1>e. \/ /\ verdict # "write" /\ (NoFault \/ Fault) /\ Become(p, Reports(r, verdict, "done"))
        \/ /\ verdict = "write" /\ (NoFault \/ Fault)
           /\ Become(p, [r EXCEPT !.pc = "bindWrite", !.seen = users])
        \/ (NoFault \/ Fault) /\ Become(p, Reports(r, "failed", "done"))
    BY DEF Bind
  <1> HIDE DEF r, verdict
  <1>4. CASE verdict # "write" /\ (NoFault \/ Fault) /\ Become(p, Reports(r, verdict, "done"))
    <2> DEFINE t == Reports(r, verdict, "done")
    <2>1. /\ t \in Local /\ t.pc = "done" /\ t.who = proc[p].who /\ t.verb = "onboard"
          /\ t.left = proc[p].left /\ t.revoked = proc[p].revoked /\ t.refs = proc[p].refs
          /\ t.text = proc[p].text /\ t.raced = proc[p].raced \ {"users"}
          /\ (t.worst = "ok" => proc[p].worst = "ok" /\ verdict = "ok")
      BY <1>1, <1>3, <1>4, ReportsIs DEF Outcomes, PCs
    <2>2. Become(p, t)
      BY <1>4
    <2> HIDE DEF t
    <2>3. proc'[p] = t
      BY <2>2, RunIs, BecomeIs
    <2>4. ControlInv(p)' /\ OwnKeysInv(p)'
      BY <1>0, <1>2, <2>1, <2>3, OwnStays DEF RunInv, OwnKeysInv, OnboardPCs, OffboardPCs
    <2>5. OverlayInv(p)' /\ KeysInv(p)'
      BY <1>0, <1>2, <2>1, <2>3, OverlayStays, KeysStay
    <2>6. UsersInv(p)'
      BY <1>1, <1>2, <1>3, <2>1, <2>3 DEF UsersInv, Sofar
    <2>7. QED
      BY <1>2, <1>4, <2>1, <2>2, <2>4, <2>5, <2>6, AloneKeeps DEF RunInv
  <1>5. CASE verdict = "write" /\ (NoFault \/ Fault)
             /\ Become(p, [r EXCEPT !.pc = "bindWrite", !.seen = users])
    <2> DEFINE t == [r EXCEPT !.pc = "bindWrite", !.seen = users]
    <2>1. /\ t \in Local /\ t.pc = "bindWrite" /\ t.who = proc[p].who /\ t.verb = "onboard"
          /\ t.left = proc[p].left /\ t.revoked = proc[p].revoked /\ t.refs = proc[p].refs
          /\ t.text = proc[p].text /\ t.raced = proc[p].raced \ {"users"}
          /\ t.worst = proc[p].worst /\ t.seen = users
      BY <1>1 DEF IInv, TypeOK, Local, PCs
    <2>2. Become(p, t)
      BY <1>5
    <2> HIDE DEF t
    <2>3. proc'[p] = t
      BY <2>2, RunIs, BecomeIs
    <2>4. ControlInv(p)' /\ OwnKeysInv(p)'
      BY <1>0, <1>2, <2>1, <2>3, OwnStays DEF RunInv, OwnKeysInv, OffboardPCs
    <2>5. OverlayInv(p)' /\ KeysInv(p)'
      BY <1>0, <1>2, <2>1, <2>3, OverlayStays, KeysStay
    <2>6. UsersInv(p)'
      BY <1>1, <1>2, <1>3, <1>5, <2>1, <2>3 DEF UsersInv, Sofar
    <2>7. QED
      BY <1>2, <1>5, <2>1, <2>2, <2>4, <2>5, <2>6, AloneKeeps DEF RunInv
  <1>6. CASE (NoFault \/ Fault) /\ Become(p, Reports(r, "failed", "done"))
    BY <1>0, <1>1, <1>2, <1>6, FailingKeeps DEF Outcomes, OnboardPCs, OffboardPCs
  <1>7. QED
    BY <1>4, <1>5, <1>6, <1>e

LEMMA BindWriteKeeps ==
  ASSUME IInv, NEW p \in Procs, BindWrite(p)
  PROVE  IInv'
  <1> DEFINE u == UserOf[proc[p].who]
             entries == [proc[p].seen EXCEPT ![u] = proc[p].who]
  <1>0. /\ proc[p] \in Local /\ RunInv(p) /\ proc[p].pc = "bindWrite"
        /\ proc[p].who \in Principals /\ proc[p].verb = "onboard"
    BY RunIs DEF BindWrite, At, RunInv, ControlInv, OnboardPCs
  <1>1. u \in Users /\ proc[p].seen \in [Users -> Binding]
    BY <1>0, ShapeAssumption DEF Local
  <1>2. entries \in [Users -> Binding] /\ entries[u] = proc[p].who
    BY <1>0, <1>1 DEF Binding
  <1>3. CASE users' = entries /\ BecomeTouching(p, Reports(proc[p], "ok", "done"), "users")
             /\ NoFault /\ UNCHANGED <<status, held, overlay, dossier>>
    <2> DEFINE t == Reports(proc[p], "ok", "done")
    <2>1. /\ t \in Local /\ t.pc = "done" /\ t.who = proc[p].who /\ t.verb = "onboard"
          /\ t.left = proc[p].left /\ t.revoked = proc[p].revoked /\ t.refs = proc[p].refs
          /\ t.text = proc[p].text /\ t.raced = proc[p].raced
          /\ (t.worst = "ok" => proc[p].worst = "ok")
      BY <1>0, ReportsIs DEF Outcomes, PCs
    <2>2. BecomeTouching(p, t, "users")
      BY <1>3
    <2> HIDE DEF t
    <2>3. proc'[p] = t
      BY <2>2, RunIs, BecomeIs DEF Facets
    <2>4. ControlInv(p)' /\ OwnKeysInv(p)'
      BY <1>0, <1>3, <2>1, <2>3, OwnStays DEF RunInv, OwnKeysInv, OnboardPCs, OffboardPCs
    <2>5. OverlayInv(p)' /\ KeysInv(p)'
      BY <1>0, <1>3, <2>1, <2>3, OverlayStays, KeysStay
    <2>6. UsersInv(p)'
      BY <1>2, <1>3, <2>1, <2>3 DEF UsersInv, Sofar
    <2>7. GlobalsType' /\ DeletedOnlyIfRevoked' /\ Final
      BY <1>2, <1>3 DEF GlobalsType, IInv, TypeOK, DeletedOnlyIfRevoked, Final
    <2>8. QED
      BY <1>0, <1>3, <2>1, <2>2, <2>4, <2>5, <2>6, <2>7, TouchingKeeps DEF RunInv, Facets
  <1>4. CASE Become(p, Reports(proc[p], "failed", "done")) /\ Fault
             /\ UNCHANGED <<status, held, users, overlay, dossier>>
    BY <1>0, <1>4, FailingKeeps DEF Outcomes, OnboardPCs, OffboardPCs
  <1>5. QED
    BY <1>3, <1>4 DEF BindWrite, Rewrite

-----------------------------------------------------------------------------
(* Offboarding *)

LEMMA BeginOffboardKeeps ==
  ASSUME IInv, NEW p \in Procs, NEW who \in Principals, NEW keep \in BOOLEAN,
         BeginOffboard(p, who, keep)
  PROVE  IInv'
  <1> DEFINE r == [Fresh EXCEPT !.pc = "list", !.verb = "offboard", !.who = who, !.keep = keep]
  <1>1. /\ r \in Local
        /\ r.pc = "list" /\ r.verb = "offboard" /\ r.who = who
        /\ r.left = {} /\ r.revoked = {} /\ r.refs = {}
    BY FreshIs DEF Local, PCs
  <1> HIDE DEF r
  <1>2. Become(p, r) /\ NoFault /\ UNCHANGED <<status, held, users, overlay, dossier>>
    BY DEF BeginOffboard, r
  <1>3. proc'[p] = r
    BY <1>2, RunIs, BecomeIs
  <1>4. RunInv(p)'
    BY <1>1, <1>3 DEF RunInv, ControlInv, OwnKeysInv, KeysInv, UsersInv, OverlayInv, Sofar,
                      OnboardPCs, OffboardPCs
  <1>5. QED
    BY <1>1, <1>2, <1>4, AloneKeeps

LEMMA ListKeysKeeps ==
  ASSUME IInv, NEW p \in Procs, ListKeys(p)
  PROVE  IInv'
  <1> DEFINE r == Read(proc[p], "keys")
  <1>0. /\ proc[p] \in Local /\ RunInv(p) /\ proc[p].pc = "list"
        /\ proc[p].who \in Principals /\ proc[p].verb = "offboard"
        /\ proc[p].revoked = {} /\ proc[p].refs = {}
    BY RunIs DEF ListKeys, At, RunInv, ControlInv, OwnKeysInv, OffboardPCs
  <1>1. /\ r \in Local /\ r.pc = "list" /\ r.who = proc[p].who /\ r.verb = "offboard"
        /\ r.left = proc[p].left /\ r.revoked = {} /\ r.refs = {}
    BY <1>0, ReadIs DEF Facets
  <1>2. UNCHANGED <<status, held, users, overlay, dossier>>
    BY DEF ListKeys
  <1>e. \/ Active(r.who) = {} /\ NoFault /\ Become(p, Reports(r, "ok", "unbind"))
        \/ Active(r.who) # {} /\ NoFault
           /\ Become(p, [r EXCEPT !.left = Active(r.who), !.pc = "revoke"])
        \/ Fault /\ Become(p, Reports(r, "failed", "unbind"))
    BY DEF ListKeys
  <1> HIDE DEF r
  <1>3. CASE Active(r.who) = {} /\ NoFault /\ Become(p, Reports(r, "ok", "unbind"))
    <2> DEFINE t == Reports(r, "ok", "unbind")
    <2>1. /\ t \in Local /\ t.pc = "unbind" /\ t.who = proc[p].who /\ t.verb = "offboard"
          /\ t.left = proc[p].left /\ t.revoked = {} /\ t.refs = {}
      BY <1>1, ReportsIs DEF Outcomes, PCs
    <2>2. Become(p, t)
      BY <1>3
    <2> HIDE DEF t
    <2>3. proc'[p] = t
      BY <2>2, RunIs, BecomeIs
    <2>4. ControlInv(p)' /\ OwnKeysInv(p)'
      BY <1>0, <1>2, <2>1, <2>3, OwnStays DEF RunInv, OwnKeysInv, OnboardPCs
    <2>5. Active(proc[p].who)' = {}
      BY <1>1, <1>2, <1>3, <2>1, <2>3 DEF Active, KeysOf
    <2>6. KeysInv(p)'
      BY <2>1, <2>3, <2>5 DEF KeysInv, Sofar
    <2>7. UsersInv(p)' /\ OverlayInv(p)'
      BY <2>1, <2>3 DEF UsersInv, OverlayInv, Sofar
    <2>8. QED
      BY <1>2, <1>3, <2>1, <2>2, <2>4, <2>6, <2>7, AloneKeeps DEF RunInv
  <1>4. CASE Active(r.who) # {} /\ NoFault
             /\ Become(p, [r EXCEPT !.left = Active(r.who), !.pc = "revoke"])
    <2> DEFINE t == [r EXCEPT !.left = Active(r.who), !.pc = "revoke"]
    <2>0. Active(r.who) \subseteq KeysOf(r.who) /\ KeysOf(r.who) \subseteq Keys
      BY DEF Active, KeysOf
    <2>1. /\ t \in Local /\ t.pc = "revoke" /\ t.who = proc[p].who /\ t.verb = "offboard"
          /\ t.left = Active(r.who) /\ t.revoked = {} /\ t.refs = {}
      BY <1>1, <2>0 DEF Local, PCs
    <2>2. Become(p, t)
      BY <1>4
    <2> HIDE DEF t
    <2>3. proc'[p] = t
      BY <2>2, RunIs, BecomeIs
    <2>4. ControlInv(p)' /\ OwnKeysInv(p)'
      BY <1>0, <1>1, <1>2, <2>0, <2>1, <2>3, OwnStays DEF OnboardPCs
    <2>5. Active(proc[p].who)' = t.left
      BY <1>1, <1>2, <2>1, <2>3 DEF Active, KeysOf
    <2>6. KeysInv(p)'
      BY <2>1, <2>3, <2>5 DEF KeysInv, Sofar
    <2>7. UsersInv(p)' /\ OverlayInv(p)'
      BY <2>1, <2>3 DEF UsersInv, OverlayInv, Sofar
    <2>8. QED
      BY <1>2, <1>4, <2>1, <2>2, <2>4, <2>6, <2>7, AloneKeeps DEF RunInv
  <1>5. CASE Fault /\ Become(p, Reports(r, "failed", "unbind"))
    BY <1>0, <1>1, <1>2, <1>5, FailingKeeps DEF Outcomes, OnboardPCs
  <1>6. QED
    BY <1>3, <1>4, <1>5, <1>e

LEMMA RevokeKeyKeeps ==
  ASSUME IInv, NEW p \in Procs, RevokeKey(p)
  PROVE  IInv'
  <1> DEFINE r == proc[p]
  <1>0. /\ r \in Local /\ RunInv(p) /\ r.pc = "revoke"
        /\ r.who \in Principals /\ r.verb = "offboard"
    BY RunIs DEF RevokeKey, At, RunInv, ControlInv, OffboardPCs
  <1>1. UNCHANGED <<held, users, overlay, dossier>>
    BY DEF RevokeKey
  <1>2. PICK k \in r.left :
          \/ /\ status' = [status EXCEPT ![k] = "revoked"]
             /\ BecomeTouching(p, AfterRevoke(r, k), "keys") /\ NoFault
          \/ /\ status' \in {status, [status EXCEPT ![k] = "revoked"]}
             /\ BecomeTouching(p, Reports(r, "failed", "unbind"), "keys") /\ (NoFault \/ Fault)
    BY DEF RevokeKey, AfterFailedRevoke
  <1>3. k \in KeysOf(r.who) /\ k \in Keys
    BY <1>0 DEF RunInv, OwnKeysInv, KeysOf
  <1>4. /\ \A j \in Keys \ {k} : status'[j] = status[j]
        /\ status'[k] \in {status[k], "revoked"}
        /\ status' \in [Keys -> {"unused", "active", "revoked"}]
    BY <1>2, <1>3 DEF IInv, TypeOK
  <1>5. GlobalsType' /\ DeletedOnlyIfRevoked' /\ Final
    BY <1>1, <1>3, <1>4 DEF GlobalsType, IInv, TypeOK, DeletedOnlyIfRevoked, Final
  <1>6. \A j \in Keys \ KeysOf(proc[p].who) : status'[j] = status[j] /\ held'[j] = held[j]
    BY <1>1, <1>3, <1>4
  <1>7. CASE /\ status' = [status EXCEPT ![k] = "revoked"]
             /\ BecomeTouching(p, AfterRevoke(r, k), "keys") /\ NoFault
    <2> DEFINE t == AfterRevoke(r, k)
               s == [r EXCEPT !.left = {}, !.revoked = r.revoked \cup {k},
                              !.refs = r.revoked \cup {k}]
    <2>1. /\ t \in Local /\ t.who = r.who /\ t.verb = "offboard"
          /\ t.revoked = r.revoked \cup {k} /\ t.left = r.left \ {k}
          /\ t.raced = r.raced
          /\ \/ t.pc = "delete" /\ t.refs = t.revoked /\ r.left = {k}
             \/ t.pc = "revoke" /\ t.refs = r.refs
      <3>1. CASE r.left = {k}
        <4>1. /\ s \in Local /\ s.who = r.who /\ s.verb = r.verb /\ s.left = {}
              /\ s.revoked = r.revoked \cup {k} /\ s.refs = s.revoked /\ s.raced = r.raced
          BY <1>0, <1>3 DEF Local
        <4>2. t = Reports(s, "ok", "delete")
          BY <3>1 DEF AfterRevoke
        <4> HIDE DEF s, t
        <4>3. "ok" \in Outcomes /\ "delete" \in PCs
          BY DEF Outcomes, PCs
        <4>4. /\ t \in Local /\ t.pc = "delete" /\ t.who = s.who /\ t.verb = s.verb
              /\ t.left = s.left /\ t.revoked = s.revoked /\ t.refs = s.refs
              /\ t.raced = s.raced
          BY <4>1, <4>2, <4>3, ReportsIs
        <4>5. QED
          BY <1>0, <3>1, <4>1, <4>4
      <3>2. CASE r.left # {k}
        BY <1>0, <1>3, <3>2 DEF AfterRevoke, Local, PCs
      <3>3. QED
        BY <3>1, <3>2
    <2>2. BecomeTouching(p, t, "keys")
      BY <1>7
    <2> HIDE DEF t
    <2>3. proc'[p] = t
      BY <2>2, RunIs, BecomeIs DEF Facets
    <2>4. status'[k] = "revoked"
      BY <1>3, <1>7 DEF IInv, TypeOK
    <2>5. ControlInv(p)'
      BY <1>0, <2>1, <2>3 DEF ControlInv, OnboardPCs, OffboardPCs
    <2>6. OwnKeysInv(p)'
      BY <1>0, <1>3, <1>5, <2>1, <2>3, <2>4 DEF RunInv, OwnKeysInv, KeysOf, Final
    <2>7. Active(proc[p].who)' = Active(r.who) \ {k}
      BY <1>3, <1>4, <2>1, <2>3, <2>4 DEF Active, KeysOf
    <2>8. KeysInv(p)'
      BY <1>0, <2>1, <2>3, <2>7 DEF RunInv, KeysInv, Sofar, Calm
    <2>9. UsersInv(p)' /\ OverlayInv(p)'
      BY <2>1, <2>3 DEF UsersInv, OverlayInv, Sofar
    <2>10. QED
      BY <1>0, <1>1, <1>5, <1>6, <1>7, <2>1, <2>2, <2>5, <2>6, <2>8, <2>9, TouchingKeeps
          DEF RunInv, Facets
  <1>8. CASE BecomeTouching(p, Reports(r, "failed", "unbind"), "keys") /\ (NoFault \/ Fault)
    <2> DEFINE t == Reports(r, "failed", "unbind")
    <2>1. /\ t \in Local /\ t.pc = "unbind" /\ t.who = r.who /\ t.verb = "offboard"
          /\ t.left = r.left /\ t.revoked = r.revoked /\ t.refs = r.refs /\ t.worst # "ok"
      BY <1>0, ReportsIs DEF Outcomes, PCs
    <2>2. BecomeTouching(p, t, "keys")
      BY <1>8
    <2> HIDE DEF t
    <2>3. proc'[p] = t
      BY <2>2, RunIs, BecomeIs DEF Facets
    <2>4. /\ t.left \subseteq KeysOf(t.who) /\ t.revoked \subseteq KeysOf(t.who)
          /\ t.refs \subseteq t.revoked /\ \A j \in t.revoked : status'[j] = "revoked"
      BY <1>0, <1>5, <2>1 DEF RunInv, OwnKeysInv, KeysOf, Final
    <2>5. RunInv(p)'
      BY <1>0, <1>5, <2>1, <2>3, <2>4, FailedInv DEF PCs, OnboardPCs
    <2>6. QED
      BY <1>0, <1>1, <1>5, <1>6, <1>8, <2>1, <2>2, <2>5, TouchingKeeps DEF Facets
  <1>9. QED
    BY <1>2, <1>7, <1>8

LEMMA DeleteSecretKeeps ==
  ASSUME IInv, NEW p \in Procs, DeleteSecret(p)
  PROVE  IInv'
  <1> DEFINE r == proc[p]
  <1>0. /\ r \in Local /\ RunInv(p) /\ r.pc = "delete"
        /\ r.who \in Principals /\ r.verb = "offboard"
    BY RunIs DEF DeleteSecret, At, RunInv, ControlInv, OffboardPCs
  <1>1. UNCHANGED <<status, users, overlay, dossier>>
    BY DEF DeleteSecret
  <1>2. PICK k \in r.refs, outcome \in {"ok", "manual"} :
          LET s == [r EXCEPT !.refs = @ \ {k}]
              t == Reports(s, outcome, "delete") IN
          \/ /\ outcome = "ok" => held' = [held EXCEPT ![k] = FALSE]
             /\ held' \in {held, [held EXCEPT ![k] = FALSE]}
             /\ BecomeTouching(p, t, "keys") /\ (NoFault \/ Fault)
          \/ outcome = "manual" /\ Become(p, t) /\ NoFault /\ UNCHANGED held
    BY DEF DeleteSecret, AfterFailedDelete
  <1> DEFINE s == [r EXCEPT !.refs = @ \ {k}]
             t == Reports(s, outcome, "delete")
  <1>3. k \in KeysOf(r.who) /\ k \in Keys /\ status[k] = "revoked"
    BY <1>0 DEF RunInv, OwnKeysInv, KeysOf
  <1>4. /\ t \in Local /\ t.pc = "delete" /\ t.who = r.who /\ t.verb = "offboard"
        /\ t.left = r.left /\ t.revoked = r.revoked /\ t.refs = r.refs \ {k}
        /\ t.raced = r.raced /\ (t.worst = "ok" <=> r.worst = "ok" /\ outcome = "ok")
    <2>1. /\ s \in Local /\ s.who = r.who /\ s.verb = "offboard" /\ s.left = r.left
          /\ s.revoked = r.revoked /\ s.refs = r.refs \ {k} /\ s.raced = r.raced
          /\ s.worst = r.worst
      BY <1>0 DEF Local
    <2> HIDE DEF s
    <2>2. QED
      BY <2>1, ReportsIs DEF Outcomes, PCs
  <1>e. \/ /\ outcome = "ok" => held' = [held EXCEPT ![k] = FALSE]
           /\ held' \in {held, [held EXCEPT ![k] = FALSE]}
           /\ BecomeTouching(p, t, "keys") /\ (NoFault \/ Fault)
        \/ outcome = "manual" /\ Become(p, t) /\ NoFault /\ UNCHANGED held
    BY <1>2
  <1> HIDE DEF s, t
  <1>5. /\ \A j \in Keys \ {k} : held'[j] = held[j]
        /\ held'[k] => held[k]
        /\ outcome = "ok" => ~held'[k]
        /\ held' \in [Keys -> BOOLEAN]
    BY <1>3, <1>e DEF IInv, TypeOK
  <1>6. GlobalsType' /\ DeletedOnlyIfRevoked' /\ Final
    BY <1>1, <1>3, <1>5 DEF GlobalsType, IInv, TypeOK, DeletedOnlyIfRevoked, Final
  <1>7. proc'[p] = t
    BY <1>e, RunIs, BecomeIs DEF Facets
  <1>8. ControlInv(p)' /\ OwnKeysInv(p)'
    BY <1>0, <1>1, <1>4, <1>7, OwnStays DEF RunInv, OwnKeysInv, OnboardPCs
  <1>9. Active(proc[p].who)' = Active(r.who)
    BY <1>1, <1>4, <1>7 DEF Active, KeysOf
  <1>10. t.worst = "ok" => \A j \in t.revoked : held'[j] => j \in t.refs
    BY <1>0, <1>4, <1>5 DEF RunInv, OwnKeysInv, KeysOf, KeysInv, Sofar
  <1>11. KeysInv(p)'
    BY <1>0, <1>4, <1>7, <1>9, <1>10 DEF RunInv, KeysInv, Sofar, Calm
  <1>12. UsersInv(p)' /\ OverlayInv(p)'
    BY <1>4, <1>7 DEF UsersInv, OverlayInv, Sofar
  <1>13. RunInv(p)'
    BY <1>8, <1>11, <1>12 DEF RunInv
  <1>14. CASE BecomeTouching(p, t, "keys") /\ (NoFault \/ Fault)
    <2>1. \A j \in Keys \ KeysOf(proc[p].who) : status'[j] = status[j] /\ held'[j] = held[j]
      BY <1>1, <1>3, <1>5
    <2>2. QED
      BY <1>0, <1>1, <1>4, <1>6, <1>13, <1>14, <2>1, TouchingKeeps DEF Facets
  <1>15. CASE Become(p, t) /\ NoFault /\ UNCHANGED held
    BY <1>1, <1>4, <1>13, <1>15, AloneKeeps
  <1>16. QED
    BY <1>e, <1>14, <1>15

LEMMA DeletionsDoneKeeps ==
  ASSUME IInv, NEW p \in Procs, DeletionsDone(p)
  PROVE  IInv'
  <1> DEFINE r == proc[p]
             t == [r EXCEPT !.pc = "unbind"]
  <1>0. /\ r \in Local /\ RunInv(p) /\ r.pc = "delete"
        /\ r.who \in Principals /\ r.verb = "offboard" /\ r.refs = {}
    BY RunIs DEF DeletionsDone, At, RunInv, ControlInv, OffboardPCs
  <1>1. /\ t \in Local /\ t.pc = "unbind" /\ t.who = r.who /\ t.verb = "offboard"
        /\ t.left = r.left /\ t.revoked = r.revoked /\ t.refs = {}
        /\ t.raced = r.raced /\ t.worst = r.worst
    BY <1>0 DEF Local, PCs
  <1>2. UNCHANGED <<status, held, users, overlay, dossier>> /\ Become(p, t) /\ NoFault
    BY DEF DeletionsDone
  <1> HIDE DEF t
  <1>3. proc'[p] = t
    BY <1>2, RunIs, BecomeIs
  <1>4. ControlInv(p)' /\ OwnKeysInv(p)'
    BY <1>0, <1>1, <1>2, <1>3, OwnStays DEF RunInv, OwnKeysInv, OnboardPCs
  <1>5. Active(proc[p].who)' = Active(r.who)
    BY <1>1, <1>2, <1>3 DEF Active, KeysOf
  <1>6. KeysInv(p)'
    BY <1>0, <1>1, <1>2, <1>3, <1>5 DEF RunInv, KeysInv, Sofar, Calm
  <1>7. UsersInv(p)' /\ OverlayInv(p)'
    BY <1>1, <1>3 DEF UsersInv, OverlayInv, Sofar
  <1>8. QED
    BY <1>1, <1>2, <1>4, <1>6, <1>7, AloneKeeps DEF RunInv

LEMMA UnbindKeeps ==
  ASSUME IInv, NEW p \in Procs, Unbind(p)
  PROVE  IInv'
  <1> DEFINE r == Read(proc[p], "users")
  <1>0. /\ proc[p] \in Local /\ RunInv(p) /\ proc[p].pc = "unbind"
        /\ proc[p].who \in Principals /\ proc[p].verb = "offboard"
    BY RunIs DEF Unbind, At, RunInv, ControlInv, OffboardPCs
  <1>1. /\ r \in Local /\ r.pc = "unbind" /\ r.who = proc[p].who /\ r.verb = "offboard"
        /\ r.left = proc[p].left /\ r.revoked = proc[p].revoked /\ r.refs = proc[p].refs
        /\ r.worst = proc[p].worst /\ r.raced = proc[p].raced \ {"users"}
    BY <1>0, ReadIs DEF Facets
  <1>2. UNCHANGED <<status, held, users, overlay, dossier>>
    BY DEF Unbind
  <1>e. \/ (NoFault \/ Fault) /\ \E outcome \in {"manual", "failed"} :
              Become(p, Reports(r, outcome, "remove"))
        \/ /\ dossier = "local" => Bound(users, r.who) = {}
           /\ NoFault /\ Become(p, Reports(r, "ok", "remove"))
        \/ NoFault /\ Become(p, [r EXCEPT !.pc = "unbindWrite", !.seen = users])
    BY DEF Unbind
  <1> HIDE DEF r
  <1>3. ASSUME NEW outcome \in {"manual", "failed"}, Become(p, Reports(r, outcome, "remove")),
               NoFault \/ Fault
        PROVE  IInv'
    BY <1>0, <1>1, <1>2, <1>3, FailingKeeps DEF Outcomes, OnboardPCs
  <1>4. CASE /\ dossier = "local" => Bound(users, r.who) = {}
             /\ NoFault /\ Become(p, Reports(r, "ok", "remove"))
    <2> DEFINE t == Reports(r, "ok", "remove")
    <2>1. /\ t \in Local /\ t.pc = "remove" /\ t.who = r.who /\ t.verb = "offboard"
          /\ t.left = r.left /\ t.revoked = r.revoked /\ t.refs = r.refs
          /\ t.raced = r.raced /\ (t.worst = "ok" => r.worst = "ok")
      BY <1>1, ReportsIs DEF Outcomes, PCs
    <2>2. Become(p, t)
      BY <1>4
    <2> HIDE DEF t
    <2>3. proc'[p] = t
      BY <2>2, RunIs, BecomeIs
    <2>4. ControlInv(p)' /\ OwnKeysInv(p)'
      BY <1>0, <1>1, <1>2, <2>1, <2>3, OwnStays DEF RunInv, OwnKeysInv, OnboardPCs
    <2>5. KeysInv(p)'
      BY <1>0, <1>1, <1>2, <2>1, <2>3, KeysStay
    <2>6. UsersInv(p)'
      BY <1>2, <1>4, <2>1, <2>3 DEF UsersInv, Sofar, Bound
    <2>7. OverlayInv(p)'
      BY <2>1, <2>3 DEF OverlayInv, Sofar
    <2>8. QED
      BY <1>2, <1>4, <2>1, <2>2, <2>4, <2>5, <2>6, <2>7, AloneKeeps DEF RunInv
  <1>5. CASE NoFault /\ Become(p, [r EXCEPT !.pc = "unbindWrite", !.seen = users])
    <2> DEFINE t == [r EXCEPT !.pc = "unbindWrite", !.seen = users]
    <2>1. /\ t \in Local /\ t.pc = "unbindWrite" /\ t.who = r.who /\ t.verb = "offboard"
          /\ t.left = r.left /\ t.revoked = r.revoked /\ t.refs = r.refs
          /\ t.raced = r.raced /\ t.worst = r.worst /\ t.seen = users
      BY <1>1 DEF IInv, TypeOK, Local, PCs
    <2>2. Become(p, t)
      BY <1>5
    <2> HIDE DEF t
    <2>3. proc'[p] = t
      BY <2>2, RunIs, BecomeIs
    <2>4. ControlInv(p)' /\ OwnKeysInv(p)'
      BY <1>0, <1>1, <1>2, <2>1, <2>3, OwnStays DEF RunInv, OwnKeysInv, OnboardPCs
    <2>5. KeysInv(p)'
      BY <1>0, <1>1, <1>2, <2>1, <2>3, KeysStay
    <2>6. UsersInv(p)' /\ OverlayInv(p)'
      BY <1>2, <2>1, <2>3 DEF UsersInv, OverlayInv, Sofar
    <2>7. QED
      BY <1>2, <1>5, <2>1, <2>2, <2>4, <2>5, <2>6, AloneKeeps DEF RunInv
  <1>6. QED
    BY <1>3, <1>4, <1>5, <1>e

LEMMA UnbindWriteKeeps ==
  ASSUME IInv, NEW p \in Procs, UnbindWrite(p)
  PROVE  IInv'
  <1> DEFINE r == proc[p]
             entries == [u \in Users |-> IF u \in Bound(r.seen, r.who) THEN NoOne ELSE r.seen[u]]
  <1>0. /\ r \in Local /\ RunInv(p) /\ r.pc = "unbindWrite"
        /\ r.who \in Principals /\ r.verb = "offboard"
    BY RunIs DEF UnbindWrite, At, RunInv, ControlInv, OffboardPCs
  <1>1. entries \in [Users -> Binding]
    BY <1>0 DEF Local, Binding
  <1>2. Bound(entries, r.who) = {}
    BY <1>0, NamesAssumption DEF Bound
  <1>3. CASE users' = entries /\ BecomeTouching(p, Reports(r, "ok", "remove"), "users")
             /\ NoFault /\ UNCHANGED <<status, held, overlay, dossier>>
    <2> DEFINE t == Reports(r, "ok", "remove")
    <2>1. /\ t \in Local /\ t.pc = "remove" /\ t.who = r.who /\ t.verb = "offboard"
          /\ t.left = r.left /\ t.revoked = r.revoked /\ t.refs = r.refs
          /\ t.raced = r.raced /\ (t.worst = "ok" => r.worst = "ok")
      BY <1>0, ReportsIs DEF Outcomes, PCs
    <2>2. BecomeTouching(p, t, "users")
      BY <1>3
    <2> HIDE DEF t, entries
    <2>3. proc'[p] = t
      BY <2>2, RunIs, BecomeIs DEF Facets
    <2>4. ControlInv(p)' /\ OwnKeysInv(p)'
      BY <1>0, <1>3, <2>1, <2>3, OwnStays DEF RunInv, OwnKeysInv, OnboardPCs
    <2>5. KeysInv(p)'
      BY <1>0, <1>3, <2>1, <2>3, KeysStay
    <2>6. UsersInv(p)' /\ OverlayInv(p)'
      BY <1>2, <1>3, <2>1, <2>3 DEF UsersInv, OverlayInv, Sofar, Bound
    <2>7. GlobalsType' /\ DeletedOnlyIfRevoked' /\ Final
      BY <1>1, <1>3 DEF GlobalsType, IInv, TypeOK, DeletedOnlyIfRevoked, Final
    <2>8. QED
      BY <1>0, <1>3, <2>1, <2>2, <2>4, <2>5, <2>6, <2>7, TouchingKeeps DEF RunInv, Facets
  <1>4. CASE Become(p, Reports(r, "failed", "remove")) /\ Fault
             /\ UNCHANGED <<status, held, users, overlay, dossier>>
    BY <1>0, <1>4, FailingKeeps DEF Outcomes, OnboardPCs
  <1>5. QED
    BY <1>3, <1>4 DEF UnbindWrite, Rewrite

LEMMA RemoveOverlayKeeps ==
  ASSUME IInv, NEW p \in Procs, RemoveOverlay(p)
  PROVE  IInv'
  <1> DEFINE r == Read(proc[p], "overlay")
             t == Reports(r, "ok", "done")
  <1>0. /\ proc[p] \in Local /\ RunInv(p) /\ proc[p].pc = "remove"
        /\ proc[p].who \in Principals /\ proc[p].verb = "offboard"
    BY RunIs DEF RemoveOverlay, At, RunInv, ControlInv, OffboardPCs
  <1>1. /\ r \in Local /\ r.pc = "remove" /\ r.who = proc[p].who /\ r.verb = "offboard"
        /\ r.left = proc[p].left /\ r.revoked = proc[p].revoked /\ r.refs = proc[p].refs
        /\ r.worst = proc[p].worst /\ r.keep = proc[p].keep
        /\ r.raced = proc[p].raced \ {"overlay"}
    BY <1>0, ReadIs DEF Facets
  <1>2. UNCHANGED <<status, held, users, dossier>>
    BY DEF RemoveOverlay
  <1>e. \/ /\ r.keep \/ ~overlay[Path(p)].there
           /\ NoFault /\ Become(p, Reports(r, "ok", "done")) /\ UNCHANGED overlay
        \/ /\ overlay' = [overlay EXCEPT ![Path(p)] = NoOverlay]
           /\ BecomeTouching(p, Reports(r, "ok", "done"), "overlay") /\ NoFault
        \/ Fault /\ Become(p, Reports(r, "failed", "done")) /\ UNCHANGED overlay
    BY DEF RemoveOverlay
  <1>3. Path(p) \in Paths
    BY <1>0, ShapeAssumption DEF Path
  <1> HIDE DEF r
  <1>4. /\ t \in Local /\ t.pc = "done" /\ t.who = proc[p].who /\ t.verb = "offboard"
        /\ t.left = proc[p].left /\ t.revoked = proc[p].revoked /\ t.refs = proc[p].refs
        /\ t.raced = r.raced /\ (t.worst = "ok" => proc[p].worst = "ok") /\ t.keep = r.keep
    BY <1>1, ReportsIs DEF Outcomes, PCs
  <1>5. ASSUME Become(p, t) \/ BecomeTouching(p, t, "overlay"),
               t.keep \/ ~overlay'[Path(p)].there
        PROVE  RunInv(p)'
    <2> HIDE DEF t
    <2>1. proc'[p] = t
      BY <1>5, RunIs, BecomeIs DEF Facets
    <2>2. ControlInv(p)' /\ OwnKeysInv(p)'
      BY <1>0, <1>2, <1>4, <2>1, OwnStays DEF RunInv, OwnKeysInv, OnboardPCs, OffboardPCs
    <2>3. KeysInv(p)'
      BY <1>0, <1>1, <1>2, <1>4, <2>1, KeysStay
    <2>4. UsersInv(p)'
      BY <1>0, <1>1, <1>2, <1>4, <2>1 DEF RunInv, UsersInv, Sofar, Calm, Bound
    <2>5. Path(p)' = Path(p)
      BY <1>4, <2>1 DEF Path
    <2>6. OverlayInv(p)'
      BY <1>4, <1>5, <2>1, <2>5 DEF OverlayInv, Sofar
    <2>7. QED
      BY <2>2, <2>3, <2>4, <2>6 DEF RunInv
  <1>6. CASE /\ r.keep \/ ~overlay[Path(p)].there
             /\ NoFault /\ Become(p, t) /\ UNCHANGED overlay
    <2>1. RunInv(p)'
      BY <1>4, <1>5, <1>6
    <2> HIDE DEF t
    <2>2. QED
      BY <1>2, <1>4, <1>6, <2>1, AloneKeeps
  <1>7. CASE /\ overlay' = [overlay EXCEPT ![Path(p)] = NoOverlay]
             /\ BecomeTouching(p, t, "overlay") /\ NoFault
    <2>1. /\ overlay' \in [Paths -> Overlay] /\ ~overlay'[Path(p)].there
          /\ \A path \in Paths \ {Path(p)} : overlay'[path] = overlay[path]
      BY <1>3, <1>7, NoOverlayType DEF IInv, TypeOK, NoOverlay
    <2>2. RunInv(p)'
      BY <1>5, <1>7, <2>1
    <2>3. GlobalsType' /\ DeletedOnlyIfRevoked' /\ Final
      BY <1>2, <2>1 DEF GlobalsType, IInv, TypeOK, DeletedOnlyIfRevoked, Final
    <2> HIDE DEF t
    <2>4. QED
      BY <1>0, <1>2, <1>4, <1>7, <2>1, <2>2, <2>3, TouchingKeeps DEF Facets
  <1>8. CASE Fault /\ Become(p, Reports(r, "failed", "done")) /\ UNCHANGED overlay
    BY <1>0, <1>1, <1>2, <1>8, FailingKeeps DEF Outcomes, OnboardPCs, OffboardPCs
  <1>9. QED
    BY <1>6, <1>7, <1>8, <1>e

LEMMA EndKeeps ==
  ASSUME IInv, NEW p \in Procs, Return(p) \/ Crash(p)
  PROVE  IInv'
  <1>1. /\ Become(p, Fresh) /\ (NoFault \/ Fault)
        /\ UNCHANGED <<status, held, users, overlay, dossier>>
    BY DEF Return, Crash
  <1>2. proc'[p] = Fresh
    BY <1>1, RunIs, BecomeIs
  <1>3. RunInv(p)'
    BY <1>2, FreshIs DEF RunInv, ControlInv, OwnKeysInv, KeysInv, UsersInv, OverlayInv, Sofar,
                         OnboardPCs, OffboardPCs
  <1>4. QED
    BY <1>1, <1>3, FreshIs, AloneKeeps

-----------------------------------------------------------------------------
(* What a run reports, and what it does to the bindings *)

\* The inductive invariant: what each run knows of the keys it lists and revokes, of the
\* users file it has read, and of its overlay, from its first step to its last.
THEOREM Inductive == Spec => []IInv
  <1>1. ASSUME Init
        PROVE  IInv
    <2>1. PICK enrolled \in SUBSET Keys :
              /\ status = [k \in Keys |-> IF k \in enrolled THEN "active" ELSE "unused"]
              /\ held = [k \in Keys |-> k \in enrolled]
      BY <1>1 DEF Init
    <2>2. DeletedOnlyIfRevoked
      BY <2>1 DEF DeletedOnlyIfRevoked
    <2>3. users \in [Users -> Binding] /\ overlay \in [Paths -> Overlay]
      <3>1. {NoOne, NoEntry} \subseteq Binding
        BY DEF Binding
      <3>2. {NoOverlay, [Truncated EXCEPT !.other = TRUE]} \subseteq Overlay
        BY NoOverlayType DEF Overlay
      <3>3. users \in [Users -> Binding]
        BY <1>1, <3>1 DEF Init
      <3>4. overlay \in [Paths -> Overlay]
        BY <1>1, <3>2 DEF Init
      <3>5. QED
        BY <3>3, <3>4
    <2>4. TypeOK
      BY <1>1, <2>1, <2>3, FreshIs, ShapeAssumption DEF Init, TypeOK
    <2>5. \A p \in Procs : RunInv(p)
      BY <1>1, FreshIs DEF Init, RunInv, ControlInv, OwnKeysInv, KeysInv, UsersInv, OverlayInv,
                           Sofar, OnboardPCs, OffboardPCs
    <2>6. QED
      BY <2>2, <2>4, <2>5 DEF IInv
  <1>2. ASSUME IInv, [Next]_vars
        PROVE  IInv'
    <2>1. ASSUME NEW p \in Procs, Begin(p)
          PROVE  IInv'
      BY <1>2, <2>1, BeginOnboardKeeps, BeginOffboardKeeps DEF Begin
    <2>2. ASSUME NEW p \in Procs, Work(p)
          PROVE  IInv'
      BY <1>2, <2>2, ReadOverlayKeeps, TruncateOverlayKeeps, FillOverlayKeeps, EnrollKeeps,
         BindKeeps, BindWriteKeeps, ListKeysKeeps, RevokeKeyKeeps, DeleteSecretKeeps,
         DeletionsDoneKeeps, UnbindKeeps, UnbindWriteKeeps, RemoveOverlayKeeps, EndKeeps
         DEF Work
    <2>3. ASSUME NEW p \in Procs, Crash(p)
          PROVE  IInv'
      BY <1>2, <2>3, EndKeeps
    <2>4. CASE UNCHANGED vars
      BY <1>2, <2>4 DEF vars, IInv, TypeOK, DeletedOnlyIfRevoked, RunInv, ControlInv, OwnKeysInv,
                        KeysInv, UsersInv, OverlayInv, Sofar, Calm, Active, KeysOf, Bound, Path
    <2>5. QED
      BY <1>2, <2>1, <2>2, <2>3, <2>4 DEF Next
  <1>3. QED
    BY <1>1, <1>2, PTL DEF Spec

\* Every variable keeps its type.
THEOREM TypeCorrect == Spec => []TypeOK
  <1>1. IInv => TypeOK
    BY DEF IInv
  <1>2. QED
    BY <1>1, Inductive, PTL

\* A registered key can be fetched: no failure, crash or race of runs deletes one that is
\* not revoked.
THEOREM DeletedOnlyIfRevokedHolds == Spec => []DeletedOnlyIfRevoked
  <1>1. IInv => DeletedOnlyIfRevoked
    BY DEF IInv
  <1>2. QED
    BY <1>1, Inductive, PTL

\* A run that reports success is right about everything no other run has changed since it
\* looked, and about the keys it revoked whatever others did.
THEOREM ReportsAreTrueHolds == Spec => []ReportsAreTrue
  <1>1. ASSUME IInv, NEW p \in Procs, At(p, "done")
        PROVE  OffboardedIsTrue(proc[p]) /\ OnboardedIsTrue(proc[p])
    <2>1. RunInv(p) /\ proc[p].pc = "done"
      BY <1>1 DEF IInv, At
    <2>2. OffboardedIsTrue(proc[p])
      BY <2>1 DEF RunInv, OwnKeysInv, KeysInv, UsersInv, OverlayInv, Sofar, Calm,
                  OffboardedIsTrue, Path
    <2>3. OnboardedIsTrue(proc[p])
      BY <2>1 DEF RunInv, KeysInv, UsersInv, OverlayInv, Sofar, Calm, OnboardedIsTrue, Path
    <2>4. QED
      BY <2>2, <2>3
  <1>2. IInv => ReportsAreTrue
    BY <1>1 DEF ReportsAreTrue
  <1>3. QED
    BY <1>2, Inductive, PTL

\* What one step may do to a binding.
BindingsStep ==
    \A p \in Procs, u \in Users :
        Moves(p) /\ "users" \notin proc[p].raced /\ users[u] \in Principals
        => \/ users'[u] = users[u]
           \/ /\ users'[u] = NoOne
              /\ proc[p].verb = "offboard" /\ proc[p].who = users[u]

LEMMA OnlyTheirs ==
  ASSUME IInv, NEW p \in Procs, NEW r, \E facet \in Facets : BecomeTouching(p, r, facet),
         NEW q \in Procs, Moves(q)
  PROVE  q = p
  <1>1. SUFFICES ASSUME q # p PROVE FALSE
    OBVIOUS
  <1>2. PICK facet \in Facets : BecomeTouching(p, r, facet)
    OBVIOUS
  <1>3. proc[q] \in Local
    BY DEF IInv, TypeOK
  <1>4. proc'[q] \in {proc[q], [proc[q] EXCEPT !.raced = @ \cup {facet}]}
    BY <1>1, <1>2 DEF BecomeTouching
  <1>5. [proc'[q] EXCEPT !.raced = {}] = [proc[q] EXCEPT !.raced = {}]
    BY <1>3, <1>4 DEF Local
  <1>6. QED
    BY <1>5 DEF Moves

\* No run binds a bound user to somebody else, and only the leaver's own offboarding unbinds
\* one, unless another run has written the users file since this one read it.
THEOREM BindingsStayHolds == Spec => BindingsStay
  <1>1. ASSUME IInv, Next
        PROVE  BindingsStep
    <2>1. PICK p \in Procs : Begin(p) \/ Work(p) \/ Crash(p)
      BY <1>1 DEF Next
    <2>2. CASE BindWrite(p)
      <3>1. CASE Rewrite(p, [proc[p].seen EXCEPT ![UserOf[proc[p].who]] = proc[p].who], "done")
                 /\ users' # users
        <4> DEFINE w == UserOf[proc[p].who]
        <4>1. /\ users' = [proc[p].seen EXCEPT ![w] = proc[p].who]
              /\ \E facet \in Facets : BecomeTouching(p, Reports(proc[p], "ok", "done"), facet)
          BY <3>1 DEF Rewrite, Facets
        <4>2. UsersInv(p) /\ proc[p].pc = "bindWrite"
          BY <1>1, <2>2 DEF IInv, RunInv, BindWrite, At
        <4>3. ASSUME "users" \notin proc[p].raced, NEW u \in Users, users[u] \in Principals
              PROVE  users'[u] = users[u]
          <5>1. proc[p].seen = users /\ users[w] = NoOne
            BY <4>2, <4>3 DEF UsersInv, Calm
          <5>2. users[u] # NoOne
            BY <4>3, NamesAssumption
          <5>3. QED
            BY <4>1, <5>1, <5>2, <1>1 DEF IInv, TypeOK
        <4>4. \A q \in Procs : Moves(q) => q = p
          BY <1>1, <4>1, OnlyTheirs
        <4>5. QED
          BY <4>3, <4>4 DEF BindingsStep
      <3>2. CASE users' = users
        BY <3>2 DEF BindingsStep
      <3>3. QED
        BY <2>2, <3>1, <3>2 DEF BindWrite
    <2>3. CASE UnbindWrite(p)
      <3> DEFINE r == proc[p]
                 entries == [u \in Users |-> IF u \in Bound(r.seen, r.who) THEN NoOne ELSE r.seen[u]]
      <3>1. CASE Rewrite(p, entries, "remove") /\ users' # users
        <4>1. /\ users' = entries
              /\ \E facet \in Facets : BecomeTouching(p, Reports(r, "ok", "remove"), facet)
          BY <3>1 DEF Rewrite, Facets
        <4>2. UsersInv(p) /\ r.pc = "unbindWrite" /\ r.verb = "offboard"
          BY <1>1, <2>3 DEF IInv, RunInv, ControlInv, OffboardPCs, UnbindWrite, At
        <4>3. ASSUME "users" \notin r.raced, NEW u \in Users, users[u] \in Principals
              PROVE  \/ users'[u] = users[u]
                     \/ users'[u] = NoOne /\ r.verb = "offboard" /\ r.who = users[u]
          <5>1. r.seen = users
            BY <4>2, <4>3 DEF UsersInv, Calm
          <5>2. QED
            BY <4>1, <4>2, <5>1 DEF Bound
        <4>4. \A q \in Procs : Moves(q) => q = p
          BY <1>1, <4>1, OnlyTheirs
        <4>5. QED
          BY <4>3, <4>4 DEF BindingsStep
      <3>2. CASE users' = users
        BY <3>2 DEF BindingsStep
      <3>3. QED
        BY <2>3, <3>1, <3>2 DEF UnbindWrite
    <2>4. CASE users' = users
      BY <2>4 DEF BindingsStep
    <2>5. QED
      BY <2>1, <2>2, <2>3, <2>4 DEF Begin, BeginOnboard, BeginOffboard, Work, ReadOverlay,
         TruncateOverlay, FillOverlay, Enroll, Bind, ListKeys, RevokeKey, DeleteSecret,
         DeletionsDone, Unbind, RemoveOverlay, Return, Crash
  <1>2. IInv /\ [Next]_vars => [BindingsStep]_vars
    BY <1>1
  <1>3. QED
    BY <1>2, Inductive, PTL DEF Spec, BindingsStay, BindingsStep

=============================================================================

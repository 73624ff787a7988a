------------------------------ MODULE Identity ------------------------------
(***************************************************************************)
(* The identity lifecycle: `agent-suite bootstrap --user` and `agent-suite *)
(* offboard`, src/agent_suite/identity.py.  A run is a sequence of steps,  *)
(* each a regista command or the change of a file; a failed step does not  *)
(* stop the run, and the worst outcome reported is the run's own.          *)
(*                                                                         *)
(* Nothing excludes a second run.  The users file and the overlay are read *)
(* in one step and written in a later one; the users file is replaced      *)
(* atomically, the overlay is truncated and then filled.  Principal ids    *)
(* are well-formed and user names unique; --dry-run is left out.           *)
(***************************************************************************)
EXTENDS Integers, FiniteSets

CONSTANTS
    Principals,
    Keys,           \* signing keys regista can mint, over all time
    OwnerOf,        \* [Keys -> Principals]
    Custody,        \* [Keys -> CustodyKinds]: what its secret backend can do
    Users,          \* dossier user names
    UserOf,         \* [Principals -> Users]: --dossier-user, or the same name
    Paths,          \* per-user overlay files
    PathOf,         \* [Principals -> Paths]: --config, or the invoker's own
    Backends,       \* dossier's identity sources considered: a local users file, a
                    \* local one whose path is not set, a directory, no dossier at all
    Procs,          \* concurrent runs
    NoOne, NoEntry, \* an unbound user, a user with no entry
    MaxFaults       \* bound on failures and crashes together

CustodyKinds == {"deletes", "refuses", "inline"}
Binding == Principals \cup {NoOne, NoEntry}
Overlay == [there : BOOLEAN, who : Principals \cup {NoOne},
            other : BOOLEAN]        \* keys the suite does not own
NoOverlay == [there |-> FALSE, who |-> NoOne, other |-> FALSE]
Truncated == [NoOverlay EXCEPT !.there = TRUE]

ASSUME NamesAssumption == {NoOne, NoEntry} \cap Principals = {} /\ NoOne # NoEntry
ASSUME ShapeAssumption ==
    /\ OwnerOf \in [Keys -> Principals]
    /\ Custody \in [Keys -> CustodyKinds]
    /\ UserOf \in [Principals -> Users]
    /\ PathOf \in [Principals -> Paths]
    /\ Backends \subseteq {"local", "unset", "ldap", "none"}
    /\ MaxFaults \in Nat

VARIABLES
    status,         \* [Keys -> {"unused", "active", "revoked"}]: regista's registry
    held,           \* [Keys -> BOOLEAN]: the private key can be fetched
    users,          \* [Users -> Binding]: dossier's users file
    overlay,        \* [Paths -> Overlay]
    dossier,        \* where dossier's identities live; never changes
    proc,           \* [Procs -> Local]
    faults

vars == <<status, held, users, overlay, dossier, proc, faults>>

PCs == {"idle", "overlay", "truncate", "fill", "enroll", "bind", "bindWrite",
        "list", "revoke", "delete", "unbind", "unbindWrite", "remove", "done"}
Outcomes == {"ok", "manual", "refused", "failed"}    \* "ok": DONE or ALREADY_DONE
Facets == {"keys", "users", "overlay"}
Local == [pc : PCs, verb : {"none", "onboard", "offboard"},
          who : Principals \cup {NoOne}, keep : BOOLEAN,
          text : Overlay,                   \* the merged overlay
          seen : [Users -> Binding],        \* the users file as it was read
          left : SUBSET Keys,               \* listed as active, not yet revoked
          revoked : SUBSET Keys,            \* revoked by this run
          refs : SUBSET Keys,               \* custodied keys left to delete
          worst : Outcomes,                 \* of the outcomes its steps reported
          raced : SUBSET Facets]            \* ghost: changed by another run since
                                            \* this one last read them
NoUsers == [u \in Users |-> NoEntry]
Fresh == [pc |-> "idle", verb |-> "none", who |-> NoOne, keep |-> FALSE,
          text |-> NoOverlay, seen |-> NoUsers, left |-> {}, revoked |-> {},
          refs |-> {}, worst |-> "ok", raced |-> {}]

TypeOK ==
    /\ status \in [Keys -> {"unused", "active", "revoked"}]
    /\ held \in [Keys -> BOOLEAN]
    /\ users \in [Users -> Binding]
    /\ overlay \in [Paths -> Overlay]
    /\ dossier \in Backends
    /\ proc \in [Procs -> Local]
    /\ faults \in 0 .. MaxFaults

\* Before the first run: keys regista enrolled by itself, no bindings, and perhaps
\* an overlay of the operator's own.
Init ==
    /\ \E enrolled \in SUBSET Keys :
          /\ status = [k \in Keys |-> IF k \in enrolled THEN "active" ELSE "unused"]
          /\ held = [k \in Keys |-> k \in enrolled]
    /\ users \in [Users -> {NoOne, NoEntry}]
    /\ overlay \in [Paths -> {NoOverlay, [Truncated EXCEPT !.other = TRUE]}]
    /\ dossier \in Backends
    /\ proc = [p \in Procs |-> Fresh]
    /\ faults = 0

-----------------------------------------------------------------------------
(* Helpers *)

At(p, pc) == proc[p].pc = pc
KeysOf(who) == {k \in Keys : OwnerOf[k] = who}
Active(who) == {k \in KeysOf(who) : status[k] = "active"}
Path(p) == PathOf[proc[p].who]

Fault == faults < MaxFaults /\ faults' = faults + 1
NoFault == UNCHANGED faults

Become(p, r) == proc' = [proc EXCEPT ![p] = r]

\* What p changed, a run of the same principal or on the same file may have read.
Concerns(facet, q, p) ==
    \/ facet = "keys" /\ proc[q].who = proc[p].who
    \/ facet = "users"
    \/ facet = "overlay" /\ proc[q].pc # "idle" /\ Path(q) = Path(p)
BecomeTouching(p, r, facet) ==
    proc' = [q \in Procs |->
        IF q = p THEN r
        ELSE IF proc[q].pc # "idle" /\ Concerns(facet, q, p)
        THEN [proc[q] EXCEPT !.raced = @ \cup {facet}] ELSE proc[q]]

\* aggregate_outcome: the first of the precedence that any step reported.
Worse(a, b) == IF "failed" \in {a, b} THEN "failed"
               ELSE IF "refused" \in {a, b} THEN "refused"
               ELSE IF "manual" \in {a, b} THEN "manual" ELSE "ok"

\* A step reports its outcome, and the run goes on whatever it was.
Reports(r, outcome, next) ==
    [r EXCEPT !.worst = Worse(@, outcome), !.pc = next, !.seen = NoUsers]
Read(r, facet) == [r EXCEPT !.raced = @ \ {facet}]

-----------------------------------------------------------------------------
(* Onboarding *)

BeginOnboard(p, who) ==
    /\ At(p, "idle")
    /\ Become(p, [Fresh EXCEPT !.pc = "overlay", !.verb = "onboard", !.who = who])
    /\ NoFault
    /\ UNCHANGED <<status, held, users, overlay, dossier>>

\* write_overlay: merge into what is there; nothing to do when that changes nothing.
ReadOverlay(p) ==
    LET old == overlay[Path(p)]
        merged == [old EXCEPT !.there = TRUE, !.who = proc[p].who]
        r == [Read(proc[p], "overlay") EXCEPT !.text = merged] IN
    /\ At(p, "overlay")
    /\ Become(p, IF old = merged THEN Reports(r, "ok", "enroll")
                 ELSE [r EXCEPT !.pc = "truncate"])
    /\ NoFault
    /\ UNCHANGED <<status, held, users, overlay, dossier>>

\* path.write_text opens the file for writing, which empties it.
TruncateOverlay(p) ==
    /\ At(p, "truncate")
    /\ \/ /\ overlay' = [overlay EXCEPT ![Path(p)] = Truncated]
          /\ BecomeTouching(p, [proc[p] EXCEPT !.pc = "fill"], "overlay")
          /\ NoFault
       \/ /\ Become(p, Reports(proc[p], "failed", "enroll"))
          /\ Fault
          /\ UNCHANGED overlay
    /\ UNCHANGED <<status, held, users, dossier>>

FillOverlay(p) ==
    /\ At(p, "fill")
    /\ \/ /\ overlay' = [overlay EXCEPT ![Path(p)] = proc[p].text]
          /\ BecomeTouching(p, Reports(proc[p], "ok", "enroll"), "overlay")
          /\ NoFault
       \/ /\ Become(p, Reports(proc[p], "failed", "enroll"))
          /\ Fault
          /\ UNCHANGED overlay
    /\ UNCHANGED <<status, held, users, dossier>>

\* `regista principal enroll`: an active key is kept; a key file that is still
\* there may be refused; otherwise a key is minted and its private half custodied.
\* A child that fails or times out may have minted it all the same.
Enroll(p) ==
    LET r == Read(proc[p], "keys")
        minted(k) == /\ status' = [status EXCEPT ![k] = "active"]
                     /\ held' = [held EXCEPT ![k] = TRUE]
        free == {k \in KeysOf(r.who) : status[k] = "unused"} IN
    /\ At(p, "enroll")
    /\ \/ /\ Active(r.who) # {}
          /\ NoFault
          /\ Become(p, Reports(r, "ok", "bind"))
          /\ UNCHANGED <<status, held>>
       \/ /\ Active(r.who) = {}
          /\ (\E k \in KeysOf(r.who) : held[k]) \/ free = {}
          /\ NoFault
          /\ Become(p, Reports(r, "refused", "bind"))
          /\ UNCHANGED <<status, held>>
       \/ /\ Active(r.who) = {}
          /\ \E k \in free : minted(k)
          /\ \/ NoFault /\ BecomeTouching(p, Reports(r, "ok", "bind"), "keys")
             \/ Fault /\ BecomeTouching(p, Reports(r, "failed", "bind"), "keys")
       \/ /\ Fault
          /\ Become(p, Reports(r, "failed", "bind"))
          /\ UNCHANGED <<status, held>>
    /\ UNCHANGED <<users, overlay, dossier>>

\* Mutant: an identity bound to somebody else is bound again.
BindVerdict_Rebinds(found, who) ==
    IF dossier = "none" THEN "ok"
    ELSE IF dossier # "local" \/ found = NoEntry THEN "manual"
    ELSE IF found = who THEN "ok" ELSE "write"

\* What bind_dossier_identity finds before it would write.
BindVerdict(found, who) ==
    IF dossier = "none" THEN "ok"
    ELSE IF dossier # "local" \/ found = NoEntry THEN "manual"
    ELSE IF found = who THEN "ok"
    ELSE IF found = NoOne THEN "write" ELSE "refused"

Bind(p) ==
    LET r == Read(proc[p], "users")
        verdict == BindVerdict(users[UserOf[r.who]], r.who) IN
    /\ At(p, "bind")
    /\ \/ /\ NoFault
          /\ Become(p, IF verdict = "write" THEN [r EXCEPT !.pc = "bindWrite", !.seen = users]
                       ELSE Reports(r, verdict, "done"))
       \/ Fault /\ dossier = "local" /\ Become(p, Reports(r, "failed", "done"))
    /\ UNCHANGED <<status, held, users, overlay, dossier>>

\* _write_users replaces the whole file by the entries read before.
Rewrite(p, entries, next) ==
    \/ /\ users' = entries
       /\ BecomeTouching(p, Reports(proc[p], "ok", next), "users")
       /\ NoFault
    \/ /\ Become(p, Reports(proc[p], "failed", next))
       /\ Fault
       /\ UNCHANGED users

BindWrite(p) ==
    /\ At(p, "bindWrite")
    /\ Rewrite(p, [proc[p].seen EXCEPT ![UserOf[proc[p].who]] = proc[p].who], "done")
    /\ UNCHANGED <<status, held, overlay, dossier>>

-----------------------------------------------------------------------------
(* Offboarding *)

BeginOffboard(p, who, keep) ==
    /\ At(p, "idle")
    /\ Become(p, [Fresh EXCEPT !.pc = "list", !.verb = "offboard", !.who = who,
                               !.keep = keep])
    /\ NoFault
    /\ UNCHANGED <<status, held, users, overlay, dossier>>

\* Mutant: a principal with a revoked key counts as offboarded already.
ListKeys_OnceIsEnough(p) ==
    LET r == Read(proc[p], "keys")
        before == \E k \in KeysOf(r.who) : status[k] = "revoked" IN
    /\ At(p, "list")
    /\ Become(p, IF before \/ Active(r.who) = {} THEN Reports(r, "ok", "unbind")
                 ELSE [r EXCEPT !.left = Active(r.who), !.pc = "revoke"])
    /\ NoFault
    /\ UNCHANGED <<status, held, users, overlay, dossier>>

\* `regista principal list --status active`: only the active keys are ever seen.
ListKeys(p) ==
    LET r == Read(proc[p], "keys") IN
    /\ At(p, "list")
    /\ \/ /\ NoFault
          /\ Become(p, IF Active(r.who) = {} THEN Reports(r, "ok", "unbind")
                       ELSE [r EXCEPT !.left = Active(r.who), !.pc = "revoke"])
       \/ Fault /\ Become(p, Reports(r, "failed", "unbind"))
    /\ UNCHANGED <<status, held, users, overlay, dossier>>

\* Mutant: a revocation that fails is skipped like one that succeeded.
AfterFailedRevoke_GoesOn(r, k) ==
    [r EXCEPT !.left = @ \ {k}, !.pc = IF r.left = {k} THEN "delete" ELSE "revoke",
              !.refs = r.revoked]

\* One failed revocation ends the step, and the deletions are not attempted.
AfterFailedRevoke(r, k) == Reports(r, "failed", "unbind")

\* Mutant: the references of every listed key are deleted, revoked or not.
AfterRevoke_DeletesListed(r, k) ==
    [r EXCEPT !.left = @ \ {k}, !.revoked = @ \cup {k}, !.refs = r.left, !.pc = "delete"]

AfterRevoke(r, k) ==
    LET revoked == r.revoked \cup {k} IN
    IF r.left = {k}
    THEN Reports([r EXCEPT !.left = {}, !.revoked = revoked, !.refs = revoked],
                 "ok", "delete")
    ELSE [r EXCEPT !.left = @ \ {k}, !.revoked = revoked]

\* `regista principal revoke`, one listed key after another.
RevokeKey(p) ==
    LET r == proc[p] IN
    /\ At(p, "revoke")
    /\ \E k \in r.left :
          \/ /\ status' = [status EXCEPT ![k] = "revoked"]
             /\ BecomeTouching(p, AfterRevoke(r, k), "keys")
             /\ NoFault
          \/ /\ status' \in {status, [status EXCEPT ![k] = "revoked"]}
             /\ BecomeTouching(p, AfterFailedRevoke(r, k), "keys")
             /\ \/ Fault
                \/ NoFault /\ status[k] = "revoked"       \* another run was faster
    /\ UNCHANGED <<held, users, overlay, dossier>>

\* A refused, failed or impossible deletion leaves the run MANUAL and goes on.
AfterFailedDelete(r, k) == Reports([r EXCEPT !.refs = @ \ {k}], "manual", "delete")

\* `regista secrets --delete`, one reference after another.
DeleteSecret(p) ==
    LET r == proc[p] IN
    /\ At(p, "delete")
    /\ \E k \in r.refs :
          \/ /\ Custody[k] = "deletes"
             /\ held' = [held EXCEPT ![k] = FALSE]
             /\ BecomeTouching(p, Reports([r EXCEPT !.refs = @ \ {k}], "ok", "delete"),
                               "keys")
             /\ NoFault
          \/ /\ Custody[k] # "deletes"
             /\ Become(p, AfterFailedDelete(r, k))
             /\ NoFault
             /\ UNCHANGED held
          \/ /\ Custody[k] = "deletes"
             /\ held' \in {held, [held EXCEPT ![k] = FALSE]}
             /\ BecomeTouching(p, AfterFailedDelete(r, k), "keys")
             /\ Fault
    /\ UNCHANGED <<status, users, overlay, dossier>>

DeletionsDone(p) ==
    /\ At(p, "delete")
    /\ proc[p].refs = {}
    /\ Become(p, [proc[p] EXCEPT !.pc = "unbind"])
    /\ NoFault
    /\ UNCHANGED <<status, held, users, overlay, dossier>>

Bound(entries, who) == {u \in Users : entries[u] = who}

\* unbind_dossier_identity reads the file, and writes it when it finds the leaver.
Unbind(p) ==
    LET r == Read(proc[p], "users") IN
    /\ At(p, "unbind")
    /\ \/ /\ NoFault
          /\ Become(p, IF dossier = "ldap" THEN Reports(r, "manual", "remove")
                       ELSE IF dossier # "local" \/ Bound(users, r.who) = {}
                            THEN Reports(r, "ok", "remove")
                       ELSE [r EXCEPT !.pc = "unbindWrite", !.seen = users])
       \/ Fault /\ dossier = "local" /\ Become(p, Reports(r, "failed", "remove"))
    /\ UNCHANGED <<status, held, users, overlay, dossier>>

\* Mutant: the field is written as null instead of being dropped.
UnbindWrite_Null(p) ==
    LET r == proc[p] IN
    /\ At(p, "unbindWrite")
    /\ Rewrite(p, [u \in Users |-> IF u \in Bound(r.seen, r.who) THEN "null" ELSE r.seen[u]],
               "remove")
    /\ UNCHANGED <<status, held, overlay, dossier>>

UnbindWrite(p) ==
    LET r == proc[p] IN
    /\ At(p, "unbindWrite")
    /\ Rewrite(p, [u \in Users |-> IF u \in Bound(r.seen, r.who) THEN NoOne ELSE r.seen[u]],
               "remove")
    /\ UNCHANGED <<status, held, overlay, dossier>>

\* remove_overlay unlinks whatever overlay is at the path, unless --keep-overlay.
RemoveOverlay(p) ==
    LET r == Read(proc[p], "overlay") IN
    /\ At(p, "remove")
    /\ \/ /\ r.keep \/ ~overlay[Path(p)].there
          /\ NoFault
          /\ Become(p, Reports(r, "ok", "done"))
          /\ UNCHANGED overlay
       \/ /\ ~r.keep /\ overlay[Path(p)].there
          /\ \/ /\ overlay' = [overlay EXCEPT ![Path(p)] = NoOverlay]
                /\ BecomeTouching(p, Reports(r, "ok", "done"), "overlay")
                /\ NoFault
             \/ Fault /\ Become(p, Reports(r, "failed", "done")) /\ UNCHANGED overlay
    /\ UNCHANGED <<status, held, users, dossier>>

-----------------------------------------------------------------------------
(* The environment *)

Return(p) ==
    /\ At(p, "done")
    /\ Become(p, Fresh)
    /\ NoFault
    /\ UNCHANGED <<status, held, users, overlay, dossier>>

Crash(p) ==
    /\ proc[p].pc \notin {"idle", "done"}
    /\ Become(p, Fresh)
    /\ Fault
    /\ UNCHANGED <<status, held, users, overlay, dossier>>

Begin(p) ==
    \E who \in Principals :
        BeginOnboard(p, who) \/ \E keep \in BOOLEAN : BeginOffboard(p, who, keep)

Work(p) ==
    \/ ReadOverlay(p) \/ TruncateOverlay(p) \/ FillOverlay(p)
    \/ Enroll(p) \/ Bind(p) \/ BindWrite(p)
    \/ ListKeys(p) \/ RevokeKey(p) \/ DeleteSecret(p) \/ DeletionsDone(p)
    \/ Unbind(p) \/ UnbindWrite(p) \/ RemoveOverlay(p) \/ Return(p)

Next == \E p \in Procs : Begin(p) \/ Work(p) \/ Crash(p)

Spec == Init /\ [][Next]_vars

-----------------------------------------------------------------------------
(* Properties *)

\* A successful offboarding: no key it could see is active, those it revoked can no
\* longer be fetched, nobody is bound to the leaver, and the overlay is gone.
OffboardedIsTrue(r) ==
    r.verb = "offboard" /\ r.worst = "ok" =>
        /\ "keys" \notin r.raced => Active(r.who) = {}
        /\ \A k \in r.revoked : status[k] = "revoked" /\ ~held[k]
        /\ "users" \notin r.raced /\ dossier = "local" => Bound(users, r.who) = {}
        /\ "overlay" \notin r.raced /\ ~r.keep => ~overlay[PathOf[r.who]].there

\* A successful onboarding: the principal has an active key that can be fetched, its
\* user is bound to it, and the overlay names it with the operator's own keys kept.
OnboardedIsTrue(r) ==
    r.verb = "onboard" /\ r.worst = "ok" =>
        /\ "keys" \notin r.raced => \E k \in Active(r.who) : held[k]
        /\ "users" \notin r.raced /\ dossier = "local" => users[UserOf[r.who]] = r.who
        /\ "overlay" \notin r.raced => overlay[PathOf[r.who]] = r.text

\* A run that reports success is right about everything no other run has changed
\* since it looked (run_user_onboarding, run_user_offboarding, aggregate_outcome).
ReportsAreTrue ==
    \A p \in Procs : At(p, "done") => OffboardedIsTrue(proc[p]) /\ OnboardedIsTrue(proc[p])

\* A private key that can be fetched is deleted only once its registration is revoked:
\* no failure, crash or second run leaves a registered key nobody can sign with
\* (_revoke_keys before _secret_backend_step).
DeletedOnlyIfRevoked == \A k \in Keys : status[k] = "active" => held[k]

\* A step of p itself, as opposed to a race its ghost records.
Moves(p) == [proc[p] EXCEPT !.raced = {}] # [proc[p] EXCEPT !.raced = {}]'

\* No run binds a bound user to somebody else, and only the leaver's own offboarding
\* unbinds one - as long as nobody wrote the users file since the run read it
\* (bind_dossier_identity: REFUSED rather than rewritten).
BindingsStay ==
    [][\A p \in Procs, u \in Users :
          Moves(p) /\ "users" \notin proc[p].raced /\ users[u] \in Principals
          => \/ users'[u] = users[u]
             \/ /\ users'[u] = NoOne
                /\ proc[p].verb = "offboard" /\ proc[p].who = users[u]]_vars

\* "Automation must not read a manual_action_required offboarding as complete"
\* (docs/multi-user-onboarding.md:227): once an offboarding succeeds, no private key of
\* the leaver can be fetched; violated when it is run again after one that was MANUAL.
OffboardingClosesFetch ==
    \A p \in Procs :
        At(p, "done") /\ proc[p].verb = "offboard" /\ proc[p].worst = "ok"
        /\ "keys" \notin proc[p].raced
        => \A k \in KeysOf(proc[p].who) : ~held[k]

\* An operator who keeps offboarding a leaver gets there, whatever failed before and
\* whoever is onboarded meanwhile: no active key, no binding and no overlay are left,
\* each again and again.
FairSpec == /\ Spec
            /\ \A p \in Procs : WF_vars(Work(p))
            /\ \A p \in Procs, who \in Principals : SF_vars(BeginOffboard(p, who, FALSE))
OffboardingConverges ==
    \A who \in Principals :
        /\ []<>(Active(who) = {})
        /\ []<>(dossier = "local" => Bound(users, who) = {})
        /\ []<>~overlay[PathOf[who]].there
=============================================================================

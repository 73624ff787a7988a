---------------------------- MODULE DualControl ----------------------------
(***************************************************************************)
(* Dual control of protected operations: src/agent_suite/dual_control.py,  *)
(* the file store src/agent_suite/dual_control_store.py, and the           *)
(* `agent-suite dual-control` verbs of src/agent_suite/cli.py.             *)
(*                                                                         *)
(* Each store method runs under an exclusive file lock and replaces the    *)
(* file atomically, so it is one step.  evaluate_approval is not: it takes *)
(* the clock, reads the record, decides, and only then calls store.approve *)
(* - time, other approvers and cleanup_expired run in between.             *)
(***************************************************************************)
EXTENDS Integers, FiniteSets

CONSTANTS
    Ids,            \* request ids secrets.token_hex can issue
    Principals,
    Operations,
    Digests,        \* operation digests
    Hashes,         \* token hashes
    Tokens,         \* validated tokens
    TokenOf,        \* [Tokens -> Token]: what was validated about each; the CLI stamps
                    \* every token as cli-requester or cli-approver, multi factor
    MinLevel,       \* [Operations -> Levels]: required_step_up
    Callers,        \* concurrent processes that evaluate an approval
    Asked,          \* what requesters ask for: token, operation, digest and level
    Presented,      \* what library callers pass: request, approval and token
    TTL,            \* lifetime of a request
    MaxTime         \* bound on the clock

Levels == 0 .. 2            \* _step_up_rank: single factor, multi factor, hard token
Times == 0 .. MaxTime
Token == [principal : Principals, level : Levels, expires : Nat, hash : Hashes]

ASSUME TimeAssumption == TTL \in Nat /\ MaxTime \in Nat
Request == [id : Ids, requester : Principals, op : Operations, level : Levels,
            digest : Digests, expires : Nat]
Approval == [id : Ids, approver : Principals, hash : Hashes, digest : Digests]
ASSUME ShapeAssumption ==
    /\ TokenOf \in [Tokens -> Token]
    /\ MinLevel \in [Operations -> Levels]
    /\ Asked \subseteq [token : Tokens, op : Operations, digest : Digests, level : Levels]
    /\ Presented \subseteq [request : Request, approval : Approval, token : Tokens]

States == {"none", "pending", "approved", "executed", "removed"}
Decisions == {"none", "approved", "rejected", "expired"}

\* A record keeps its request and its approval, each a set with at most one element.
Record == [state : States, request : SUBSET Request, approval : SUBSET Approval]
NoRecord == [state |-> "none", request |-> {}, approval |-> {}]

Local == [pc : {"idle", "held", "clocked", "cleared", "recorded"},
          shown : SUBSET Request,       \* the request object the caller passes
          approval : SUBSET Approval,   \* the approval it presents
          token : SUBSET Tokens,        \* the approver token it presents
          now : Times,                  \* `current`
          decision : Decisions]
Idle(d) == [pc |-> "idle", shown |-> {}, approval |-> {}, token |-> {},
            now |-> 0, decision |-> d]

VARIABLES
    store,          \* [Ids -> Record]; "none" and "removed" are not in the file
    clock,
    local,          \* [Callers -> Local]
    grants,         \* history: how many APPROVED decisions each id was answered
    uses            \* history: how often each id was marked executed

vars == <<store, clock, local, grants, uses>>

TypeOK ==
    /\ store \in [Ids -> Record]
    /\ clock \in Times
    /\ local \in [Callers -> Local]
    /\ grants \in [Ids -> Nat]
    /\ uses \in [Ids -> Nat]

Init ==
    /\ store = [i \in Ids |-> NoRecord]
    /\ clock = 0
    /\ local = [c \in Callers |-> Idle("none")]
    /\ grants = [i \in Ids |-> 0]
    /\ uses = [i \in Ids |-> 0]

-----------------------------------------------------------------------------
(* Tokens and requests *)

Expired(at, now) == now >= at
Meets(t, level) == TokenOf[t].level >= level

\* The level asked for may only raise the operation's minimum.
RequiredLevel(op, asked) == IF asked >= MinLevel[op] THEN asked ELSE MinLevel[op]

\* create_request, then store.create under a fresh id.
CreateRequest(t, op, digest, asked) ==
    LET required == RequiredLevel(op, asked) IN
    /\ ~Expired(TokenOf[t].expires, clock)
    /\ Meets(t, required)
    /\ \E i \in Ids :
          /\ store[i].state = "none"
          /\ store' = [store EXCEPT ![i] =
                [state |-> "pending", approval |-> {},
                 request |-> {[id |-> i, requester |-> TokenOf[t].principal,
                               op |-> op, level |-> required, digest |-> digest,
                               expires |-> clock + TTL]}]]
    /\ UNCHANGED <<clock, local, grants, uses>>

InFile(i) == store[i].state \in {"pending", "approved", "executed"}

-----------------------------------------------------------------------------
(* Approving *)

Hold(c, rq, a, t) ==
    local' = [local EXCEPT ![c] = [Idle("none") EXCEPT
                  !.pc = "held", !.shown = {rq}, !.approval = {a}, !.token = {t}]]

\* `dual-control approve`: store.get, then create_approval on the record's request.
CliApprove(c, i, t) ==
    /\ local[c].pc = "idle"
    /\ InFile(i)
    /\ \E rq \in store[i].request :
          /\ ~Expired(rq.expires, clock)
          /\ ~Expired(TokenOf[t].expires, clock)
          /\ Meets(t, rq.level)
          /\ rq.requester # TokenOf[t].principal
          /\ Hold(c, rq, [id |-> i, approver |-> TokenOf[t].principal,
                          hash |-> TokenOf[t].hash, digest |-> rq.digest], t)
    /\ UNCHANGED <<store, clock, grants, uses>>

\* A library caller passes any request object and approval to evaluate_approval.
Present(c) ==
    /\ local[c].pc = "idle"
    /\ \E x \in Presented : Hold(c, x.request, x.approval, x.token)
    /\ UNCHANGED <<store, clock, grants, uses>>

\* evaluate_approval takes the time once, before it reads the store.
TakeTime(c) ==
    /\ local[c].pc = "held"
    /\ local' = [local EXCEPT ![c].pc = "clocked", ![c].now = clock]
    /\ UNCHANGED <<store, clock, grants, uses>>

\* The checks on the stored request, in the code's order.
Verdict(rq, a, t, now) ==
    IF Expired(rq.expires, now) THEN "expired"
    ELSE IF \/ Expired(TokenOf[t].expires, now)
            \/ ~Meets(t, rq.level)
            \/ rq.requester = TokenOf[t].principal
            \/ a.id # rq.id
            \/ a.digest # rq.digest
            \/ a.hash # TokenOf[t].hash
            \/ a.approver # TokenOf[t].principal
         THEN "rejected"
    ELSE "approved"

Judge(c, rq) ==
    LET l == local[c] IN
    \E a \in l.approval, t \in l.token :
       LET v == Verdict(rq, a, t, l.now) IN
       local' = [local EXCEPT ![c] =
          IF v = "approved" THEN [l EXCEPT !.pc = "cleared", !.shown = {rq}] ELSE Idle(v)]

\* Mutant: the request object the caller passed is judged, not the stored one.
ReadRecord_TrustsCaller(c) ==
    /\ local[c].pc = "clocked"
    /\ \E shown \in local[c].shown :
          IF store[shown.id].state = "pending" THEN Judge(c, shown)
          ELSE local' = [local EXCEPT ![c] = Idle("rejected")]
    /\ UNCHANGED <<store, clock, grants, uses>>

\* store.get: the record's request replaces the one the caller passed.
ReadRecord(c) ==
    /\ local[c].pc = "clocked"
    /\ \E shown \in local[c].shown :
          IF store[shown.id].state = "pending"
          THEN \E rq \in store[shown.id].request : Judge(c, rq)
          ELSE local' = [local EXCEPT ![c] = Idle("rejected")]
    /\ UNCHANGED <<store, clock, grants, uses>>

\* Mutant: the store's refusal is swallowed and the decision stands.
StoreApprove_Swallows(c) ==
    /\ local[c].pc = "cleared"
    /\ \E a \in local[c].approval :
          /\ IF store[a.id].state = "pending"
             THEN store' = [store EXCEPT ![a.id].state = "approved", ![a.id].approval = {a}]
             ELSE UNCHANGED store
          /\ local' = [local EXCEPT ![c].pc = "recorded"]
    /\ UNCHANGED <<clock, grants, uses>>

\* store.approve: only a record that is still PENDING is approved.
StoreApprove(c) ==
    /\ local[c].pc = "cleared"
    /\ \E a \in local[c].approval :
          IF store[a.id].state = "pending"
          THEN /\ store' = [store EXCEPT ![a.id].state = "approved", ![a.id].approval = {a}]
               /\ local' = [local EXCEPT ![c].pc = "recorded"]
          ELSE /\ local' = [local EXCEPT ![c] = Idle("rejected")]
               /\ UNCHANGED store
    /\ UNCHANGED <<clock, grants, uses>>

\* The APPROVED decision reaches the caller, who keeps its approval.
Answer(c) ==
    /\ local[c].pc = "recorded"
    /\ \E a \in local[c].approval :
          /\ local' = [local EXCEPT ![c] = [Idle("approved") EXCEPT !.approval = {a}]]
          /\ grants' = [grants EXCEPT ![a.id] = @ + 1]
    /\ UNCHANGED <<store, clock, uses>>

\* The store cannot be read or written: StoreError, OSError or a timeout.
StoreUnavailable(c) ==
    /\ local[c].pc = "cleared"
    /\ local' = [local EXCEPT ![c] = Idle("rejected")]
    /\ UNCHANGED <<store, clock, grants, uses>>

-----------------------------------------------------------------------------
(* Executing, housekeeping and the environment *)

\* Mutant: any stored request can be marked executed.
MarkExecuted_AnyState(i) ==
    /\ InFile(i)
    /\ \A rq \in store[i].request : ~Expired(rq.expires, clock)
    /\ uses[i] < 2
    /\ store' = [store EXCEPT ![i].state = "executed"]
    /\ uses' = [uses EXCEPT ![i] = @ + 1]
    /\ UNCHANGED <<clock, local, grants>>

\* mark_executed on an APPROVED request that has not expired; otherwise FAILED.
MarkExecuted(i) ==
    /\ store[i].state = "approved"
    /\ \A rq \in store[i].request : ~Expired(rq.expires, clock)
    /\ store' = [store EXCEPT ![i].state = "executed"]
    /\ uses' = [uses EXCEPT ![i] = @ + 1]
    /\ UNCHANGED <<clock, local, grants>>

\* cleanup_expired deletes every PENDING record whose request expired.
Expirable == {i \in Ids : /\ store[i].state = "pending"
                          /\ \A rq \in store[i].request : Expired(rq.expires, clock)}

\* Mutant: records that were approved or executed are deleted with the others.
CleanupExpired_All ==
    /\ \E i \in Ids : InFile(i)
    /\ store' = [i \in Ids |->
          IF InFile(i) /\ \A rq \in store[i].request : Expired(rq.expires, clock)
          THEN [store[i] EXCEPT !.state = "removed"] ELSE store[i]]
    /\ UNCHANGED <<clock, local, grants, uses>>

\* Mutant: an expired record is kept in the file, marked EXPIRED.
CleanupExpired_Marks ==
    /\ Expirable # {}
    /\ store' = [i \in Ids |-> IF i \in Expirable
                               THEN [store[i] EXCEPT !.state = "expired"] ELSE store[i]]
    /\ UNCHANGED <<clock, local, grants, uses>>

CleanupExpired ==
    /\ Expirable # {}
    /\ store' = [i \in Ids |-> IF i \in Expirable
                               THEN [store[i] EXCEPT !.state = "removed"] ELSE store[i]]
    /\ UNCHANGED <<clock, local, grants, uses>>

Tick ==
    /\ clock < MaxTime
    /\ clock' = clock + 1
    /\ UNCHANGED <<store, local, grants, uses>>

\* A caller dies, or starts over after an error.
Crash(c) ==
    /\ local[c] # Idle("none")
    /\ local' = [local EXCEPT ![c] = Idle("none")]
    /\ UNCHANGED <<store, clock, grants, uses>>
Evaluation(c) ==
    \/ \E i \in Ids, t \in Tokens : CliApprove(c, i, t)
    \/ Present(c) \/ TakeTime(c) \/ ReadRecord(c)
    \/ StoreApprove(c) \/ StoreUnavailable(c) \/ Answer(c) \/ Crash(c)

Next ==
    \/ \E x \in Asked : CreateRequest(x.token, x.op, x.digest, x.level)
    \/ \E c \in Callers : Evaluation(c)
    \/ \E i \in Ids : MarkExecuted(i)
    \/ CleanupExpired
    \/ Tick

Spec == Init /\ [][Next]_vars

-----------------------------------------------------------------------------
(* Properties *)

Backed(i) ==
    \E rq \in store[i].request, a \in store[i].approval :
        /\ store[i].request = {rq} /\ store[i].approval = {a}
        /\ rq.id = i /\ a.id = i
        /\ a.approver # rq.requester
        /\ \E t \in Tokens : /\ TokenOf[t].hash = a.hash
                            /\ TokenOf[t].principal = a.approver
                            /\ TokenOf[t].level >= MinLevel[rq.op]
        /\ a.digest = rq.digest

\* Every request that counts as approved or executed is backed by one approval, of
\* this very operation, by a second principal whose own token meets the operation's
\* minimum step-up, whatever request object the approving caller passed in
\* (evaluate_approval, dual_control.py:213-363).
TwoPrincipals ==
    \A i \in Ids : store[i].state \in {"approved", "executed"} => Backed(i)

\* No request is ever answered APPROVED twice or executed twice, by any
\* interleaving of approvers and executors (store.approve, store.mark_executed).
AtMostOnce == \A i \in Ids : grants[i] <= 1 /\ uses[i] <= 1

\* A caller told APPROVED is the one whose approval the store holds, even when
\* another approver, an expiry or a clean-up ran between its read and its write.
GrantIsMine ==
    \A c \in Callers : local[c].decision = "approved" =>
        \A a \in local[c].approval :
            /\ store[a.id].state \in {"approved", "executed"}
            /\ store[a.id].approval = {a}

PhaseOf == [none |-> "new", pending |-> "asked", approved |-> "granted",
            executed |-> "used", removed |-> "lapsed"]
Phases == [i \in Ids |-> PhaseOf[store[i].state]]
Askers == [i \in Ids |-> {rq.requester : rq \in store[i].request}]
Granters == [i \in Ids |-> {a.approver : a \in store[i].approval}]
Abstract == INSTANCE SingleUse WITH phase <- Phases, asker <- Askers, granter <- Granters

\* The store and its callers implement the single-use authorization of SingleUse:
\* no record goes back, is approved by its requester, or is deleted once granted.
ImplementsSingleUse == Abstract!Spec
=============================================================================

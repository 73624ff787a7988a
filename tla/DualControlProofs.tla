------------------------- MODULE DualControlProofs -------------------------
(***************************************************************************)
(* Theorems about DualControl, for every set of ids, principals, tokens    *)
(* and callers and every lifetime and clock bound.                         *)
(***************************************************************************)
EXTENDS DualControl, TLAPS

(* Types.                                                                   *)

LEMMA IdleType == ASSUME NEW d \in Decisions PROVE Idle(d) \in Local
  BY TimeAssumption DEF Idle, Local, Times

LEMMA RequiredLevelType ==
  ASSUME NEW op \in Operations, NEW asked \in Levels
  PROVE RequiredLevel(op, asked) \in Levels /\ RequiredLevel(op, asked) >= MinLevel[op]
  BY ShapeAssumption DEF RequiredLevel, Levels

LEMMA VerdictType ==
  ASSUME NEW rq, NEW a, NEW t, NEW now
  PROVE Verdict(rq, a, t, now) \in {"approved", "rejected", "expired"}
  BY DEF Verdict

LEMMA TypeStep == TypeOK /\ [Next]_vars => TypeOK'
<1> SUFFICES ASSUME TypeOK, [Next]_vars PROVE TypeOK' OBVIOUS
<1>0. Idle("none") \in Local /\ Idle("rejected") \in Local /\ Idle("expired") \in Local
      /\ Idle("approved") \in Local
  BY IdleType DEF Decisions
<1>1. ASSUME NEW x \in Asked, CreateRequest(x.token, x.op, x.digest, x.level) PROVE TypeOK'
  <2>1. x.token \in Tokens /\ x.op \in Operations /\ x.digest \in Digests /\ x.level \in Levels
    BY ShapeAssumption
  <2>2. TokenOf[x.token] \in Token BY <2>1, ShapeAssumption
  <2>3. RequiredLevel(x.op, x.level) \in Levels BY <2>1, RequiredLevelType
  <2>4. clock + TTL \in Nat BY TimeAssumption DEF TypeOK, Times
  <2>5. PICK i \in Ids : store' = [store EXCEPT ![i] =
              [state |-> "pending", approval |-> {},
               request |-> {[id |-> i, requester |-> TokenOf[x.token].principal,
                             op |-> x.op, level |-> RequiredLevel(x.op, x.level),
                             digest |-> x.digest, expires |-> clock + TTL]}]]
    BY <1>1 DEF CreateRequest
  <2>6. [id |-> i, requester |-> TokenOf[x.token].principal, op |-> x.op,
         level |-> RequiredLevel(x.op, x.level), digest |-> x.digest,
         expires |-> clock + TTL] \in Request
    BY <2>1, <2>2, <2>3, <2>4 DEF Request, Token
  <2>7. store' \in [Ids -> Record]
    BY <2>5, <2>6 DEF TypeOK, Record, States
  <2> QED BY <2>7, <1>1 DEF CreateRequest, TypeOK
<1>2. ASSUME NEW c \in Callers, NEW i \in Ids, NEW t \in Tokens, CliApprove(c, i, t)
      PROVE TypeOK'
  <2>1. PICK rq \in store[i].request :
            Hold(c, rq, [id |-> i, approver |-> TokenOf[t].principal,
                         hash |-> TokenOf[t].hash, digest |-> rq.digest], t)
    BY <1>2 DEF CliApprove
  <2>2. rq \in Request BY DEF TypeOK, Record
  <2>3. [id |-> i, approver |-> TokenOf[t].principal, hash |-> TokenOf[t].hash,
         digest |-> rq.digest] \in Approval
    BY <2>2, ShapeAssumption DEF Approval, Request, Token
  <2>4. local' \in [Callers -> Local]
    BY <2>1, <2>2, <2>3, <1>0 DEF Hold, TypeOK, Local
  <2> QED BY <2>4, <1>2 DEF CliApprove, TypeOK
<1>3. ASSUME NEW c \in Callers, Present(c) PROVE TypeOK'
  <2>1. PICK x \in Presented : Hold(c, x.request, x.approval, x.token)
    BY <1>3 DEF Present
  <2>2. x.request \in Request /\ x.approval \in Approval /\ x.token \in Tokens
    BY ShapeAssumption
  <2>3. local' \in [Callers -> Local]
    BY <2>1, <2>2, <1>0 DEF Hold, TypeOK, Local
  <2> QED BY <2>3, <1>3 DEF Present, TypeOK
<1>4. ASSUME NEW c \in Callers, TakeTime(c) PROVE TypeOK'
  BY <1>4 DEF TakeTime, TypeOK, Local
<1>5. ASSUME NEW c \in Callers, ReadRecord(c) PROVE TypeOK'
  <2>1. ASSUME NEW rq \in Request, Judge(c, rq) PROVE local' \in [Callers -> Local]
    <3>1. PICK a \in local[c].approval, t \in local[c].token :
              local' = [local EXCEPT ![c] =
                 IF Verdict(rq, a, t, local[c].now) = "approved"
                 THEN [local[c] EXCEPT !.pc = "cleared", !.shown = {rq}]
                 ELSE Idle(Verdict(rq, a, t, local[c].now))]
      BY <2>1 DEF Judge
    <3>2. Idle(Verdict(rq, a, t, local[c].now)) \in Local
      BY VerdictType, IdleType DEF Decisions
    <3>3. [local[c] EXCEPT !.pc = "cleared", !.shown = {rq}] \in Local
      BY <2>1 DEF TypeOK, Local
    <3> QED BY <3>1, <3>2, <3>3 DEF TypeOK
  <2>2. ASSUME NEW shown \in local[c].shown, NEW rq \in store[shown.id].request
        PROVE rq \in Request
    BY DEF TypeOK, Local, Request, Record
  <2>3. local' \in [Callers -> Local]
    BY <1>5, <2>1, <2>2, <1>0 DEF ReadRecord, TypeOK
  <2> QED BY <2>3, <1>5 DEF ReadRecord, TypeOK
<1>6. ASSUME NEW c \in Callers, StoreApprove(c) PROVE TypeOK'
  <2>1. \A a \in local[c].approval : a \in Approval /\ a.id \in Ids
    BY DEF TypeOK, Local, Approval
  <2>2. local' \in [Callers -> Local] BY <1>6, <1>0 DEF StoreApprove, TypeOK, Local
  <2>3. store' \in [Ids -> Record] BY <1>6, <2>1 DEF StoreApprove, TypeOK, Record, States
  <2> QED BY <2>2, <2>3, <1>6 DEF StoreApprove, TypeOK
<1>7. ASSUME NEW c \in Callers, StoreUnavailable(c) PROVE TypeOK'
  BY <1>7, <1>0 DEF StoreUnavailable, TypeOK
<1>8. ASSUME NEW c \in Callers, Answer(c) PROVE TypeOK'
  <2>1. \A a \in local[c].approval : a \in Approval /\ a.id \in Ids
    BY DEF TypeOK, Local, Approval
  <2>2. local' \in [Callers -> Local] BY <1>8, <1>0, <2>1 DEF Answer, TypeOK, Local
  <2>3. grants' \in [Ids -> Nat] BY <1>8, <2>1 DEF Answer, TypeOK
  <2> QED BY <2>2, <2>3, <1>8 DEF Answer, TypeOK
<1>9. ASSUME NEW c \in Callers, Crash(c) PROVE TypeOK'
  BY <1>9, <1>0 DEF Crash, TypeOK
<1>10. ASSUME NEW i \in Ids, MarkExecuted(i) PROVE TypeOK'
  BY <1>10 DEF MarkExecuted, TypeOK, Record, States
<1>11. CASE CleanupExpired
  BY <1>11 DEF CleanupExpired, TypeOK, Record, States
<1>12. CASE Tick
  BY <1>12, TimeAssumption DEF Tick, TypeOK, Times
<1>13. CASE UNCHANGED vars BY <1>13 DEF vars, TypeOK
<1> QED BY <1>1, <1>2, <1>3, <1>4, <1>5, <1>6, <1>7, <1>8, <1>9, <1>10, <1>11, <1>12,
           <1>13 DEF Next, Evaluation

\* The type invariant: the store, the callers and the histories keep their types.
THEOREM TypeCorrect == Spec => []TypeOK
<1>1. Init => TypeOK
  <2> SUFFICES ASSUME Init PROVE TypeOK OBVIOUS
  <2>1. NoRecord \in Record BY DEF NoRecord, Record, States
  <2>2. Idle("none") \in Local BY IdleType DEF Decisions
  <2> QED BY <2>1, <2>2, TimeAssumption DEF Init, TypeOK, Times
<1> QED BY <1>1, TypeStep, PTL DEF Spec

-----------------------------------------------------------------------------
(* The inductive invariant.  TwoPrincipals is not inductive by itself: what   *)
(* a caller cleared before it reaches the store has to match what the store   *)
(* still holds then.                                                          *)

\* A record has the request it was created with; only an approved or executed
\* one has an approval, and only such a one was answered or used.
StoreInv ==
  \A i \in Ids :
    /\ store[i].state = "none" => store[i].request = {}
    /\ store[i].state # "none" =>
          \E rq \in store[i].request : /\ store[i].request = {rq}
                                       /\ rq.id = i
                                       /\ rq.level >= MinLevel[rq.op]
    /\ store[i].state \in {"none", "pending", "removed"} =>
          store[i].approval = {} /\ grants[i] = 0
    /\ store[i].state \in {"approved", "executed"} => Backed(i)
    /\ grants[i] <= 1
    /\ uses[i] = IF store[i].state = "executed" THEN 1 ELSE 0

\* a is the approval the store holds for its request.
Held(a) == /\ store[a.id].state \in {"approved", "executed"}
           /\ store[a.id].approval = {a}

\* What each stage of evaluate_approval has established.
CallerOK(c) ==
  /\ local[c].pc # "idle" =>
        /\ local[c].decision = "none"
        /\ \E a \in Approval, t \in Tokens : local[c].approval = {a} /\ local[c].token = {t}
  /\ local[c].pc = "cleared" =>
        \A a \in local[c].approval, t \in local[c].token :
           /\ store[a.id].state # "none"
           /\ \E rq \in store[a.id].request : Verdict(rq, a, t, local[c].now) = "approved"
  /\ local[c].pc = "recorded" =>
        \A a \in local[c].approval : Held(a) /\ grants[a.id] = 0
  /\ local[c].decision = "approved" =>
        \A a \in local[c].approval : Held(a)
CallerInv == \A c \in Callers : CallerOK(c)

\* Only one caller at a time is between its write and its answer for a request.
OneRecorded ==
  \A c, d \in Callers :
    local[c].pc = "recorded" /\ local[d].pc = "recorded" /\ c # d =>
      \A a \in local[c].approval, b \in local[d].approval : a.id # b.id

IInv == TypeOK /\ StoreInv /\ CallerInv /\ OneRecorded

LEMMA VerdictApproved ==
  ASSUME NEW rq, NEW a, NEW t, NEW now, Verdict(rq, a, t, now) = "approved"
  PROVE /\ Meets(t, rq.level)
        /\ rq.requester # TokenOf[t].principal
        /\ a.id = rq.id
        /\ a.digest = rq.digest
        /\ a.hash = TokenOf[t].hash
        /\ a.approver = TokenOf[t].principal
  BY DEF Verdict

LEMMA InvInit == Init => IInv
<1> SUFFICES ASSUME Init PROVE IInv OBVIOUS
<1>1. TypeOK
  <2>1. NoRecord \in Record BY DEF NoRecord, Record, States
  <2>2. Idle("none") \in Local BY IdleType DEF Decisions
  <2> QED BY <2>1, <2>2, TimeAssumption DEF Init, TypeOK, Times
<1>2. StoreInv BY DEF Init, StoreInv, NoRecord
<1>3. CallerInv BY DEF Init, CallerInv, CallerOK, Idle
<1>4. OneRecorded BY DEF Init, OneRecorded, Idle
<1> QED BY <1>1, <1>2, <1>3, <1>4 DEF IInv

LEMMA StoreFrame ==
  ASSUME StoreInv, UNCHANGED <<store, grants, uses>> PROVE StoreInv'
  BY DEF StoreInv, Backed

LEMMA CallerFrame ==
  ASSUME NEW d \in Callers, CallerOK(d), local'[d] = local[d],
         UNCHANGED <<store, grants>>
  PROVE CallerOK(d)'
  BY DEF CallerOK, Held

\* A caller that ends without a new decision to answer for.
LEMMA CallerIdles ==
  ASSUME TypeOK, StoreInv, CallerInv, OneRecorded, NEW c \in Callers,
         NEW dec \in {"none", "rejected", "expired"},
         local' = [local EXCEPT ![c] = Idle(dec)],
         UNCHANGED <<store, grants, uses>>
  PROVE StoreInv' /\ CallerInv' /\ OneRecorded'
<1>1. StoreInv' BY StoreFrame
<1>2. \A d \in Callers : d # c => local'[d] = local[d] BY DEF TypeOK
<1>3. local'[c] = Idle(dec) BY DEF TypeOK
<1>4. CallerOK(c)' BY <1>3 DEF CallerOK, Idle
<1>5. CallerInv' BY <1>2, <1>4, CallerFrame DEF CallerInv
<1>6. OneRecorded' BY <1>2, <1>3 DEF OneRecorded, Idle
<1> QED BY <1>1, <1>5, <1>6

\* A caller that moves on, still short of recording its approval.
LEMMA CallerMoves ==
  ASSUME TypeOK, StoreInv, CallerInv, OneRecorded, NEW c \in Callers,
         NEW l, local' = [local EXCEPT ![c] = l], CallerOK(c)', l.pc # "recorded",
         UNCHANGED <<store, grants, uses>>
  PROVE StoreInv' /\ CallerInv' /\ OneRecorded'
<1>1. StoreInv' BY StoreFrame
<1>2. \A d \in Callers : d # c => local'[d] = local[d] BY DEF TypeOK
<1>3. local'[c] = l BY DEF TypeOK
<1>5. CallerInv' BY <1>2, CallerFrame DEF CallerInv
<1>6. OneRecorded' BY <1>2, <1>3 DEF OneRecorded
<1> QED BY <1>1, <1>5, <1>6

LEMMA HoldPreserves ==
  ASSUME IInv, NEW c \in Callers, NEW rq \in Request, NEW a \in Approval, NEW t \in Tokens,
         Hold(c, rq, a, t), UNCHANGED <<store, clock, grants, uses>>
  PROVE StoreInv' /\ CallerInv' /\ OneRecorded'
<1> DEFINE l == [Idle("none") EXCEPT !.pc = "held", !.shown = {rq},
                                     !.approval = {a}, !.token = {t}]
<1>1. local' = [local EXCEPT ![c] = l] BY DEF Hold
<1>2. /\ l.pc = "held" /\ l.decision = "none" /\ l.approval = {a} /\ l.token = {t}
  BY DEF Idle
<1>3. local'[c] = l BY <1>1 DEF IInv, TypeOK
<1>4. CallerOK(c)' BY <1>2, <1>3 DEF CallerOK
<1> HIDE DEF l
<1> QED BY <1>1, <1>2, <1>4, CallerMoves DEF IInv

LEMMA CreatePreserves ==
  ASSUME IInv, NEW x \in Asked, CreateRequest(x.token, x.op, x.digest, x.level)
  PROVE StoreInv' /\ CallerInv' /\ OneRecorded'
<1>1. x.token \in Tokens /\ x.op \in Operations /\ x.digest \in Digests /\ x.level \in Levels
  BY ShapeAssumption
<1> DEFINE level == RequiredLevel(x.op, x.level)
           rq(i) == [id |-> i, requester |-> TokenOf[x.token].principal, op |-> x.op,
                     level |-> level, digest |-> x.digest, expires |-> clock + TTL]
<1>2. PICK i \in Ids : /\ store[i].state = "none"
                       /\ store' = [store EXCEPT ![i] = [state |-> "pending",
                                       approval |-> {}, request |-> {rq(i)}]]
  BY DEF CreateRequest
<1>3. level >= MinLevel[x.op] BY <1>1, RequiredLevelType
<1>4. UNCHANGED <<clock, local, grants, uses>> BY DEF CreateRequest
<1>5. /\ store'[i].state = "pending" /\ store'[i].approval = {}
      /\ store'[i].request = {rq(i)}
  BY <1>2 DEF IInv, TypeOK
<1>6. \A k \in Ids : k # i => store'[k] = store[k] BY <1>2 DEF IInv, TypeOK
<1>7. StoreInv'
  <2> SUFFICES ASSUME NEW k \in Ids
               PROVE /\ store'[k].state = "none" => store'[k].request = {}
                     /\ store'[k].state # "none" =>
                          \E r \in store'[k].request : /\ store'[k].request = {r}
                                                       /\ r.id = k
                                                       /\ r.level >= MinLevel[r.op]
                     /\ store'[k].state \in {"none", "pending", "removed"} =>
                          store'[k].approval = {} /\ grants[k] = 0
                     /\ store'[k].state \in {"approved", "executed"} => Backed(k)'
                     /\ grants[k] <= 1
                     /\ uses[k] = IF store'[k].state = "executed" THEN 1 ELSE 0
    BY <1>4 DEF StoreInv
  <2>1. CASE k = i
    <3>1. rq(i).id = i /\ rq(i).level >= MinLevel[rq(i).op] BY <1>3
    <3> QED BY <2>1, <3>1, <1>2, <1>5 DEF IInv, StoreInv
  <2>2. CASE k # i
    BY <2>2, <1>6 DEF IInv, StoreInv, Backed
  <2> QED BY <2>1, <2>2
<1>8. CallerInv'
  <2> SUFFICES ASSUME NEW c \in Callers PROVE CallerOK(c)' BY DEF CallerInv
  <2>1. CallerOK(c) BY DEF IInv, CallerInv
  <2>2. \A a \in local[c].approval : a.id \in Ids BY DEF IInv, TypeOK, Local, Approval
  <2>3. \A a : a.id \in Ids /\ store[a.id].state # "none" => store'[a.id] = store[a.id]
    BY <1>2, <1>6
  <2> QED BY <2>1, <2>2, <2>3, <1>4 DEF CallerOK, Held
<1>9. OneRecorded' BY <1>4 DEF IInv, OneRecorded
<1> QED BY <1>7, <1>8, <1>9

LEMMA TakeTimePreserves ==
  ASSUME IInv, NEW c \in Callers, TakeTime(c)
  PROVE StoreInv' /\ CallerInv' /\ OneRecorded'
<1> DEFINE l == [local[c] EXCEPT !.pc = "clocked", !.now = clock]
<1>1. local[c] \in Local /\ CallerOK(c) /\ local[c].pc = "held"
  BY DEF IInv, TypeOK, CallerInv, TakeTime
<1>2. local' = [local EXCEPT ![c] = l] BY DEF TakeTime, IInv, TypeOK
<1>3. /\ l.pc = "clocked" /\ l.decision = local[c].decision
      /\ l.approval = local[c].approval /\ l.token = local[c].token
  BY <1>1 DEF Local
<1>4. local'[c] = l BY <1>2 DEF IInv, TypeOK
<1> HIDE DEF l
<1>5. CallerOK(c)' BY <1>1, <1>3, <1>4 DEF CallerOK
<1>6. UNCHANGED <<store, grants, uses>> BY DEF TakeTime
<1> QED BY <1>2, <1>3, <1>5, <1>6, CallerMoves DEF IInv

LEMMA ReadRecordPreserves ==
  ASSUME IInv, NEW c \in Callers, ReadRecord(c)
  PROVE StoreInv' /\ CallerInv' /\ OneRecorded'
<1>1. local[c] \in Local /\ CallerOK(c) /\ local[c].pc = "clocked"
  BY DEF IInv, TypeOK, CallerInv, ReadRecord
<1>2. UNCHANGED <<store, grants, uses>> BY DEF ReadRecord
<1>3. PICK shown \in local[c].shown :
          IF store[shown.id].state = "pending"
          THEN \E rq \in store[shown.id].request : Judge(c, rq)
          ELSE local' = [local EXCEPT ![c] = Idle("rejected")]
  BY DEF ReadRecord
<1>4. CASE store[shown.id].state # "pending"
  BY <1>2, <1>3, <1>4, CallerIdles DEF IInv
<1>5. CASE store[shown.id].state = "pending"
  <2>1. PICK rq \in store[shown.id].request : Judge(c, rq) BY <1>3, <1>5
  <2>2. PICK a \in local[c].approval, t \in local[c].token :
            local' = [local EXCEPT ![c] =
               IF Verdict(rq, a, t, local[c].now) = "approved"
               THEN [local[c] EXCEPT !.pc = "cleared", !.shown = {rq}]
               ELSE Idle(Verdict(rq, a, t, local[c].now))]
    BY <2>1 DEF Judge
  <2>3. CASE Verdict(rq, a, t, local[c].now) # "approved"
    <3>1. Verdict(rq, a, t, local[c].now) \in {"none", "rejected", "expired"}
      BY <2>3, VerdictType
    <3>2. local' = [local EXCEPT ![c] = Idle(Verdict(rq, a, t, local[c].now))]
      BY <2>2, <2>3
    <3> QED BY <1>2, <3>1, <3>2, CallerIdles DEF IInv
  <2>4. CASE Verdict(rq, a, t, local[c].now) = "approved"
    <3> DEFINE l == [local[c] EXCEPT !.pc = "cleared", !.shown = {rq}]
    <3>1. local' = [local EXCEPT ![c] = l] BY <2>2, <2>4
    <3>2. /\ l.pc = "cleared" /\ l.decision = local[c].decision /\ l.now = local[c].now
          /\ l.approval = local[c].approval /\ l.token = local[c].token
      BY <1>1 DEF Local
    <3>3. local'[c] = l BY <3>1 DEF IInv, TypeOK
    <3>4. a.id = rq.id BY <2>4, VerdictApproved
    <3>5. shown.id \in Ids BY <1>1 DEF Local, Request
    <3>6. rq.id = shown.id BY <1>5, <3>5 DEF IInv, StoreInv
    <3>7. local[c].approval = {a} /\ local[c].token = {t}
      BY <1>1 DEF CallerOK
    <3> HIDE DEF l
    <3>8. CallerOK(c)'
      BY <1>1, <1>2, <1>5, <2>4, <3>2, <3>3, <3>4, <3>6, <3>7 DEF CallerOK
    <3> QED BY <1>2, <3>1, <3>2, <3>8, CallerMoves DEF IInv
  <2> QED BY <2>3, <2>4
<1> QED BY <1>4, <1>5

LEMMA StoreApprovePreserves ==
  ASSUME IInv, NEW c \in Callers, StoreApprove(c)
  PROVE StoreInv' /\ CallerInv' /\ OneRecorded'
<1>1. local[c] \in Local /\ CallerOK(c) /\ local[c].pc = "cleared"
  BY DEF IInv, TypeOK, CallerInv, StoreApprove
<1>2. UNCHANGED <<grants, uses>> BY DEF StoreApprove
<1>3. PICK a \in Approval, t \in Tokens : local[c].approval = {a} /\ local[c].token = {t}
  BY <1>1 DEF CallerOK
<1>4. a.id \in Ids BY DEF Approval
<1>5. CASE store[a.id].state # "pending"
  <2>1. local' = [local EXCEPT ![c] = Idle("rejected")] /\ UNCHANGED store
    BY <1>3, <1>5 DEF StoreApprove
  <2> QED BY <1>2, <2>1, CallerIdles DEF IInv
<1>6. CASE store[a.id].state = "pending"
  <2>1. /\ store' = [store EXCEPT ![a.id].state = "approved", ![a.id].approval = {a}]
        /\ local' = [local EXCEPT ![c].pc = "recorded"]
    BY <1>3, <1>6 DEF StoreApprove
  <2>2. PICK rq \in store[a.id].request : Verdict(rq, a, t, local[c].now) = "approved"
    BY <1>1, <1>3 DEF CallerOK
  <2>3. /\ store[a.id] \in Record /\ store[a.id].request = {rq} /\ rq.id = a.id
        /\ rq.level >= MinLevel[rq.op] /\ grants[a.id] = 0 /\ uses[a.id] = 0
    BY <1>4, <1>6, <2>2 DEF IInv, TypeOK, StoreInv
  <2>4. rq \in Request BY <2>2, <2>3 DEF Record
  <2>5. /\ store'[a.id].state = "approved" /\ store'[a.id].approval = {a}
        /\ store'[a.id].request = {rq}
    BY <1>4, <2>1, <2>3 DEF IInv, TypeOK, Record
  <2>6. \A k \in Ids : k # a.id => store'[k] = store[k] BY <2>1 DEF IInv, TypeOK
  <2>7. Backed(a.id)'
    <3>1. /\ TokenOf[t].level >= rq.level /\ rq.requester # TokenOf[t].principal
          /\ a.digest = rq.digest /\ a.hash = TokenOf[t].hash /\ a.approver = TokenOf[t].principal
      BY <2>2, VerdictApproved DEF Meets
    <3>2. TokenOf[t].level \in Int /\ rq.level \in Int /\ MinLevel[rq.op] \in Int
      BY <2>4, ShapeAssumption DEF Token, Levels, Request
    <3>3. TokenOf[t].level >= MinLevel[rq.op] BY <2>3, <3>1, <3>2
    <3> QED BY <2>3, <2>5, <3>1, <3>3 DEF Backed
  <2>8. StoreInv'
    <3> SUFFICES ASSUME NEW k \in Ids
                 PROVE /\ store'[k].state = "none" => store'[k].request = {}
                       /\ store'[k].state # "none" =>
                            \E r \in store'[k].request : /\ store'[k].request = {r}
                                                         /\ r.id = k
                                                         /\ r.level >= MinLevel[r.op]
                       /\ store'[k].state \in {"none", "pending", "removed"} =>
                            store'[k].approval = {} /\ grants[k] = 0
                       /\ store'[k].state \in {"approved", "executed"} => Backed(k)'
                       /\ grants[k] <= 1
                       /\ uses[k] = IF store'[k].state = "executed" THEN 1 ELSE 0
      BY <1>2 DEF StoreInv
    <3>1. CASE k = a.id BY <3>1, <2>3, <2>5, <2>7
    <3>2. CASE k # a.id BY <3>2, <2>6 DEF IInv, StoreInv, Backed
    <3> QED BY <3>1, <3>2
  <2>9. \A d \in Callers : d # c => local'[d] = local[d] BY <2>1 DEF IInv, TypeOK
  <2>10. /\ local'[c].pc = "recorded" /\ local'[c].decision = "none"
         /\ local'[c].approval = {a} /\ local'[c].token = {t}
    BY <1>1, <1>3, <2>1 DEF IInv, TypeOK, Local, CallerOK
  <2>11. \A b \in Approval : Held(b) => b.id # a.id /\ Held(b)'
    BY <1>6, <2>6 DEF Held, Approval
  <2>12. CallerOK(c)' BY <1>2, <2>3, <2>5, <2>10 DEF CallerOK, Held
  <2>13. ASSUME NEW d \in Callers, d # c PROVE CallerOK(d)'
    <3>1. CallerOK(d) /\ local'[d] = local[d] BY <2>9, <2>13 DEF IInv, CallerInv
    <3>2. \A b \in local[d].approval : b \in Approval /\ b.id \in Ids
      BY DEF IInv, TypeOK, Local, Approval
    <3>3. \A b \in local[d].approval : /\ store'[b.id].request = store[b.id].request
                                       /\ store[b.id].state # "none" =>
                                             store'[b.id].state # "none"
      BY <2>3, <2>5, <2>6, <3>2
    <3> QED BY <1>2, <2>11, <3>1, <3>2, <3>3 DEF CallerOK
  <2>14. OneRecorded'
    <3>1. ASSUME NEW d \in Callers, d # c, local[d].pc = "recorded", NEW b \in local[d].approval
          PROVE b.id # a.id
      BY <2>11, <3>1 DEF IInv, TypeOK, Local, CallerInv, CallerOK
    <3> QED BY <2>9, <2>10, <3>1 DEF IInv, OneRecorded
  <2> QED BY <2>8, <2>12, <2>13, <2>14 DEF CallerInv
<1> QED BY <1>5, <1>6

LEMMA AnswerPreserves ==
  ASSUME IInv, NEW c \in Callers, Answer(c)
  PROVE StoreInv' /\ CallerInv' /\ OneRecorded'
<1>1. local[c] \in Local /\ CallerOK(c) /\ local[c].pc = "recorded"
  BY DEF IInv, TypeOK, CallerInv, Answer
<1>2. UNCHANGED <<store, uses>> BY DEF Answer
<1>3. PICK a \in local[c].approval :
          /\ local' = [local EXCEPT ![c] = [Idle("approved") EXCEPT !.approval = {a}]]
          /\ grants' = [grants EXCEPT ![a.id] = @ + 1]
  BY DEF Answer
<1>4. local[c].approval = {a} /\ a.id \in Ids /\ Held(a) /\ grants[a.id] = 0
  BY <1>1, <1>3 DEF CallerOK, Approval
<1>5. grants'[a.id] = 1 /\ \A k \in Ids : k # a.id => grants'[k] = grants[k]
  BY <1>3, <1>4 DEF IInv, TypeOK
<1>6. /\ local'[c].pc = "idle" /\ local'[c].decision = "approved"
      /\ local'[c].approval = {a}
  BY <1>3 DEF IInv, TypeOK, Idle
<1>7. \A d \in Callers : d # c => local'[d] = local[d] BY <1>3 DEF IInv, TypeOK
<1>8. StoreInv'
  <2>1. ASSUME NEW k \in Ids
        PROVE /\ store[k].state \in {"none", "pending", "removed"} => grants'[k] = 0
              /\ grants'[k] <= 1
    <3>1. CASE k = a.id BY <1>4, <1>5, <3>1 DEF Held
    <3>2. CASE k # a.id BY <1>5, <3>2 DEF IInv, StoreInv
    <3> QED BY <3>1, <3>2
  <2> QED BY <1>2, <2>1 DEF IInv, StoreInv, Backed
<1>9. CallerOK(c)' BY <1>2, <1>4, <1>6 DEF CallerOK, Held
<1>10. ASSUME NEW d \in Callers, d # c PROVE CallerOK(d)'
  <2>1. CallerOK(d) /\ local'[d] = local[d] BY <1>7, <1>10 DEF IInv, CallerInv
  <2>2. ASSUME local[d].pc = "recorded", NEW b \in local[d].approval
        PROVE grants'[b.id] = grants[b.id]
    <3>1. b.id # a.id BY <1>1, <1>4, <1>10, <2>2 DEF IInv, OneRecorded
    <3> QED BY <1>5, <2>2, <3>1 DEF IInv, TypeOK, Local, Approval
  <2> QED BY <1>2, <2>1, <2>2 DEF CallerOK, Held
<1>11. OneRecorded' BY <1>6, <1>7 DEF IInv, OneRecorded
<1> QED BY <1>8, <1>9, <1>10, <1>11 DEF CallerInv

\* A record that is executed or removed keeps what it holds; the histories follow.
LEMMA StoreMoves ==
  ASSUME IInv, UNCHANGED <<local, grants>>,
         \A i \in Ids :
            /\ store'[i].request = store[i].request
            /\ store'[i].approval = store[i].approval
            /\ \/ store'[i].state = store[i].state /\ uses'[i] = uses[i]
               \/ /\ store[i].state = "approved" /\ store'[i].state = "executed"
                  /\ uses'[i] = uses[i] + 1
               \/ /\ store[i].state = "pending" /\ store'[i].state = "removed"
                  /\ uses'[i] = uses[i]
  PROVE StoreInv' /\ CallerInv' /\ OneRecorded'
<1>1. StoreInv'
  <2> SUFFICES ASSUME NEW k \in Ids
               PROVE /\ store'[k].state = "none" => store'[k].request = {}
                     /\ store'[k].state # "none" =>
                          \E r \in store'[k].request : /\ store'[k].request = {r}
                                                       /\ r.id = k
                                                       /\ r.level >= MinLevel[r.op]
                     /\ store'[k].state \in {"none", "pending", "removed"} =>
                          store'[k].approval = {} /\ grants[k] = 0
                     /\ store'[k].state \in {"approved", "executed"} => Backed(k)'
                     /\ grants[k] <= 1
                     /\ uses'[k] = IF store'[k].state = "executed" THEN 1 ELSE 0
    BY DEF StoreInv
  <2>1. Backed(k) => Backed(k)' BY DEF Backed
  <2>2. CASE store'[k].state = store[k].state /\ uses'[k] = uses[k]
    BY <2>1, <2>2 DEF IInv, StoreInv
  <2>3. CASE /\ store[k].state = "approved" /\ store'[k].state = "executed"
             /\ uses'[k] = uses[k] + 1
    BY <2>1, <2>3 DEF IInv, StoreInv
  <2>4. CASE /\ store[k].state = "pending" /\ store'[k].state = "removed"
             /\ uses'[k] = uses[k]
    BY <2>4 DEF IInv, StoreInv
  <2> QED BY <2>2, <2>3, <2>4
<1>2. CallerInv'
  <2> SUFFICES ASSUME NEW c \in Callers PROVE CallerOK(c)' BY DEF CallerInv
  <2>1. CallerOK(c) BY DEF IInv, CallerInv
  <2>2. \A a \in local[c].approval : a.id \in Ids BY DEF IInv, TypeOK, Local, Approval
  <2>3. \A a : a.id \in Ids => /\ Held(a) => Held(a)'
                               /\ store[a.id].state # "none" => store'[a.id].state # "none"
    BY DEF Held
  <2> QED BY <2>1, <2>2, <2>3 DEF CallerOK
<1>3. OneRecorded' BY DEF IInv, OneRecorded
<1> QED BY <1>1, <1>2, <1>3

LEMMA InvNext == IInv /\ [Next]_vars => IInv'
<1> SUFFICES ASSUME IInv, [Next]_vars PROVE IInv' OBVIOUS
<1>1. TypeOK' BY TypeStep DEF IInv
<1>2. ASSUME NEW x \in Asked, CreateRequest(x.token, x.op, x.digest, x.level)
      PROVE StoreInv' /\ CallerInv' /\ OneRecorded'
  BY <1>2, CreatePreserves
<1>3. ASSUME NEW c \in Callers, Evaluation(c)
      PROVE StoreInv' /\ CallerInv' /\ OneRecorded'
  <2>1. ASSUME NEW i \in Ids, NEW t \in Tokens, CliApprove(c, i, t)
        PROVE StoreInv' /\ CallerInv' /\ OneRecorded'
    <3>1. PICK rq \in store[i].request :
              Hold(c, rq, [id |-> i, approver |-> TokenOf[t].principal,
                           hash |-> TokenOf[t].hash, digest |-> rq.digest], t)
      BY <2>1 DEF CliApprove
    <3>2. rq \in Request BY DEF IInv, TypeOK, Record
    <3>3. [id |-> i, approver |-> TokenOf[t].principal, hash |-> TokenOf[t].hash,
           digest |-> rq.digest] \in Approval
      BY <3>2, ShapeAssumption DEF Approval, Request, Token
    <3>4. UNCHANGED <<store, clock, grants, uses>> BY <2>1 DEF CliApprove
    <3> QED BY <3>1, <3>2, <3>3, <3>4, HoldPreserves
  <2>2. CASE Present(c)
    <3>1. PICK x \in Presented : Hold(c, x.request, x.approval, x.token)
      BY <2>2 DEF Present
    <3>2. x.request \in Request /\ x.approval \in Approval /\ x.token \in Tokens
      BY ShapeAssumption
    <3> QED BY <2>2, <3>1, <3>2, HoldPreserves DEF Present
  <2>3. CASE StoreUnavailable(c)
    BY <2>3, CallerIdles DEF StoreUnavailable, IInv
  <2>4. CASE Crash(c)
    BY <2>4, CallerIdles DEF Crash, IInv
  <2> QED BY <1>3, <2>1, <2>2, <2>3, <2>4, TakeTimePreserves, ReadRecordPreserves,
             StoreApprovePreserves, AnswerPreserves DEF Evaluation
<1>4. ASSUME NEW i \in Ids, MarkExecuted(i)
      PROVE StoreInv' /\ CallerInv' /\ OneRecorded'
  <2>1. /\ store[i].state = "approved"
        /\ store' = [store EXCEPT ![i].state = "executed"]
        /\ uses' = [uses EXCEPT ![i] = @ + 1]
        /\ UNCHANGED <<local, grants>>
    BY <1>4 DEF MarkExecuted
  <2>2. \A k \in Ids : store[k] \in Record /\ uses[k] \in Nat BY DEF IInv, TypeOK
  <2> QED BY <2>1, <2>2, StoreMoves DEF Record, IInv, TypeOK
<1>5. ASSUME CleanupExpired PROVE StoreInv' /\ CallerInv' /\ OneRecorded'
  <2>1. \A i \in Expirable : store[i].state = "pending" BY DEF Expirable
  <2>2. /\ store' = [i \in Ids |-> IF i \in Expirable
                                  THEN [store[i] EXCEPT !.state = "removed"] ELSE store[i]]
        /\ UNCHANGED <<local, grants, uses>>
    BY <1>5 DEF CleanupExpired
  <2>3. \A k \in Ids : store[k] \in Record BY DEF IInv, TypeOK
  <2> QED BY <2>1, <2>2, <2>3, StoreMoves DEF Record
<1>6. ASSUME Tick \/ UNCHANGED vars PROVE StoreInv' /\ CallerInv' /\ OneRecorded'
  <2>1. UNCHANGED <<store, local, grants, uses>> BY <1>6 DEF Tick, vars
  <2>2. StoreInv' BY <2>1, StoreFrame DEF IInv
  <2>3. CallerInv' BY <2>1, CallerFrame DEF IInv, CallerInv
  <2>4. OneRecorded' BY <2>1 DEF IInv, OneRecorded
  <2> QED BY <2>2, <2>3, <2>4
<1> QED BY <1>1, <1>2, <1>3, <1>4, <1>5, <1>6 DEF Next, IInv

-----------------------------------------------------------------------------
(* What follows for every behaviour.                                        *)

\* The inductive invariant holds in every reachable state.
THEOREM Inductive == Spec => []IInv
  BY InvInit, InvNext, PTL DEF Spec

\* Whatever request object an approving caller passes in, and however approvals,
\* clean-ups and executions interleave, a request counts as approved only with the
\* approval of a second principal whose token meets the operation's minimum.
THEOREM TwoPrincipalsHolds == Spec => []TwoPrincipals
<1>1. IInv => TwoPrincipals BY DEF IInv, StoreInv, TwoPrincipals
<1> QED BY <1>1, Inductive, PTL

\* A request is answered APPROVED at most once and executed at most once.
THEOREM AtMostOnceHolds == Spec => []AtMostOnce
<1>1. IInv => AtMostOnce BY DEF IInv, StoreInv, AtMostOnce
<1> QED BY <1>1, Inductive, PTL

\* A caller that was told APPROVED finds its own approval in the store.
THEOREM GrantIsMineHolds == Spec => []GrantIsMine
<1>1. IInv => GrantIsMine BY DEF IInv, CallerInv, CallerOK, Held, GrantIsMine
<1> QED BY <1>1, Inductive, PTL

-----------------------------------------------------------------------------
(* The refinement.                                                          *)

\* A step that leaves the store alone is a stutter of the authorization.
LEMMA StoreStutters ==
  ASSUME UNCHANGED store PROVE UNCHANGED Abstract!vars
  BY DEF Abstract!vars, Phases, Askers, Granters, PhaseOf

\* A step that changes one record's state changes that id's phase.
LEMMA PhaseMoves ==
  ASSUME NEW i \in Ids, \A k \in Ids : k # i => store'[k].state = store[k].state
  PROVE Phases' = [Phases EXCEPT ![i] = PhaseOf[store'[i].state]]
  BY DEF Phases

LEMMA RefInit == Init => Abstract!Init
  BY DEF Init, NoRecord, Abstract!Init, Phases, PhaseOf, Askers, Granters

\* Every step of the store and its callers is a step of SingleUse or a stutter.
LEMMA RefNext == IInv /\ [Next]_vars => [Abstract!Next]_(Abstract!vars)
<1> SUFFICES ASSUME IInv, [Next]_vars PROVE [Abstract!Next]_(Abstract!vars) OBVIOUS
<1>0. TypeOK BY DEF IInv
<1>1. ASSUME NEW x \in Asked, CreateRequest(x.token, x.op, x.digest, x.level)
      PROVE Abstract!Next
  <2>1. x.token \in Tokens /\ TokenOf[x.token].principal \in Principals
    BY ShapeAssumption DEF Token
  <2> DEFINE who == TokenOf[x.token].principal
             rq(i) == [id |-> i, requester |-> who, op |-> x.op,
                       level |-> RequiredLevel(x.op, x.level), digest |-> x.digest,
                       expires |-> clock + TTL]
  <2>2. PICK i \in Ids : /\ store[i].state = "none"
                         /\ store' = [store EXCEPT ![i] = [state |-> "pending",
                                         approval |-> {}, request |-> {rq(i)}]]
    BY <1>1 DEF CreateRequest
  <2>3. /\ store'[i].state = "pending" /\ store'[i].request = {rq(i)}
        /\ store'[i].approval = {} /\ store[i].approval = {}
    BY <1>0, <2>2 DEF TypeOK, IInv, StoreInv
  <2>4. \A k \in Ids : k # i => store'[k] = store[k] BY <1>0, <2>2 DEF TypeOK
  <2>5. rq(i).requester = who OBVIOUS
  <2> HIDE DEF rq, who
  <2>6. {r.requester : r \in {rq(i)}} = {who} BY <2>5
  <2>7. Abstract!Ask(i, who)
    <3>1. Phases[i] = "new" BY <2>2 DEF Phases, PhaseOf
    <3>2. Phases' = [Phases EXCEPT ![i] = "asked"]
      BY <2>3, <2>4, PhaseMoves DEF PhaseOf
    <3>3. Askers' = [Askers EXCEPT ![i] = {who}]
      BY <2>3, <2>4, <2>6 DEF Askers
    <3>4. Granters' = Granters BY <2>3, <2>4 DEF Granters
    <3> QED BY <3>1, <3>2, <3>3, <3>4 DEF Abstract!Ask
  <2> QED BY <2>1, <2>7 DEF Abstract!Next, who
<1>2. ASSUME NEW c \in Callers, StoreApprove(c)
      PROVE Abstract!Next \/ UNCHANGED Abstract!vars
  <2>1. local[c] \in Local /\ CallerOK(c) /\ local[c].pc = "cleared"
    BY <1>0, <1>2 DEF IInv, TypeOK, CallerInv, StoreApprove
  <2>2. PICK a \in Approval, t \in Tokens : local[c].approval = {a} /\ local[c].token = {t}
    BY <2>1 DEF CallerOK
  <2>3. CASE store[a.id].state # "pending"
    <3>1. UNCHANGED store BY <1>2, <2>2, <2>3 DEF StoreApprove
    <3> QED BY <3>1, StoreStutters
  <2>4. CASE store[a.id].state = "pending"
    <3>1. store' = [store EXCEPT ![a.id].state = "approved", ![a.id].approval = {a}]
      BY <1>2, <2>2, <2>4 DEF StoreApprove
    <3>2. PICK rq \in store[a.id].request : Verdict(rq, a, t, local[c].now) = "approved"
      BY <2>1, <2>2 DEF CallerOK
    <3>3. a.id \in Ids /\ a.approver \in Principals BY DEF Approval
    <3>4. store[a.id].request = {rq} /\ store[a.id] \in Record
      BY <1>0, <2>4, <3>2, <3>3 DEF IInv, StoreInv, TypeOK
    <3>5. a.approver # rq.requester BY <3>2, VerdictApproved
    <3>6. /\ store'[a.id].state = "approved" /\ store'[a.id].approval = {a}
          /\ store'[a.id].request = {rq}
      BY <1>0, <3>1, <3>3, <3>4 DEF TypeOK, Record
    <3>7. \A k \in Ids : k # a.id => store'[k] = store[k] BY <1>0, <3>1 DEF TypeOK
    <3>8. Abstract!Grant(a.id, a.approver)
      <4>1. Phases[a.id] = "asked" BY <2>4, <3>3 DEF Phases, PhaseOf
      <4>2. a.approver \notin Askers[a.id] BY <3>3, <3>4, <3>5 DEF Askers
      <4>3. Phases' = [Phases EXCEPT ![a.id] = "granted"]
        BY <3>3, <3>6, <3>7, PhaseMoves DEF PhaseOf
      <4>4. {b.approver : b \in {a}} = {a.approver} OBVIOUS
      <4>5. Granters' = [Granters EXCEPT ![a.id] = {a.approver}]
        BY <3>6, <3>7, <4>4 DEF Granters
      <4>6. Askers' = Askers BY <3>4, <3>6, <3>7 DEF Askers
      <4> QED BY <4>1, <4>2, <4>3, <4>5, <4>6 DEF Abstract!Grant
    <3> QED BY <3>3, <3>8 DEF Abstract!Next
  <2> QED BY <2>3, <2>4
<1>3. ASSUME NEW i \in Ids, MarkExecuted(i) PROVE Abstract!Next
  <2>1. store[i].state = "approved" /\ store' = [store EXCEPT ![i].state = "executed"]
    BY <1>3 DEF MarkExecuted
  <2>2. \A k \in Ids : /\ store'[k].request = store[k].request
                       /\ store'[k].approval = store[k].approval
                       /\ store'[k].state = IF k = i THEN "executed" ELSE store[k].state
    BY <1>0, <2>1 DEF TypeOK, Record
  <2>3. Abstract!Use(i)
    <3>1. Phases[i] = "granted" BY <2>1 DEF Phases, PhaseOf
    <3>2. Phases' = [Phases EXCEPT ![i] = "used"] BY <2>2, PhaseMoves DEF PhaseOf
    <3>3. Askers' = Askers /\ Granters' = Granters BY <2>2 DEF Askers, Granters
    <3> QED BY <3>1, <3>2, <3>3 DEF Abstract!Use
  <2> QED BY <2>3 DEF Abstract!Next
<1>4. ASSUME CleanupExpired PROVE Abstract!Next
  <2>1. Expirable \in SUBSET Ids /\ \A i \in Expirable : store[i].state = "pending"
    BY DEF Expirable
  <2>2. \A k \in Ids : /\ store'[k].request = store[k].request
                       /\ store'[k].approval = store[k].approval
                       /\ store'[k].state = IF k \in Expirable THEN "removed"
                                            ELSE store[k].state
    BY <1>0, <1>4 DEF CleanupExpired, TypeOK, Record
  <2> DEFINE S == Expirable
  <2> HIDE DEF S
  <2>3. Abstract!Lapse(S)
    <3>1. \A i \in S : Phases[i] = "asked" BY <2>1 DEF S, Phases, PhaseOf
    <3>2. Phases' = [i \in Ids |-> IF i \in S THEN "lapsed" ELSE Phases[i]]
      BY <2>2 DEF S, Phases, PhaseOf
    <3>3. Askers' = Askers /\ Granters' = Granters BY <2>2 DEF Askers, Granters
    <3> QED BY <3>1, <3>2, <3>3 DEF Abstract!Lapse
  <2> QED BY <2>1, <2>3 DEF S, Abstract!Next
<1>5. ASSUME UNCHANGED store PROVE UNCHANGED Abstract!vars BY <1>5, StoreStutters
<1>6. ASSUME NEW c \in Callers, Evaluation(c), ~StoreApprove(c) PROVE UNCHANGED store
  BY <1>6 DEF Evaluation, CliApprove, Present, TakeTime, ReadRecord, StoreUnavailable,
              Answer, Crash
<1>7. CASE Tick \/ UNCHANGED vars BY <1>5, <1>7 DEF Tick, vars
<1> QED BY <1>1, <1>2, <1>3, <1>4, <1>5, <1>6, <1>7 DEF Next

\* DualControl implements SingleUse: whatever the interleaving, a request is granted
\* once, by someone else than its requester, used once after that, and never deleted
\* once granted.
THEOREM Refinement == Spec => ImplementsSingleUse
  BY RefInit, RefNext, Inductive, PTL DEF Spec, ImplementsSingleUse, Abstract!Spec
=============================================================================

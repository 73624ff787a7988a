--------------------------- MODULE AlertingProofs ---------------------------
(***************************************************************************)
(* Proofs about Alerting and the Doctor it calls, for any components,       *)
(* profiles, locks and bounds.                                             *)
(***************************************************************************)
EXTENDS Alerting, TLAPS

\* What a report, or a worker's result, says the component was during the call.
Shown(c, s) ==
    /\ s \in Away => "missing" \in call.seen[c]
    /\ s = "NOT_CONFIGURED" => c \in Shared
    /\ s = "OK" => "ok" \in call.seen[c]
    /\ s = "DEGRADED" => "degraded" \in call.seen[c]
    /\ s \in {"REMOTE", "remote"} => "missing" \in call.seen[c] /\ c \in configured

\* A call in progress has seen each component as it is now, its results and
\* reports rest on what it has seen, and a finished one has earned its verdict.
Grounded ==
    call.at \in {"collect", "checks"} =>
        \A c \in Components : /\ cli[c] \in call.seen[c]
                              /\ Shown(c, call.future[c])
                              /\ Shown(c, call.report[c])

AllReported ==
    call.at = "checks" => \A c \in Components : call.report[c] # NoReport

CallInv == Grounded /\ AllReported /\ GreenWasSeen

LEMMA IdleType == Idle \in CallType
  BY DEF Idle, CallType, Futures, Pending, NoReport

LEMMA StartType ==
  ASSUME TypeOK, NEW e \in BOOLEAN, NEW r \in Profiles \cup {Unscoped},
         NEW a \in SUBSET Optional, StartCall(e, r, a)
  PROVE  DoctorTypeOK'
  <1>0. [c \in Components |-> {cli[c]}] \in [Components -> SUBSET Answers]
    BY DEF TypeOK, DoctorTypeOK
  <1>1. call' \in CallType
    BY <1>0, IdleType DEF StartCall, CallType
  <1>2. QED
    BY <1>1 DEF StartCall, TypeOK, DoctorTypeOK, world

LEMMA CallStepType ==
  ASSUME TypeOK, CallStep
  PROVE  DoctorTypeOK'
  <1> USE DEF TypeOK, DoctorTypeOK, world
  <1>1. CASE \E c \in Components : Look(c) \/ Ask(c) \/ AskRemote(c)
    <2>1. PICK c \in Components, f \in Futures : Probing(c, f)
      BY <1>1 DEF Look, Ask, AskRemote, Futures, Pending, Status, Away, Unhealthy,
                  Versioned, Answers
    <2>2. call' \in CallType
      BY <2>1 DEF Probing, CallType
    <2>3. QED
      BY <2>1, <2>2 DEF Probing
  <1>2. CASE \E c \in Components : Collect(c)
    <2>1. PICK c \in Components : Collect(c)
      BY <1>2
    <2>2. call.future[c] \in Status \cup {"raised"}
      BY <2>1 DEF Collect, CallType, Futures
    <2>3. call' \in CallType
      BY <2>1, <2>2 DEF Collect, CallType, Status, Unhealthy
    <2>4. QED
      BY <2>1, <2>3 DEF Collect
  <1>3. CASE Deadline
    <2>1. Swept(call.report) \in [Components -> Status \cup {NoReport}]
      BY DEF Swept, CallType, Status, Unhealthy
    <2>2. call' \in CallType
      BY <1>3, <2>1 DEF Deadline, CallType
    <2>3. faults' \in 0..MaxFaults
      BY <1>3, DoctorAssumption DEF Deadline
    <2>4. QED
      BY <1>3, <2>2, <2>3 DEF Deadline
  <1>4. CASE Join
    <2>1. Idle.future \in [Components -> Futures]
      BY IdleType DEF CallType
    <2>2. call' \in CallType
      BY <1>4, <2>1 DEF Join, CallType
    <2>3. QED
      BY <1>4, <2>2 DEF Join
  <1>5. CASE Check
    <2>1. PICK x \in call.todo :
              call' = [call EXCEPT !.todo = @ \ {x},
                                   !.failed = IF CheckFails(x, call.report) THEN @ \cup {x} ELSE @]
      BY <1>5 DEF Check
    <2>2. x \in Always \cup Optional
      BY DEF CallType
    <2>3. call' \in CallType
      BY <2>1, <2>2 DEF CallType
    <2>4. QED
      BY <1>5, <2>3 DEF Check
  <1>6. CASE Fold
    <2>1. SuiteOk(call.report, call.required, call.failed) \in BOOLEAN
      BY DEF SuiteOk, ComponentsOk
    <2>2. call' \in CallType
      BY <1>6, <2>1, IdleType DEF Fold, CallType
    <2>3. QED
      BY <1>6, <2>2 DEF Fold
  <1>7. QED
    BY <1>1, <1>2, <1>3, <1>4, <1>5, <1>6 DEF CallStep

LEMMA WorldStepType ==
  ASSUME TypeOK, WorldStep
  PROVE  DoctorTypeOK'
  <1> USE DEF TypeOK, DoctorTypeOK
  <1>1. cli' \in [Components -> Answers]
    BY DoctorAssumption DEF WorldStep, ComponentChanges, EndpointChanges, CheckChanges, Answers
  <1>2. /\ endpoint' \in [Shared -> {"up", "down"}]
        /\ suite' \in [Always \cup Optional -> {"good", "bad", "unknown"}]
        /\ pins' = pins
    BY DEF WorldStep, ComponentChanges, EndpointChanges, CheckChanges
  <1>3. Changing
    BY DEF WorldStep, ComponentChanges, EndpointChanges, CheckChanges
  <1>4. changes' \in 0..MaxChanges
    BY <1>3, DoctorAssumption DEF Changing
  <1>5. call' \in CallType
    <2>0. [c \in Components |-> call.seen[c] \cup {cli'[c]}] \in [Components -> SUBSET Answers]
      BY <1>1 DEF CallType
    <2>1. Noticing \in CallType
      BY <2>0 DEF Noticing, CallType
    <2>2. QED
      BY <1>3, <2>1 DEF Changing, CallType
  <1>6. QED
    BY <1>1, <1>2, <1>3, <1>4, <1>5 DEF Changing

(* Every state is well-typed: what the doctor's workers, its fold and the     *)
(* alert check compute stays within the values the code can produce.         *)
THEOREM TypeCorrect == Spec => []TypeOK
  <1>1. Init => TypeOK
    <2> SUFFICES ASSUME Init PROVE TypeOK
      OBVIOUS
    <2>1. cli \in [Components -> Answers]
      BY DEF Init, DoctorInit, Answers
    <2>2. DoctorTypeOK
      BY <2>1, IdleType, DoctorAssumption DEF Init, DoctorInit, DoctorTypeOK
    <2>3. QED
      BY <2>2 DEF Init, TypeOK, Files, NoPrior, Resting
  <1>2. TypeOK /\ [Next]_vars => TypeOK'
    <2> SUFFICES ASSUME TypeOK, [Next]_vars PROVE TypeOK'
      OBVIOUS
    <2> DEFINE AlertTypeOK ==
          /\ timer \in BOOLEAN
          /\ url \in BOOLEAN
          /\ file \in Files
          /\ check \in [at : {"idle", "doctor", "truncate", "fill", "emit"},
                        kind : Colours \cup {Quiet}]
          /\ told \in Colours \cup {"nothing"}
          /\ slip \in BOOLEAN
    <2>0. /\ AlertTypeOK
          /\ DoctorTypeOK
          /\ DoctorTypeOK' /\ AlertTypeOK' => TypeOK'
      BY DEF TypeOK
    <2>1. UNCHANGED alertVars => AlertTypeOK'
      BY <2>0 DEF alertVars
    <2>2. UNCHANGED doctorVars => DoctorTypeOK'
      BY <2>0 DEF doctorVars, DoctorTypeOK
    <2>3. EndCheck /\ faults' \in 0..MaxFaults => DoctorTypeOK'
      BY <2>0, IdleType DEF EndCheck, world, DoctorTypeOK
    <2>4. faults < MaxFaults => faults + 1 \in 0..MaxFaults
      BY <2>0, DoctorAssumption DEF DoctorTypeOK
    <2>5. Resting \in [at : {"idle", "doctor", "truncate", "fill", "emit"},
                       kind : Colours \cup {Quiet}]
      BY DEF Resting
    <2>6. CASE BeginCheck
      <3>1. {} \in SUBSET Optional
        OBVIOUS
      <3>2. DoctorTypeOK'
        BY <2>6, <3>1, StartType DEF BeginCheck
      <3>3. AlertTypeOK'
        BY <2>6, <2>0 DEF BeginCheck
      <3>4. QED
        BY <2>0, <3>2, <3>3
    <2>7. CASE Compare
      <3>1. NoticeFor(Colour(call.verdict), file) \in Colours \cup {Quiet}
        BY DEF NoticeFor, Colours
      <3>2. AlertTypeOK'
        BY <2>0, <2>7, <3>1 DEF Compare
      <3>3. call' \in CallType
        BY <2>0, <2>7, IdleType DEF Compare, CallType, DoctorTypeOK
      <3>4. QED
        BY <2>0, <2>7, <3>2, <3>3 DEF Compare, DoctorTypeOK, world
    <2>8. CASE Truncate \/ Fill
      <3>1. AlertTypeOK'
        BY <2>0, <2>8 DEF Truncate, Fill, Files, NoPrior, Colour, Colours
      <3>2. QED
        BY <2>0, <2>2, <2>8, <3>1 DEF Truncate, Fill
    <2>9. CASE WriteFails
      BY <2>0, <2>4, <2>9 DEF WriteFails, world, DoctorTypeOK
    <2>10. CASE NothingToEmit \/ Delivered
      <3>1. EndCheck /\ faults' = faults
        BY <2>10 DEF NothingToEmit, Delivered
      <3>2. DoctorTypeOK'
        BY <2>0, <2>3, <3>1 DEF DoctorTypeOK
      <3>3. AlertTypeOK'
        BY <2>0, <2>5, <2>10 DEF NothingToEmit, Delivered, EndCheck
      <3>4. QED
        BY <2>0, <3>2, <3>3
    <2>11. CASE DeliveryFails \/ CheckDies
      <3>1. EndCheck /\ faults' = faults + 1 /\ faults < MaxFaults
        BY <2>11 DEF DeliveryFails, CheckDies
      <3>2. DoctorTypeOK'
        BY <2>3, <2>4, <3>1
      <3>3. AlertTypeOK'
        BY <2>0, <2>5, <2>11 DEF DeliveryFails, CheckDies, EndCheck
      <3>4. QED
        BY <2>0, <3>2, <3>3
    <2>12. CASE \E required \in Profiles \cup {Unscoped}, asked \in Asks :
                    BeginDoctor(required, asked)
      <3>1. PICK required \in Profiles \cup {Unscoped}, asked \in Asks :
                BeginDoctor(required, asked)
        BY <2>12
      <3>2. asked \in SUBSET Optional
        BY DoctorAssumption DEF Optional
      <3>3. DoctorTypeOK'
        BY <3>1, <3>2, StartType DEF BeginDoctor
      <3>4. QED
        BY <2>0, <2>1, <3>1, <3>3 DEF BeginDoctor
    <2>13. CASE EndDoctor
      BY <2>0, <2>1, <2>13, IdleType DEF EndDoctor, world, DoctorTypeOK
    <2>14. CASE CallStep /\ UNCHANGED alertVars
      BY <2>0, <2>1, <2>14, CallStepType
    <2>15. CASE WorldStep /\ UNCHANGED alertVars
      BY <2>0, <2>1, <2>15, WorldStepType
    <2>16. CASE UNCHANGED vars
      BY <2>0, <2>1, <2>2, <2>16 DEF vars
    <2>17. QED
      BY <2>6, <2>7, <2>8, <2>9, <2>10, <2>11, <2>12, <2>13, <2>14, <2>15, <2>16
      DEF Next, CheckStep
  <1>3. QED
    BY <1>1, <1>2, PTL DEF Spec

-----------------------------------------------------------------------------
\* While its notice is under way, a run's call is over; until the state is
\* written the notice is the one the file calls for, and afterwards the file says
\* what the human knows, or will know once the notice arrives.
News == /\ told # check.kind
        /\ told = "nothing" => check.kind = "red"

NoticeInv ==
    /\ check.at \in {"truncate", "fill", "emit"} => call.at = "done"
    /\ check.at \in {"truncate", "fill"} /\ ~slip =>
           IF check.kind = Quiet
           THEN told = "red" <=> Colour(call.verdict) = "red"
           ELSE check.kind = Colour(call.verdict) /\ News
    /\ check.at = "emit" /\ ~slip =>
           IF check.kind = Quiet
           THEN told = "red" <=> file = "red"
           ELSE check.kind = file /\ News
    /\ StateIsTold

LEMMA NoticeStep ==
  ASSUME TypeOK, NoticeInv, [Next]_vars
  PROVE  NoticeInv'
  <1> USE DEF NoticeInv, StateIsTold, News
  <1>0. /\ check \in [at : {"idle", "doctor", "truncate", "fill", "emit"},
                      kind : Colours \cup {Quiet}]
        /\ call \in CallType
        /\ slip \in BOOLEAN
    BY DEF TypeOK, DoctorTypeOK
  <1>1. CASE BeginCheck
    BY <1>1, <1>0 DEF BeginCheck
  <1>2. CASE Compare
    <2>1. check'.kind = NoticeFor(Colour(call.verdict), file)
      BY <1>2 DEF Compare
    <2>2. call'.at = "done" /\ call'.verdict = call.verdict
      BY <1>2 DEF Compare, Idle
    <2>3. ~slip => IF check'.kind = Quiet
                   THEN told = "red" <=> Colour(call.verdict) = "red"
                   ELSE /\ check'.kind = Colour(call.verdict)
                        /\ told # check'.kind
                        /\ told = "nothing" => check'.kind = "red"
      BY <1>0, <1>2, <2>1 DEF Compare, NoticeFor, Colour, NoPrior, Quiet, TypeOK, Files, Colours
    <2>4. /\ check'.at = "truncate"
          /\ file' = file /\ told' = told /\ slip' = slip
      BY <1>2 DEF Compare
    <2>5. StateIsTold'
      BY <1>2, <2>4 DEF Compare
    <2>6. QED
      BY <2>2, <2>3, <2>4, <2>5 DEF Colour
  <1>3. CASE Truncate
    BY <1>3, <1>0 DEF Truncate, doctorVars
  <1>4. CASE Fill
    <2>1. /\ check' = [check EXCEPT !.at = "emit"]
          /\ file' = Colour(call.verdict)
          /\ told' = told /\ slip' = slip /\ call' = call
          /\ check.at = "fill"
      BY <1>4 DEF Fill, doctorVars
    <2>2. QED
      BY <2>1, <1>0
  <1>5. CASE WriteFails
    BY <1>5, <1>0 DEF WriteFails
  <1>6. CASE NothingToEmit \/ DeliveryFails \/ CheckDies
    <2>1. check' = Resting /\ file' = file
      BY <1>6 DEF NothingToEmit, DeliveryFails, CheckDies, EndCheck
    <2>2. ~slip' => (told' = "red" <=> file' = "red")
      <3>1. CASE NothingToEmit
        BY <1>0, <3>1 DEF NothingToEmit, EndCheck
      <3>2. CASE DeliveryFails
        BY <3>2 DEF DeliveryFails
      <3>3. CASE CheckDies
        BY <1>0, <2>1, <3>3 DEF CheckDies
      <3>4. QED
        BY <1>6, <3>1, <3>2, <3>3
    <2>3. check'.at = "idle"
      BY <2>1 DEF Resting
    <2>4. QED
      BY <2>2, <2>3
  <1>7. CASE Delivered
    BY <1>7, <1>0 DEF Delivered, EndCheck, Resting
  <1>8. CASE \E required \in Profiles \cup {Unscoped}, asked \in Asks :
                 BeginDoctor(required, asked)
    BY <1>8 DEF BeginDoctor, alertVars
  <1>9. CASE EndDoctor
    BY <1>9 DEF EndDoctor, alertVars
  <1>10. CASE CallStep /\ UNCHANGED alertVars
    <2>1. call.at # "done"
      BY <1>10 DEF CallStep, Look, Ask, AskRemote, Collect, Deadline, Join, Check, Fold
    <2>2. QED
      BY <1>10, <2>1 DEF alertVars
  <1>11. CASE WorldStep /\ UNCHANGED alertVars
    <2>1. Changing
      BY <1>11 DEF WorldStep, ComponentChanges, EndpointChanges, CheckChanges
    <2>2. call.at = "done" => call'.at = "done" /\ call'.verdict = call.verdict
      BY <2>1, <1>0 DEF Changing, CallType
    <2>3. QED
      BY <1>11, <2>2 DEF alertVars, Colour
  <1>12. CASE UNCHANGED vars
    BY <1>12 DEF vars, doctorVars, alertVars, Colour
  <1>13. QED
    BY <1>1, <1>2, <1>3, <1>4, <1>5, <1>6, <1>7, <1>8, <1>9, <1>10, <1>11, <1>12
    DEF Next, CheckStep

THEOREM NoticeInvariant == Spec => []NoticeInv
  <1>1. Init => NoticeInv
    BY DEF Init, NoticeInv, StateIsTold, Resting
  <1>2. TypeOK /\ NoticeInv /\ [Next]_vars => NoticeInv'
    BY NoticeStep
  <1>3. QED
    BY <1>1, <1>2, TypeCorrect, PTL DEF Spec

(* The state file and the last notice that arrived agree between runs, as     *)
(* long as no run lost its state or its notice (alerting.py, run_alert_check *)
(* writes the one before it posts the other).                               *)
THEOREM StateIsToldHolds == Spec => []StateIsTold
  BY NoticeInvariant, PTL DEF NoticeInv

(* A notice about to be posted is news: run_alert_check never announces a     *)
(* colour twice in a row, nor a recovery before any red.                    *)
THEOREM NoticeIsNewsHolds == Spec => []NoticeIsNews
  <1>1. NoticeInv => NoticeIsNews
    BY DEF NoticeInv, NoticeIsNews, News
  <1>2. QED
    BY <1>1, NoticeInvariant, PTL

-----------------------------------------------------------------------------
LEMMA ProbeGrounded ==
  ASSUME TypeOK, CallInv, call.at = "collect",
         NEW c \in Components, NEW f, Probing(c, f), Shown(c, f)
  PROVE  CallInv'
  <1> USE DEF TypeOK, DoctorTypeOK, CallType
  <1>1. call'.at = "collect" /\ cli' = cli /\ configured' = configured
        /\ call'.seen = call.seen /\ call'.report = call.report
        /\ \A d \in Components : call'.future[d] = IF d = c THEN f ELSE call.future[d]
    BY DEF Probing, world
  <1>2. Grounded'
    BY <1>1 DEF CallInv, Grounded, Shown
  <1>3. QED
    BY <1>1, <1>2 DEF CallInv, AllReported, GreenWasSeen

LEMMA FoldEarned ==
  ASSUME TypeOK, CallInv, Fold
  PROVE  GreenWasSeen'
  <1> USE DEF TypeOK, DoctorTypeOK, CallType
  <1>1. /\ call.at = "checks"
        /\ call'.verdict = SuiteOk(call.report, call.required, call.failed)
        /\ call'.seen = call.seen /\ call'.required = call.required
        /\ configured' = configured
    BY DEF Fold, world
  <1>2. \A c \in Components : Shown(c, call.report[c]) /\ call.report[c] # NoReport
    BY <1>1 DEF CallInv, Grounded, AllReported
  <1>3. SUFFICES ASSUME ComponentsOk(call.report, call.required)
                 PROVE  GreenWasSeen'
    BY <1>1 DEF SuiteOk, GreenWasSeen
  <1>4. \A c \in Components : call.report[c] \in Away \cup Versioned
    BY <1>2, <1>3 DEF ComponentsOk, Status
  <1>5. \A c \in Components : call.seen[c] \ Broken # {}
    <2> SUFFICES ASSUME NEW c \in Components
                 PROVE  call.seen[c] \ Broken # {}
      OBVIOUS
    <2>1. \/ "missing" \in call.seen[c]
          \/ "ok" \in call.seen[c]
          \/ "degraded" \in call.seen[c]
      BY <1>2, <1>4 DEF Shown, Away, Versioned
    <2>2. QED
      BY <2>1 DEF Broken
  <1>6. \A c \in Components : call.report[c] \in Versioned /\ c \notin configured =>
                                  call.seen[c] \cap {"ok", "degraded"} # {}
    BY <1>2 DEF Shown, Versioned
  <1>7. ASSUME call.required = Unscoped
        PROVE  call.seen[Spine] \cap {"ok", "degraded"} # {}
    <2>1. Spine \in Components /\ Spine \notin configured
      BY DoctorAssumption
    <2>2. call.report[Spine] # "NOT_CONFIGURED"
      BY <1>2, <2>1, DoctorAssumption DEF Shown
    <2>4. call.report[Spine] \in Versioned
      BY <1>3, <1>4, <1>7, <2>1, <2>2 DEF ComponentsOk, Away
    <2>3. QED
      BY <1>6, <2>1, <2>4
  <1>8. ASSUME call.required # Unscoped, NEW c \in call.required \ configured
        PROVE  call.seen[c] \cap {"ok", "degraded"} # {}
    <2>1. c \in Components
      BY <1>8, DoctorAssumption
    <2>2. call.report[c] \in Versioned
      BY <1>3, <1>4, <1>8, <2>1 DEF ComponentsOk
    <2>3. QED
      BY <1>6, <1>8, <2>1, <2>2
  <1>9. QED
    BY <1>1, <1>5, <1>7, <1>8 DEF GreenWasSeen

LEMMA CallStart ==
  ASSUME NEW e, NEW r, NEW a, StartCall(e, r, a)
  PROVE  CallInv'
  <1>1. /\ call'.at = "collect"
        /\ cli' = cli
        /\ \A c \in Components : /\ call'.seen[c] = {cli[c]}
                                 /\ call'.future[c] = "look"
                                 /\ call'.report[c] = NoReport
    BY DEF StartCall, Idle, world
  <1>2. Grounded'
    BY <1>1 DEF Grounded, Shown, Away, NoReport
  <1>3. QED
    BY <1>1, <1>2 DEF CallInv, AllReported, GreenWasSeen

LEMMA CallIdle ==
  ASSUME call'.at = "idle"
  PROVE  CallInv'
  BY DEF CallInv, Grounded, AllReported, GreenWasSeen

LEMMA CallStepGrounded ==
  ASSUME TypeOK, CallInv, CallStep, UNCHANGED alertVars
  PROVE  CallInv'
  <1> USE DEF TypeOK, DoctorTypeOK, CallType
  <1>1. CASE \E c \in Components : Look(c) \/ Ask(c) \/ AskRemote(c)
    <2>1. PICK c \in Components : Look(c) \/ Ask(c) \/ AskRemote(c)
      BY <1>1
    <2>2. call.at = "collect" /\ cli[c] \in call.seen[c] /\ Shown(c, call.future[c])
      BY <2>1 DEF Look, Ask, AskRemote, CallInv, Grounded
    <2>3. PICK f : Probing(c, f) /\ Shown(c, f)
      <3>1. CASE Look(c)
        BY <2>2, <3>1 DEF Look, Shown, Away
      <3>2. CASE Ask(c)
        BY <2>2, <3>2 DEF Ask, Shown, Away, Answers
      <3>3. CASE AskRemote(c)
        BY <2>2, <3>3 DEF AskRemote, Shown, Away
      <3>4. QED
        BY <2>1, <3>1, <3>2, <3>3
    <2>4. QED
      BY <2>2, <2>3, ProbeGrounded
  <1>2. CASE \E c \in Components : Collect(c)
    <2>1. PICK c \in Components : Collect(c)
      BY <1>2
    <2>2. /\ call.at = "collect" /\ call'.at = "collect"
          /\ cli' = cli /\ configured' = configured
          /\ call'.seen = call.seen /\ call'.future = call.future
          /\ \A d \in Components : \/ call'.report[d] = call.report[d]
                                   \/ call'.report[d] = call.future[d]
                                   \/ call'.report[d] = "UNREACHABLE"
      BY <2>1 DEF Collect, world
    <2>3. Grounded'
      BY <2>2 DEF CallInv, Grounded, Shown, Away
    <2>4. QED
      BY <2>2, <2>3 DEF CallInv, AllReported, GreenWasSeen
  <1>3. CASE Deadline
    <2>1. /\ call.at = "collect" /\ call'.at = "collect"
          /\ cli' = cli /\ configured' = configured
          /\ call'.seen = call.seen /\ call'.future = call.future
          /\ \A d \in Components : \/ call'.report[d] = call.report[d]
                                   \/ call'.report[d] = "UNREACHABLE"
      BY <1>3 DEF Deadline, Swept, world
    <2>2. Grounded'
      BY <2>1 DEF CallInv, Grounded, Shown, Away
    <2>3. QED
      BY <2>1, <2>2 DEF CallInv, AllReported, GreenWasSeen
  <1>4. CASE Join
    <2>1. /\ call.at = "collect" /\ call'.at = "checks"
          /\ cli' = cli /\ configured' = configured
          /\ call'.seen = call.seen /\ call'.report = call.report
          /\ \A d \in Components : call'.future[d] = "look" /\ call.report[d] # NoReport
      BY <1>4 DEF Join, Idle, world
    <2>2. Grounded'
      BY <2>1 DEF CallInv, Grounded, Shown, Away
    <2>3. QED
      BY <2>1, <2>2 DEF CallInv, AllReported, GreenWasSeen
  <1>5. CASE Check
    <2>1. /\ call.at = "checks" /\ call'.at = "checks"
          /\ cli' = cli /\ configured' = configured
          /\ call'.seen = call.seen /\ call'.report = call.report
          /\ call'.future = call.future
      BY <1>5 DEF Check, world
    <2>2. Grounded'
      BY <2>1 DEF CallInv, Grounded, Shown
    <2>3. QED
      BY <2>1, <2>2 DEF CallInv, AllReported, GreenWasSeen
  <1>6. CASE Fold
    <2>1. call'.at = "done"
      BY <1>6 DEF Fold
    <2>2. QED
      BY <1>6, <2>1, FoldEarned DEF CallInv, Grounded, AllReported
  <1>7. QED
    BY <1>1, <1>2, <1>3, <1>4, <1>5, <1>6 DEF CallStep

LEMMA WorldGrounded ==
  ASSUME TypeOK, CallInv, WorldStep, UNCHANGED alertVars
  PROVE  CallInv'
  <1> USE DEF TypeOK, DoctorTypeOK, CallType
  <1>1. Changing
    BY DEF WorldStep, ComponentChanges, EndpointChanges, CheckChanges
  <1>2. CASE call.at \in {"idle", "done"}
    <2>1. /\ call'.at = call.at /\ call'.verdict = call.verdict
          /\ call'.seen = call.seen /\ call'.required = call.required
          /\ configured' = configured
      BY <1>1, <1>2 DEF Changing
    <2>2. GreenWasSeen'
      BY <2>1 DEF CallInv, GreenWasSeen, alertVars
    <2>3. QED
      BY <1>2, <2>1, <2>2 DEF CallInv, Grounded, AllReported
  <1>3. CASE call.at \in {"collect", "checks"}
    <2>1. /\ call' = Noticing
          /\ configured' = configured
      BY <1>1, <1>3 DEF Changing
    <2>2. /\ call'.at = call.at
          /\ call'.future = call.future /\ call'.report = call.report
          /\ \A c \in Components : call'.seen[c] = call.seen[c] \cup {cli'[c]}
      BY <2>1 DEF Noticing
    <2>3. Grounded'
      BY <1>3, <2>1, <2>2 DEF CallInv, Grounded, Shown
    <2>4. QED
      BY <1>3, <2>2, <2>3 DEF CallInv, AllReported, GreenWasSeen
  <1>4. QED
    BY <1>2, <1>3

(* A green report rests on an answer that each component gave during the     *)
(* call (doctor.py, aggregate): no component is passed over because its      *)
(* probe was slow, raised, or looked at the wrong moment.                   *)
THEOREM GreenWasSeenHolds == Spec => []GreenWasSeen
  <1>1. Init => CallInv
    BY DEF Init, DoctorInit, Idle, CallInv, Grounded, AllReported, GreenWasSeen
  <1>2. TypeOK /\ CallInv /\ [Next]_vars => CallInv'
    <2> SUFFICES ASSUME TypeOK, CallInv, [Next]_vars PROVE CallInv'
      OBVIOUS
    <2>1. CASE BeginCheck
      BY <2>1, CallStart DEF BeginCheck
    <2>2. CASE Compare
      BY <2>2 DEF Compare, Idle, CallInv, Grounded, AllReported, GreenWasSeen
    <2>3. CASE Truncate \/ Fill \/ WriteFails
      <3>1. /\ cli' = cli /\ configured' = configured /\ call' = call
            /\ check'.at \notin {"idle", "doctor"}
        BY <2>3 DEF Truncate, Fill, WriteFails, doctorVars, world, TypeOK
      <3>2. QED
        BY <3>1 DEF CallInv, Grounded, AllReported, GreenWasSeen, Shown
    <2>4. CASE NothingToEmit \/ Delivered \/ DeliveryFails \/ CheckDies \/ EndDoctor
      <3>1. call' = Idle
        BY <2>4 DEF NothingToEmit, Delivered, DeliveryFails, CheckDies, EndDoctor, EndCheck
      <3>2. QED
        BY <3>1, CallIdle DEF Idle
    <2>5. CASE \E required \in Profiles \cup {Unscoped}, asked \in Asks :
                   BeginDoctor(required, asked)
      BY <2>5, CallStart DEF BeginDoctor
    <2>6. CASE CallStep /\ UNCHANGED alertVars
      BY <2>6, CallStepGrounded
    <2>7. CASE WorldStep /\ UNCHANGED alertVars
      BY <2>7, WorldGrounded
    <2>8. CASE UNCHANGED vars
      BY <2>8 DEF vars, doctorVars, alertVars, CallInv, Grounded, AllReported,
                  GreenWasSeen, Shown
    <2>9. QED
      BY <2>1, <2>2, <2>3, <2>4, <2>5, <2>6, <2>7, <2>8 DEF Next, CheckStep
  <1>3. CallInv => GreenWasSeen
    BY DEF CallInv
  <1>4. QED
    BY <1>1, <1>2, <1>3, TypeCorrect, PTL DEF Spec

-----------------------------------------------------------------------------
(* While nothing moves a call cannot err.  Every answer it has is the one the  *)
(* estate calls for now, and every check it has made is counted.              *)

\* The answer a worker comes back with when nothing changes under it.
Due(c) ==
    IF cli[c] = "missing"
    THEN IF c \notin Shared THEN "ABSENT"
         ELSE IF ~(call.endpoints /\ c \in configured) THEN "NOT_CONFIGURED"
         ELSE IF endpoint[c] = "up" THEN "REMOTE" ELSE "FAILED"
    ELSE IF cli[c] = "ok" THEN "OK"
    ELSE IF cli[c] = "degraded" THEN "DEGRADED"
    ELSE IF cli[c] = "notok" THEN "FAILED"
    ELSE IF cli[c] = "timeout" THEN "UNREACHABLE" ELSE "raised"

Told(c) == IF Due(c) = "raised" THEN "UNREACHABLE" ELSE Due(c)

\* A worker is on its way to the answer, or has it.
OnTheWay(c) ==
    /\ call.future[c] = "ask" => cli[c] # "missing"
    /\ call.future[c] = "remote" => /\ cli[c] = "missing" /\ c \in Shared
                                    /\ call.endpoints /\ c \in configured
    /\ call.future[c] \notin Pending => call.future[c] = Due(c)

Counted ==
    /\ call.todo \subseteq Always \cup call.asked
    /\ call.failed = {x \in (Always \cup call.asked) \ call.todo :
                          CheckFails(x, call.report)}

StillInv ==
    call.still =>
        /\ call.at = "collect" => \A c \in Components : /\ OnTheWay(c)
                                                        /\ call.report[c] \in {NoReport, Told(c)}
        /\ call.at = "collect" => call.todo = Always \cup call.asked /\ call.failed = {}
        /\ call.at = "checks" => Counted /\ \A c \in Components : call.report[c] = Told(c)

DeservedInv == StillInv /\ VerdictIsDeserved

LEMMA DueTypes ==
  ASSUME TypeOK, NEW c \in Components
  PROVE  /\ Due(c) \in {"ABSENT", "NOT_CONFIGURED", "REMOTE", "FAILED", "OK", "DEGRADED",
                        "UNREACHABLE", "raised"}
         /\ Due(c) \notin Pending
         /\ Told(c) \in Status /\ Told(c) # NoReport
  BY DEF Due, Told, Pending, Status, Unhealthy, Away, Versioned, NoReport

\* An answer is unhealthy, or a version, just when the estate's is.
LEMMA ToldMeans ==
  ASSUME TypeOK, NEW c \in Components
  PROVE  /\ Told(c) \in Unhealthy <=> Bad(c, call.endpoints)
         /\ Told(c) \in Versioned <=> Serving(c, call.endpoints)
         /\ Told(c) \notin Unhealthy =>
                (Told(c) \in Away <=> ~Serving(c, call.endpoints))
         /\ c \notin Shared => Told(c) # "NOT_CONFIGURED"
  <1>1. cli[c] \in Answers
    BY DEF TypeOK, DoctorTypeOK
  <1>2. c \in Shared => endpoint[c] \in {"up", "down"}
    BY DEF TypeOK, DoctorTypeOK
  <1>3. QED
    BY <1>1, <1>2 DEF Told, Due, Answers, Unhealthy, Away, Versioned, Bad, Broken, Serving

\* The fold of what was told is the verdict the estate deserves.
LEMMA FoldDeserved ==
  ASSUME TypeOK, StillInv, call.still, Fold
  PROVE  call'.verdict = Sound(call.endpoints, call.required, call.asked)
  <1>1. /\ Counted /\ call.todo = {}
        /\ \A c \in Components : call.report[c] = Told(c)
    BY DEF StillInv, Fold
  <1>2. call'.verdict = (ComponentsOk(call.report, call.required) /\ call.failed = {})
    BY DEF Fold, SuiteOk, TypeOK, DoctorTypeOK, CallType
  <1>3. call.required \in Profiles \cup {Unscoped} /\ call.asked \in SUBSET Optional
    BY DEF TypeOK, DoctorTypeOK, CallType
  <1>4. (\A c \in Components : call.report[c] \notin Unhealthy)
        <=> (\A c \in Components : ~Bad(c, call.endpoints))
    BY <1>1, ToldMeans
  <1> DEFINE present == {c \in Components : Serving(c, call.endpoints)}
  <1>5. present = {c \in Components : call.report[c] \in Versioned}
    BY <1>1, ToldMeans
  <1>6. ASSUME \A c \in Components : call.report[c] \notin Unhealthy
        PROVE  (IF call.required # Unscoped
                THEN \A c \in call.required : call.report[c] \notin Away \cup {NoReport}
                ELSE /\ call.report[Spine] # "ABSENT"
                     /\ \E c \in Components : call.report[c] \notin Away \cup {NoReport})
               <=> (IF call.required = Unscoped THEN Spine \in present
                    ELSE call.required \subseteq present)
    <2>1. ASSUME NEW c \in Components
          PROVE  call.report[c] \notin Away \cup {NoReport} <=> c \in present
      BY <1>1, <1>6, <2>1, ToldMeans, DueTypes
    <2>2. CASE call.required # Unscoped
      <3>1. call.required \subseteq Components
        BY <1>3, <2>2, DoctorAssumption
      <3>2. QED
        BY <2>1, <2>2, <3>1
    <2>3. CASE call.required = Unscoped
      <3>1. Spine \in Components /\ Spine \notin Shared
        BY DoctorAssumption
      <3>2. call.report[Spine] # "NOT_CONFIGURED"
        BY <1>1, <3>1, ToldMeans
      <3>3. call.report[Spine] # "ABSENT" <=> Spine \in present
        BY <2>1, <3>1, <3>2, <1>1, DueTypes DEF Away
      <3>4. QED
        BY <2>1, <2>3, <3>1, <3>3
    <2>4. QED
      BY <2>2, <2>3
  <1>7. call.failed = {} <=>
            /\ pins # NoLock => suite["lock"] = "good" /\ pins = present
            /\ \A x \in {"memory", "keys"} : suite[x] # "bad"
            /\ \A x \in call.asked : suite[x] = "good"
    <2>1. call.failed = {x \in Always \cup call.asked : CheckFails(x, call.report)}
      BY <1>1 DEF Counted
    <2>2. call.failed = {} <=> \A x \in Always \cup call.asked : ~CheckFails(x, call.report)
      BY <2>1
    <2>3. CheckFails("lock", call.report) <=>
              ~(pins # NoLock => suite["lock"] = "good" /\ pins = present)
      BY <1>5 DEF CheckFails, LockFails
    <2>4. \A x \in {"memory", "keys"} : CheckFails(x, call.report) <=> suite[x] = "bad"
      BY DEF CheckFails, FailClosed
    <2>5. ASSUME NEW x \in call.asked
          PROVE  CheckFails(x, call.report) <=> suite[x] # "good"
      <3>1. x \in Optional /\ suite[x] \in {"good", "bad", "unknown"}
        BY <1>3 DEF TypeOK, DoctorTypeOK
      <3>2. QED
        BY <3>1 DEF CheckFails, FailClosed, Optional
    <2>6. QED
      BY <2>2, <2>3, <2>4, <2>5 DEF Always
  <1>8. ComponentsOk(call.report, call.required) <=>
            /\ \A c \in Components : ~Bad(c, call.endpoints)
            /\ IF call.required = Unscoped THEN Spine \in present
               ELSE call.required \subseteq present
    BY <1>4, <1>6 DEF ComponentsOk
  <1> HIDE DEF present
  <1>9. Sound(call.endpoints, call.required, call.asked) \in BOOLEAN
    BY DEF Sound
  <1>10. Sound(call.endpoints, call.required, call.asked) <=>
             /\ ComponentsOk(call.report, call.required)
             /\ call.failed = {}
    BY <1>7, <1>8 DEF Sound, present
  <1>11. QED
    BY <1>2, <1>9, <1>10

\* The estate as a call sees it does not change by a step of the call.
LEMMA SameEstate ==
  ASSUME UNCHANGED world, call'.endpoints = call.endpoints
  PROVE  \A c : Due(c)' = Due(c) /\ Told(c)' = Told(c)
  BY DEF world, Due, Told

\* Where a worker may get to from where it is.
Steps(c) ==
    {Due(c)} \cup {f \in {"ask"} : cli[c] # "missing"}
             \cup {f \in {"remote"} : /\ cli[c] = "missing" /\ c \in Shared
                                      /\ call.endpoints /\ c \in configured}

LEMMA ProbeStill ==
  ASSUME TypeOK, StillInv, call.at = "collect", NEW c \in Components, NEW f,
         Probing(c, f), call.still => f \in Steps(c)
  PROVE  DeservedInv'
  <1> USE DEF TypeOK, DoctorTypeOK, CallType
  <1>1. /\ call'.at = "collect" /\ call'.still = call.still /\ call'.todo = call.todo
        /\ call'.asked = call.asked /\ call'.failed = call.failed
        /\ call'.report = call.report /\ call'.endpoints = call.endpoints
        /\ \A d \in Components : call'.future[d] = IF d = c THEN f ELSE call.future[d]
        /\ UNCHANGED world
    BY DEF Probing
  <1>2. \A d : Due(d)' = Due(d) /\ Told(d)' = Told(d)
    BY <1>1, SameEstate
  <1>3. ASSUME call.still, NEW d \in Components
        PROVE  OnTheWay(d)'
    <2>1. CASE d # c
      <3>1. OnTheWay(d)
        BY <1>3 DEF StillInv
      <3>2. QED
        BY <1>1, <1>2, <2>1, <3>1 DEF OnTheWay, world
    <2>2. CASE d = c
      <3>1. call'.future[d] = f
        BY <1>1, <2>2
      <3>2. Due(c) \notin Pending
        BY DueTypes
      <3>3. f = Due(c) \/ f = "ask" \/ f = "remote"
        BY <1>3 DEF Steps
      <3>4. f = "ask" => cli[c] # "missing"
        BY <1>3, <3>2 DEF Pending, Steps
      <3>5. f = "remote" => /\ cli[c] = "missing" /\ c \in Shared
                            /\ call.endpoints /\ c \in configured
        BY <1>3, <3>2 DEF Pending, Steps
      <3>6. QED
        BY <1>1, <1>2, <2>2, <3>1, <3>2, <3>3, <3>4, <3>5 DEF OnTheWay, Pending, world
    <2>3. QED
      BY <2>1, <2>2
  <1>4. StillInv'
    BY <1>1, <1>2, <1>3 DEF StillInv
  <1>5. QED
    BY <1>1, <1>4 DEF DeservedInv, VerdictIsDeserved

LEMMA StillStart ==
  ASSUME NEW e, NEW r, NEW a, StartCall(e, r, a)
  PROVE  DeservedInv'
  <1>1. /\ call'.at = "collect" /\ call'.todo = Always \cup a /\ call'.asked = a
        /\ call'.failed = {}
        /\ \A c \in Components : call'.future[c] = "look" /\ call'.report[c] = NoReport
    BY DEF StartCall, Idle
  <1>2. \A c \in Components : OnTheWay(c)'
    BY <1>1 DEF OnTheWay, Pending
  <1>3. QED
    BY <1>1, <1>2 DEF DeservedInv, StillInv, VerdictIsDeserved

LEMMA CallStepStill ==
  ASSUME TypeOK, DeservedInv, CallStep, UNCHANGED alertVars
  PROVE  DeservedInv'
  <1> USE DEF TypeOK, DoctorTypeOK, CallType
  <1>1. CASE \E c \in Components : Look(c) \/ Ask(c) \/ AskRemote(c)
    <2>1. PICK c \in Components : Look(c) \/ Ask(c) \/ AskRemote(c)
      BY <1>1
    <2>2. call.at = "collect" /\ cli[c] \in Answers
      BY <2>1 DEF Look, Ask, AskRemote
    <2>3. call.still => OnTheWay(c)
      BY <2>2 DEF DeservedInv, StillInv
    <2>4. PICK f : Probing(c, f) /\ (call.still => f \in Steps(c))
      <3>1. CASE Look(c)
        BY <3>1 DEF Look, Steps, Due
      <3>2. CASE Ask(c)
        BY <2>2, <2>3, <3>2 DEF Ask, OnTheWay, Steps, Due, Answers
      <3>3. CASE AskRemote(c)
        BY <2>3, <3>3 DEF AskRemote, OnTheWay, Steps, Due
      <3>4. QED
        BY <2>1, <3>1, <3>2, <3>3
    <2>5. QED
      BY <2>2, <2>4, ProbeStill DEF DeservedInv
  <1>2. CASE \E c \in Components : Collect(c)
    <2>1. PICK c \in Components : Collect(c)
      BY <1>2
    <2>2. /\ call.at = "collect" /\ call'.at = "collect" /\ call'.still = call.still
          /\ call'.todo = call.todo /\ call'.asked = call.asked /\ call'.failed = call.failed
          /\ call'.endpoints = call.endpoints /\ call'.future = call.future
          /\ call.future[c] \notin Pending
          /\ \A d \in Components : call'.report[d] =
                IF d # c THEN call.report[d]
                ELSE IF call.future[c] = "raised" THEN "UNREACHABLE" ELSE call.future[c]
          /\ UNCHANGED world
      BY <2>1 DEF Collect
    <2>3. \A d : Due(d)' = Due(d) /\ Told(d)' = Told(d)
      BY <2>2, SameEstate
    <2>4. ASSUME call.still, NEW d \in Components
          PROVE  OnTheWay(d)' /\ call'.report[d] \in {NoReport, Told(d)'}
      <3>1. OnTheWay(d) /\ OnTheWay(c) /\ call.report[d] \in {NoReport, Told(d)}
        BY <2>2, <2>4 DEF DeservedInv, StillInv
      <3>2. OnTheWay(d)'
        BY <2>2, <2>3, <3>1 DEF OnTheWay, world
      <3>3. call.future[c] = Due(c)
        BY <2>2, <3>1 DEF OnTheWay
      <3>4. call'.report[d] \in {NoReport, Told(d)}
        BY <2>2, <3>1, <3>3 DEF Told
      <3>5. QED
        BY <2>3, <3>2, <3>4
    <2>5. StillInv'
      BY <2>2, <2>4 DEF DeservedInv, StillInv
    <2>6. QED
      BY <2>2, <2>5 DEF DeservedInv, VerdictIsDeserved
  <1>3. CASE Deadline
    <2>1. call'.at = "collect" /\ ~call'.still
      BY <1>3 DEF Deadline
    <2>2. QED
      BY <2>1 DEF DeservedInv, StillInv, VerdictIsDeserved
  <1>4. CASE Join
    <2>1. /\ call.at = "collect" /\ call'.at = "checks" /\ call'.still = call.still
          /\ call'.todo = call.todo /\ call'.asked = call.asked /\ call'.failed = call.failed
          /\ call'.endpoints = call.endpoints /\ call'.report = call.report
          /\ \A c \in Components : call.report[c] # NoReport
          /\ UNCHANGED world
      BY <1>4 DEF Join
    <2>2. \A d : Due(d)' = Due(d) /\ Told(d)' = Told(d)
      BY <2>1, SameEstate
    <2>3. StillInv'
      BY <2>1, <2>2 DEF DeservedInv, StillInv, Counted
    <2>4. QED
      BY <2>1, <2>3 DEF DeservedInv, VerdictIsDeserved
  <1>5. CASE Check
    <2>1. PICK x \in call.todo :
              call' = [call EXCEPT !.todo = @ \ {x},
                                   !.failed = IF CheckFails(x, call.report) THEN @ \cup {x} ELSE @]
      BY <1>5 DEF Check
    <2>2. /\ call.at = "checks" /\ call'.at = "checks" /\ call'.still = call.still
          /\ call'.todo = call.todo \ {x} /\ call'.asked = call.asked
          /\ call'.failed = IF CheckFails(x, call.report) THEN call.failed \cup {x}
                            ELSE call.failed
          /\ call'.endpoints = call.endpoints /\ call'.report = call.report
          /\ UNCHANGED world
      BY <1>5, <2>1 DEF Check
    <2>3. \A d : Due(d)' = Due(d) /\ Told(d)' = Told(d)
      BY <2>2, SameEstate
    <2>4. \A y : CheckFails(y, call.report)' <=> CheckFails(y, call.report)
      BY <2>2 DEF CheckFails, LockFails, world
    <2>5. Counted => Counted'
      BY <2>2, <2>4 DEF Counted
    <2>6. StillInv'
      BY <2>2, <2>3, <2>5 DEF DeservedInv, StillInv
    <2>7. QED
      BY <2>2, <2>6 DEF DeservedInv, VerdictIsDeserved
  <1>6. CASE Fold
    <2>1. /\ call'.at = "done" /\ call'.still = call.still
          /\ call'.endpoints = call.endpoints /\ call'.required = call.required
          /\ call'.asked = call.asked
          /\ UNCHANGED world
      BY <1>6 DEF Fold
    <2>2. StillInv'
      BY <2>1 DEF StillInv
    <2>3. call.still => call'.verdict = Sound(call.endpoints, call.required, call.asked)
      BY <1>6, FoldDeserved DEF DeservedInv
    <2>4. Sound(call.endpoints, call.required, call.asked)'
          = Sound(call.endpoints, call.required, call.asked)
      BY <2>1 DEF Sound, Bad, Serving, world
    <2>5. VerdictIsDeserved'
      BY <2>1, <2>3, <2>4 DEF VerdictIsDeserved
    <2>6. QED
      BY <2>2, <2>5 DEF DeservedInv
  <1>7. QED
    BY <1>1, <1>2, <1>3, <1>4, <1>5, <1>6 DEF CallStep

LEMMA DeservedStep ==
  ASSUME TypeOK, DeservedInv, [Next]_vars
  PROVE  DeservedInv'
  <1>1. ASSUME call' = Idle PROVE DeservedInv'
    <2>1. call'.at = "idle"
      BY <1>1 DEF Idle
    <2>2. QED
      BY <2>1 DEF DeservedInv, StillInv, VerdictIsDeserved
  <1>2. CASE BeginCheck
    BY <1>2, StillStart DEF BeginCheck
  <1>3. CASE Compare
    <2>1. call'.at = "done" /\ check'.at = "truncate"
      BY <1>3 DEF Compare, Idle
    <2>2. QED
      BY <2>1 DEF DeservedInv, StillInv, VerdictIsDeserved
  <1>4. CASE Truncate \/ Fill \/ WriteFails
    <2>1. /\ UNCHANGED world /\ call' = call
          /\ check'.at \notin {"idle", "doctor"}
      BY <1>4 DEF Truncate, Fill, WriteFails, doctorVars, world, TypeOK
    <2>2. \A d : Due(d)' = Due(d) /\ Told(d)' = Told(d)
      BY <2>1, SameEstate
    <2>3. \A y : CheckFails(y, call.report)' <=> CheckFails(y, call.report)
      BY <2>1 DEF CheckFails, LockFails, world
    <2>4. StillInv'
      BY <2>1, <2>2, <2>3 DEF DeservedInv, StillInv, OnTheWay, Counted, world
    <2>5. QED
      BY <2>1, <2>4 DEF DeservedInv, VerdictIsDeserved
  <1>5. CASE NothingToEmit \/ Delivered \/ DeliveryFails \/ CheckDies \/ EndDoctor
    BY <1>1, <1>5 DEF NothingToEmit, Delivered, DeliveryFails, CheckDies, EndDoctor, EndCheck
  <1>6. CASE \E required \in Profiles \cup {Unscoped}, asked \in Asks :
                 BeginDoctor(required, asked)
    BY <1>6, StillStart DEF BeginDoctor
  <1>7. CASE CallStep /\ UNCHANGED alertVars
    BY <1>7, CallStepStill
  <1>8. CASE WorldStep /\ UNCHANGED alertVars
    <2>1. Changing
      BY <1>8 DEF WorldStep, ComponentChanges, EndpointChanges, CheckChanges
    <2>2. call'.at = "idle" \/ ~call'.still
      BY <2>1 DEF Changing, Noticing, TypeOK, DoctorTypeOK, CallType
    <2>3. QED
      BY <2>2 DEF DeservedInv, StillInv, VerdictIsDeserved
  <1>9. CASE UNCHANGED vars
    <2>1. UNCHANGED world /\ call' = call /\ check' = check
      BY <1>9 DEF vars, doctorVars, alertVars, world
    <2>2. \A d : Due(d)' = Due(d) /\ Told(d)' = Told(d)
      BY <2>1, SameEstate
    <2>3. \A y : CheckFails(y, call.report)' <=> CheckFails(y, call.report)
      BY <2>1 DEF CheckFails, LockFails, world
    <2>4. StillInv'
      BY <2>1, <2>2, <2>3 DEF DeservedInv, StillInv, OnTheWay, Counted, world
    <2>5. Sound(call.endpoints, call.required, call.asked)'
          = Sound(call.endpoints, call.required, call.asked)
      BY <2>1 DEF Sound, Bad, Serving, world
    <2>6. VerdictIsDeserved'
      BY <2>1, <2>5 DEF DeservedInv, VerdictIsDeserved
    <2>7. QED
      BY <2>4, <2>6 DEF DeservedInv
  <1>10. QED
    BY <1>2, <1>3, <1>4, <1>5, <1>6, <1>7, <1>8, <1>9 DEF Next, CheckStep

(* When nothing moved during a call and no probe was slow, its verdict is the *)
(* one the estate deserves (doctor.py, aggregate and _compute_suite_ok),      *)
(* whatever the components, the profile, the lock and the order in which     *)
(* the workers looked, finished and were collected.                         *)
THEOREM VerdictIsDeservedHolds == Spec => []VerdictIsDeserved
  <1>1. Init => DeservedInv
    BY DEF Init, DoctorInit, Idle, DeservedInv, StillInv, VerdictIsDeserved
  <1>2. TypeOK /\ DeservedInv /\ [Next]_vars => DeservedInv'
    BY DeservedStep
  <1>3. DeservedInv => VerdictIsDeserved
    BY DEF DeservedInv
  <1>4. QED
    BY <1>1, <1>2, <1>3, TypeCorrect, PTL DEF Spec

-----------------------------------------------------------------------------
(* The alert check and `agent-suite doctor` (the finding of alert_blind): they  *)
(* differ only over a shared service that is served remotely.                 *)

\* A shared service whose endpoint the doctor would ask and the alert check does not.
Overlooked == {c \in configured : cli[c] = "missing"}

AsTheTimerCalls ==
    check.at = "doctor" => ~call.endpoints /\ call.required = Unscoped /\ call.asked = {}

LEMMA TimerCallStep ==
  ASSUME TypeOK, AsTheTimerCalls, [Next]_vars
  PROVE  AsTheTimerCalls'
  <1> USE DEF TypeOK, DoctorTypeOK, CallType
  <1>1. ASSUME UNCHANGED check, call'.endpoints = call.endpoints,
               call'.required = call.required, call'.asked = call.asked
        PROVE  AsTheTimerCalls'
    BY <1>1 DEF AsTheTimerCalls
  <1>2. CASE BeginCheck
    BY <1>2 DEF BeginCheck, StartCall, Idle, AsTheTimerCalls
  <1>3. CASE CheckStep \/ WriteFails \/ DeliveryFails \/ CheckDies
    <2>1. check'.at # "doctor"
      BY <1>3 DEF CheckStep, Compare, Truncate, Fill, NothingToEmit, Delivered, WriteFails,
                  DeliveryFails, CheckDies, EndCheck, Resting
    <2>2. QED
      BY <2>1 DEF AsTheTimerCalls
  <1>4. CASE EndDoctor \/ \E required \in Profiles \cup {Unscoped}, asked \in Asks :
                              BeginDoctor(required, asked)
    BY <1>4 DEF EndDoctor, BeginDoctor, alertVars, AsTheTimerCalls
  <1>5. CASE CallStep /\ UNCHANGED alertVars
    <2>1. /\ call'.endpoints = call.endpoints /\ call'.required = call.required
          /\ call'.asked = call.asked
      <3>1. ASSUME NEW c \in Components, Look(c) \/ Ask(c) \/ AskRemote(c)
            PROVE  \E f : call' = [call EXCEPT !.future[c] = f]
        BY <3>1 DEF Look, Ask, AskRemote, Probing
      <3>2. ASSUME NEW c \in Components, Collect(c)
            PROVE  \E s : call' = [call EXCEPT !.report[c] = s]
        BY <3>2 DEF Collect
      <3>3. CASE Deadline \/ Join \/ Check \/ Fold
        BY <3>3 DEF Deadline, Join, Check, Fold
      <3>4. QED
        BY <1>5, <3>1, <3>2, <3>3 DEF CallStep
    <2>2. QED
      BY <1>1, <1>5, <2>1 DEF alertVars
  <1>6. CASE WorldStep /\ UNCHANGED alertVars
    <2>1. Changing
      BY <1>6 DEF WorldStep, ComponentChanges, EndpointChanges, CheckChanges
    <2>2. QED
      BY <1>1, <1>6, <2>1 DEF Changing, Noticing, alertVars
  <1>7. CASE UNCHANGED vars
    BY <1>1, <1>7 DEF vars, doctorVars, alertVars
  <1>8. QED
    BY <1>2, <1>3, <1>4, <1>5, <1>6, <1>7 DEF Next

\* With nothing overlooked, the endpoints make no difference.
LEMMA EndpointsDecideNothing ==
  ASSUME TypeOK, Overlooked = {}
  PROVE  Sound(FALSE, Unscoped, {}) = Sound(TRUE, Unscoped, {})
  <1>1. \A c \in Components : /\ Serving(c, FALSE) <=> Serving(c, TRUE)
                              /\ Bad(c, FALSE) <=> Bad(c, TRUE)
    BY DEF Overlooked, Serving, Bad
  <1>2. {c \in Components : Serving(c, FALSE)} = {c \in Components : Serving(c, TRUE)}
    BY <1>1
  <1>3. QED
    BY <1>1, <1>2 DEF Sound

(* The alert check acts on the verdict that `agent-suite doctor` prints, on an *)
(* estate at rest, if every shared service with an endpoint is also installed  *)
(* here: run_alert_check's missing endpoints are the one reason they differ.  *)
THEOREM AlertAgreesWhereInstalled ==
  Spec => [](Overlooked = {} => AlertAgreesWithDoctor)
  <1>1. Init => AsTheTimerCalls
    BY DEF Init, Resting, AsTheTimerCalls
  <1>2. TypeOK /\ AsTheTimerCalls /\ [Next]_vars => AsTheTimerCalls'
    BY TimerCallStep
  <1>3. TypeOK /\ AsTheTimerCalls /\ VerdictIsDeserved
            => (Overlooked = {} => AlertAgreesWithDoctor)
    BY EndpointsDecideNothing DEF AsTheTimerCalls, VerdictIsDeserved, AlertAgreesWithDoctor,
                                  TypeOK, DoctorTypeOK, CallType
  <1>4. QED
    BY <1>1, <1>2, <1>3, TypeCorrect, VerdictIsDeservedHolds, PTL DEF Spec

=============================================================================

--------------------------- MODULE ScheduleProofs ---------------------------
(***************************************************************************)
(* Proofs about Schedule: what an install or a remove reports of a         *)
(* schedule stays true, for any schedules, places, failures and edits.     *)
(***************************************************************************)
EXTENDS Schedule, TLAPS

Installing == {"gate", "service", "timer", "reload", "enable", "show", "active",
               "register"}
Removing == {"disable", "unlink", "unregister"}
Steps == Installing \cup Removing

\* Where a command is says what it is, on which host, and how far it has come.
Control ==
    /\ run.pc \in Steps \cup {"preflight"} => run.i \in 1 .. Len(Order)
    /\ run.pc # "idle" => claim = Silent
    /\ run.pc \notin {"idle", "print"} => os # "none"
    /\ run.pc \in Installing \cup {"preflight"} => run.verb = "install"
    /\ run.pc \in Removing => run.verb = "remove"
    /\ run.pc \in {"timer", "reload", "enable", "show", "active", "disable", "unlink"} =>
          os = "systemd"
    /\ run.pc \in {"register", "unregister"} => os # "systemd"
    /\ run.pc \in Steps \cup {"preflight"} =>
          \A k \in run.i .. Len(Order) : run.results[Order[k]] = "none"

\* What the preflight and the gate have seen holds, unless it was changed since.
Prepared ==
    /\ run.pc \in Installing =>
          /\ run.exec # NoExec
          /\ edited \/ (run.exec = home /\ \A s \in Specs : ConfigOk(s))
    /\ run.pc \in Installing \ {"gate"} => SystemScoped(run.exec)

\* The unit of the schedule at hand.
Halfway ==
    LET u == unit[Spec_]
    IN  /\ run.pc = "enable" /\ u.timer => u.loaded = u.service
        /\ run.pc \in {"show", "active"} =>
              Spec_ \in orphan \/ (u.timer /\ u.enabled /\ u.active /\ u.loaded = u.service)
        /\ run.pc = "active" => u.loaded = run.exec
        /\ run.pc = "register" => u.service = run.exec
        /\ run.pc = "unlink" => ~u.enabled /\ ~u.active

\* What can start a job has a file, unless the file was deleted by hand.
Filed(s) ==
    /\ unit[s].active \/ unit[s].enabled =>
          unit[s].timer \/ unit[s].service # NoExec \/ s \in orphan
    /\ os # "systemd" => ~unit[s].timer

\* What a status says of a schedule.
Told(status, s) ==
    /\ status = "installed" => edited \/ s \in orphan \/ Armed(s)
    /\ status = "removed" => Quiet(s)

SInv ==
    /\ ScheduleTypeOK /\ Control /\ Prepared /\ Halfway
    /\ \A s \in Specs : Filed(s) /\ Told(run.results[s], s) /\ Told(claim[s], s)

-----------------------------------------------------------------------------
(* Helpers *)

LEMMA SilentType == Silent \in [Specs -> Status] /\ \A s \in Specs : Silent[s] = "none"
  BY DEF Silent, Status

LEMMA OrderType ==
  /\ Len(Order) \in Nat /\ Len(Order) > 0
  /\ \A i \in 1 .. Len(Order) : Order[i] \in Specs
  /\ \A i, j \in 1 .. Len(Order) : Order[i] = Order[j] => i = j
  BY ScheduleAssumption DEF Specs

LEMMA IdleType == Idle \in Run
  BY SilentType, OrderType DEF Idle, Run, PCs, Place

LEMMA SilentIsTrue ==
  ASSUME NEW s \in Specs
  PROVE  Told(Silent[s], s) /\ Told(Silent[s], s)'
  BY SilentType DEF Told, Silent

LEMMA SpecType ==
  ASSUME SInv, run.pc \in Steps
  PROVE  Spec_ \in Specs /\ run.results[Spec_] = "none" /\ unit[Spec_] \in Unit
  <1>1. run.i \in 1 .. Len(Order) /\ Spec_ = Order[run.i]
    BY DEF SInv, Control, Spec_
  <1>2. run.results[Order[run.i]] = "none"
    BY <1>1, OrderType DEF SInv, Control
  <1> QED
    BY <1>1, <1>2, OrderType DEF SInv, ScheduleTypeOK

\* How the next schedule begins, or the command ends.
LEMMA AfterFacts ==
  ASSUME SInv, run.pc \in Steps, NEW r \in Run, r.i = run.i, r.verb = run.verb
  PROVE  /\ After(r) \in Run /\ After(r).results = r.results
         /\ After(r).exec = r.exec /\ After(r).i = run.i + 1
         /\ After(r).verb = run.verb
         /\ \/ After(r).pc = "gate" /\ run.verb = "install"
            \/ After(r).pc = "disable" /\ run.verb = "remove" /\ os = "systemd"
            \/ After(r).pc = "unregister" /\ run.verb = "remove" /\ os # "systemd"
            \/ After(r).pc = "forget"
            \/ After(r).pc = "print"
         /\ After(r).pc \in Steps => run.i + 1 <= Len(Order)
  <1> DEFINE pc == IF r.i < Len(Order) THEN First(r.verb)
                   ELSE IF r.verb = "remove" /\ os = "systemd" /\ r.unlinked
                   THEN "forget" ELSE "print"
  <1>1. /\ run.i \in 1 .. Len(Order) /\ Len(Order) \in Nat
        /\ run.verb \in {"install", "remove"}
    BY OrderType DEF SInv, Control, ScheduleTypeOK, Run
  <1>2. pc \in PCs
    BY DEF PCs, First
  <1> DEFINE i == run.i + 1
  <1>3. After(r) = [r EXCEPT !.i = i, !.pc = pc]
    BY DEF After
  <1>6. i \in 1 .. Len(Order) + 1
    BY <1>1
  <1> HIDE DEF pc, i
  <1>4. /\ After(r) \in Run /\ After(r).results = r.results
        /\ After(r).exec = r.exec /\ After(r).i = i
        /\ After(r).verb = run.verb /\ After(r).pc = pc
    BY <1>2, <1>3, <1>6 DEF Run
  <1>5. /\ pc \in Steps => run.i + 1 <= Len(Order)
        /\ \/ pc = "gate" /\ run.verb = "install"
           \/ pc = "disable" /\ run.verb = "remove" /\ os = "systemd"
           \/ pc = "unregister" /\ run.verb = "remove" /\ os # "systemd"
           \/ pc = "forget" \/ pc = "print"
    BY <1>1 DEF pc, First, Steps, Installing, Removing
  <1> QED
    BY <1>4, <1>5 DEF i

\* Nothing of the surroundings changed, and of the units at most the one at hand.
OthersStay ==
    /\ UNCHANGED <<os, env, home, edited, claim>>
    /\ unit' \in [Specs -> Unit] /\ orphan' \subseteq Specs
    /\ faults' \in 0 .. MaxFaults /\ edits' \in 0 .. MaxEdits
    /\ \A s \in Specs \ {Spec_} : unit'[s] = unit[s] /\ (s \in orphan' <=> s \in orphan)

LEMMA OthersKeep ==
  ASSUME SInv, OthersStay, NEW t \in Specs, t # Spec_
  PROVE  /\ Filed(t)' /\ Told(claim[t], t)'
         /\ run'.results[t] = run.results[t] => Told(run.results[t], t)'
  <1>1. /\ unit'[t] = unit[t] /\ (t \in orphan' <=> t \in orphan) /\ os' = os
        /\ env' = env /\ home' = home /\ edited' = edited /\ claim' = claim
    BY DEF OthersStay
  <1>2. Armed(t)' = Armed(t) /\ Quiet(t)' = Quiet(t) /\ (Filed(t)' <=> Filed(t))
    BY <1>1 DEF Armed, Quiet, Filed, Runnable, SystemScoped, ConfigOk
  <1>3. Filed(t) /\ Told(run.results[t], t) /\ Told(claim[t], t)
    BY DEF SInv
  <1> QED
    BY <1>1, <1>2, <1>3 DEF Told

\* The schedule at hand is finished with.
LEMMA FinishKeeps ==
  ASSUME SInv, run.pc \in Steps, NEW r \in Run, run' = After(r), r.i = run.i,
         r.verb = run.verb, r.exec = run.exec,
         NEW s \in Specs, s = Spec_, NEW status \in Status,
         r.results = [run.results EXCEPT ![s] = status],
         OthersStay, Filed(s)', Told(status, s)'
  PROVE  SInv'
  <1>1. run.results \in [Specs -> Status]
    BY DEF SInv, ScheduleTypeOK, Run
  <1>2. /\ run' \in Run /\ run'.results = [run.results EXCEPT ![s] = status]
        /\ run'.exec = run.exec /\ run'.i = run.i + 1 /\ run'.verb = run.verb
        /\ \/ run'.pc = "gate" /\ run.verb = "install"
           \/ run'.pc = "disable" /\ run.verb = "remove" /\ os = "systemd"
           \/ run'.pc = "unregister" /\ run.verb = "remove" /\ os # "systemd"
           \/ run'.pc = "forget"
           \/ run'.pc = "print"
        /\ run'.pc \in Steps => run.i + 1 <= Len(Order)
    BY <1>1, AfterFacts
  <1>3. ScheduleTypeOK'
    BY <1>2 DEF SInv, ScheduleTypeOK, OthersStay
  <1>4. Control'
    <2>1. /\ run.i \in 1 .. Len(Order) /\ claim = Silent /\ os # "none" /\ os' = os
          /\ claim' = claim /\ s = Order[run.i]
      BY DEF SInv, Control, OthersStay, Steps, Installing, Removing, Spec_
    <2>2. ASSUME run'.pc \in Steps, NEW k \in run'.i .. Len(Order)
          PROVE  run'.results[Order[k]] = "none"
      <3>1. k \in run.i .. Len(Order) /\ k # run.i /\ k \in 1 .. Len(Order)
        BY <1>2, <2>1, <2>2, OrderType
      <3>2. Order[k] \in Specs /\ Order[k] # s
        BY <2>1, <3>1, OrderType
      <3>3. run.results[Order[k]] = "none"
        BY <3>1 DEF SInv, Control
      <3> QED
        BY <1>1, <1>2, <3>2, <3>3
    <2>3. run'.pc # "preflight" /\ (run'.pc \in Steps => run'.i \in 1 .. Len(Order))
      BY <1>2, <2>1, OrderType
    <2> QED
      BY <1>2, <2>1, <2>2, <2>3 DEF Control, Installing, Removing
  <1>5. Prepared'
    <2>1. run.verb = "install" => run.pc \in Installing
      BY DEF SInv, Control, Steps
    <2>2. env' = env /\ home' = home /\ edited' = edited
      BY DEF OthersStay
    <2> QED
      BY <1>2, <2>1, <2>2 DEF SInv, Prepared, ConfigOk, Installing
  <1>6. Halfway'
    BY <1>2 DEF Halfway
  <1>7. \A t \in Specs : Filed(t)' /\ Told(run.results[t], t)' /\ Told(claim[t], t)'
    <2> SUFFICES ASSUME NEW t \in Specs
                 PROVE  Filed(t)' /\ Told(run.results[t], t)' /\ Told(claim[t], t)'
      OBVIOUS
    <2>1. CASE t = s
      <3>1. claim' = Silent
        BY DEF SInv, Control, OthersStay, Steps, Installing, Removing
      <3>2. run'.results[t] = status
        BY <1>1, <1>2, <2>1
      <3>3. Told(claim[t], t)'
        BY <3>1, SilentType DEF Told
      <3>4. Told(run.results[t], t)'
        BY <2>1, <3>2 DEF Told
      <3> QED
        BY <2>1, <3>3, <3>4
    <2>2. CASE t # s
      <3>1. run'.results[t] = run.results[t]
        BY <1>1, <1>2, <2>2
      <3>2. Filed(t)' /\ Told(claim[t], t)' /\ Told(run.results[t], t)'
        BY <2>2, <3>1, OthersKeep
      <3> QED
        BY <3>2
    <2> QED
      BY <2>1, <2>2
  <1> QED
    BY <1>3, <1>4, <1>5, <1>6, <1>7 DEF SInv

LEMMA ResultKeeps ==
  ASSUME SInv, run.pc \in Steps, NEW status \in Status, Result(status), OthersStay,
         NEW s \in Specs, s = Spec_, Filed(s)', Told(status, s)'
  PROVE  SInv'
  <1> DEFINE r == [run EXCEPT !.results[Spec_] = status]
  <1>1. /\ r \in Run /\ r.i = run.i /\ r.verb = run.verb /\ r.exec = run.exec
        /\ r.results = [run.results EXCEPT ![s] = status] /\ run' = After(r)
    BY DEF SInv, ScheduleTypeOK, Run, Result
  <1> HIDE DEF r
  <1> QED
    BY <1>1, FinishKeeps

\* The schedule at hand is not finished with yet.
LEMMA GoKeeps ==
  ASSUME SInv, run.pc \in Steps, NEW pc \in Steps, Go(pc), OthersStay,
         pc \in Installing <=> run.pc \in Installing,
         pc \in {"timer", "reload", "enable", "show", "active", "disable", "unlink"} =>
             os = "systemd",
         pc \in {"register", "unregister"} => os # "systemd",
         pc \in Installing \ {"gate"} => SystemScoped(run.exec),
         NEW s \in Specs, s = Spec_, Filed(s)', Halfway'
  PROVE  SInv'
  <1>1. run' = [run EXCEPT !.pc = pc] /\ run \in Run /\ pc \in PCs
    BY DEF Go, SInv, ScheduleTypeOK, Steps, Installing, Removing, PCs
  <1>2. /\ run' \in Run /\ run'.pc = pc /\ run'.results = run.results
        /\ run'.i = run.i /\ run'.verb = run.verb /\ run'.exec = run.exec
    BY <1>1 DEF Run
  <1>3. ScheduleTypeOK'
    BY <1>2 DEF SInv, ScheduleTypeOK, OthersStay
  <1>4. Control'
    BY <1>2 DEF SInv, Control, OthersStay, Steps, Installing, Removing
  <1>5. Prepared'
    BY <1>2 DEF SInv, Prepared, OthersStay, ConfigOk, SystemScoped
  <1>7. \A t \in Specs : Filed(t)' /\ Told(run.results[t], t)' /\ Told(claim[t], t)'
    <2> SUFFICES ASSUME NEW t \in Specs
                 PROVE  Filed(t)' /\ Told(run.results[t], t)' /\ Told(claim[t], t)'
      OBVIOUS
    <2>1. CASE t = s
      <3>1. claim' = Silent
        BY DEF SInv, Control, OthersStay, Steps, Installing, Removing
      <3>2. run'.results[t] = "none"
        BY <1>2, <2>1, SpecType
      <3> QED
        BY <2>1, <3>1, <3>2, SilentType DEF Told
    <2>2. CASE t # s
      BY <1>2, <2>2, OthersKeep DEF Told
    <2> QED
      BY <2>1, <2>2
  <1> QED
    BY <1>3, <1>4, <1>5, <1>7 DEF SInv
-----------------------------------------------------------------------------
(* Installing *)

\* A step of a command changes nothing but the unit at hand.
LEMMA Standing ==
  ASSUME SInv, run.pc \in Steps, UNCHANGED <<World, claim, orphan>>, Fault \/ NoFault,
         \/ UNCHANGED unit
         \/ \E u \in Unit : Set(u)
  PROVE  OthersStay
  <1>1. faults' \in 0 .. MaxFaults
    BY ScheduleAssumption DEF SInv, ScheduleTypeOK, Fault, NoFault
  <1>2. /\ unit' \in [Specs -> Unit]
        /\ \A t \in Specs \ {Spec_} : unit'[t] = unit[t]
    BY SpecType DEF SInv, ScheduleTypeOK, Set
  <1> QED
    BY <1>1, <1>2 DEF OthersStay, World, SInv, ScheduleTypeOK

\* A step that fails and changes nothing.
LEMMA FailKeeps ==
  ASSUME SInv, run.pc \in Steps, Result("failed"), UNCHANGED <<World, unit, claim, orphan>>,
         Fault \/ NoFault
  PROVE  SInv'
  <1>1. OthersStay
    BY Standing
  <1>2. PICK s \in Specs : s = Spec_
    BY SpecType
  <1>3. Filed(s)' /\ Told("failed", s)'
    BY DEF SInv, Filed, Told, World
  <1> QED
    BY <1>1, <1>2, <1>3, ResultKeeps DEF Status

LEMMA PreflightKeeps ==
  ASSUME SInv, NEW help \in HelpRuns, Preflight(help)
  PROVE  SInv'
  <1> DEFINE fine == /\ \A s \in Specs : ConfigOk(s)
                     /\ home # NoExec
                     /\ Probing # {} => Capability(help) = "supported"
             failed == [s \in Specs |-> "failed"]
  <1>0. run \in Run /\ run.pc = "preflight" /\ (Fault \/ NoFault)
    BY DEF SInv, ScheduleTypeOK, Preflight
  <1>1. /\ faults' \in 0 .. MaxFaults
        /\ UNCHANGED <<os, env, home, unit, claim, orphan, edits, edited>>
    BY ScheduleAssumption DEF SInv, ScheduleTypeOK, Fault, NoFault, Preflight, World
  <1>2. ASSUME fine, run' = [run EXCEPT !.pc = "gate", !.exec = home]
        PROVE  SInv'
    <2>1. /\ run' \in Run /\ run'.pc = "gate" /\ run'.exec = home /\ run'.i = run.i
          /\ run'.verb = run.verb /\ run'.results = run.results
      BY <1>0, <1>2 DEF SInv, ScheduleTypeOK, Run, PCs
    <2> HIDE <1>2
    <2>2. ScheduleTypeOK'
      BY <1>1, <2>1 DEF SInv, ScheduleTypeOK
    <2>3. Control'
      BY <1>0, <1>1, <2>1 DEF SInv, Control, Steps, Installing, Removing
    <2>4. Prepared' /\ Halfway'
      BY <1>1, <2>1, <1>2 DEF Prepared, Halfway, Installing, ConfigOk
    <2>5. \A s \in Specs : Filed(s)' /\ Told(run.results[s], s)' /\ Told(claim[s], s)'
      BY <1>1, <2>1 DEF SInv, Filed, Told, Armed, Quiet, ConfigOk, Runnable
    <2> QED
      BY <2>2, <2>3, <2>4, <2>5 DEF SInv
  <1>3. ASSUME run' = [run EXCEPT !.pc = "print", !.results = failed]
        PROVE  SInv'
    <2>0. failed \in [Specs -> Status]
      BY DEF Status
    <2> HIDE DEF failed
    <2>1. /\ run' \in Run /\ run'.pc = "print" /\ run'.results = failed
      BY <1>0, <1>3, <2>0 DEF SInv, ScheduleTypeOK, Run, PCs
    <2>2. ScheduleTypeOK'
      BY <1>1, <2>1 DEF SInv, ScheduleTypeOK
    <2>4. Control' /\ Prepared' /\ Halfway'
      BY <1>0, <1>1, <2>1
         DEF SInv, Control, Prepared, Halfway, Steps, Installing, Removing
    <2>3. \A s \in Specs : Filed(s)' /\ Told(run.results[s], s)' /\ Told(claim[s], s)'
      BY <1>1, <2>1 DEF SInv, Filed, Told, Armed, Quiet, ConfigOk, Runnable, failed
    <2> QED
      BY <2>2, <2>3, <2>4 DEF SInv
  <1> QED
    BY <1>2, <1>3 DEF Preflight

LEMMA GateKeeps ==
  ASSUME SInv, Gate
  PROVE  SInv'
  <1>0. run.pc \in Steps /\ NoFault
    BY DEF Gate, Steps, Installing, NoFault
  <1>1. CASE Result("failed")
    BY <1>0, <1>1, FailKeeps DEF Gate
  <1>2. CASE SystemScoped(run.exec) /\ Go("service")
    <2>1. OthersStay
      BY <1>0, Standing DEF Gate
    <2>2. PICK s \in Specs : s = Spec_
      BY <1>0, SpecType
    <2>3. Filed(s)'
      BY DEF SInv, Filed, Gate, World
    <2>4. Halfway'
      BY <1>2 DEF Go, SInv, ScheduleTypeOK, Run, Halfway
    <2> QED
      BY <1>0, <1>2, <2>1, <2>2, <2>3, <2>4, GoKeeps DEF Gate, Steps, Installing
  <1> QED
    BY <1>1, <1>2 DEF Gate

\* The program that is installed is one.
LEMMA ExecType ==
  ASSUME SInv, run.pc \in Steps
  PROVE  run.exec \in Place /\ (run.pc \in Installing => run.exec # NoExec)
  BY DEF SInv, ScheduleTypeOK, Run, Prepared

\* A step that sets the unit at hand to u, and goes on.
LEMMA SetGoKeeps ==
  ASSUME SInv, run.pc \in Steps, NEW u \in Unit, Set(u), NEW pc \in Steps, Go(pc),
         UNCHANGED <<os, env, home, edits, edited, claim>>, Fault \/ NoFault,
         orphan' \subseteq Specs,
         \A s \in Specs \ {Spec_} : s \in orphan' <=> s \in orphan,
         pc \in Installing <=> run.pc \in Installing,
         pc \in {"timer", "reload", "enable", "show", "active", "disable", "unlink"} =>
             os = "systemd",
         pc \in {"register", "unregister"} => os # "systemd",
         pc \in Installing \ {"gate"} => SystemScoped(run.exec),
         u.active \/ u.enabled => u.timer \/ u.service # NoExec \/ Spec_ \in orphan',
         os # "systemd" => ~u.timer,
         pc = "enable" /\ u.timer => u.loaded = u.service,
         pc \in {"show", "active"} =>
            Spec_ \in orphan' \/ (u.timer /\ u.enabled /\ u.active /\ u.loaded = u.service),
         pc = "active" => u.loaded = run.exec,
         pc = "register" => u.service = run.exec,
         pc = "unlink" => ~u.enabled /\ ~u.active
  PROVE  SInv'
  <1>1. PICK s \in Specs : s = Spec_
    BY SpecType
  <1>2. /\ unit' \in [Specs -> Unit] /\ unit'[s] = u
        /\ \A t \in Specs \ {s} : unit'[t] = unit[t]
    BY <1>1 DEF SInv, ScheduleTypeOK, Set
  <1>3. OthersStay
    BY <1>1, <1>2, ScheduleAssumption
       DEF OthersStay, SInv, ScheduleTypeOK, Fault, NoFault
  <1>4. Filed(s)'
    BY <1>1, <1>2 DEF Filed
  <1>5. run'.pc = pc /\ Spec_' = s /\ run'.exec = run.exec
    BY <1>1 DEF Go, SInv, ScheduleTypeOK, Run, Spec_
  <1>6. Halfway'
    BY <1>1, <1>2, <1>5 DEF Halfway
  <1> QED
    BY <1>1, <1>3, <1>4, <1>6, GoKeeps

\* A step that sets the unit at hand to u, and is the last one for it.
LEMMA SetResultKeeps ==
  ASSUME SInv, run.pc \in Steps, NEW u \in Unit, Set(u), NEW status \in Status,
         Result(status),
         UNCHANGED <<os, env, home, edits, edited, claim>>, Fault \/ NoFault,
         orphan' \subseteq Specs,
         \A s \in Specs \ {Spec_} : s \in orphan' <=> s \in orphan,
         u.active \/ u.enabled => u.timer \/ u.service # NoExec \/ Spec_ \in orphan',
         os # "systemd" => ~u.timer,
         NEW s \in Specs, s = Spec_, Told(status, s)'
  PROVE  SInv'
  <1>2. /\ unit' \in [Specs -> Unit] /\ unit'[s] = u
        /\ \A t \in Specs \ {s} : unit'[t] = unit[t]
    BY DEF SInv, ScheduleTypeOK, Set
  <1>3. OthersStay
    BY <1>2, ScheduleAssumption
       DEF OthersStay, SInv, ScheduleTypeOK, Fault, NoFault
  <1>4. Filed(s)'
    BY <1>2 DEF Filed
  <1> QED
    BY <1>3, <1>4, ResultKeeps

LEMMA WriteServiceKeeps ==
  ASSUME SInv, WriteService
  PROVE  SInv'
  <1>0. /\ run.pc \in Steps /\ run.pc \in Installing \ {"gate"}
        /\ Spec_ \in Specs /\ unit[Spec_] \in Unit /\ Filed(Spec_)
        /\ run.exec \in Place /\ run.exec # NoExec
    BY SpecType, ExecType DEF WriteService, Steps, Installing, SInv
  <1>1. CASE Fault /\ Result("failed") /\ UNCHANGED unit
    BY <1>0, <1>1, FailKeeps DEF WriteService
  <1>2. CASE /\ NoFault /\ Set([unit[Spec_] EXCEPT !.service = run.exec])
             /\ Go(IF os = "systemd" THEN "timer" ELSE "register")
    <2> DEFINE u == [unit[Spec_] EXCEPT !.service = run.exec]
               pc == IF os = "systemd" THEN "timer" ELSE "register"
    <2>1. u \in Unit /\ u.service = run.exec /\ u.timer = unit[Spec_].timer
      BY <1>0 DEF Unit
    <2>2. os # "systemd" => ~u.timer
      BY <1>0, <2>1 DEF Filed
    <2>3. /\ pc \in Steps /\ pc \in Installing \ {"gate"}
          /\ pc \in {"timer", "reload", "enable", "show", "active", "disable", "unlink"} =>
               os = "systemd"
          /\ pc \in {"register", "unregister"} => os # "systemd"
          /\ pc \notin {"enable", "show", "active", "unlink"}
      BY DEF Steps, Installing
    <2>4. SystemScoped(run.exec)
      BY <1>0 DEF SInv, Prepared
    <2>5. /\ UNCHANGED <<os, env, home, edits, edited, claim>> /\ orphan' = orphan
          /\ orphan' \subseteq Specs
      BY DEF WriteService, World, SInv, ScheduleTypeOK
    <2> HIDE DEF u, pc
    <2>6. Set(u) /\ Go(pc)
      BY <1>2 DEF u, pc
    <2> QED
      BY <1>0, <1>2, <2>1, <2>2, <2>3, <2>4, <2>5, <2>6, SetGoKeeps
  <1> QED
    BY <1>1, <1>2 DEF WriteService
\* What every step of a command knows of the unit at hand.
LEMMA AtHand ==
  ASSUME SInv, run.pc \in Steps
  PROVE  /\ Spec_ \in Specs /\ unit[Spec_] \in Unit /\ Filed(Spec_)
         /\ run.exec \in Place /\ orphan \subseteq Specs
         /\ run.pc \in Installing => /\ run.exec # NoExec
                                     /\ edited \/ (run.exec = home
                                                  /\ \A s \in Specs : ConfigOk(s))
         /\ run.pc \in Installing \ {"gate"} => SystemScoped(run.exec)
  BY SpecType, ExecType DEF SInv, Prepared, ScheduleTypeOK

LEMMA WriteTimerKeeps ==
  ASSUME SInv, WriteTimer
  PROVE  SInv'
  <1>0. /\ run.pc \in Steps /\ run.pc \in Installing \ {"gate"} /\ os = "systemd"
        /\ UNCHANGED <<os, env, home, edits, edited, claim, orphan>>
    BY DEF WriteTimer, Steps, Installing, SInv, Control, World
  <1>1. CASE Fault /\ Result("failed") /\ UNCHANGED unit
    BY <1>0, <1>1, FailKeeps DEF WriteTimer
  <1>2. CASE NoFault /\ Set([unit[Spec_] EXCEPT !.timer = TRUE]) /\ Go("reload")
    <2> DEFINE u == [unit[Spec_] EXCEPT !.timer = TRUE]
    <2>1. u \in Unit /\ u.timer
      BY <1>0, AtHand DEF Unit
    <2>2. Set(u) /\ "reload" \in Steps /\ "reload" \in Installing
      BY <1>2 DEF Steps, Installing
    <2> HIDE DEF u
    <2> QED
      BY <1>0, <1>2, <2>1, <2>2, AtHand, SetGoKeeps
  <1> QED
    BY <1>1, <1>2 DEF WriteTimer

LEMMA ReloadedType ==
  ASSUME SInv
  PROVE  /\ Reloaded \in [Specs -> Unit]
         /\ \A s \in Specs : /\ Reloaded[s].service = unit[s].service
                              /\ Reloaded[s].loaded = unit[s].service
                              /\ Reloaded[s].timer = unit[s].timer
                              /\ Reloaded[s].enabled = unit[s].enabled
                              /\ Reloaded[s].active = unit[s].active
  BY DEF SInv, ScheduleTypeOK, Unit, Reloaded

\* daemon-reload makes nothing untrue.
LEMMA ReloadTold ==
  ASSUME SInv, UNCHANGED <<os, env, home, edited, orphan, claim>>, unit' = Reloaded,
         NEW s \in Specs
  PROVE  /\ Filed(s)' /\ Told(claim[s], s)'
         /\ \A status \in Status : Told(status, s) => Told(status, s)'
  <1>1. Filed(s) /\ Told(claim[s], s) /\ claim[s] \in Status
    BY DEF SInv, ScheduleTypeOK
  <1>2. Filed(s)'
    BY <1>1, ReloadedType DEF Filed
  <1>3. (Armed(s) => Armed(s)') /\ (Quiet(s) => Quiet(s)')
    BY ReloadedType DEF Armed, Quiet, ConfigOk, Runnable, SystemScoped
  <1> QED
    BY <1>1, <1>2, <1>3 DEF Told

LEMMA ReloadKeeps ==
  ASSUME SInv, Reload
  PROVE  SInv'
  <1>0. /\ run.pc \in Steps /\ run.pc \in Installing \ {"gate"} /\ os = "systemd"
        /\ UNCHANGED <<os, env, home, edits, edited, claim, orphan>>
        /\ run \in Run
    BY DEF Reload, Steps, Installing, SInv, Control, World, ScheduleTypeOK
  <1>1. CASE Fault /\ Result("failed") /\ UNCHANGED unit
    BY <1>0, <1>1, FailKeeps DEF Reload
  <1>2. CASE NoFault /\ unit' = Reloaded /\ Go("enable")
    <2>1. /\ run' \in Run /\ run'.pc = "enable" /\ run'.results = run.results
          /\ run'.i = run.i /\ run'.verb = run.verb /\ run'.exec = run.exec
      BY <1>0, <1>2 DEF Go, Run, PCs
    <2>2. ScheduleTypeOK'
      BY <1>0, <1>2, <2>1, ReloadedType DEF SInv, ScheduleTypeOK, NoFault
    <2>3. Control'
      BY <1>0, <2>1 DEF SInv, Control, Steps, Installing, Removing, Reload
    <2>4. Prepared'
      BY <1>0, <2>1 DEF SInv, Prepared, ConfigOk, SystemScoped
    <2>5. Halfway'
      BY <1>0, <1>2, <2>1, AtHand, ReloadedType DEF Halfway, Spec_
    <2>6. \A s \in Specs : Filed(s)' /\ Told(run.results[s], s)' /\ Told(claim[s], s)'
      <3> SUFFICES ASSUME NEW s \in Specs
                   PROVE  Filed(s)' /\ Told(run.results[s], s)' /\ Told(claim[s], s)'
        OBVIOUS
      <3>1. run.results[s] \in Status /\ Told(run.results[s], s)
        BY <1>0 DEF Run, SInv
      <3>2. \A status \in Status : Told(status, s) => Told(status, s)'
        BY <1>0, <1>2, ReloadTold
      <3>3. Told(run.results[s], s)'
        BY <2>1, <3>1, <3>2 DEF Told
      <3> QED
        BY <1>0, <1>2, <3>3, ReloadTold
    <2> QED
      BY <2>2, <2>3, <2>4, <2>5, <2>6 DEF SInv
  <1> QED
    BY <1>1, <1>2 DEF Reload

LEMMA EnableKeeps ==
  ASSUME SInv, Enable
  PROVE  SInv'
  <1>0. /\ run.pc \in Steps /\ run.pc \in Installing \ {"gate"} /\ os = "systemd"
        /\ UNCHANGED <<os, env, home, edits, edited, claim>>
        /\ unit[Spec_].timer => unit[Spec_].loaded = unit[Spec_].service
        /\ "failed" \in Status
    BY DEF Enable, Steps, Installing, SInv, Control, World, Halfway, Status
  <1>o. /\ orphan' \subseteq Specs
        /\ \A s \in Specs \ {Spec_} : s \in orphan' <=> s \in orphan
    BY <1>0, AtHand DEF Enable
  <1>1. CASE NoFault /\ unit[Spec_].timer /\ Go("show")
             /\ Set([unit[Spec_] EXCEPT !.enabled = TRUE, !.active = TRUE])
    <2> DEFINE u == [unit[Spec_] EXCEPT !.enabled = TRUE, !.active = TRUE]
    <2>1. u \in Unit /\ u.timer /\ u.enabled /\ u.active /\ u.loaded = u.service
      BY <1>0, <1>1, AtHand DEF Unit
    <2>2. Set(u) /\ "show" \in Steps /\ "show" \in Installing
      BY <1>1 DEF Steps, Installing
    <2> HIDE DEF u
    <2> QED
      BY <1>0, <1>o, <1>1, <2>1, <2>2, AtHand, SetGoKeeps
  <1>2. CASE NoFault /\ ~unit[Spec_].timer /\ Result("failed") /\ UNCHANGED unit
    BY <1>0, <1>2, FailKeeps DEF Enable, World
  <1>3. CASE /\ Fault /\ unit[Spec_].timer /\ Result("failed")
             /\ \E e, a \in BOOLEAN :
                   Set([unit[Spec_] EXCEPT !.enabled = e, !.active = a])
    <2>1. PICK e \in BOOLEAN, a \in BOOLEAN :
            Set([unit[Spec_] EXCEPT !.enabled = e, !.active = a])
      BY <1>3
    <2> DEFINE u == [unit[Spec_] EXCEPT !.enabled = e, !.active = a]
    <2>2. u \in Unit /\ u.timer /\ Set(u)
      BY <1>0, <1>3, <2>1, AtHand DEF Unit
    <2> HIDE DEF u
    <2>3. PICK s \in Specs : s = Spec_ /\ Told("failed", s)'
      BY <1>0, AtHand DEF Told
    <2> QED
      BY <1>0, <1>o, <1>3, <2>2, <2>3, SetResultKeeps
  <1> QED
    BY <1>1, <1>2, <1>3 DEF Enable

LEMMA ShowKeeps ==
  ASSUME SInv, Show
  PROVE  SInv'
  <1>0. /\ run.pc \in Steps /\ run.pc \in Installing \ {"gate"} /\ os = "systemd"
        /\ UNCHANGED <<os, env, home, edits, edited, claim>> /\ orphan' = orphan
        /\ Spec_ \in orphan
           \/ (/\ unit[Spec_].timer /\ unit[Spec_].enabled /\ unit[Spec_].active
               /\ unit[Spec_].loaded = unit[Spec_].service)
    BY DEF Show, Steps, Installing, SInv, Control, World, Halfway
  <1>1. CASE (Fault \/ NoFault) /\ Result("failed")
    BY <1>0, <1>1, FailKeeps DEF Show
  <1>2. CASE NoFault /\ unit[Spec_].loaded = run.exec /\ Go("active")
    <2>1. Set(unit[Spec_])
      BY DEF Set, Show, SInv, ScheduleTypeOK
    <2>2. "active" \in Steps /\ "active" \in Installing
      BY DEF Steps, Installing
    <2> QED
      BY <1>0, <1>2, <2>1, <2>2, AtHand, SetGoKeeps DEF Filed
  <1> QED
    BY <1>1, <1>2 DEF Show

LEMMA IsActiveKeeps ==
  ASSUME SInv, IsActive
  PROVE  SInv'
  <1>0. /\ run.pc \in Steps /\ run.pc \in Installing \ {"gate"} /\ os = "systemd"
        /\ UNCHANGED <<os, env, home, edits, edited, claim>> /\ orphan' = orphan
        /\ unit' = unit
        /\ Spec_ \in orphan
           \/ (/\ unit[Spec_].timer /\ unit[Spec_].enabled /\ unit[Spec_].active
               /\ unit[Spec_].loaded = unit[Spec_].service)
        /\ unit[Spec_].loaded = run.exec
        /\ "installed" \in Status
    BY DEF IsActive, Steps, Installing, SInv, Control, World, Halfway, Status
  <1>1. CASE (Fault \/ NoFault) /\ Result("failed")
    BY <1>0, <1>1, FailKeeps DEF IsActive
  <1>2. CASE NoFault /\ Result("installed")
    <2>1. Set(unit[Spec_])
      BY <1>0 DEF Set, SInv, ScheduleTypeOK
    <2>2. PICK s \in Specs : s = Spec_
      BY <1>0, AtHand
    <2>3. edited \/ s \in orphan \/ Armed(s)
      BY <1>0, <2>2, AtHand DEF Armed, Runnable
    <2>4. Told("installed", s)'
      BY <1>0, <2>3 DEF Told, Armed, Runnable, SystemScoped, ConfigOk
    <2> QED
      BY <1>0, <1>2, <2>1, <2>2, <2>4, AtHand, SetResultKeeps DEF Filed
  <1> QED
    BY <1>1, <1>2 DEF IsActive
LEMMA RegisterKeeps ==
  ASSUME SInv, Register
  PROVE  SInv'
  <1>0. /\ run.pc \in Steps /\ run.pc \in Installing \ {"gate"} /\ os # "systemd"
        /\ UNCHANGED <<os, env, home, edits, edited, claim>> /\ orphan' = orphan
        /\ unit[Spec_].service = run.exec
        /\ {"installed", "failed"} \subseteq Status
    BY DEF Register, Steps, Installing, SInv, Control, World, Halfway, Status
  <1>1. CASE Fault /\ Result("failed") /\ UNCHANGED unit
    BY <1>0, <1>1, FailKeeps DEF Register
  <1>2. ASSUME NEW wrong \in {{}} \cup {{f} : f \in ReceiptFields}, NEW receipt \in BOOLEAN,
               Fault \/ NoFault, Set(Registered),
               Result(IF RegistrationVerified(ScriptCode(wrong), receipt, wrong)
                      THEN "installed" ELSE "failed")
        PROVE  SInv'
    <2>1. PICK s \in Specs : s = Spec_
      BY <1>0, AtHand
    <2>2. /\ Registered \in Unit /\ Registered.active /\ Registered.enabled
          /\ Registered.loaded = Registered.service /\ Registered.service = run.exec
          /\ Registered.timer = unit[s].timer
      BY <1>0, <2>1, AtHand DEF Registered, Unit
    <2>3. unit'[s] = Registered
      BY <1>2, <2>1 DEF Set, SInv, ScheduleTypeOK
    <2>4. (edited \/ Armed(s))'
      BY <1>0, <2>1, <2>2, <2>3, AtHand DEF Armed, Runnable, SystemScoped, ConfigOk
    <2>5. \A status \in {"installed", "failed"} : Told(status, s)'
      BY <2>4 DEF Told
    <2>6. /\ ~Registered.timer
          /\ Registered.service # NoExec
      BY <1>0, <2>1, <2>2, AtHand DEF Filed
    <2> DEFINE status == IF RegistrationVerified(ScriptCode(wrong), receipt, wrong)
                         THEN "installed" ELSE "failed"
    <2>7. status \in {"installed", "failed"} /\ Result(status)
      BY <1>2
    <2> HIDE DEF status
    <2> QED
      BY <1>0, <1>2, <2>1, <2>2, <2>5, <2>6, <2>7, AtHand, SetResultKeeps
  <1> QED
    BY <1>1, <1>2 DEF Register

-----------------------------------------------------------------------------
(* Removing *)

\* Nothing is left of a unit: what says "removed" is true of it.
LEMMA GoneIsQuiet ==
  ASSUME SInv, run.pc \in Steps, NEW u \in Unit, Set(u), orphan' = orphan,
         u.service = NoExec, ~u.timer,
         Spec_ \in orphan \/ (~u.active /\ ~u.enabled),
         NEW s \in Specs, s = Spec_
  PROVE  Told("removed", s)'
  BY DEF Set, SInv, ScheduleTypeOK, Told, Quiet

LEMMA DisableKeeps ==
  ASSUME SInv, Disable
  PROVE  SInv'
  <1> DEFINE u == unit[Spec_]
  <1>0. /\ run.pc \in Steps /\ run.pc \notin Installing /\ os = "systemd"
        /\ UNCHANGED <<os, env, home, edits, edited, claim>> /\ orphan' = orphan
        /\ {"removed", "failed"} \subseteq Status
    BY DEF Disable, Steps, Installing, Removing, SInv, Control, World, Status
  <1>s. PICK s \in Specs : s = Spec_
    BY <1>0, AtHand
  <1>1. CASE NoFault /\ u.service = NoExec /\ ~u.timer /\ Result("removed")
             /\ UNCHANGED unit
    <2>1. Set(u)
      BY <1>1 DEF Set, SInv, ScheduleTypeOK
    <2>2. Spec_ \in orphan \/ (~u.active /\ ~u.enabled)
      BY <1>0, <1>1, AtHand DEF Filed
    <2>3. Told("removed", s)'
      BY <1>0, <1>s, <1>1, <2>1, <2>2, AtHand, GoneIsQuiet
    <2> QED
      BY <1>0, <1>s, <1>1, <2>1, <2>2, <2>3, AtHand, SetResultKeeps
  <1>2. CASE NoFault /\ ~u.timer /\ Result("failed") /\ UNCHANGED unit
    BY <1>0, <1>2, FailKeeps DEF Disable
  <1>3. CASE NoFault /\ u.timer /\ Go("unlink")
             /\ Set([u EXCEPT !.enabled = FALSE, !.active = FALSE])
    <2> DEFINE v == [u EXCEPT !.enabled = FALSE, !.active = FALSE]
    <2>1. v \in Unit /\ ~v.enabled /\ ~v.active
      BY <1>0, AtHand DEF Unit
    <2>2. Set(v) /\ "unlink" \in Steps /\ "unlink" \notin Installing
      BY <1>3 DEF Steps, Installing, Removing
    <2> HIDE DEF v
    <2> QED
      BY <1>0, <1>3, <2>1, <2>2, AtHand, SetGoKeeps
  <1>4. CASE /\ Fault /\ u.timer /\ AfterFailedDisable
             /\ \E e \in {FALSE, u.enabled}, a \in {FALSE, u.active} :
                   Set([u EXCEPT !.enabled = e, !.active = a])
    <2>1. PICK e \in {FALSE, u.enabled}, a \in {FALSE, u.active} :
            Set([u EXCEPT !.enabled = e, !.active = a])
      BY <1>4
    <2> DEFINE v == [u EXCEPT !.enabled = e, !.active = a]
    <2>2. v \in Unit /\ v.timer /\ Set(v)
      BY <1>0, <1>4, <2>1, AtHand DEF Unit
    <2> HIDE DEF v
    <2>3. Told("failed", s)'
      BY DEF Told
    <2> QED
      BY <1>0, <1>s, <1>4, <2>2, <2>3, AtHand, SetResultKeeps DEF AfterFailedDisable
  <1> QED
    BY <1>1, <1>2, <1>3, <1>4 DEF Disable

LEMMA UnregisterKeeps ==
  ASSUME SInv, Unregister
  PROVE  SInv'
  <1> DEFINE gone == [unit[Spec_] EXCEPT !.loaded = NoExec, !.enabled = FALSE,
                                         !.active = FALSE]
  <1>0. /\ run.pc \in Steps /\ run.pc \notin Installing /\ os # "systemd"
        /\ UNCHANGED <<os, env, home, edits, edited, claim>> /\ orphan' = orphan
        /\ {"removed", "failed"} \subseteq Status
    BY DEF Unregister, Steps, Installing, Removing, SInv, Control, World, Status
  <1>s. PICK s \in Specs : s = Spec_ /\ ~unit[s].timer
    BY <1>0, AtHand DEF Filed
  <1>g. /\ gone \in Unit /\ ~gone.enabled /\ ~gone.active /\ ~gone.timer
        /\ [gone EXCEPT !.service = NoExec] \in Unit
    BY <1>0, <1>s, AtHand DEF Unit, Place
  <1>1. CASE NoFault /\ Set([gone EXCEPT !.service = NoExec]) /\ Result("removed")
    <2> DEFINE v == [gone EXCEPT !.service = NoExec]
    <2>1. v \in Unit /\ v.service = NoExec /\ ~v.timer /\ ~v.active /\ ~v.enabled
      BY <1>g DEF Unit
    <2>2. Set(v)
      BY <1>1
    <2> HIDE DEF v
    <2>3. Told("removed", s)'
      BY <1>0, <1>s, <2>1, <2>2, GoneIsQuiet
    <2> QED
      BY <1>0, <1>s, <1>1, <2>1, <2>2, <2>3, AtHand, SetResultKeeps
  <1>2. CASE Fault /\ Result("failed") /\ \E u \in {unit[Spec_], gone} : Set(u)
    <2>1. PICK u \in {unit[Spec_], gone} : Set(u)
      BY <1>2
    <2>2. /\ u \in Unit /\ ~u.timer
          /\ u.active \/ u.enabled => u.service # NoExec \/ Spec_ \in orphan
      BY <1>0, <1>s, <1>g, AtHand DEF Filed
    <2>3. Told("failed", s)'
      BY DEF Told
    <2> QED
      BY <1>0, <1>s, <1>2, <2>1, <2>2, <2>3, AtHand, SetResultKeeps
  <1> QED
    BY <1>1, <1>2 DEF Unregister
LEMMA UnlinkKeeps ==
  ASSUME SInv, Unlink
  PROVE  SInv'
  <1>0. /\ run.pc \in Steps /\ run \in Run /\ os = "systemd"
        /\ UNCHANGED <<os, env, home, edits, edited, claim>> /\ orphan' = orphan
        /\ ~unit[Spec_].enabled /\ ~unit[Spec_].active
        /\ {"removed", "failed"} \subseteq Status
    BY DEF Unlink, Steps, Removing, SInv, Control, World, Halfway, Status, ScheduleTypeOK
  <1>s. PICK s \in Specs : s = Spec_
    BY <1>0, AtHand
  <1>1. PICK keepService \in BOOLEAN, keepTimer \in BOOLEAN :
          LET u == unit[Spec_]
              new == [u EXCEPT !.service = IF keepService THEN @ ELSE NoExec,
                               !.timer = keepTimer /\ @]
              r == [run EXCEPT !.unlinked = @ \/ new # u]
          IN  /\ IF keepService \/ keepTimer THEN Fault ELSE NoFault
              /\ Set(new)
              /\ run' = After(
                   IF keepService \/ keepTimer
                   THEN [r EXCEPT !.results[Spec_] = "failed"]
                   ELSE [r EXCEPT !.results[Spec_] = "removed",
                                  !.dependent = @ \cup {Spec_}])
    BY DEF Unlink
  <1> DEFINE u == unit[Spec_]
             new == [u EXCEPT !.service = IF keepService THEN @ ELSE NoExec,
                              !.timer = keepTimer /\ @]
             changed == run.unlinked \/ new # u
             status == IF keepService \/ keepTimer THEN "failed" ELSE "removed"
             r == IF keepService \/ keepTimer
                  THEN [[run EXCEPT !.unlinked = changed] EXCEPT !.results[Spec_] = "failed"]
                  ELSE [[run EXCEPT !.unlinked = changed]
                           EXCEPT !.results[Spec_] = "removed",
                                  !.dependent = @ \cup {Spec_}]
  <1>2. /\ new \in Unit /\ ~new.enabled /\ ~new.active
        /\ status = "removed" => new.service = NoExec /\ ~new.timer
    BY <1>0, AtHand DEF Unit, Place
  <1>3. Set(new) /\ (Fault \/ NoFault) /\ run' = After(r)
    BY <1>1
  <1>4. changed \in BOOLEAN /\ status \in {"removed", "failed"}
    BY <1>0 DEF Run
  <1> HIDE DEF new, changed
  <1>5. /\ r \in Run /\ r.i = run.i /\ r.verb = run.verb /\ r.exec = run.exec
        /\ r.results = [run.results EXCEPT ![s] = status]
    BY <1>0, <1>s, <1>4 DEF Run, Status
  <1> HIDE DEF r, status
  <1>6. Told(status, s)'
    <2>1. CASE status = "removed"
      BY <1>0, <1>s, <1>2, <1>3, <2>1, GoneIsQuiet
    <2>2. CASE status = "failed"
      BY <2>2 DEF Told
    <2> QED
      BY <1>4, <2>1, <2>2
  <1>7. OthersStay
    <2>1. UNCHANGED <<World, claim, orphan>>
      BY <1>0 DEF World
    <2> QED
      BY <1>0, <1>2, <1>3, <2>1, Standing
  <1>8. unit'[s] = new
    BY <1>s, <1>3 DEF Set, SInv, ScheduleTypeOK
  <1>9. Filed(s)'
    BY <1>0, <1>2, <1>8 DEF Filed
  <1> QED
    BY <1>0, <1>s, <1>3, <1>4, <1>5, <1>6, <1>7, <1>9, FinishKeeps

LEMMA ForgetKeeps ==
  ASSUME SInv, Forget
  PROVE  SInv'
  <1>0. /\ run.pc = "forget" /\ run \in Run
        /\ UNCHANGED <<os, env, home, edits, edited, claim, orphan>>
        /\ claim = Silent
    BY DEF Forget, SInv, Control, World, ScheduleTypeOK
  <1>f. faults' \in 0 .. MaxFaults
    BY ScheduleAssumption DEF Forget, Fault, NoFault, SInv, ScheduleTypeOK
  <1>1. ASSUME run' \in Run, run'.pc = "print", unit' \in {unit, Reloaded},
               \A s \in Specs : run'.results[s] \in {run.results[s], "failed"}
        PROVE  SInv'
    <2>1. ScheduleTypeOK'
      BY <1>0, <1>f, <1>1, ReloadedType DEF SInv, ScheduleTypeOK
    <2>2. Control' /\ Prepared' /\ Halfway'
      BY <1>0, <1>1 DEF Control, Prepared, Halfway, Steps, Installing, Removing
    <2>3. \A s \in Specs : Filed(s)' /\ Told(run.results[s], s)' /\ Told(claim[s], s)'
      <3> SUFFICES ASSUME NEW s \in Specs
                   PROVE  Filed(s)' /\ Told(run.results[s], s)' /\ Told(claim[s], s)'
        OBVIOUS
      <3>1. /\ Filed(s)' /\ Told(claim[s], s)'
            /\ \A status \in Status : Told(status, s) => Told(status, s)'
        <4>1. CASE unit' = Reloaded
          BY <1>0, <4>1, ReloadTold
        <4>2. CASE unit' = unit
          BY <1>0, <4>2 DEF SInv, Filed, Told, Armed, Quiet, ConfigOk, Runnable,
                            SystemScoped
        <4> QED
          BY <1>1, <4>1, <4>2
      <3>2. run.results[s] \in Status /\ Told(run.results[s], s)
        BY <1>0 DEF Run, SInv
      <3>3. Told(run.results[s], s)'
        BY <1>1, <3>1, <3>2 DEF Told
      <3> QED
        BY <3>1, <3>3
    <2> QED
      BY <2>1, <2>2, <2>3 DEF SInv
  <1>2. CASE NoFault /\ unit' = Reloaded /\ Go("print")
    <2>1. run' \in Run /\ run'.pc = "print" /\ run'.results = run.results
      BY <1>0, <1>2 DEF Go, Run, PCs
    <2> QED
      BY <1>1, <1>2, <2>1
  <1>3. CASE /\ UNCHANGED unit
             /\ run' = [run EXCEPT !.pc = "print",
                    !.results = [s \in Specs |->
                        IF s \in run.dependent THEN "failed" ELSE run.results[s]]]
    <2> DEFINE results == [s \in Specs |->
                             IF s \in run.dependent THEN "failed" ELSE run.results[s]]
    <2>1. results \in [Specs -> Status]
      BY <1>0 DEF Run, Status
    <2>2. \A s \in Specs : results[s] \in {run.results[s], "failed"}
      OBVIOUS
    <2>3. run' = [run EXCEPT !.pc = "print", !.results = results]
      BY <1>3
    <2> HIDE DEF results
    <2>4. run' \in Run /\ run'.pc = "print" /\ run'.results = results
      BY <1>0, <2>1, <2>3 DEF Run, PCs
    <2> QED
      BY <1>1, <1>3, <2>2, <2>4
  <1> QED
    BY <1>2, <1>3 DEF Forget
-----------------------------------------------------------------------------
(* Commands begin and end; the surroundings *)

LEMMA BeginKeeps ==
  ASSUME SInv, NEW verb \in {"install", "remove"}, Begin(verb)
  PROVE  SInv'
  <1> DEFINE refused == [s \in Specs |-> "unsupported"]
             first == IF verb = "install" THEN "preflight" ELSE First(verb)
  <1>0. /\ UNCHANGED <<os, env, home, unit, faults, edits, orphan>> /\ claim' = Silent
        /\ edited' = FALSE
    BY DEF Begin
  <1>1. /\ refused \in [Specs -> Status] /\ first \in PCs
        /\ first \in {"preflight", "disable", "unregister"}
    BY DEF Status, PCs, First
  <1>2. CASE os = "none" /\ run' = [Idle EXCEPT !.verb = verb, !.pc = "print",
                                               !.results = refused]
    <2> HIDE DEF refused
    <2>1. run' \in Run /\ run'.pc = "print" /\ run'.results = refused
      BY <1>1, <1>2, IdleType DEF Run, PCs
    <2>2. ScheduleTypeOK'
      BY <1>0, <2>1, SilentType DEF SInv, ScheduleTypeOK
    <2>3. Control' /\ Prepared' /\ Halfway'
      BY <1>0, <2>1 DEF Control, Prepared, Halfway, Steps, Installing, Removing
    <2>4. \A s \in Specs : Filed(s)' /\ Told(run.results[s], s)' /\ Told(claim[s], s)'
      BY <1>0, <2>1, SilentType DEF SInv, Filed, Told, refused
    <2> QED
      BY <2>2, <2>3, <2>4 DEF SInv
  <1>3. CASE os # "none" /\ run' = [Idle EXCEPT !.verb = verb, !.pc = first]
    <2>0. first = "preflight" \/ (first = "disable" /\ os = "systemd")
            \/ (first = "unregister" /\ os # "systemd")
      BY DEF First
    <2>v. first = "preflight" <=> verb = "install"
      BY DEF First
    <2> HIDE DEF first
    <2>1. /\ run' \in Run /\ run'.pc = first /\ run'.results = Silent /\ run'.i = 1
          /\ run'.verb = verb
      BY <1>1, <1>3, IdleType DEF Run, Idle
    <2>2. ScheduleTypeOK'
      BY <1>0, <2>1, SilentType DEF SInv, ScheduleTypeOK
    <2>3. Control'
      <3>1. 1 \in 1 .. Len(Order) /\ \A k \in 1 .. Len(Order) : Silent[Order[k]] = "none"
        BY OrderType, SilentType
      <3> QED
        BY <1>0, <1>3, <2>0, <2>v, <2>1, <3>1 DEF Control, Steps, Installing, Removing
    <2>4. Prepared' /\ Halfway'
      BY <1>0, <1>1, <2>1 DEF Prepared, Halfway, Installing
    <2>5. \A s \in Specs : Filed(s)' /\ Told(run.results[s], s)' /\ Told(claim[s], s)'
      BY <1>0, <2>1, SilentType DEF SInv, Filed, Told
    <2> QED
      BY <2>2, <2>3, <2>4, <2>5 DEF SInv
  <1> QED
    BY <1>2, <1>3 DEF Begin

\* Once no command runs, only what the last one said is left to hold.
LEMMA IdleKeeps ==
  ASSUME SInv, NEW verb \in {"install", "remove"}, run' = [Idle EXCEPT !.verb = verb],
         run' \in Run => ScheduleTypeOK',
         \A s \in Specs : Filed(s)' /\ Told(claim[s], s)'
  PROVE  SInv'
  <1>1. run' \in Run /\ run'.pc = "idle" /\ run'.results = Silent
    BY IdleType DEF Run, Idle
  <1>2. Control' /\ Prepared' /\ Halfway'
    BY <1>1 DEF Control, Prepared, Halfway, Steps, Installing, Removing
  <1>3. \A s \in Specs : Told(run.results[s], s)'
    BY <1>1, SilentType DEF Told
  <1> QED
    BY <1>1, <1>2, <1>3 DEF SInv

LEMMA ReportKeeps ==
  ASSUME SInv, Report
  PROVE  SInv'
  <1>0. /\ UNCHANGED <<os, env, home, edits, edited, unit, faults, orphan>>
        /\ claim' = run.results /\ run \in Run
        /\ run' = [Idle EXCEPT !.verb = run.verb]
    BY DEF Report, World, SInv, ScheduleTypeOK
  <1>1. run.verb \in {"install", "remove"} /\ run.results \in [Specs -> Status]
    BY <1>0 DEF Run
  <1>2. run' \in Run => ScheduleTypeOK'
    BY <1>0, <1>1 DEF SInv, ScheduleTypeOK
  <1>3. \A s \in Specs : Filed(s)' /\ Told(claim[s], s)'
    BY <1>0 DEF SInv, Filed, Told, Armed, Quiet, ConfigOk, Runnable, SystemScoped
  <1> QED
    BY <1>0, <1>1, <1>2, <1>3, IdleKeeps

LEMMA FaultType ==
  ASSUME SInv, Fault
  PROVE  faults' \in 0 .. MaxFaults
  BY ScheduleAssumption DEF SInv, ScheduleTypeOK, Fault

LEMMA CrashKeeps ==
  ASSUME SInv, Crash
  PROVE  SInv'
  <1>0. /\ UNCHANGED <<os, env, home, edits, edited, unit, claim, orphan>>
        /\ run' = [Idle EXCEPT !.verb = run.verb]
        /\ run.verb \in {"install", "remove"}
    BY DEF Crash, World, SInv, ScheduleTypeOK, Run
  <1>2. run' \in Run => ScheduleTypeOK'
    BY <1>0, FaultType DEF SInv, ScheduleTypeOK, Crash
  <1>3. \A s \in Specs : Filed(s)' /\ Told(claim[s], s)'
    BY <1>0 DEF SInv, Filed, Told, Armed, Quiet, ConfigOk, Runnable, SystemScoped
  <1> QED
    BY <1>0, <1>2, <1>3, IdleKeeps

\* systemd starts the enabled timers it finds on disk: what was armed is armed again,
\* and nothing else is.
LEMMA RestartKeeps ==
  ASSUME SInv, Restart
  PROVE  SInv'
  <1>0. /\ UNCHANGED <<os, env, home, edits, edited, claim, orphan>>
        /\ run' = [Idle EXCEPT !.verb = run.verb]
        /\ run.verb \in {"install", "remove"} /\ unit \in [Specs -> Unit]
    BY DEF Restart, World, SInv, ScheduleTypeOK, Run
  <1>1. CASE os # "systemd"
    <2>1. run' \in Run => ScheduleTypeOK'
      BY <1>0, <1>1, FaultType DEF SInv, ScheduleTypeOK, Restart
    <2>2. \A s \in Specs : Filed(s)' /\ Told(claim[s], s)'
      BY <1>0, <1>1
         DEF SInv, Filed, Told, Armed, Quiet, ConfigOk, Runnable, SystemScoped, Restart
    <2> QED
      BY <1>0, <2>1, <2>2, IdleKeeps
  <1>2. CASE os = "systemd"
    <2>1. /\ unit' \in [Specs -> Unit]
          /\ \A s \in Specs : /\ unit'[s].service = unit[s].service
                               /\ unit'[s].loaded = unit[s].service
                               /\ unit'[s].timer = unit[s].timer
                               /\ unit'[s].enabled = unit[s].enabled
                               /\ unit'[s].active = (unit[s].enabled /\ unit[s].timer)
      BY <1>0, <1>2 DEF Restart, Unit
    <2>2. run' \in Run => ScheduleTypeOK'
      BY <1>0, <2>1, FaultType DEF SInv, ScheduleTypeOK, Restart
    <2>3. ASSUME NEW s \in Specs
          PROVE  Filed(s)' /\ Told(claim[s], s)'
      <3>1. Filed(s) /\ Told(claim[s], s)
        BY DEF SInv
      <3>2. Filed(s)'
        BY <1>0, <1>2, <2>1, <3>1 DEF Filed
      <3>3. (Armed(s) => Armed(s)') /\ (Quiet(s) => Quiet(s)')
        BY <1>0, <1>2, <2>1 DEF Armed, Quiet, ConfigOk, Runnable, SystemScoped
      <3> QED
        BY <1>0, <3>1, <3>2, <3>3 DEF Told
    <2> QED
      BY <1>0, <2>2, <2>3, IdleKeeps
  <1> QED
    BY <1>1, <1>2

\* An edit withdraws every promise of an install; a removed schedule stays removed.
LEMMA EditKeeps ==
  ASSUME SInv, (\E e \in Env : EditEnv(e)) \/ (\E place \in Place : Move(place))
  PROVE  SInv'
  <1>0. /\ UNCHANGED <<os, unit, run, claim, faults, orphan>> /\ edited' = TRUE
        /\ env' \in Env /\ home' \in Place /\ edits' \in 0 .. MaxEdits
    BY ScheduleAssumption DEF SInv, ScheduleTypeOK, EditEnv, Move, Edit
  <1>1. ScheduleTypeOK'
    BY <1>0 DEF SInv, ScheduleTypeOK
  <1>2. Control' /\ Prepared' /\ Halfway'
    BY <1>0 DEF SInv, Control, Prepared, Halfway, Spec_, SystemScoped
  <1>3. \A s \in Specs : Filed(s)' /\ Told(run.results[s], s)' /\ Told(claim[s], s)'
    BY <1>0 DEF SInv, Filed, Told, Quiet
  <1> QED
    BY <1>1, <1>2, <1>3 DEF SInv

LEMMA DeleteByHandKeeps ==
  ASSUME SInv, NEW s \in Specs, DeleteByHand(s)
  PROVE  SInv'
  <1> DEFINE u == [unit[s] EXCEPT !.service = NoExec, !.timer = FALSE]
  <1>0. /\ UNCHANGED <<os, env, home, run, claim, faults, edited>> /\ os = "systemd"
        /\ orphan' = orphan \cup {s} /\ orphan' \subseteq Specs
        /\ edits' \in 0 .. MaxEdits
    BY ScheduleAssumption DEF SInv, ScheduleTypeOK, DeleteByHand, Edit
  <1>1. /\ u \in Unit /\ u.service = NoExec /\ ~u.timer /\ u.loaded = unit[s].loaded
        /\ u.enabled = unit[s].enabled /\ u.active = unit[s].active
    BY DEF SInv, ScheduleTypeOK, Unit, Place
  <1>2. unit' = [unit EXCEPT ![s] = u]
    BY DEF DeleteByHand, SInv, ScheduleTypeOK
  <1> HIDE DEF u
  <1>3. /\ unit' \in [Specs -> Unit] /\ unit'[s] = u
        /\ \A t \in Specs \ {s} : unit'[t] = unit[t]
    BY <1>1, <1>2 DEF SInv, ScheduleTypeOK
  <1>4. ScheduleTypeOK'
    BY <1>0, <1>3 DEF SInv, ScheduleTypeOK
  <1>5. Control' /\ Prepared'
    BY <1>0 DEF SInv, Control, Prepared, ConfigOk, SystemScoped
  <1>6. Halfway'
    <2>1. CASE run.pc \in Steps
      <3>1. Spec_ \in Specs /\ Spec_' = Spec_ /\ run.pc # "register"
        BY <1>0, <2>1, SpecType DEF Spec_, SInv, Control
      <3>2. CASE Spec_ = s
        BY <1>0, <1>1, <1>3, <3>1, <3>2 DEF SInv, Halfway
      <3>3. CASE Spec_ # s
        BY <1>0, <1>3, <3>1, <3>3 DEF SInv, Halfway
      <3> QED
        BY <3>2, <3>3
    <2>2. CASE run.pc \notin Steps
      BY <1>0, <2>2 DEF Halfway, Steps, Installing, Removing
    <2> QED
      BY <2>1, <2>2
  <1>7. ASSUME NEW t \in Specs
        PROVE  Filed(t)' /\ Told(run.results[t], t)' /\ Told(claim[t], t)'
    <2>1. CASE t = s
      BY <1>0, <1>1, <1>3, <2>1 DEF Filed, Told, Quiet
    <2>2. CASE t # s
      BY <1>0, <1>3, <2>2
         DEF SInv, Filed, Told, Armed, Quiet, ConfigOk, Runnable, SystemScoped
    <2> QED
      BY <2>1, <2>2
  <1> QED
    BY <1>4, <1>5, <1>6, <1>7 DEF SInv

-----------------------------------------------------------------------------
(* The theorem *)

LEMMA ScheduleInitially ==
  ASSUME ScheduleInit
  PROVE  SInv
  <1>1. run \in Run /\ run.pc = "idle" /\ run.results = Silent
    BY IdleType DEF ScheduleInit, Idle
  <1>2. /\ unit \in [Specs -> Unit]
        /\ \A s \in Specs : ~unit[s].timer /\ ~unit[s].active /\ ~unit[s].enabled
    BY DEF ScheduleInit, NoUnit, Unit, Place
  <1>6. /\ os \in Targets /\ env \in Env /\ home \in Place /\ claim \in [Specs -> Status]
        /\ faults = 0 /\ edits = 0 /\ edited = FALSE /\ orphan = {}
    BY SilentType DEF ScheduleInit
  <1>7. 0 \in 0 .. MaxFaults /\ 0 \in 0 .. MaxEdits
    BY ScheduleAssumption
  <1>3. ScheduleTypeOK
    BY <1>1, <1>2, <1>6, <1>7 DEF ScheduleTypeOK
  <1>4. Control /\ Prepared /\ Halfway
    BY <1>1 DEF Control, Prepared, Halfway, Steps, Installing, Removing
  <1>5. \A s \in Specs : Filed(s) /\ Told(run.results[s], s) /\ Told(claim[s], s)
    BY <1>1, <1>2, SilentType DEF ScheduleInit, Filed, Told
  <1> QED
    BY <1>3, <1>4, <1>5 DEF SInv

LEMMA ScheduleStays ==
  ASSUME SInv, [ScheduleNext]_scheduleVars
  PROVE  SInv'
  <1>1. ASSUME InstallStep
        PROVE  SInv'
    BY <1>1, PreflightKeeps, GateKeeps, WriteServiceKeeps, WriteTimerKeeps, ReloadKeeps,
       EnableKeeps, ShowKeeps, IsActiveKeeps, RegisterKeeps DEF InstallStep
  <1>2. ASSUME RemoveStep
        PROVE  SInv'
    BY <1>2, DisableKeeps, UnlinkKeeps, ForgetKeeps, UnregisterKeeps DEF RemoveStep
  <1>3. ASSUME Accident
        PROVE  SInv'
    BY <1>3, CrashKeeps, RestartKeeps DEF Accident
  <1>4. ASSUME Change
        PROVE  SInv'
    BY <1>4, EditKeeps, DeleteByHandKeeps DEF Change
  <1>5. ASSUME UNCHANGED scheduleVars
        PROVE  SInv'
    <2>1. ScheduleTypeOK' /\ Control'
      BY <1>5 DEF scheduleVars, SInv, ScheduleTypeOK, Control
    <2>2. Prepared' /\ Halfway'
      BY <1>5 DEF scheduleVars, SInv, Prepared, Halfway, Spec_, ConfigOk, SystemScoped
    <2>3. \A s \in Specs : Filed(s)' /\ Told(run.results[s], s)' /\ Told(claim[s], s)'
      BY <1>5 DEF scheduleVars, SInv, Filed, Told, Armed, Quiet, ConfigOk, Runnable,
         SystemScoped
    <2> QED
      BY <2>1, <2>2, <2>3 DEF SInv
  <1> QED
    BY <1>1, <1>2, <1>3, <1>4, <1>5, BeginKeeps, ReportKeeps DEF ScheduleNext, Step

LEMMA ToldIsReported ==
  ASSUME SInv
  PROVE  ScheduleReportsAreTrue
  BY DEF SInv, Told, ScheduleReportsAreTrue

\* What install and remove print of a schedule stays true (schedule.py,
\* install_schedules and remove_schedules), however many earlier commands failed or
\* were killed at whatever step.
THEOREM ScheduleReportsHold == ScheduleSpec => []ScheduleReportsAreTrue
  <1>1. SInv /\ [ScheduleNext]_scheduleVars => SInv'
    BY ScheduleStays
  <1> QED
    BY <1>1, ScheduleInitially, ToldIsReported, PTL DEF ScheduleSpec
=============================================================================

-------------------------- MODULE DeploymentProofs --------------------------
(***************************************************************************)
(* Proofs about what makes a host ready: the services of Linux and of      *)
(* Windows, the Codex plugins, the three pipelines (modules Services,      *)
(* WindowsSetup, Codex, Deploy), and their composition in MCDeployment.    *)
(*                                                                         *)
(* Each part has one inductive invariant, a lemma for every action that    *)
(* says what the action leaves of it and what it promises, and theorems    *)
(* that follow from these.                                                 *)
(***************************************************************************)
EXTENDS MCDeployment, SequenceTheorems, WellFoundedInduction, TLAPS

-----------------------------------------------------------------------------
(* Services *)

UnitRecord == [state : States, restarts : Nat, counted : BOOLEAN]
SvcRecord ==
    [verdict : {"none", "running", "ok", "not_ok"}, uninstall : BOOLEAN,
     at : {"locate", "run", "look", "settle", "count"},
     results : Seq(SvcStatuses), died : BOOLEAN]

USE DEF States, SvcStatuses, UnitRecord, SvcRecord

\* A service that died since it was installed is down, or systemd has counted a restart.
Marked(u) == unit[u].state # "active" \/ unit[u].restarts > 0

\* What the command has established of the component it is at: that its program is one
\* that only root can replace, that it is being installed, and what a death has left.
SvcInv ==
    /\ unit \in [UnitSet -> UnitRecord]
    /\ program \in [UnitSet -> {"system", "user", "none"}]
    /\ svcMishaps \in 0 .. MaxSvcMishaps
    /\ svc \in SvcRecord
    /\ svc.verdict = "running" =>
          /\ Len(svc.results) < Len(Units)
          /\ svc.at # "locate" => program[This] = "system"
          /\ svc.at \in {"look", "settle", "count"} => ~svc.uninstall
          /\ svc.at \in {"locate", "run"} => ~svc.died
          /\ svc.at \in {"look", "settle"} /\ svc.died => Marked(This)
          /\ svc.at = "count" /\ svc.died => unit[This].restarts > 0

LEMMA ThisUnit ==
  ASSUME SvcInv, svc.verdict = "running"
  PROVE  This \in UnitSet
  BY ServicesAssumption DEF SvcInv, This, UnitSet, ToSet

LEMMA UnitsSeq == \A s \in Seq(SvcStatuses), x \in SvcStatuses :
                     /\ Append(s, x) \in Seq(SvcStatuses) /\ Len(Append(s, x)) = Len(s) + 1
                     /\ Append(s, x)[Len(s) + 1] = x
  OBVIOUS

\* What a step does that reports a service installed, and what does not report one.
ReportsInstalled == LET n == Len(svc.results) IN
               Len(svc'.results) = n + 1 /\ svc'.results[n + 1] = "installed"

LEMMA NoInstall ==
  ASSUME SvcInv,
         \/ svc'.results = <<>>
         \/ svc'.results = svc.results
         \/ \E status \in SvcStatuses \ {"installed"} : svc'.results = Append(svc.results, status)
  PROVE  ~ReportsInstalled
  <1>1. svc.results \in Seq(SvcStatuses) /\ Len(svc.results) \in Nat /\ Len(<<>>) = 0
    BY EmptySeq DEF SvcInv
  <1> QED
    BY <1>1, UnitsSeq DEF ReportsInstalled

LEMMA SvcTypes ==
  ASSUME SvcInv
  PROVE  ServicesTypeOK
  BY DEF SvcInv, ServicesTypeOK, ToSet

\* A component is done with: the next one is at its beginning.
LEMMA ConclusionKeeps ==
  ASSUME SvcInv, svc.verdict = "running", NEW status \in SvcStatuses, Conclusion(status),
         unit' \in [UnitSet -> UnitRecord],
         program' = program, svcMishaps' \in 0 .. MaxSvcMishaps
  PROVE  SvcInv' /\ svc'.results = Append(svc.results, status)
  <1> DEFINE results == Append(svc.results, status)
             over == IF Len(results) < Len(Units) THEN "running" ELSE Over(results)
  <1>1. results \in Seq(SvcStatuses) /\ Len(results) \in Nat
    BY DEF SvcInv
  <1>2. over \in {"none", "running", "ok", "not_ok"}
        /\ (over = "running" => Len(results) < Len(Units))
    BY DEF Over
  <1> HIDE DEF results
  <1>3. svc' = [svc EXCEPT !.results = results, !.at = "locate", !.died = FALSE,
                           !.verdict = over]
    BY DEF Conclusion, results
  <1> HIDE DEF over
  <1>4. /\ svc'.results = results /\ svc'.at = "locate" /\ ~svc'.died /\ svc'.verdict = over
        /\ svc' \in SvcRecord
    BY <1>1, <1>2, <1>3 DEF SvcInv
  <1> QED
    BY <1>1, <1>2, <1>4 DEF SvcInv, results

LEMMA SvcInitInv ==
  ASSUME ServicesInit
  PROVE  SvcInv
  <1>1. \A counted \in BOOLEAN : [state |-> "absent", restarts |-> 0, counted |-> counted]
            \in UnitRecord
    OBVIOUS
  <1>2. svcMishaps \in 0 .. MaxSvcMishaps
    BY ServicesAssumption DEF ServicesInit
  <1>3. unit \in [UnitSet -> UnitRecord]
    BY <1>1 DEF ServicesInit
  <1> QED
    BY <1>2, <1>3 DEF ServicesInit, SvcInv, NoSvc

LEMMA SvcBudget ==
  ASSUME svcMishaps \in 0 .. MaxSvcMishaps,
         \/ SvcMishap
         \/ \E normal \in BOOLEAN : SvcNormally(normal)
         \/ svcMishaps' = svcMishaps
  PROVE  svcMishaps' \in 0 .. MaxSvcMishaps
  BY ServicesAssumption DEF SvcMishap, SvcNormally

\* The command goes on with the component it is at.
LEMMA OnwardIs ==
  ASSUME SvcInv, NEW at \in {"run", "look", "settle", "count"}, Onward(at)
  PROVE  /\ svc' \in SvcRecord
         /\ svc'.verdict = svc.verdict /\ svc'.uninstall = svc.uninstall /\ svc'.at = at
         /\ svc'.results = svc.results /\ svc'.died = svc.died /\ This' = This
  BY DEF SvcInv, Onward, This

LEMMA LocateInv ==
  ASSUME SvcInv, Locate
  PROVE  SvcInv'
  <1>1. /\ svc.verdict = "running" /\ svc.at = "locate"
        /\ UNCHANGED <<unit, program, svcMishaps>>
    BY DEF Locate, SvcAt
  <1>2. CASE program[This] = "none"
    BY <1>1, <1>2, ConclusionKeeps DEF Locate, SvcInv
  <1>3. CASE program[This] = "user"
    BY <1>1, <1>3, ConclusionKeeps DEF Locate, SvcInv
  <1>4. CASE program[This] \notin {"none", "user"}
    <2>1. program[This] = "system"
      BY <1>1, <1>4, ThisUnit DEF SvcInv
    <2>2. Onward("run")
      BY <1>4, <2>1 DEF Locate
    <2> QED
      BY <1>1, <2>1, <2>2, OnwardIs DEF SvcInv
  <1> QED
    BY <1>2, <1>3, <1>4

LEMMA EffectType ==
  ASSUME SvcInv, NEW u \in UnitSet, NEW worked \in BOOLEAN, NEW after \in Effect(u, worked)
  PROVE  after \in UnitRecord
  <1>1. unit[u] \in UnitRecord
    BY DEF SvcInv
  <1>2. /\ [unit[u] EXCEPT !.state = "absent"] \in UnitRecord
        /\ [unit[u] EXCEPT !.state = "active", !.restarts = 0] \in UnitRecord
    BY <1>1
  <1> HIDE DEF UnitRecord
  <1> QED
    BY <1>1, <1>2 DEF Effect

LEMMA RunInstallerInv ==
  ASSUME SvcInv, RunInstaller
  PROVE  SvcInv' /\ ~ReportsInstalled
  <1>1. svc.verdict = "running" /\ svc.at = "run" /\ program' = program
    BY DEF RunInstaller, SvcAt
  <1>2. PICK worked \in BOOLEAN, exit \in {-1, 0, 1, 2} :
          /\ SvcNormally(worked /\ exit = 0)
          /\ \E after \in Effect(This, worked) : unit' = [unit EXCEPT ![This] = after]
          /\ IF exit = 0
             THEN IF svc.uninstall THEN Conclusion("removed") ELSE Onward("look")
             ELSE Conclusion(IF exit = 2 THEN "unsupported" ELSE "failed")
    BY DEF RunInstaller
  <1>3. svcMishaps' \in 0 .. MaxSvcMishaps
    BY <1>2, SvcBudget DEF SvcInv
  <1>4. unit' \in [UnitSet -> UnitRecord]
    BY <1>1, <1>2, ThisUnit, EffectType DEF SvcInv
  <1>6. CASE exit = 0 /\ ~svc.uninstall
    <2>1. Onward("look")
      BY <1>2, <1>6
    <2>2. ~ReportsInstalled
      BY <2>1, OnwardIs, NoInstall
    <2> QED
      BY <1>1, <1>3, <1>4, <1>6, <2>1, <2>2, OnwardIs DEF SvcInv
  <1>7. CASE ~(exit = 0 /\ ~svc.uninstall)
    <2>1. PICK status \in SvcStatuses \ {"installed"} : Conclusion(status)
      BY <1>2, <1>7
    <2> QED
      BY <1>1, <1>3, <1>4, <2>1, ConclusionKeeps, NoInstall
  <1> QED
    BY <1>6, <1>7

\* A look finds the service up: then whatever died meanwhile was restarted.
LEMMA IsActiveInv ==
  ASSUME SvcInv, NEW at, NEW next,
         \/ at = "look" /\ next = "settle"
         \/ at = "settle" /\ next = "count",
         IsActive(at, next)
  PROVE  SvcInv' /\ ~ReportsInstalled
  <1>1. /\ svc.verdict = "running" /\ svc.at = at
        /\ UNCHANGED <<unit, program>>
    BY DEF IsActive, SvcAt
  <1>2. PICK readable \in BOOLEAN :
          /\ SvcNormally(readable)
          /\ IF readable /\ unit[This].state = "active" THEN Onward(next)
             ELSE Conclusion("failed")
    BY DEF IsActive
  <1>3. svcMishaps' \in 0 .. MaxSvcMishaps
    BY <1>2, SvcBudget DEF SvcInv
  <1>5. CASE readable /\ unit[This].state = "active"
    <2>1. Onward(next)
      BY <1>2, <1>5
    <2>2. svc.died => unit[This].restarts > 0
      BY <1>1, <1>5 DEF SvcInv, Marked
    <2> QED
      BY <1>1, <1>3, <1>5, <2>1, <2>2, OnwardIs, NoInstall DEF SvcInv, Marked
  <1>6. CASE ~(readable /\ unit[This].state = "active")
    BY <1>1, <1>2, <1>3, <1>6, ConclusionKeeps, NoInstall DEF SvcInv
  <1> QED
    BY <1>5, <1>6

\* The one step that reports a service installed.
LEMMA CountInv ==
  ASSUME SvcInv, Count
  PROVE  /\ SvcInv'
         /\ ReportsInstalled =>
               /\ program[This] = "system" /\ ~svc.uninstall
               /\ unit[This].counted => ~svc.died
  <1>1. /\ svc.verdict = "running" /\ svc.at = "count"
        /\ UNCHANGED <<unit, program>>
    BY DEF Count, SvcAt
  <1>2. PICK readable \in BOOLEAN :
          /\ SvcNormally(readable)
          /\ Conclusion(IF readable /\ ~Flapping(Shown(unit[This])) THEN "installed"
                        ELSE "failed")
    BY DEF Count
  <1>3. svcMishaps' \in 0 .. MaxSvcMishaps
    BY <1>2, SvcBudget DEF SvcInv
  <1>5. program[This] = "system" /\ ~svc.uninstall
    BY <1>1 DEF SvcInv
  <1>6. CASE readable /\ ~Flapping(Shown(unit[This]))
    <2>1. unit[This].counted => ~svc.died
      BY <1>1, <1>6 DEF SvcInv, Flapping, Shown
    <2> QED
      BY <1>1, <1>2, <1>3, <1>5, <1>6, <2>1, ConclusionKeeps DEF SvcInv
  <1>7. CASE ~(readable /\ ~Flapping(Shown(unit[This])))
    BY <1>1, <1>2, <1>3, <1>7, ConclusionKeeps, NoInstall DEF SvcInv
  <1> QED
    BY <1>6, <1>7

LEMMA DiesInv ==
  ASSUME SvcInv, NEW u \in UnitSet, Dies(u)
  PROVE  SvcInv' /\ svc'.results = svc.results
  <1>1. PICK to \in {"activating", "inactive"} : unit' = [unit EXCEPT ![u].state = to]
    BY DEF Dies
  <1>2. /\ unit' \in [UnitSet -> UnitRecord]
        /\ unit'[u].state # "active"
        /\ \A v \in UnitSet : v # u => unit'[v] = unit[v]
        /\ \A v \in UnitSet : unit'[v].restarts = unit[v].restarts
    BY <1>1 DEF SvcInv
  <1>3. svcMishaps' \in 0 .. MaxSvcMishaps /\ program' = program
    BY SvcBudget DEF SvcInv, Dies
  <1> DEFINE died == svc.died \/ (svc.at \in {"look", "settle"} /\ svc.verdict = "running"
                                     /\ u = This)
  <1>4. svc' = [svc EXCEPT !.died = died]
    BY DEF Dies
  <1>5. /\ svc' \in SvcRecord
        /\ svc'.verdict = svc.verdict /\ svc'.uninstall = svc.uninstall /\ svc'.at = svc.at
        /\ svc'.results = svc.results /\ svc'.died = died
    BY <1>4 DEF SvcInv
  <1>6. This' = This
    BY <1>5 DEF This
  <1>7. ASSUME svc.verdict = "running", svc.at \in {"look", "settle"}, died
        PROVE  Marked(This)'
    BY <1>2, <1>6, <1>7, ThisUnit DEF SvcInv, Marked
  <1>8. ASSUME svc.verdict = "running", svc.at = "count", died
        PROVE  unit'[This].restarts > 0
    BY <1>2, <1>8, ThisUnit DEF SvcInv
  <1>9. svc.verdict = "running" /\ svc.at \in {"locate", "run"} => ~died
    BY DEF SvcInv
  <1> HIDE DEF died
  <1> QED
    BY <1>2, <1>3, <1>5, <1>6, <1>7, <1>8, <1>9 DEF SvcInv

LEMMA IsRestartedInv ==
  ASSUME SvcInv, NEW u \in UnitSet, IsRestarted(u)
  PROVE  SvcInv'
  <1>1. /\ unit' \in [UnitSet -> UnitRecord]
        /\ unit'[u].restarts > 0
        /\ \A v \in UnitSet : v # u => unit'[v] = unit[v]
    <2>1. unit[u] \in UnitRecord
      BY DEF SvcInv
    <2>2. unit' = [unit EXCEPT ![u] = [unit[u] EXCEPT !.state = "active",
                                          !.restarts = unit[u].restarts + 1]]
      BY <2>1 DEF IsRestarted, SvcInv
    <2> DEFINE n == unit[u].restarts + 1
               after == [unit[u] EXCEPT !.state = "active", !.restarts = n]
    <2>3. n \in Nat /\ n > 0
      BY <2>1
    <2> HIDE DEF n
    <2>4. after \in UnitRecord /\ after.restarts > 0
      BY <2>1, <2>3
    <2> HIDE DEF after, UnitRecord
    <2>5. unit' = [unit EXCEPT ![u] = after]
      BY <2>2 DEF after, n
    <2> QED
      BY <2>4, <2>5 DEF SvcInv
  <1>2. UNCHANGED <<program, svc, svcMishaps>> /\ This' = This
    BY DEF IsRestarted, This
  <1> QED
    BY <1>1, <1>2, ThisUnit DEF SvcInv, Marked

LEMMA SvcFreshInv ==
  ASSUME SvcInv, UNCHANGED <<unit, program>>, svcMishaps' \in 0 .. MaxSvcMishaps,
         svc' \in SvcRecord, svc'.results = <<>>, svc'.at = "locate", ~svc'.died
  PROVE  SvcInv'
  <1>1. Len(Units) > 0 /\ Len(svc'.results) = 0
    BY ServicesAssumption, EmptySeq
  <1> QED
    BY <1>1 DEF SvcInv

LEMMA NoSvcIs ==
  /\ NoSvc \in SvcRecord /\ NoSvc.results = <<>> /\ NoSvc.at = "locate" /\ ~NoSvc.died
  /\ \A uninstall \in BOOLEAN :
        LET r == [NoSvc EXCEPT !.verdict = "running", !.uninstall = uninstall] IN
        r \in SvcRecord /\ r.results = <<>> /\ r.at = "locate" /\ ~r.died
  BY EmptySeq DEF NoSvc

LEMMA SvcStep ==
  ASSUME SvcInv, [ServicesNext]_svcVars
  PROVE  /\ SvcInv'
         /\ ReportsInstalled =>
               /\ program[This] = "system" /\ ~svc.uninstall
               /\ unit[This].counted => ~svc.died
  <1>2. ASSUME NEW uninstall \in BOOLEAN, SvcBegin(uninstall)
        PROVE  SvcInv' /\ svc'.results = <<>>
    BY <1>2, SvcFreshInv, NoSvcIs DEF SvcBegin, SvcInv
  <1>3. CASE Locate
    <2>1. ~ReportsInstalled
      BY <1>3, ConclusionKeeps, OnwardIs, NoInstall DEF Locate, SvcAt, SvcInv
    <2> QED
      BY <1>3, <2>1, LocateInv
  <1>4. CASE RunInstaller
    BY <1>4, RunInstallerInv
  <1>5. CASE FirstLook
    BY <1>5, IsActiveInv DEF FirstLook
  <1>6. CASE SecondLook
    BY <1>6, IsActiveInv DEF SecondLook
  <1>7. CASE Count
    BY <1>7, CountInv
  <1>8. CASE SvcKill
    <2>1. svcMishaps' \in 0 .. MaxSvcMishaps
      BY <1>8, SvcBudget DEF SvcKill, SvcInv
    <2> QED
      BY <1>8, <2>1, SvcFreshInv, NoSvcIs, NoInstall DEF SvcKill
  <1>9. ASSUME NEW u \in UnitSet, Dies(u)
        PROVE  SvcInv' /\ svc'.results = svc.results
    BY <1>9, DiesInv
  <1>10. ASSUME NEW u \in UnitSet, IsRestarted(u)
         PROVE  SvcInv' /\ svc'.results = svc.results
    BY <1>10, IsRestartedInv DEF IsRestarted
  <1>11. CASE UNCHANGED svcVars
    BY <1>11, NoInstall DEF svcVars, SvcInv, This, Marked
  <1> QED
    BY NoInstall, <1>2, <1>3, <1>4, <1>5, <1>6, <1>7, <1>8, <1>9, <1>10, <1>11
    DEF ServicesNext

\* install-services over any units, with any number of failing calls, kills and dying
\* services: the inductive invariant, and with it the types.
THEOREM ServicesInductive == ServicesSpec => []SvcInv
  <1>1. ServicesInit => SvcInv
    BY SvcInitInv
  <1>2. SvcInv /\ [ServicesNext]_svcVars => SvcInv'
    BY SvcStep
  <1> QED
    BY <1>1, <1>2, PTL DEF ServicesSpec

\* A service reported installed has a program of root's, was being installed, and did not
\* die before the second look where systemd counts restarts.
THEOREM ServicesAreTrueHolds == ServicesSpec => ServicesAreTrue
  <1>1. ASSUME SvcInv, [ServicesNext]_svcVars
        PROVE  [LET n == Len(svc.results) IN
                Len(svc'.results) = n + 1 /\ svc'.results[n + 1] = "installed"
                => /\ program[This] = "system" /\ ~svc.uninstall
                   /\ unit[This].counted => ~svc.died]_svcVars
    BY <1>1, SvcStep DEF ReportsInstalled
  <1> QED
    BY <1>1, ServicesInductive, PTL DEF ServicesSpec, ServicesAreTrue

HIDE DEF States, SvcStatuses, UnitRecord, SvcRecord

-----------------------------------------------------------------------------
(* Windows *)

OpNames == {"configure_services", "install_release", "wire_harnesses"}
SetupRecord ==
    [verdict : {"none", "running", "rejected", "dry_run", "applied", "partial", "failed"},
     todo : Seq(OpNames), receipts : Seq({"applied", "failed"}), service : DOMAIN Services,
     at : {"compare", "write", "register"}, bad : BOOLEAN]

\* What is left of a plan: profile A's operations are the last of B's, and B's of C's.
Plans == {Operations("A"), Operations("B"), Operations("C")}
Whole(s) == Len(s.todo) + Len(s.receipts)

\* A service that has its XML is registered, or is an orphan; every service that
\* configure_services has been through without a failure has it; and a receipt that says
\* applied is true.
WinInv ==
    /\ lacking \subseteq Probes
    /\ xml \in [ServiceSet -> {"none", "same", "other"}]
    /\ registered \subseteq ServiceSet /\ orphans \subseteq ServiceSet
    /\ applied \subseteq {"install_release", "wire_harnesses"}
    /\ winMishaps \in 0 .. MaxWinMishaps
    /\ setup \in SetupRecord
    /\ \A s \in ServiceSet : xml[s] = "same" => s \in registered \cup orphans
    /\ setup.verdict = "running" =>
          /\ setup.todo \in Plans /\ Whole(setup) <= 3
          /\ setup.todo = Operations("C") /\ ~setup.bad =>
                \A i \in 1 .. setup.service - 1 : xml[Services[i]] = "same"
          /\ setup.todo = Operations("C") /\ setup.at = "register" => xml[Service] = "same"
          /\ Whole(setup) = 3 /\ setup.receipts # <<>> /\ setup.receipts[1] = "applied" =>
                \A s \in ServiceSet : xml[s] = "same"
          /\ /\ setup.todo = Operations("A") /\ setup.receipts # <<>>
             /\ setup.receipts[Len(setup.receipts)] = "applied"
             => "install_release" \in applied

LEMMA ServicesAre ==
  /\ Len(Services) \in Nat \ {0} /\ DOMAIN Services = 1 .. Len(Services)
  /\ \A i \in DOMAIN Services : Services[i] \in ServiceSet
  /\ \A s \in ServiceSet : \E i \in DOMAIN Services : s = Services[i]
  BY WindowsAssumption, EmptySeq DEF ServiceSet, ToSet

LEMMA PlansAre ==
  /\ Operations("A") \in Seq(OpNames) /\ Len(Operations("A")) = 1
  /\ Operations("B") \in Seq(OpNames) /\ Len(Operations("B")) = 2
  /\ Operations("C") \in Seq(OpNames) /\ Len(Operations("C")) = 3
  /\ Head(Operations("A")) = "wire_harnesses"
  /\ Head(Operations("B")) = "install_release" /\ Tail(Operations("B")) = Operations("A")
  /\ Head(Operations("C")) = "configure_services" /\ Tail(Operations("C")) = Operations("B")
  <1> DEFINE a == <<"wire_harnesses">>
             b == <<"install_release", "wire_harnesses">>
             c == <<"configure_services", "install_release", "wire_harnesses">>
  <1>1. a \in Seq(OpNames) /\ Len(a) = 1 /\ Head(a) = "wire_harnesses"
    BY DEF OpNames
  <1>2. b \in Seq(OpNames) /\ Len(b) = 2 /\ Head(b) = "install_release"
    BY DEF OpNames
  <1>3. c \in Seq(OpNames) /\ Len(c) = 3 /\ Head(c) = "configure_services"
    BY DEF OpNames
  <1>4. Tail(b) = a
    OBVIOUS
  <1>5. Tail(c) = b
    OBVIOUS
  <1>6. Operations("A") = a /\ Operations("B") = b /\ Operations("C") = c
    BY DEF Operations
  <1> HIDE DEF a, b, c
  <1> QED
    BY <1>1, <1>2, <1>3, <1>4, <1>5, <1>6

LEMMA WinTypes ==
  ASSUME WinInv
  PROVE  WindowsTypeOK
  <1>1. setup.verdict = "running" => setup.todo # <<>>
    BY PlansAre DEF WinInv, Plans
  <1>2. ToSet(setup.receipts) \subseteq {"applied", "failed"}
    BY DEF WinInv, SetupRecord, ToSet
  <1> QED
    BY <1>1, <1>2 DEF WinInv, WindowsTypeOK, SetupRecord

LEMMA WinBudget ==
  ASSUME winMishaps \in 0 .. MaxWinMishaps,
         \/ WinMishap
         \/ \E normal \in BOOLEAN : WinNormally(normal)
         \/ winMishaps' = winMishaps
  PROVE  winMishaps' \in 0 .. MaxWinMishaps
  BY WindowsAssumption DEF WinMishap, WinNormally

LEMMA NoSetupIs ==
  NoSetup \in SetupRecord /\ NoSetup.verdict = "none" /\ NoSetup.service = 1
  /\ NoSetup.at = "compare" /\ NoSetup.todo = <<>> /\ NoSetup.receipts = <<>> /\ ~NoSetup.bad
  <1>1. 1 \in DOMAIN Services
    BY ServicesAre
  <1>2. <<>> \in Seq(OpNames) /\ <<>> \in Seq({"applied", "failed"})
    BY EmptySeq
  <1> QED
    BY <1>1, <1>2 DEF NoSetup, SetupRecord

\* The command is over, or has not begun.
LEMMA SetupOverInv ==
  ASSUME WinInv, UNCHANGED <<lacking, xml, registered, applied, orphans>>,
         winMishaps' \in 0 .. MaxWinMishaps, setup' \in SetupRecord,
         setup'.verdict # "running"
  PROVE  WinInv'
  BY DEF WinInv

LEMMA WinInitInv ==
  ASSUME WindowsInit
  PROVE  WinInv
  <1>1. lacking \subseteq Probes /\ winMishaps \in 0 .. MaxWinMishaps
    BY WindowsAssumption DEF WindowsInit
  <1> QED
    BY <1>1, NoSetupIs DEF WindowsInit, WinInv

LEMMA SetupBeginInv ==
  ASSUME WinInv, NEW profile \in {"A", "B", "C"}, NEW apply \in BOOLEAN,
         SetupBegin(profile, apply)
  PROVE  WinInv' /\ setup'.verdict # "applied"
  <1>1. UNCHANGED <<lacking, xml, registered, applied, winMishaps, orphans>>
    BY DEF SetupBegin
  <1>2. \A v \in {"dry_run", "rejected"} :
           /\ [NoSetup EXCEPT !.verdict = v] \in SetupRecord
           /\ [NoSetup EXCEPT !.verdict = v].verdict = v
    BY NoSetupIs DEF SetupRecord
  <1>3. CASE \E v \in {"dry_run", "rejected"} : setup' = [NoSetup EXCEPT !.verdict = v]
    BY <1>1, <1>2, <1>3, SetupOverInv DEF WinInv
  <1> DEFINE ops == Operations(profile)
             begun == [NoSetup EXCEPT !.verdict = "running", !.todo = ops]
  <1> HIDE DEF begun
  <1>4. CASE setup' = begun
    <2>1. ops \in Plans /\ ops \in Seq(OpNames) /\ Len(ops) <= 3 /\ Len(ops) \in Nat
      BY PlansAre DEF Plans
    <2> HIDE DEF ops
    <2>2. /\ setup' \in SetupRecord /\ setup'.verdict = "running" /\ setup'.todo = ops
          /\ setup'.receipts = <<>> /\ setup'.service = 1 /\ setup'.at = "compare"
      BY <1>4, <2>1, NoSetupIs DEF SetupRecord, begun
    <2>3. Len(setup'.receipts) = 0
      BY <2>2, EmptySeq
    <2>4. Whole(setup') <= 3
      <3>2. Len(setup'.todo) <= 3 /\ Len(setup'.todo) \in Nat
        BY <2>1, <2>2
      <3>3. Len(setup'.todo) + Len(setup'.receipts) <= 3
        BY <2>3, <3>2
      <3> QED
        BY <3>3 DEF Whole
    <2> QED
      BY <1>1, <2>1, <2>2, <2>4 DEF WinInv
  <1> QED
    BY <1>3, <1>4 DEF SetupBegin, begun

-----------------------------------------------------------------------------
(* A receipt *)

\* A step that only ever gives a service its XML, and keeps it registered or orphaned.
Gains ==
    /\ lacking' = lacking
    /\ xml' \in [ServiceSet -> {"none", "same", "other"}]
    /\ \A s \in ServiceSet : xml[s] = "same" => xml'[s] = "same"
    /\ registered' \subseteq ServiceSet /\ orphans' \subseteq ServiceSet
    /\ \A s \in ServiceSet : xml'[s] = "same" => s \in registered' \cup orphans'
    /\ applied \subseteq applied' /\ applied' \subseteq {"install_release", "wire_harnesses"}
    /\ winMishaps' \in 0 .. MaxWinMishaps

\* What a receipt says of the operation that has just been run.
Deserved(good) ==
    good => /\ Head(setup.todo) = "configure_services" =>
                  \A s \in ServiceSet : xml'[s] = "same"
            /\ Head(setup.todo) # "configure_services" => Head(setup.todo) \in applied'

Promise ==
    setup.verdict = "running" /\ setup'.verdict = "applied"
       => /\ "wire_harnesses" \in applied'
          /\ Len(setup'.receipts) > 1 => "install_release" \in applied'
          /\ Len(setup'.receipts) > 2 =>
                /\ ServiceSet \subseteq registered \cup orphans
                /\ \A s \in ServiceSet : xml[s] = "same"

LEMMA ReceiptIs ==
  ASSUME WinInv, setup.verdict = "running", NEW good \in BOOLEAN, Receipt(good)
  PROVE  LET receipts == Append(setup.receipts, IF good THEN "applied" ELSE "failed")
         IN  /\ setup' \in SetupRecord /\ setup'.receipts = receipts
             /\ setup'.service = 1 /\ setup'.at = "compare" /\ ~setup'.bad
             /\ setup'.todo = Tail(setup.todo)
             /\ setup'.verdict = IF Len(setup.todo) > 1 THEN "running" ELSE Summed(receipts)
  <1> DEFINE receipts == Append(setup.receipts, IF good THEN "applied" ELSE "failed")
             verdict == IF Len(setup.todo) > 1 THEN "running" ELSE Summed(receipts)
             rest == Tail(setup.todo)
  <1>1. receipts \in Seq({"applied", "failed"})
    BY DEF WinInv, SetupRecord
  <1>2. verdict \in {"running", "applied", "partial", "failed"}
    BY DEF Summed
  <1>3. rest \in Seq(OpNames)
    <2>1. setup.todo \in Seq(OpNames) /\ setup.todo # <<>>
      BY PlansAre DEF WinInv, Plans
    <2> QED
      BY <2>1, HeadTailProperties
  <1>4. setup' = [NoSetup EXCEPT !.todo = rest, !.receipts = receipts, !.verdict = verdict]
    BY DEF Receipt
  <1> HIDE DEF receipts, verdict, rest
  <1>5. /\ setup' \in SetupRecord /\ setup'.receipts = receipts
        /\ setup'.service = 1 /\ setup'.at = "compare" /\ ~setup'.bad
        /\ setup'.todo = rest /\ setup'.verdict = verdict
    BY <1>1, <1>2, <1>3, <1>4, NoSetupIs DEF SetupRecord
  <1> QED
    BY <1>5 DEF receipts, verdict, rest

\* An operation's receipt is true, and so is that of the whole plan.
LEMMA ReceiptKeeps ==
  ASSUME WinInv, setup.verdict = "running", NEW good \in BOOLEAN, Receipt(good), Gains,
         Deserved(good)
  PROVE  WinInv' /\ Promise
  <1> DEFINE old == setup.receipts
             new == Append(old, IF good THEN "applied" ELSE "failed")
             n == Len(old)
  <1>1. /\ old \in Seq({"applied", "failed"}) /\ n \in Nat
        /\ new \in Seq({"applied", "failed"}) /\ Len(new) = n + 1 /\ new # <<>>
        /\ new[n + 1] = (IF good THEN "applied" ELSE "failed")
        /\ \A i \in 1 .. n : new[i] = old[i]
        /\ n # 0 => old # <<>>
    <2>1. old \in Seq({"applied", "failed"})
      BY DEF WinInv, SetupRecord
    <2> HIDE DEF old
    <2>2. \A x \in {"applied", "failed"} :
            /\ Append(old, x) \in Seq({"applied", "failed"}) /\ Append(old, x) # <<>>
            /\ Len(Append(old, x)) = Len(old) + 1 /\ Append(old, x)[Len(old) + 1] = x
            /\ \A i \in 1 .. Len(old) : Append(old, x)[i] = old[i]
      BY <2>1, AppendProperties
    <2>3. Len(old) \in Nat /\ (Len(old) # 0 => old # <<>>)
      BY <2>1, EmptySeq, LenProperties
    <2> QED
      BY <2>1, <2>2, <2>3
  <1>2. /\ setup' \in SetupRecord /\ setup'.receipts = new
        /\ setup'.service = 1 /\ setup'.at = "compare" /\ ~setup'.bad
        /\ setup'.todo = Tail(setup.todo)
        /\ setup'.verdict = IF Len(setup.todo) > 1 THEN "running" ELSE Summed(new)
    BY ReceiptIs
  <1>3. setup.todo \in Plans /\ Len(setup.todo) + n <= 3
    BY DEF WinInv, Whole
  <1>4. Summed(new) # "running" /\ (Summed(new) = "applied" => \A i \in 1 .. n + 1 : new[i] = "applied")
    <2>1. DOMAIN new = 1 .. n + 1
      BY <1>1, LenProperties
    <2> HIDE DEF new, n
    <2> QED
      BY <2>1 DEF Summed, ToSet
  <1> HIDE DEF new, n
  <1>5. CASE setup.todo = Operations("A")
    <2>1. setup'.verdict = Summed(new) /\ setup'.verdict # "running"
      BY <1>2, <1>4, <1>5, PlansAre
    <2>2. WinInv'
      BY <1>2, <2>1 DEF WinInv, Gains
    <2>3. ASSUME Summed(new) = "applied"
          PROVE  /\ "wire_harnesses" \in applied'
                 /\ n > 0 => "install_release" \in applied'
                 /\ n > 1 => \A s \in ServiceSet : xml[s] = "same"
      <3>1. good /\ \A i \in 1 .. n : old[i] = "applied"
        BY <1>1, <1>4, <2>3
      <3>2. "wire_harnesses" \in applied'
        BY <1>5, <3>1, PlansAre DEF Deserved
      <3>3. n > 0 => "install_release" \in applied'
        BY <1>1, <1>5, <3>1 DEF WinInv, Gains, n
      <3>4. n > 1 => Whole(setup) = 3
        BY <1>1, <1>3, <1>5, PlansAre DEF Whole, n
      <3>5. n > 1 => \A s \in ServiceSet : xml[s] = "same"
        BY <1>1, <3>1, <3>4 DEF WinInv, n
      <3> QED
        BY <3>2, <3>3, <3>5
    <2> QED
      BY <1>1, <1>2, <2>1, <2>2, <2>3 DEF Promise, WinInv
  <1>6. CASE setup.todo = Operations("B")
    <2>1. setup'.verdict = "running" /\ setup'.todo = Operations("A")
      BY <1>2, <1>6, PlansAre
    <2>2. Whole(setup') = Whole(setup)
      BY <1>1, <1>2, <1>6, <2>1, PlansAre DEF Whole, n
    <2>3. good => "install_release" \in applied'
      BY <1>6, PlansAre DEF Deserved
    <2>4. setup'.receipts[Len(setup'.receipts)] = "applied" => good
      BY <1>1, <1>2
    <2>5. ASSUME Whole(setup) = 3, new[1] = "applied"
          PROVE  \A s \in ServiceSet : xml'[s] = "same"
      <3>1. n = 1
        BY <1>1, <1>6, <2>5, PlansAre DEF Whole, n
      <3> QED
        BY <1>1, <2>5, <3>1 DEF WinInv, Gains
    <2>6. setup'.todo # Operations("C")
      BY <2>1, PlansAre
    <2>7. Promise
      BY <2>1 DEF Promise
    <2> QED
      BY <1>2, <2>1, <2>2, <2>3, <2>4, <2>5, <2>6, <2>7 DEF WinInv, Gains, Plans
  <1>7. CASE setup.todo = Operations("C")
    <2>1. setup'.verdict = "running" /\ setup'.todo = Operations("B") /\ n = 0
      BY <1>1, <1>2, <1>3, <1>7, PlansAre
    <2>2. Whole(setup') = Whole(setup)
      BY <1>1, <1>2, <1>7, <2>1, PlansAre DEF Whole, n
    <2>3. good => \A s \in ServiceSet : xml'[s] = "same"
      BY <1>7, PlansAre DEF Deserved
    <2>4. setup'.receipts[1] = "applied" => good
      BY <1>1, <1>2, <2>1
    <2>5. setup'.todo # Operations("C") /\ setup'.todo # Operations("A")
      BY <2>1, PlansAre
    <2>6. Promise
      BY <2>1 DEF Promise
    <2> QED
      BY <1>2, <2>1, <2>2, <2>3, <2>4, <2>5, <2>6 DEF WinInv, Gains, Plans
  <1> QED
    BY <1>3, <1>5, <1>6, <1>7 DEF Plans

LEMMA ApplyInv ==
  ASSUME WinInv, NEW op \in {"install_release", "wire_harnesses"}, Apply(op)
  PROVE  WinInv' /\ Promise
  <1>1. PICK worked \in BOOLEAN, zero \in BOOLEAN :
          /\ zero => worked
          /\ WinNormally(zero)
          /\ applied' = IF worked THEN applied \cup {op} ELSE applied
          /\ Receipt(zero)
    BY DEF Apply
  <1>2. /\ setup.verdict = "running" /\ Head(setup.todo) = op
        /\ UNCHANGED <<lacking, xml, registered, orphans>>
    BY DEF Apply, Doing
  <1>3. winMishaps' \in 0 .. MaxWinMishaps
    BY <1>1, WinBudget DEF WinInv
  <1>4. Gains
    BY <1>1, <1>2, <1>3 DEF Gains, WinInv
  <1>5. Deserved(zero)
    BY <1>1, <1>2 DEF Deserved
  <1> QED
    BY <1>1, <1>2, <1>4, <1>5, ReceiptKeeps

-----------------------------------------------------------------------------
(* configure_services *)

LEMMA ConfiguringIs ==
  ASSUME WinInv, Doing("configure_services")
  PROVE  /\ setup.verdict = "running" /\ setup.todo = Operations("C")
         /\ setup.receipts = <<>> /\ Whole(setup) = 3
         /\ setup.service \in 1 .. Len(Services) /\ Service \in ServiceSet
  <1>1. setup.verdict = "running" /\ setup.todo = Operations("C")
    BY PlansAre DEF Doing, WinInv, Plans
  <1>2. setup.receipts = <<>>
    <2>1. Len(setup.receipts) = 0
      BY <1>1, PlansAre DEF WinInv, Whole, SetupRecord
    <2> QED
      BY <2>1, EmptySeq DEF WinInv, SetupRecord
  <1>3. Whole(setup) = 3
    BY <1>1, <1>2, PlansAre, EmptySeq DEF Whole
  <1> QED
    BY <1>1, <1>2, <1>3, ServicesAre DEF WinInv, SetupRecord, Service

\* The same service goes on.
LEMMA ServiceGoesOn ==
  ASSUME WinInv, Doing("configure_services"), NEW at \in {"write", "register"},
         setup' = [setup EXCEPT !.at = at], Gains,
         at = "register" => xml'[Service] = "same"
  PROVE  WinInv' /\ Promise
  <1>1. /\ setup' \in SetupRecord /\ setup'.verdict = setup.verdict
        /\ setup'.todo = setup.todo /\ setup'.receipts = setup.receipts
        /\ setup'.service = setup.service /\ setup'.at = at /\ setup'.bad = setup.bad
    BY DEF WinInv, SetupRecord
  <1>2. Service' = Service /\ Whole(setup') = Whole(setup)
    BY <1>1 DEF Service, Whole
  <1>3. setup.todo # Operations("A")
    BY ConfiguringIs, PlansAre
  <1>4. setup.todo = Operations("C") /\ ~setup.bad =>
            \A i \in 1 .. setup.service - 1 : xml'[Services[i]] = "same"
    BY ConfiguringIs, ServicesAre DEF WinInv, Gains
  <1>5. Promise
    BY <1>1, ConfiguringIs DEF Promise
  <1> QED
    BY <1>1, <1>2, <1>3, <1>4, <1>5, ConfiguringIs DEF WinInv, Gains

\* The next service, or the receipt of configure_services.
LEMMA ServiceDoneKeeps ==
  ASSUME WinInv, Doing("configure_services"), NEW good \in BOOLEAN, ServiceDone(good),
         Gains, good => xml'[Service] = "same"
  PROVE  WinInv' /\ Promise
  <1>1. ~setup.bad => \A i \in 1 .. setup.service - 1 : xml'[Services[i]] = "same"
    BY ConfiguringIs, ServicesAre DEF WinInv, Gains
  <1>2. good /\ ~setup.bad => \A i \in 1 .. setup.service : xml'[Services[i]] = "same"
    BY <1>1, ConfiguringIs DEF Service
  <1>3. CASE setup.service < Len(Services)
    <2>1. setup' = [setup EXCEPT !.service = setup.service + 1, !.at = "compare",
                                 !.bad = setup.bad \/ ~good]
      BY <1>3 DEF ServiceDone
    <2> DEFINE next == setup.service + 1
               bad == setup.bad \/ ~good
    <2>2. next \in DOMAIN Services /\ next - 1 = setup.service /\ bad \in BOOLEAN
      BY <1>3, ConfiguringIs, ServicesAre DEF WinInv, SetupRecord
    <2> HIDE DEF next, bad
    <2>3. /\ setup' \in SetupRecord /\ setup'.verdict = setup.verdict
          /\ setup'.todo = setup.todo /\ setup'.receipts = setup.receipts
          /\ setup'.service = next /\ setup'.at = "compare" /\ setup'.bad = bad
      BY <2>1, <2>2 DEF WinInv, SetupRecord, next, bad
    <2>4. Whole(setup') = Whole(setup)
      BY <2>3 DEF Whole
    <2>5. setup.todo # Operations("A")
      BY ConfiguringIs, PlansAre
    <2>6. ~bad => \A i \in 1 .. next - 1 : xml'[Services[i]] = "same"
      BY <1>2, <2>2 DEF bad
    <2>7. Promise
      BY <2>3, ConfiguringIs DEF Promise
    <2> QED
      BY <2>3, <2>4, <2>5, <2>6, <2>7, ConfiguringIs DEF WinInv, Gains
  <1>4. CASE ~(setup.service < Len(Services))
    <2>1. Receipt(good /\ ~setup.bad)
      BY <1>4 DEF ServiceDone
    <2>2. setup.service = Len(Services)
      BY <1>4, ConfiguringIs, ServicesAre
    <2>3. good /\ ~setup.bad => \A s \in ServiceSet : xml'[s] = "same"
      BY <1>2, <2>2, ServicesAre
    <2>4. Deserved(good /\ ~setup.bad)
      BY <2>3, ConfiguringIs, PlansAre DEF Deserved
    <2>5. (good /\ ~setup.bad) \in BOOLEAN
      OBVIOUS
    <2> QED
      BY <2>1, <2>4, <2>5, ConfiguringIs, ReceiptKeeps
  <1> QED
    BY <1>3, <1>4

LEMMA CompareInv ==
  ASSUME WinInv, Compare
  PROVE  WinInv' /\ Promise
  <1>1. /\ Doing("configure_services")
        /\ UNCHANGED <<lacking, xml, registered, applied, winMishaps, orphans>>
    BY DEF Compare, ServiceAt
  <1>2. Gains
    BY <1>1 DEF Gains, WinInv
  <1>3. CASE Unchanged(Service)
    BY <1>1, <1>2, <1>3, ServiceDoneKeeps DEF Compare, Unchanged
  <1>4. CASE ~Unchanged(Service)
    BY <1>1, <1>2, <1>4, ServiceGoesOn DEF Compare
  <1> QED
    BY <1>3, <1>4

LEMMA WriteXmlInv ==
  ASSUME WinInv, WriteXml
  PROVE  WinInv' /\ Promise
  <1>1. PICK written \in BOOLEAN :
          /\ WinNormally(written)
          /\ xml' = [xml EXCEPT ![Service] = IF written THEN "same" ELSE @]
          /\ IF written THEN setup' = [setup EXCEPT !.at = "register"] ELSE ServiceDone(FALSE)
          /\ orphans' = IF written THEN orphans \cup {Service} ELSE orphans
    BY DEF WriteXml
  <1>2. Doing("configure_services") /\ UNCHANGED <<lacking, registered, applied>>
    BY DEF WriteXml, ServiceAt
  <1>3. winMishaps' \in 0 .. MaxWinMishaps
    BY <1>1, WinBudget DEF WinInv
  <1>4. CASE written
    <2>1. /\ xml' \in [ServiceSet -> {"none", "same", "other"}] /\ xml'[Service] = "same"
          /\ \A s \in ServiceSet : s # Service => xml'[s] = xml[s]
      BY <1>1, <1>2, <1>4, ConfiguringIs DEF WinInv
    <2>2. Gains
      BY <1>1, <1>2, <1>3, <1>4, <2>1, ConfiguringIs DEF Gains, WinInv
    <2> QED
      BY <1>1, <1>2, <1>4, <2>1, <2>2, ServiceGoesOn
  <1>5. CASE ~written
    <2>1. xml' = xml /\ orphans' = orphans
      BY <1>1, <1>2, <1>5, ConfiguringIs DEF WinInv
    <2>2. Gains
      BY <1>2, <1>3, <2>1 DEF Gains, WinInv
    <2> QED
      BY <1>1, <1>2, <1>5, <2>2, ServiceDoneKeeps
  <1> QED
    BY <1>4, <1>5

LEMMA RegisterInv ==
  ASSUME WinInv, Register
  PROVE  WinInv' /\ Promise
  <1>1. PICK worked \in BOOLEAN, zero \in BOOLEAN :
          /\ zero => worked
          /\ WinNormally(zero)
          /\ registered' = IF worked THEN registered \cup {Service} ELSE registered
          /\ orphans' = IF worked THEN orphans \ {Service} ELSE orphans
          /\ ServiceDone(zero)
    BY DEF Register
  <1>2. /\ Doing("configure_services") /\ setup.at = "register"
        /\ UNCHANGED <<lacking, xml, applied>>
    BY DEF Register, ServiceAt
  <1>3. winMishaps' \in 0 .. MaxWinMishaps
    BY <1>1, WinBudget DEF WinInv
  <1>4. Gains
    BY <1>1, <1>2, <1>3, ConfiguringIs DEF Gains, WinInv
  <1>5. xml[Service] = "same"
    BY <1>2, ConfiguringIs DEF WinInv
  <1> QED
    BY <1>1, <1>2, <1>4, <1>5, ServiceDoneKeeps

LEMMA RemoveServiceInv ==
  ASSUME WinInv, NEW s \in ServiceSet, RemoveService(s)
  PROVE  WinInv'
  <1>1. PICK worked \in BOOLEAN, unlinked \in BOOLEAN :
          /\ WinNormally(worked /\ unlinked)
          /\ registered' = IF worked THEN registered \ {s} ELSE registered
          /\ xml' = [xml EXCEPT ![s] = IF unlinked THEN "none" ELSE @]
          /\ orphans' = IF unlinked THEN orphans \ {s}
                        ELSE IF worked /\ xml[s] = "same" THEN orphans \cup {s} ELSE orphans
    BY DEF RemoveService
  <1>2. setup.verdict # "running" /\ UNCHANGED <<lacking, applied, setup>>
    BY DEF RemoveService
  <1>3. winMishaps' \in 0 .. MaxWinMishaps
    BY <1>1, WinBudget DEF WinInv
  <1>4. /\ xml' \in [ServiceSet -> {"none", "same", "other"}]
        /\ xml'[s] = (IF unlinked THEN "none" ELSE xml[s])
        /\ \A t \in ServiceSet : t # s => xml'[t] = xml[t]
    BY <1>1 DEF WinInv
  <1> QED
    BY <1>1, <1>2, <1>3, <1>4 DEF WinInv

LEMMA SetupKillInv ==
  ASSUME WinInv, SetupKill
  PROVE  WinInv' /\ setup'.verdict # "applied"
  BY WinBudget, NoSetupIs, SetupOverInv DEF SetupKill, WinInv

LEMMA WinStep ==
  ASSUME WinInv, [WindowsNext]_winVars
  PROVE  WinInv' /\ Promise
  <1>1. ASSUME NEW profile \in {"A", "B", "C"}, NEW apply \in BOOLEAN,
               SetupBegin(profile, apply)
        PROVE  WinInv' /\ Promise
    BY <1>1, SetupBeginInv DEF Promise
  <1>2. CASE Apply("install_release") \/ Apply("wire_harnesses")
    BY <1>2, ApplyInv
  <1>3. CASE Compare
    BY <1>3, CompareInv
  <1>4. CASE WriteXml
    BY <1>4, WriteXmlInv
  <1>5. CASE Register
    BY <1>5, RegisterInv
  <1>6. CASE SetupKill
    BY <1>6, SetupKillInv DEF Promise
  <1>7. ASSUME NEW s \in ServiceSet, RemoveService(s)
        PROVE  WinInv' /\ Promise
    BY <1>7, RemoveServiceInv DEF Promise, RemoveService
  <1>8. CASE UNCHANGED winVars
    BY <1>8 DEF winVars, WinInv, Promise, Service
  <1> QED
    BY <1>1, <1>2, <1>3, <1>4, <1>5, <1>6, <1>7, <1>8 DEF WindowsNext

\* setup-install over any services, with any number of failing calls and kills: the
\* inductive invariant.
THEOREM WindowsInductive == WindowsSpec => []WinInv
  <1>1. WindowsInit => WinInv
    BY WinInitInv
  <1>2. WinInv /\ [WindowsNext]_winVars => WinInv'
    BY WinStep
  <1> QED
    BY <1>1, <1>2, PTL DEF WindowsSpec

\* A receipt that says applied is true of the host, but for an orphan's registration.
THEOREM ReceiptsAreTrueHolds == WindowsSpec => ReceiptsAreTrue
  <1>1. ASSUME WinInv, [WindowsNext]_winVars
        PROVE  [setup.verdict = "running" /\ setup'.verdict = "applied"
       => /\ "wire_harnesses" \in applied'
          /\ Len(setup'.receipts) > 1 => "install_release" \in applied'
          /\ Len(setup'.receipts) > 2 =>
                /\ ServiceSet \subseteq registered \cup orphans
                /\ \A s \in ServiceSet : xml[s] = "same"]_winVars
    BY <1>1, WinStep DEF Promise
  <1> QED
    BY <1>1, WindowsInductive, PTL DEF WindowsSpec, ReceiptsAreTrue

-----------------------------------------------------------------------------
(* Codex *)

MarketRecord == [made : BOOLEAN, owned : BOOLEAN, alien : BOOLEAN, odd : BOOLEAN,
                 links : SUBSET Plugins, listed : SUBSET Plugins]
WorldRecord == [cli : BOOLEAN, configured : BOOLEAN, versioned : BOOLEAN,
                namesakes : SUBSET Plugins, direct : SUBSET Plugins]
UseRecord ==
    [kind : {"none", "build", "install", "uninstall", "health", "verify"},
     profile : Profiles \cup {<<>>}, reviewed : BOOLEAN,
     at : {"none", "ownership", "links", "catalog", "owner", "list", "each", "session",
           "availability", "health", "overlap"},
     todo : Seq(Plugins), seen : Snapshot, looked : BOOLEAN, enabled : SUBSET Plugins,
     bad : BOOLEAN,
     verdict : {"none", "running", "ok", "not_ok"}, disturbed : BOOLEAN]

\* A directory that somebody else's files are in is nobody's marketplace.
CodexHostInv ==
    /\ plugin \in [Plugins -> [version : Versions, enabled : {"on", "off", "unset"}]]
    /\ checkout \in [Plugins -> {"pin", "other", "invalid"}]
    /\ market \in MarketRecord /\ world \in WorldRecord
    /\ codexMishaps \in 0 .. MaxCodexMishaps /\ codexEdits \in 0 .. MaxCodexEdits
    /\ market.owned => market.made
    /\ market.alien => ~market.owned

\* Where each kind of command can be.
Stages(kind) ==
    CASE kind = "build"   -> {"ownership", "links", "catalog", "owner"}
      [] kind = "health"  -> {"health"}
      [] kind = "verify"  -> {"session", "availability", "health", "overlap"}
      [] OTHER            -> {"list", "each"}

Remaining == ToSet(use.todo)
Treated == Wanted \ Remaining

\* What verify looks at before it asks for the plugins' health.
Available ==
    world.configured /\ \A p \in Wanted : "pin" \in {Offers(p), plugin[p].version}

\* What an undisturbed command has established, and what its snapshot is still right about.
Undisturbed ==
    /\ use.kind = "build" =>
          /\ use.at # "ownership" => \A p \in Wanted : checkout[p] = "pin"
          /\ use.at \in {"catalog", "owner"} => market.links = Wanted
          /\ use.at = "owner" => market.listed = Wanted
    /\ use.kind = "install" /\ use.at = "each" =>
          /\ \A p \in Remaining :
                /\ use.seen.installed[p] = plugin[p].version
                /\ use.seen.offered[p] = "pin" => checkout[p] = "pin"
          /\ ~use.bad => \A p \in Treated :
                plugin[p].version = "pin" \/ use.seen.offered[p] = "unknown"
    /\ use.kind = "uninstall" /\ use.at = "each" =>
          /\ \A p \in Remaining : use.seen.installed[p] = "absent" => plugin[p].version = "absent"
          /\ ~use.bad => \A p \in Treated : plugin[p].version = "absent"
    /\ use.kind = "verify" /\ ~use.bad =>
          /\ use.at \in {"health", "overlap"} => Available
          /\ use.at = "overlap" /\ use.looked =>
                use.enabled = Wanted /\ \A p \in Wanted : Healthy(p)

UseInv ==
    /\ use.kind # "none" /\ use.at \in Stages(use.kind)
    /\ use.profile \in Profiles
    /\ use.todo # <<>> /\ IsInjective(use.todo)
    /\ use.at = "list" => use.todo = use.profile
    /\ use.kind = "build" /\ use.at # "ownership" => ~market.alien
    /\ use.kind = "build" /\ use.at \in {"catalog", "owner"} => market.made
    /\ ~use.disturbed => Undisturbed

CodexInv ==
    /\ CodexHostInv
    /\ use \in UseRecord /\ Remaining \subseteq Wanted
    /\ use.verdict = "running" => UseInv

CodexPromise ==
    /\ use.verdict = "running" /\ use'.verdict = "ok" /\ ~use.disturbed => Earned
    /\ market.alien => market'.links = market.links /\ ~market'.owned

-----------------------------------------------------------------------------

LEMMA ProfilesAre ==
  ASSUME NEW s \in Profiles
  PROVE  s \in Seq(Plugins) /\ s # <<>> /\ IsInjective(s) /\ ToSet(s) \subseteq Plugins
  <1>1. s \in Seq(ToSet(s)) /\ s # <<>> /\ IsInjective(s)
    BY CodexAssumption
  <1>2. ToSet(s) \subseteq Plugins
    BY DEF Plugins
  <1> QED
    BY <1>1, <1>2, SeqMonotonic

LEMMA TodoIs ==
  ASSUME NEW s \in Seq(Plugins), s # <<>>, IsInjective(s)
  PROVE  /\ Tail(s) \in Seq(Plugins) /\ IsInjective(Tail(s))
         /\ Head(s) \in ToSet(s) /\ ToSet(s) \subseteq Plugins
         /\ ToSet(Tail(s)) = ToSet(s) \ {Head(s)}
         /\ IF Len(s) = 1 THEN ToSet(s) = {Head(s)} ELSE Tail(s) # <<>>
  <1> DEFINE n == Len(s)
             t == Tail(s)
  <1>1. n \in Nat /\ n > 0 /\ DOMAIN s = 1 .. n /\ Head(s) = s[1]
    BY EmptySeq, LenProperties
  <1>2. /\ t \in Seq(Plugins) /\ Len(t) = n - 1
        /\ \A i \in 1 .. Len(t) : t[i] = s[i + 1]
    BY HeadTailProperties
  <1>3. DOMAIN t = 1 .. n - 1
    BY <1>2, LenProperties
  <1>4. IsInjective(t)
    BY <1>1, <1>2, <1>3 DEF IsInjective
  <1>5. Head(s) \in ToSet(s)
    BY <1>1 DEF ToSet
  <1>6. ToSet(s) \subseteq Plugins
    BY <1>1, ElementOfSeq DEF ToSet
  <1> HIDE DEF t, n
  <1>7. ToSet(t) \subseteq ToSet(s) \ {Head(s)}
    <2>1. \A i \in 1 .. n - 1 : i + 1 \in DOMAIN s /\ 1 \in DOMAIN s /\ i + 1 # 1
      BY <1>1
    <2>2. \A i \in 1 .. n - 1 : t[i] = s[i + 1] /\ s[i + 1] # s[1]
      BY <1>2, <2>1 DEF IsInjective
    <2> QED
      BY <1>1, <1>3, <2>1, <2>2 DEF ToSet
  <1>8. ASSUME NEW i \in 1 .. n, s[i] # Head(s)
        PROVE  s[i] \in ToSet(t)
    <2>1. i - 1 \in DOMAIN t /\ t[i - 1] = s[i]
      BY <1>1, <1>2, <1>3, <1>8
    <2> QED
      BY <2>1 DEF ToSet
  <1>9. ToSet(s) \ {Head(s)} \subseteq ToSet(t)
    BY <1>1, <1>8 DEF ToSet
  <1>10. n = 1 => ToSet(s) = {Head(s)}
    BY <1>1 DEF ToSet
  <1>11. n # 1 => t # <<>>
    BY <1>1, <1>2, EmptySeq
  <1> QED
    BY <1>2, <1>4, <1>5, <1>6, <1>7, <1>9, <1>10, <1>11 DEF t, n

LEMMA NoUseIs ==
  /\ NoUse \in UseRecord /\ NoUse.verdict = "none" /\ NoUse.todo = <<>>
  /\ \A v \in {"ok", "not_ok"} :
        LET r == [NoUse EXCEPT !.verdict = v] IN
        r \in UseRecord /\ r.verdict = v /\ r.todo = <<>>
  <1>1. NoSnapshot \in Snapshot
    BY DEF NoSnapshot, Snapshot, Versions
  <1>2. <<>> \in Seq(Plugins)
    BY EmptySeq
  <1>3. NoUse \in UseRecord /\ NoUse.verdict = "none" /\ NoUse.todo = <<>>
    BY <1>1, <1>2 DEF NoUse, UseRecord
  <1> QED
    BY <1>3 DEF UseRecord

LEMMA DoneIs ==
  ASSUME NEW good \in BOOLEAN, Done(good)
  PROVE  use' \in UseRecord /\ use'.verdict = IF good THEN "ok" ELSE "not_ok"
  BY NoUseIs DEF Done

LEMMA CodexTypes ==
  ASSUME CodexInv
  PROVE  CodexTypeOK
  <1>1. market \in MarketRecord /\ world \in WorldRecord /\ use \in UseRecord
    BY DEF CodexInv, CodexHostInv
  <1>2. /\ market.links \subseteq Plugins /\ market.listed \subseteq Plugins
        /\ {market.made, market.owned, market.alien, market.odd} \subseteq BOOLEAN
    BY <1>1 DEF MarketRecord
  <1>3. /\ world.namesakes \subseteq Plugins /\ world.direct \subseteq Plugins
        /\ {world.cli, world.configured, world.versioned} \subseteq BOOLEAN
    BY <1>1 DEF WorldRecord
  <1>4. /\ use.kind \in {"none", "build", "install", "uninstall", "health", "verify"}
        /\ use.verdict \in {"none", "running", "ok", "not_ok"} /\ use.seen \in Snapshot
        /\ use.looked \in BOOLEAN /\ use.enabled \subseteq Plugins
    BY <1>1 DEF UseRecord
  <1> QED
    BY <1>2, <1>3, <1>4 DEF CodexInv, CodexTypeOK, CodexHostInv, Remaining, Wanted

\* The command ends, well or not.
LEMMA UseEnds ==
  ASSUME CodexHostInv', use' \in UseRecord, use'.verdict # "running", use'.todo = <<>>
  PROVE  CodexInv'
  <1>1. Remaining' = {}
    BY DEF Remaining, ToSet
  <1> QED
    BY <1>1 DEF CodexInv

\* A step of the command, when nobody else changes what its claims are about.
LEMMA CodexBudget ==
  ASSUME CodexHostInv,
         \/ CodexMishap
         \/ \E normal \in BOOLEAN : CodexNormally(normal)
         \/ codexMishaps' = codexMishaps
  PROVE  codexMishaps' \in 0 .. MaxCodexMishaps
  BY CodexAssumption DEF CodexMishap, CodexNormally, CodexHostInv

LEMMA CodexInitInv ==
  ASSUME CodexInit
  PROVE  CodexInv
  <1>1. plugin \in [Plugins -> [version : Versions, enabled : {"on", "off", "unset"}]]
    BY DEF CodexInit, Versions
  <1>2. checkout \in [Plugins -> {"pin", "other", "invalid"}]
    BY DEF CodexInit
  <1>3. market \in MarketRecord /\ ~market.owned
    BY DEF CodexInit, MarketRecord
  <1>4. world \in WorldRecord
    BY DEF CodexInit, WorldRecord
  <1>5. codexMishaps \in 0 .. MaxCodexMishaps /\ codexEdits \in 0 .. MaxCodexEdits
    BY CodexAssumption DEF CodexInit
  <1>6. use = NoUse /\ Remaining = {}
    BY NoUseIs DEF CodexInit, Remaining, ToSet
  <1> QED
    BY <1>1, <1>2, <1>3, <1>4, <1>5, <1>6, NoUseIs DEF CodexInv, CodexHostInv

LEMMA CodexBeginInv ==
  ASSUME CodexInv, NEW kind \in {"build", "install", "uninstall", "health", "verify"},
         NEW profile \in Profiles, NEW reviewed \in BOOLEAN,
         CodexBegin(kind, profile, reviewed)
  PROVE  CodexInv' /\ CodexPromise
  <1>1. UNCHANGED <<plugin, checkout, market, world, codexMishaps, codexEdits>>
        /\ use.verdict # "running"
    BY DEF CodexBegin
  <1>2. First(kind) \in Stages(kind)
    BY DEF First, Stages
  <1>3. First(kind) \notin {"links", "catalog", "owner", "each", "overlap"}
    BY DEF First
  <1>4. kind = "build" => First(kind) = "ownership"
    BY DEF First
  <1>5. kind = "verify" => First(kind) = "session"
    BY DEF First
  <1>6. First(kind) \in {"ownership", "list", "session", "health"}
    BY DEF First
  <1> DEFINE begun == [NoUse EXCEPT !.kind = kind, !.profile = profile, !.reviewed = reviewed,
                            !.at = First(kind), !.todo = profile, !.verdict = "running"]
  <1>7. /\ begun \in UseRecord /\ begun.kind = kind /\ begun.profile = profile
        /\ begun.at = First(kind) /\ begun.todo = profile /\ ~begun.bad
    <2> DEFINE at == First(kind)
    <2>1. at \in {"ownership", "list", "session", "health"}
      BY <1>6
    <2> HIDE DEF at
    <2>2. NoSnapshot \in Snapshot /\ profile \in Seq(Plugins)
      BY ProfilesAre DEF NoSnapshot, Snapshot, Versions
    <2> DEFINE r == [NoUse EXCEPT !.kind = kind, !.profile = profile, !.reviewed = reviewed,
                                  !.at = at, !.todo = profile, !.verdict = "running"]
    <2>3. /\ r \in UseRecord /\ r.kind = kind /\ r.profile = profile
          /\ r.at = at /\ r.todo = profile /\ ~r.bad
      BY <2>1, <2>2 DEF NoUse, UseRecord
    <2>4. begun = r
      BY DEF at
    <2> HIDE DEF r
    <2> QED
      BY <2>3, <2>4 DEF at
  <1>8. use' = begun
    BY DEF CodexBegin
  <1> HIDE DEF begun
  <1>9. Remaining' = Wanted'
    BY <1>7, <1>8 DEF Remaining, Wanted
  <1>10. Undisturbed'
    BY <1>1, <1>3, <1>4, <1>5, <1>7, <1>8 DEF Undisturbed
  <1>11. UseInv'
    BY <1>2, <1>4, <1>7, <1>8, <1>10, ProfilesAre DEF UseInv
  <1>12. CodexHostInv' /\ CodexPromise
    BY <1>1 DEF CodexInv, CodexHostInv, CodexPromise
  <1> QED
    BY <1>7, <1>8, <1>9, <1>11, <1>12 DEF CodexInv

\* The command goes on with the same plugins: what it claims there is all that is to be
\* looked at.
LEMMA GoesOn ==
  ASSUME CodexInv, use.verdict = "running", CodexHostInv', use' \in UseRecord,
         use'.verdict = "running", use'.kind = use.kind, use'.profile = use.profile,
         use'.todo = use.todo, use'.disturbed = use.disturbed,
         use'.at \in Stages(use.kind) \ {"list"},
         use.kind = "build" => ~market'.alien,
         use'.at \in {"catalog", "owner"} => market'.made,
         ~use.disturbed => Undisturbed'
  PROVE  CodexInv'
  <1>1. Remaining' = Remaining /\ Wanted' = Wanted
    BY DEF Remaining, Wanted
  <1>2. UseInv'
    BY <1>1 DEF UseInv, CodexInv
  <1> QED
    BY <1>1, <1>2 DEF CodexInv

LEMMA ToIs ==
  ASSUME CodexInv, NEW at \in {"links", "catalog", "owner"}, To(at)
  PROVE  /\ use' \in UseRecord /\ use'.verdict = use.verdict /\ use'.kind = use.kind
         /\ use'.profile = use.profile /\ use'.todo = use.todo /\ use'.at = at
         /\ use'.disturbed = use.disturbed /\ use'.bad = use.bad
  BY DEF To, CodexInv, UseRecord

LEMMA BuildStages == Stages("build") = {"ownership", "links", "catalog", "owner"}
  BY DEF Stages

LEMMA DoneEnds ==
  ASSUME CodexHostInv', NEW good \in BOOLEAN, Done(good)
  PROVE  CodexInv' /\ use'.verdict = IF good THEN "ok" ELSE "not_ok"
  <1>1. /\ use' \in UseRecord /\ use'.todo = <<>>
        /\ use'.verdict = IF good THEN "ok" ELSE "not_ok"
    BY NoUseIs DEF Done
  <1> QED
    BY <1>1, UseEnds

-----------------------------------------------------------------------------
(* build-marketplace *)

LEMMA ValidateInv ==
  ASSUME CodexInv, Validate
  PROVE  CodexInv' /\ CodexPromise
  <1>1. /\ use.verdict = "running" /\ use.kind = "build" /\ use.at = "ownership"
        /\ UNCHANGED <<plugin, checkout, market, world, codexMishaps, codexEdits>>
    BY DEF Validate, Using
  <1>2. CodexHostInv' /\ (market.alien => market'.links = market.links /\ ~market'.owned)
    BY <1>1 DEF CodexInv, CodexHostInv
  <1>3. CASE Done(FALSE)
    BY <1>2, <1>3, DoneEnds DEF CodexPromise
  <1>4. CASE /\ To("links") /\ (market.alien => market.owned)
             /\ \A p \in Wanted : checkout[p] = "pin"
    <2>1. Wanted' = Wanted
      BY <1>4, ToIs DEF Wanted
    <2>2. Undisturbed'
      BY <1>1, <1>4, <2>1, ToIs DEF Undisturbed
    <2>3. ~market.alien
      BY <1>4 DEF CodexInv, CodexHostInv
    <2>4. use'.verdict # "ok"
      BY <1>1, <1>4, ToIs
    <2> QED
      BY <1>1, <1>2, <1>4, <2>2, <2>3, <2>4, ToIs, GoesOn, BuildStages DEF CodexPromise
  <1> QED
    BY <1>3, <1>4 DEF Validate, Wanted

LEMMA LinkInv ==
  ASSUME CodexInv, Link
  PROVE  CodexInv' /\ CodexPromise
  <1>1. /\ use.verdict = "running" /\ use.kind = "build" /\ use.at = "links"
        /\ UNCHANGED <<plugin, checkout, world, codexEdits>>
    BY DEF Link, Using
  <1>2. PICK halfway \in SUBSET Wanted :
          LET whole == halfway = Wanted
              inTheWay == market.odd /\ ~whole
          IN  /\ CodexNormally(whole \/ inTheWay)
              /\ market' = [market EXCEPT !.made = TRUE, !.odd = @ /\ ~whole,
                                          !.links = (@ \cap Wanted) \cup halfway]
              /\ IF whole THEN To("catalog")
                 ELSE IF inTheWay THEN Done(FALSE) ELSE use' = NoUse
    BY DEF Link, Wanted
  <1>3. codexMishaps' \in 0 .. MaxCodexMishaps
    BY <1>2, CodexBudget DEF CodexInv
  <1>4. Wanted \subseteq Plugins
    BY <1>1, ProfilesAre DEF CodexInv, UseInv, Wanted
  <1> DEFINE odd == market.odd /\ halfway # Wanted
             links == (market.links \cap Wanted) \cup halfway
  <1>5. market \in MarketRecord /\ ~market.alien
    BY <1>1 DEF CodexInv, CodexHostInv, UseInv
  <1>6. odd \in BOOLEAN /\ links \subseteq Plugins /\ (halfway = Wanted => links = Wanted)
    BY <1>4, <1>5 DEF MarketRecord
  <1>7. market' = [market EXCEPT !.made = TRUE, !.odd = odd, !.links = links]
    BY <1>2
  <1> HIDE DEF odd, links
  <1>8. /\ market' \in MarketRecord /\ market'.made /\ market'.links = links
        /\ market'.owned = market.owned /\ market'.alien = market.alien
    BY <1>5, <1>6, <1>7 DEF MarketRecord
  <1>9. CodexHostInv'
    BY <1>1, <1>3, <1>5, <1>8 DEF CodexInv, CodexHostInv
  <1>10. CASE halfway = Wanted
    <2>1. To("catalog")
      BY <1>2, <1>10
    <2>2. Wanted' = Wanted
      BY <2>1, ToIs DEF Wanted
    <2>3. ~use.disturbed => Undisturbed'
      BY <1>1, <1>6, <1>8, <1>10, <2>1, <2>2, ToIs DEF CodexInv, UseInv, Undisturbed
    <2>4. use'.verdict # "ok"
      BY <1>1, <2>1, ToIs
    <2> QED
      BY <1>1, <1>5, <1>8, <1>9, <2>1, <2>3, <2>4, ToIs, GoesOn, BuildStages DEF CodexPromise
  <1>11. CASE halfway # Wanted
    <2>1. Done(FALSE) \/ use' = NoUse
      BY <1>2, <1>11
    <2> QED
      BY <1>5, <1>9, <2>1, NoUseIs, UseEnds, DoneEnds DEF CodexPromise
  <1> QED
    BY <1>10, <1>11

LEMMA CatalogInv ==
  ASSUME CodexInv, Catalog
  PROVE  CodexInv' /\ CodexPromise
  <1>1. /\ use.verdict = "running" /\ use.kind = "build" /\ use.at = "catalog"
        /\ UNCHANGED <<plugin, checkout, world, codexMishaps, codexEdits>>
        /\ market' = [market EXCEPT !.listed = Wanted] /\ To("owner")
    BY DEF Catalog, Using, Wanted
  <1>2. Wanted \subseteq Plugins /\ Wanted' = Wanted
    BY <1>1, ProfilesAre, ToIs DEF CodexInv, UseInv, Wanted
  <1>3. market \in MarketRecord /\ ~market.alien /\ market.made
    BY <1>1 DEF CodexInv, CodexHostInv, UseInv
  <1>4. /\ market' \in MarketRecord /\ market'.listed = Wanted
        /\ market'.links = market.links /\ market'.made = market.made
        /\ market'.owned = market.owned /\ market'.alien = market.alien
    BY <1>1, <1>2, <1>3 DEF MarketRecord
  <1>5. CodexHostInv'
    BY <1>1, <1>3, <1>4 DEF CodexInv, CodexHostInv
  <1>6. ~use.disturbed => Undisturbed'
    BY <1>1, <1>2, <1>4, ToIs DEF CodexInv, UseInv, Undisturbed
  <1>7. use'.verdict # "ok"
    BY <1>1, ToIs
  <1> QED
    BY <1>1, <1>3, <1>4, <1>5, <1>6, <1>7, ToIs, GoesOn, BuildStages DEF CodexPromise

LEMMA OwnInv ==
  ASSUME CodexInv, Own
  PROVE  CodexInv' /\ CodexPromise
  <1>1. /\ use.verdict = "running" /\ use.kind = "build" /\ use.at = "owner"
        /\ UNCHANGED <<plugin, checkout, world, codexMishaps, codexEdits>>
        /\ market' = [market EXCEPT !.owned = TRUE] /\ Done(TRUE)
    BY DEF Own, Using
  <1>2. market \in MarketRecord /\ ~market.alien /\ market.made
    BY <1>1 DEF CodexInv, CodexHostInv, UseInv
  <1>3. /\ market' \in MarketRecord /\ market'.made /\ ~market'.alien
    BY <1>1, <1>2 DEF MarketRecord
  <1>4. CodexHostInv'
    BY <1>1, <1>3 DEF CodexInv, CodexHostInv
  <1>5. ~use.disturbed => /\ market.links = Wanted /\ market.listed = Wanted
                          /\ \A p \in Wanted : checkout[p] = "pin"
    BY <1>1 DEF CodexInv, UseInv, Undisturbed
  <1> QED
    BY <1>1, <1>2, <1>4, <1>5, DoneEnds DEF CodexPromise, Earned

-----------------------------------------------------------------------------
(* install, uninstall *)

LEMMA ListInv ==
  ASSUME CodexInv, List
  PROVE  CodexInv' /\ CodexPromise
  <1>1. /\ use.verdict = "running" /\ use.kind \in {"install", "uninstall"}
        /\ use.at = "list" /\ UNCHANGED <<plugin, checkout, market, world, codexEdits>>
    BY DEF List, Using
  <1>2. PICK readable \in BOOLEAN :
          /\ CodexNormally(readable)
          /\ IF world.cli /\ readable
             THEN use' = [use EXCEPT !.at = "each", !.seen = Inventory]
             ELSE Done(FALSE)
    BY DEF List
  <1>3. codexMishaps' \in 0 .. MaxCodexMishaps
    BY <1>2, CodexBudget DEF CodexInv
  <1>4. CodexHostInv' /\ (market.alien => market'.links = market.links /\ ~market'.owned)
    BY <1>1, <1>3 DEF CodexInv, CodexHostInv
  <1>5. CASE Done(FALSE)
    BY <1>4, <1>5, DoneEnds DEF CodexPromise
  <1>6. CASE use' = [use EXCEPT !.at = "each", !.seen = Inventory]
    <2>1. \A p \in Plugins : /\ plugin[p].version \in Versions
                             /\ checkout[p] \in {"pin", "other", "invalid"}
      BY DEF CodexInv, CodexHostInv
    <2>2. \A p \in Plugins : /\ Offers(p) \in Versions
                             /\ Offers(p) = "pin" => checkout[p] = "pin"
      BY <2>1 DEF Offers, Versions
    <2>3. /\ Inventory \in Snapshot
          /\ \A p \in Plugins : /\ Inventory.installed[p] = plugin[p].version
                                /\ Inventory.offered[p] = Offers(p)
      BY <2>1, <2>2 DEF Inventory, Snapshot
    <2>4. /\ use' \in UseRecord /\ use'.verdict = "running" /\ use'.kind = use.kind
          /\ use'.profile = use.profile /\ use'.todo = use.todo /\ use'.at = "each"
          /\ use'.disturbed = use.disturbed /\ use'.seen = Inventory
      BY <1>1, <1>6, <2>3 DEF CodexInv, UseRecord
    <2>5. /\ Wanted' = Wanted /\ Remaining' = Wanted /\ Wanted \subseteq Plugins
      BY <1>1, <2>4, ProfilesAre DEF CodexInv, UseInv, Wanted, Remaining
    <2>6. Undisturbed'
      BY <1>1, <2>2, <2>3, <2>4, <2>5 DEF Undisturbed, Treated
    <2>7. "each" \in Stages(use.kind)
      BY <1>1 DEF Stages
    <2> QED
      BY <1>1, <1>4, <2>4, <2>6, <2>7, GoesOn DEF CodexPromise
  <1> QED
    BY <1>2, <1>5, <1>6

\* What the steps on one plugin leave alone: everything but that plugin.
LEMMA EachKeeps ==
  ASSUME CodexInv, use.verdict = "running", use.kind \in {"install", "uninstall"},
         use.at = "each", NEW good \in BOOLEAN, Each(good), CodexHostInv',
         UNCHANGED <<checkout, market, world>>,
         \A q \in Remaining \cup Treated :
             q # Head(use.todo) => plugin'[q].version = plugin[q].version,
         good /\ ~use.disturbed =>
             IF use.kind = "install"
             THEN \/ plugin'[Head(use.todo)].version = "pin"
                  \/ use.seen.offered[Head(use.todo)] = "unknown"
             ELSE plugin'[Head(use.todo)].version = "absent"
  PROVE  CodexInv' /\ CodexPromise
  <1> DEFINE p == Head(use.todo)
             bad == use.bad \/ ~good
             rest == Tail(use.todo)
  <1>1. /\ use \in UseRecord /\ use.todo \in Seq(Plugins) /\ use.todo # <<>>
        /\ IsInjective(use.todo)
    BY DEF CodexInv, UseInv, UseRecord
  <1>2. /\ rest \in Seq(Plugins) /\ IsInjective(rest) /\ p \in Remaining
        /\ ToSet(rest) = Remaining \ {p} /\ Remaining \subseteq Wanted
        /\ IF Len(use.todo) = 1 THEN Remaining = {p} ELSE rest # <<>>
    BY <1>1, TodoIs DEF Remaining, CodexInv
  <1>3. /\ market.alien => market'.links = market.links /\ ~market'.owned
    BY DEF CodexInv, CodexHostInv
  <1> HIDE DEF rest
  <1>4. ASSUME ~use.disturbed, ~bad, NEW q \in (Wanted \ Remaining) \cup {p}
        PROVE  IF use.kind = "install"
               THEN plugin'[q].version = "pin" \/ use.seen.offered[q] = "unknown"
               ELSE plugin'[q].version = "absent"
    <2>1. Undisturbed
      BY <1>4 DEF CodexInv, UseInv
    <2>2. CASE q = p
      BY <1>4, <2>2
    <2>3. CASE q # p
      <3>1. q \in Treated
        BY <1>4, <2>3 DEF Treated
      <3>2. plugin'[q].version = plugin[q].version
        BY <2>3, <3>1
      <3> QED
        BY <1>4, <2>1, <3>1, <3>2 DEF Undisturbed
    <2> QED
      BY <2>2, <2>3
  <1>5. CASE Len(use.todo) = 1
    <2>1. Done(~bad)
      BY <1>5 DEF Each
    <2>2. CodexInv' /\ (use'.verdict = "ok" => ~bad)
      BY <2>1, DoneEnds
    <2>3. (Wanted \ Remaining) \cup {p} = Wanted
      BY <1>2, <1>5
    <2>4. ASSUME ~use.disturbed, use'.verdict = "ok", NEW q \in Wanted
          PROVE  IF use.kind = "install"
                 THEN plugin'[q].version = "pin" \/ use.seen.offered[q] = "unknown"
                 ELSE plugin'[q].version = "absent"
      BY <1>4, <2>2, <2>3, <2>4
    <2> QED
      BY <1>3, <2>2, <2>4 DEF CodexPromise, Earned
  <1>6. CASE Len(use.todo) # 1
    <2>1. use' = [use EXCEPT !.todo = rest, !.bad = bad]
      BY <1>6 DEF Each, rest
    <2>2. bad \in BOOLEAN
      BY <1>1 DEF UseRecord
    <2> HIDE DEF bad
    <2>3. /\ use' \in UseRecord /\ use'.verdict = "running" /\ use'.kind = use.kind
          /\ use'.profile = use.profile /\ use'.todo = rest /\ use'.at = "each"
          /\ use'.disturbed = use.disturbed /\ use'.seen = use.seen /\ use'.bad = bad
      BY <1>1, <1>2, <2>1, <2>2 DEF UseRecord
    <2>4. /\ Wanted' = Wanted /\ Remaining' = Remaining \ {p}
          /\ Treated' = (Wanted \ Remaining) \cup {p}
      BY <1>2, <2>3 DEF Wanted, Remaining, Treated
    <2>5. ASSUME ~use.disturbed
          PROVE  Undisturbed'
      <3>1. Undisturbed
        BY <2>5 DEF CodexInv, UseInv
      <3>2. \A q \in Remaining' : q \in Remaining /\ plugin'[q].version = plugin[q].version
        BY <2>4
      <3> QED
        BY <1>4, <2>3, <2>4, <2>5, <3>1, <3>2 DEF Undisturbed
    <2>6. UseInv'
      BY <1>2, <1>6, <2>3, <2>5 DEF UseInv, CodexInv
    <2>7. Remaining' \subseteq Wanted'
      BY <1>2, <2>4
    <2> QED
      BY <1>3, <2>3, <2>6, <2>7 DEF CodexInv, CodexPromise, Earned
  <1> QED
    BY <1>5, <1>6

LEMMA NextPlugin ==
  ASSUME CodexInv, use.verdict = "running"
  PROVE  Head(use.todo) \in Remaining /\ Head(use.todo) \in Plugins
         /\ Remaining \cup Treated \subseteq Plugins
  <1>1. use.todo \in Seq(Plugins) /\ use.todo # <<>> /\ IsInjective(use.todo)
        /\ use.profile \in Profiles
    BY DEF CodexInv, UseInv, UseRecord
  <1> QED
    BY <1>1, TodoIs, ProfilesAre DEF CodexInv, Remaining, Treated, Wanted

LEMMA AddPluginInv ==
  ASSUME CodexInv, AddPlugin
  PROVE  CodexInv' /\ CodexPromise
  <1> DEFINE p == Head(use.todo)
  <1>1. /\ use.verdict = "running" /\ use.kind = "install" /\ use.at = "each"
        /\ UNCHANGED <<checkout, market, world, codexEdits>>
    BY DEF AddPlugin, Using
  <1>2. p \in Remaining /\ p \in Plugins /\ Remaining \cup Treated \subseteq Plugins
    BY <1>1, NextPlugin
  <1>3. ~use.disturbed => /\ use.seen.installed[p] = plugin[p].version
                          /\ use.seen.offered[p] = "pin" => checkout[p] = "pin"
    BY <1>1, <1>2 DEF CodexInv, UseInv, Undisturbed
  <1>4. CASE Present(p) # "absent"
    <2>1. Each(Present(p) = "pin") /\ UNCHANGED <<plugin, codexMishaps>>
      BY <1>4 DEF AddPlugin
    <2>2. CodexHostInv'
      BY <1>1, <2>1 DEF CodexInv, CodexHostInv
    <2>3. Present(p) = "pin" /\ ~use.disturbed => plugin'[p].version = "pin"
      BY <1>3, <2>1 DEF Present
    <2>4. (Present(p) = "pin") \in BOOLEAN
      OBVIOUS
    <2> QED
      BY <1>1, <2>1, <2>2, <2>3, <2>4, EachKeeps
  <1>5. CASE Present(p) = "absent" /\ ~Acceptable(use.seen.offered[p])
    <2>1. Each(FALSE) /\ UNCHANGED <<plugin, codexMishaps>>
      BY <1>5 DEF AddPlugin
    <2>2. CodexHostInv'
      BY <1>1, <2>1 DEF CodexInv, CodexHostInv
    <2> QED
      BY <1>1, <2>1, <2>2, EachKeeps
  <1>6. CASE Present(p) = "absent" /\ Acceptable(use.seen.offered[p])
    <2>1. PICK worked \in BOOLEAN, zero \in BOOLEAN :
               /\ zero => worked
               /\ CodexNormally(zero \/ ~world.cli \/ checkout[p] = "invalid")
               /\ worked => checkout[p] # "invalid"
               /\ plugin' = IF worked
                            THEN [plugin EXCEPT ![p] = [version |-> checkout[p],
                                                        enabled |-> "on"]]
                            ELSE plugin
               /\ Each(zero)
      BY <1>6 DEF AddPlugin
    <2>2. codexMishaps' \in 0 .. MaxCodexMishaps
      BY <2>1, CodexBudget DEF CodexInv
    <2>3. checkout[p] \in {"pin", "other", "invalid"}
      BY <1>2 DEF CodexInv, CodexHostInv
    <2>4. /\ plugin' \in [Plugins -> [version : Versions, enabled : {"on", "off", "unset"}]]
          /\ \A q \in Plugins : q # p => plugin'[q] = plugin[q]
          /\ worked => plugin'[p].version = checkout[p]
      BY <1>2, <2>1, <2>3 DEF CodexInv, CodexHostInv, Versions
    <2>5. CodexHostInv'
      BY <1>1, <2>2, <2>4 DEF CodexInv, CodexHostInv
    <2>6. zero /\ ~use.disturbed =>
             plugin'[p].version = "pin" \/ use.seen.offered[p] = "unknown"
      BY <1>3, <1>6, <2>1, <2>4 DEF Acceptable
    <2> QED
      BY <1>1, <1>2, <2>1, <2>4, <2>5, <2>6, EachKeeps
  <1> QED
    BY <1>4, <1>5, <1>6

LEMMA RemovePluginInv ==
  ASSUME CodexInv, RemovePlugin
  PROVE  CodexInv' /\ CodexPromise
  <1> DEFINE p == Head(use.todo)
  <1>1. /\ use.verdict = "running" /\ use.kind = "uninstall" /\ use.at = "each"
        /\ UNCHANGED <<checkout, market, world, codexEdits>>
    BY DEF RemovePlugin, Using
  <1>2. p \in Remaining /\ p \in Plugins /\ Remaining \cup Treated \subseteq Plugins
    BY <1>1, NextPlugin
  <1>3. ~use.disturbed /\ use.seen.installed[p] = "absent" => plugin[p].version = "absent"
    BY <1>1, <1>2 DEF CodexInv, UseInv, Undisturbed
  <1>4. CASE use.seen.installed[p] = "absent"
    <2>1. Each(TRUE) /\ UNCHANGED <<plugin, codexMishaps>>
      BY <1>4 DEF RemovePlugin
    <2>2. CodexHostInv'
      BY <1>1, <2>1 DEF CodexInv, CodexHostInv
    <2> QED
      BY <1>1, <1>3, <1>4, <2>1, <2>2, EachKeeps
  <1>5. CASE use.seen.installed[p] # "absent"
    <2>1. PICK worked \in BOOLEAN, zero \in BOOLEAN :
               /\ zero => worked
               /\ CodexNormally(zero \/ ~world.cli)
               /\ plugin' = IF worked THEN [plugin EXCEPT ![p].version = "absent"] ELSE plugin
               /\ Each(zero)
      BY <1>5 DEF RemovePlugin
    <2>2. codexMishaps' \in 0 .. MaxCodexMishaps
      BY <2>1, CodexBudget DEF CodexInv
    <2>3. /\ plugin' \in [Plugins -> [version : Versions, enabled : {"on", "off", "unset"}]]
          /\ \A q \in Plugins : q # p => plugin'[q] = plugin[q]
          /\ worked => plugin'[p].version = "absent"
      BY <1>2, <2>1 DEF CodexInv, CodexHostInv, Versions
    <2>4. CodexHostInv'
      BY <1>1, <2>2, <2>3 DEF CodexInv, CodexHostInv
    <2> QED
      BY <1>1, <1>2, <2>1, <2>3, <2>4, EachKeeps
  <1> QED
    BY <1>4, <1>5

-----------------------------------------------------------------------------
(* health, verify *)

LEMMA CheckedIs ==
  ASSUME CodexInv, NEW good \in BOOLEAN,
         NEW next \in {"availability", "health", "overlap"}, Checked(good, next)
  PROVE  /\ use' \in UseRecord /\ use'.verdict = use.verdict /\ use'.kind = use.kind
         /\ use'.profile = use.profile /\ use'.todo = use.todo /\ use'.at = next
         /\ use'.disturbed = use.disturbed /\ use'.bad = (use.bad \/ ~good)
         /\ Wanted' = Wanted
  <1> DEFINE bad == use.bad \/ ~good
  <1>1. bad \in BOOLEAN /\ use \in UseRecord
    BY DEF CodexInv, UseRecord
  <1>2. use' = [use EXCEPT !.at = next, !.bad = bad]
    BY DEF Checked
  <1> HIDE DEF bad
  <1>3. /\ use' \in UseRecord /\ use'.verdict = use.verdict /\ use'.kind = use.kind
        /\ use'.profile = use.profile /\ use'.todo = use.todo /\ use'.at = next
        /\ use'.disturbed = use.disturbed /\ use'.bad = bad
    BY <1>1, <1>2 DEF UseRecord
  <1> QED
    BY <1>3 DEF bad, Wanted

LEMMA VerifyStages == Stages("verify") = {"session", "availability", "health", "overlap"}
  BY DEF Stages

\* A command that only reads ends, or goes on to the next check.
LEMMA ReadOnlyKeeps ==
  ASSUME CodexInv, use.verdict = "running", ReadOnly, codexMishaps' \in 0 .. MaxCodexMishaps
  PROVE  CodexHostInv' /\ (market.alien => market'.links = market.links /\ ~market'.owned)
  BY DEF CodexInv, CodexHostInv, ReadOnly

LEMMA AvailableStays ==
  ASSUME ReadOnly, Wanted' = Wanted
  PROVE  Available' = Available
  <1>1. \A p \in Wanted : Offers(p)' = Offers(p)
    BY DEF ReadOnly, Offers
  <1> QED
    BY <1>1 DEF ReadOnly, Available

LEMMA SessionInv ==
  ASSUME CodexInv, Session
  PROVE  CodexInv' /\ CodexPromise
  <1>1. /\ use.verdict = "running" /\ use.kind = "verify" /\ use.at = "session" /\ ReadOnly
    BY DEF Session, Using
  <1>2. PICK loggedIn \in BOOLEAN :
          /\ CodexNormally(loggedIn)
          /\ IF world.cli THEN Checked(loggedIn, "availability") ELSE Done(FALSE)
    BY DEF Session
  <1>3. codexMishaps' \in 0 .. MaxCodexMishaps
    BY <1>2, CodexBudget DEF CodexInv
  <1>4. CASE Done(FALSE)
    BY <1>1, <1>3, <1>4, ReadOnlyKeeps, DoneEnds DEF CodexPromise
  <1>5. CASE Checked(loggedIn, "availability")
    <2>1. Undisturbed'
      BY <1>1, <1>5, CheckedIs DEF Undisturbed
    <2> QED
      BY <1>1, <1>3, <1>5, <2>1, CheckedIs, ReadOnlyKeeps, GoesOn, VerifyStages
      DEF CodexPromise
  <1> QED
    BY <1>2, <1>4, <1>5

LEMMA AvailabilityInv ==
  ASSUME CodexInv, Availability
  PROVE  CodexInv' /\ CodexPromise
  <1>1. /\ use.verdict = "running" /\ use.kind = "verify" /\ use.at = "availability"
        /\ ReadOnly
    BY DEF Availability, Using
  <1>2. PICK readable \in BOOLEAN :
          /\ CodexNormally(readable)
          /\ Checked(/\ readable /\ world.cli /\ world.configured
                     /\ \A p \in ToSet(use.profile) :
                           "pin" \in {Offers(p), plugin[p].version}, "health")
    BY DEF Availability
  <1> DEFINE good == /\ readable /\ world.cli /\ world.configured
                     /\ \A p \in ToSet(use.profile) :
                           "pin" \in {Offers(p), plugin[p].version}
  <1>3. codexMishaps' \in 0 .. MaxCodexMishaps
    BY <1>2, CodexBudget DEF CodexInv
  <1>4. good \in BOOLEAN /\ (good => Available) /\ Checked(good, "health")
    BY <1>2 DEF Available, Wanted
  <1> HIDE DEF good
  <1>5. Available' = Available
    BY <1>1, <1>4, AvailableStays, CheckedIs
  <1>6. Undisturbed'
    BY <1>1, <1>4, <1>5, CheckedIs DEF Undisturbed
  <1> QED
    BY <1>1, <1>3, <1>4, <1>6, CheckedIs, ReadOnlyKeeps, GoesOn, VerifyStages
    DEF CodexPromise

LEMMA HealthInv ==
  ASSUME CodexInv, Health
  PROVE  CodexInv' /\ CodexPromise
  <1>1. /\ use.verdict = "running" /\ use.kind \in {"verify", "health"} /\ use.at = "health"
        /\ ReadOnly
    BY DEF Health, Using
  <1>2. PICK answer \in HealthAnswers :
          /\ CodexNormally(answer = "list" \/ ~world.cli)
          /\ LET looked == answer = "list"
                 ready == Enabled(answer) = ToSet(use.profile)
             IN  IF use.kind = "health" THEN Done(looked /\ ready)
                 ELSE use' = [use EXCEPT !.at = "overlap", !.looked = looked,
                                         !.enabled = Enabled(answer),
                                         !.bad = @ \/ answer = "error" \/ (looked /\ ~ready)]
    BY DEF Health
  <1> DEFINE looked == answer = "list"
             ready == Enabled(answer) = Wanted
             good == looked /\ ready
             bad == use.bad \/ answer = "error" \/ (looked /\ ~ready)
             enabled == Enabled(answer)
  <1>3. codexMishaps' \in 0 .. MaxCodexMishaps
    BY <1>2, CodexBudget DEF CodexInv
  <1>4. use \in UseRecord /\ use.profile \in Profiles /\ Wanted \subseteq Plugins
    BY <1>1, ProfilesAre DEF CodexInv, UseInv, Wanted
  <1>5. /\ looked \in BOOLEAN /\ good \in BOOLEAN /\ bad \in BOOLEAN
        /\ enabled \in SUBSET Plugins
    BY <1>4 DEF Enabled, Wanted, UseRecord
  <1>6. looked /\ enabled = Wanted => \A p \in Wanted : Healthy(p)
    BY DEF Enabled, Wanted
  <1>7. good => looked /\ enabled = Wanted
    OBVIOUS
  <1>8. ~bad => ~use.bad /\ (looked => enabled = Wanted)
    OBVIOUS
  <1>9. IF use.kind = "health" THEN Done(good)
        ELSE use' = [use EXCEPT !.at = "overlap", !.looked = looked, !.enabled = enabled,
                                !.bad = bad]
    BY <1>2 DEF Wanted
  <1> HIDE DEF looked, good, bad, enabled, ready
  <1>10. CASE use.kind = "health"
    BY <1>1, <1>3, <1>5, <1>6, <1>7, <1>9, <1>10, ReadOnlyKeeps, DoneEnds
    DEF CodexPromise, Earned
  <1>11. CASE use.kind = "verify"
    <2>1. use' = [use EXCEPT !.at = "overlap", !.looked = looked, !.enabled = enabled,
                             !.bad = bad]
      BY <1>9, <1>11
    <2>2. /\ use' \in UseRecord /\ use'.verdict = use.verdict /\ use'.kind = use.kind
          /\ use'.profile = use.profile /\ use'.todo = use.todo /\ use'.at = "overlap"
          /\ use'.disturbed = use.disturbed /\ use'.bad = bad
          /\ use'.looked = looked /\ use'.enabled = enabled
      BY <1>4, <1>5, <2>1 DEF UseRecord
    <2>3. Wanted' = Wanted
      BY <2>2 DEF Wanted
    <2>4. Available' = Available /\ \A p \in Wanted : Healthy(p)' = Healthy(p)
      BY <1>1, <2>3, AvailableStays DEF ReadOnly, Healthy
    <2>5. ASSUME ~use.disturbed
          PROVE  Undisturbed'
      <3>1. ~use.bad => Available
        BY <1>1, <1>11, <2>5 DEF CodexInv, UseInv, Undisturbed
      <3> QED
        BY <1>6, <1>8, <1>11, <2>2, <2>3, <2>4, <3>1 DEF Undisturbed
    <2> QED
      BY <1>1, <1>3, <1>11, <2>2, <2>5, ReadOnlyKeeps, GoesOn, VerifyStages
      DEF CodexPromise, Earned
  <1> QED
    BY <1>1, <1>10, <1>11

LEMMA OverlapInv ==
  ASSUME CodexInv, Overlap
  PROVE  CodexInv' /\ CodexPromise
  <1>1. /\ use.verdict = "running" /\ use.kind = "verify" /\ use.at = "overlap" /\ ReadOnly
    BY DEF Overlap, Using
  <1>2. PICK unread \in SUBSET (ToSet(use.profile) \cap Doctored) :
          /\ CodexNormally(unread = {})
          /\ Done(/\ ~use.bad
                  /\ world.direct \cap (use.enabled \ unread) = {}
                  /\ use.enabled \cap Hooked # {} => use.reviewed)
    BY DEF Overlap
  <1> DEFINE good == /\ ~use.bad
                     /\ world.direct \cap (use.enabled \ unread) = {}
                     /\ use.enabled \cap Hooked # {} => use.reviewed
  <1>3. codexMishaps' \in 0 .. MaxCodexMishaps
    BY <1>2, CodexBudget DEF CodexInv
  <1>4. /\ good \in BOOLEAN /\ Done(good)
        /\ good => ~use.bad /\ (use.enabled \cap Hooked # {} => use.reviewed)
    BY <1>2
  <1> HIDE DEF good
  <1>5. ASSUME ~use.disturbed, good
        PROVE  VerifyReady
    BY <1>1, <1>4, <1>5 DEF CodexInv, UseInv, Undisturbed, Available, VerifyReady
  <1> QED
    BY <1>1, <1>3, <1>4, <1>5, ReadOnlyKeeps, DoneEnds DEF CodexPromise, Earned

-----------------------------------------------------------------------------
(* What else happens *)

LEMMA CodexKillInv ==
  ASSUME CodexInv, CodexKill
  PROVE  CodexInv' /\ CodexPromise
  <1>1. UNCHANGED <<plugin, checkout, market, world, codexEdits>> /\ use' = NoUse
        /\ codexMishaps' \in 0 .. MaxCodexMishaps
    BY CodexBudget DEF CodexKill, CodexInv
  <1>2. CodexHostInv'
    BY <1>1 DEF CodexInv, CodexHostInv
  <1> QED
    BY <1>1, <1>2, NoUseIs, UseEnds DEF CodexPromise, CodexInv, CodexHostInv

\* An edit disturbs the command in progress, and leaves the marketplace's links alone.
LEMMA EditInv ==
  ASSUME CodexInv, Edit
  PROVE  CodexInv' /\ CodexPromise
  <1>1. /\ codexEdits' \in 0 .. MaxCodexEdits /\ codexMishaps' = codexMishaps
    BY CodexAssumption DEF Edit, CodexInv, CodexHostInv
  <1> DEFINE disturbed == use.disturbed \/ use.verdict = "running"
  <1>2. use' = [use EXCEPT !.disturbed = disturbed] /\ use \in UseRecord
        /\ disturbed \in BOOLEAN
    BY DEF Edit, CodexInv, UseRecord
  <1> HIDE DEF disturbed
  <1>3. /\ use' \in UseRecord /\ use'.verdict = use.verdict /\ use'.kind = use.kind
        /\ use'.profile = use.profile /\ use'.todo = use.todo /\ use'.at = use.at
        /\ use'.disturbed = disturbed
    BY <1>2 DEF UseRecord
  <1>4. plugin' \in [Plugins -> [version : Versions, enabled : {"on", "off", "unset"}]]
    BY DEF Edit, CodexInv, CodexHostInv, Versions
  <1>5. checkout' \in [Plugins -> {"pin", "other", "invalid"}]
    BY DEF Edit, CodexInv, CodexHostInv
  <1>6. world' \in WorldRecord
    BY DEF Edit, CodexInv, CodexHostInv, WorldRecord
  <1>7. /\ market' \in MarketRecord /\ market'.made = market.made
        /\ market'.owned = market.owned /\ market'.alien = market.alien
        /\ market'.links = market.links
    BY DEF Edit, CodexInv, CodexHostInv, MarketRecord
  <1>8. CodexHostInv'
    BY <1>1, <1>4, <1>5, <1>6, <1>7 DEF CodexInv, CodexHostInv
  <1>9. Remaining' = Remaining /\ Wanted' = Wanted
    BY <1>3 DEF Remaining, Wanted
  <1>10. use.verdict = "running" => UseInv'
    BY <1>3, <1>7, <1>9 DEF CodexInv, UseInv, disturbed
  <1> QED
    BY <1>3, <1>7, <1>8, <1>9, <1>10 DEF CodexInv, CodexHostInv, CodexPromise

LEMMA CodexStep ==
  ASSUME CodexInv, [CodexNext]_codexVars
  PROVE  CodexInv' /\ CodexPromise
  <1>1. CASE UNCHANGED codexVars
    <2>1. CodexHostInv' /\ (use.verdict = "running" => UseInv')
      BY <1>1 DEF codexVars, CodexInv, CodexHostInv, UseInv, Undisturbed, Remaining,
                  Treated, Wanted, Healthy, Available, Offers
    <2> QED
      BY <1>1, <2>1 DEF codexVars, CodexInv, CodexHostInv, CodexPromise, Remaining, Wanted
  <1>2. CASE \E kind \in {"build", "install", "uninstall", "health", "verify"},
                profile \in Profiles, reviewed \in BOOLEAN :
                   (reviewed => kind = "verify") /\ CodexBegin(kind, profile, reviewed)
    BY <1>2, CodexBeginInv
  <1>3. CASE Validate \/ Link \/ Catalog \/ Own
    BY <1>3, ValidateInv, LinkInv, CatalogInv, OwnInv
  <1>4. CASE List \/ AddPlugin \/ RemovePlugin
    BY <1>4, ListInv, AddPluginInv, RemovePluginInv
  <1>5. CASE Session \/ Availability \/ Health \/ Overlap
    BY <1>5, SessionInv, AvailabilityInv, HealthInv, OverlapInv
  <1>6. CASE CodexKill \/ Edit
    BY <1>6, CodexKillInv, EditInv
  <1> QED
    BY <1>1, <1>2, <1>3, <1>4, <1>5, <1>6 DEF CodexNext

\* codex-plugins over any profiles, with any number of failing calls, kills and edits: the
\* inductive invariant.
THEOREM CodexInductive == CodexSpec => []CodexInv
  <1>1. CodexInit => CodexInv
    BY CodexInitInv
  <1>2. CodexInv /\ [CodexNext]_codexVars => CodexInv'
    BY CodexStep
  <1> QED
    BY <1>1, <1>2, PTL DEF CodexSpec

\* What a successful command says is so when it ends, if nobody else changed anything
\* meanwhile, and a directory with somebody else's files in it is never written to.
THEOREM CodexReportsAreTrueHolds == CodexSpec => CodexReportsAreTrue
  <1>1. ASSUME CodexInv, [CodexNext]_codexVars
        PROVE  [/\ use.verdict = "running" /\ use'.verdict = "ok" /\ ~use.disturbed => Earned
                /\ market.alien => market'.links = market.links /\ ~market'.owned]_codexVars
    BY <1>1, CodexStep DEF CodexPromise
  <1> QED
    BY <1>1, CodexInductive, PTL DEF CodexSpec, CodexReportsAreTrue

-----------------------------------------------------------------------------
(* Sequences *)

\* Induction over the natural numbers, the property being the set of those that have it.
LEMMA SetInduction ==
  ASSUME NEW P \in SUBSET Nat, 0 \in P, \A n \in P : n + 1 \in P
  PROVE  P = Nat
  <1> SUFFICES ASSUME Nat \ P # {} PROVE FALSE
    OBVIOUS
  <1> DEFINE R == {ss \in Nat \X Nat : ss[1] < ss[2]}
  <1>1. IsWellFoundedOn(R, Nat)
    BY NatLessThanWellFounded DEF OpToRel
  <1>2. PICK x \in Nat \ P : \A y \in Nat \ P : ~ (<<y, x>> \in R)
    <2> HIDE DEF R
    <2> QED
      BY <1>1, WFMin
  <1>3. x - 1 \in Nat /\ x - 1 \in P
    <2>1. x # 0
      BY <1>2
    <2>2. x - 1 \in Nat /\ <<x - 1, x>> \in R
      BY <2>1
    <2> QED
      BY <1>2, <2>2
  <1> QED
    BY <1>2, <1>3

LEMMA ToSetConcat ==
  ASSUME NEW S, NEW a \in Seq(S), NEW b \in Seq(S)
  PROVE  a \o b \in Seq(S) /\ ToSet(a \o b) = ToSet(a) \cup ToSet(b)
  <1> DEFINE m == Len(a)
             n == Len(b)
             c == a \o b
  <1>1. /\ c \in Seq(S) /\ Len(c) = m + n /\ m \in Nat /\ n \in Nat
        /\ \A i \in 1 .. m : c[i] = a[i]
        /\ \A i \in m + 1 .. m + n : c[i] = b[i - m]
        /\ DOMAIN a = 1 .. m /\ DOMAIN b = 1 .. n
    BY ConcatProperties, LenProperties
  <1>2. DOMAIN c = 1 .. m + n
    BY <1>1, LenProperties
  <1> HIDE DEF m, n, c
  <1>3. ToSet(c) \subseteq ToSet(a) \cup ToSet(b)
    <2>1. ASSUME NEW i \in 1 .. m + n
          PROVE  c[i] \in ToSet(a) \cup ToSet(b)
      <3>1. CASE i \in 1 .. m
        BY <1>1, <3>1 DEF ToSet
      <3>2. CASE i \notin 1 .. m
        <4>1. i \in m + 1 .. m + n /\ i - m \in 1 .. n
          BY <1>1, <3>2
        <4> QED
          BY <1>1, <4>1 DEF ToSet
      <3> QED
        BY <3>1, <3>2
    <2> QED
      BY <1>2, <2>1 DEF ToSet
  <1>4. \A i \in 1 .. m : a[i] \in ToSet(c)
    BY <1>1, <1>2 DEF ToSet
  <1>5. \A i \in 1 .. n : b[i] \in ToSet(c)
    <2>1. ASSUME NEW i \in 1 .. n
          PROVE  m + i \in 1 .. m + n /\ c[m + i] = b[i]
      <3>1. m + i \in m + 1 .. m + n /\ (m + i) - m = i
        BY <1>1, <2>1
      <3> QED
        BY <1>1, <3>1
    <2> QED
      BY <1>2, <2>1 DEF ToSet
  <1> QED
    BY <1>1, <1>3, <1>4, <1>5 DEF ToSet, c

\* FlattenSeq is defined by recursion: the function it defines exists.
LEMMA FlattenExists ==
  ASSUME NEW S, NEW n \in Nat \ {0}, NEW ss \in [1 .. n -> Seq(S)]
  PROVE  \E f : f = [i \in 1 .. n |-> IF i = 1 THEN ss[i] ELSE f[i - 1] \o ss[i]]
  <1> DEFINE Rec(f, k) == \A i \in 1 .. k : f[i] = IF i = 1 THEN ss[i] ELSE f[i - 1] \o ss[i]
             P == {k \in Nat : k \in 1 .. n => \E f \in [1 .. k -> Seq(S)] : Rec(f, k)}
  <1>1. 0 \in P
    OBVIOUS
  <1>2. ASSUME NEW k \in P
        PROVE  k + 1 \in P
    <2> SUFFICES ASSUME k + 1 \in 1 .. n
                 PROVE  \E f \in [1 .. k + 1 -> Seq(S)] : Rec(f, k + 1)
      OBVIOUS
    <2>1. CASE k = 0
      <3> DEFINE g == [i \in 1 .. k + 1 |-> ss[i]]
      <3>1. g \in [1 .. k + 1 -> Seq(S)]
        OBVIOUS
      <3>2. \A i \in 1 .. k + 1 : g[i] = IF i = 1 THEN ss[i] ELSE g[i - 1] \o ss[i]
        BY <2>1
      <3> HIDE DEF g
      <3> QED
        BY <3>1, <3>2
    <2>2. CASE k # 0
      <3>0. k \in Nat /\ k \in 1 .. n
        BY <2>2
      <3>1. PICK f \in [1 .. k -> Seq(S)] : Rec(f, k)
        BY <3>0
      <3> DEFINE g == [i \in 1 .. k + 1 |-> IF i <= k THEN f[i] ELSE f[k] \o ss[k + 1]]
      <3>2. /\ k \in 1 .. k /\ k + 1 \in 1 .. n /\ f[k] \in Seq(S) /\ ss[k + 1] \in Seq(S)
        BY <2>2
      <3>3. f[k] \o ss[k + 1] \in Seq(S)
        BY <3>2, ConcatProperties
      <3>4. \A i \in 1 .. k + 1 : i <= k => i \in 1 .. k
        OBVIOUS
      <3>5. g \in [1 .. k + 1 -> Seq(S)]
        BY <3>3, <3>4
      <3>6. ASSUME NEW i \in 1 .. k + 1
            PROVE  g[i] = IF i = 1 THEN ss[i] ELSE g[i - 1] \o ss[i]
        <4>1. CASE i <= k
          <5>1. i \in 1 .. k /\ (i # 1 => i - 1 \in 1 .. k + 1 /\ i - 1 <= k)
            BY <4>1
          <5> QED
            BY <3>1, <4>1, <5>1
        <4>2. CASE ~(i <= k)
          <5>1. i = k + 1 /\ i # 1 /\ i - 1 = k /\ k \in 1 .. k + 1 /\ k <= k
            BY <2>2, <4>2
          <5> QED
            BY <5>1
        <4> QED
          BY <4>1, <4>2
      <3> HIDE DEF g
      <3> QED
        BY <3>5, <3>6
    <2> QED
      BY <2>1, <2>2
  <1>3. P = Nat
    <2> HIDE DEF P
    <2>1. P \in SUBSET Nat
      BY DEF P
    <2> QED
      BY <1>1, <1>2, <2>1, SetInduction
  <1>4. PICK f \in [1 .. n -> Seq(S)] : Rec(f, n)
    <2>1. n \in P /\ n \in 1 .. n
      <3> HIDE DEF P
      <3> QED
        BY <1>3
    <2> QED
      BY <2>1
  <1>5. f = [i \in 1 .. n |-> IF i = 1 THEN ss[i] ELSE f[i - 1] \o ss[i]]
    BY <1>4
  <1> QED
    BY <1>5

\* What FlattenSeq returns has the elements of its parts and no others.
LEMMA FlattenIs ==
  ASSUME NEW S, NEW n \in Nat \ {0}, NEW ss \in [1 .. n -> Seq(S)]
  PROVE  /\ FlattenSeq(ss) \in Seq(S)
         /\ ToSet(FlattenSeq(ss)) = UNION {ToSet(ss[i]) : i \in 1 .. n}
  <1>0. \E f : f = [i \in 1 .. n |-> IF i = 1 THEN ss[i] ELSE f[i - 1] \o ss[i]]
    BY FlattenExists, ZenonT(60)
  <1> DEFINE F == CHOOSE f : f = [i \in 1 .. n |-> IF i = 1 THEN ss[i] ELSE f[i - 1] \o ss[i]]
  <1>1. Len(ss) = n
    BY LenProperties
  <1>2. FlattenSeq(ss) = F[n]
    BY <1>1 DEF FlattenSeq
  <1>3. F = [i \in 1 .. n |-> IF i = 1 THEN ss[i] ELSE F[i - 1] \o ss[i]]
    BY <1>0, ZenonT(60)
  <1> HIDE DEF F
  <1>4. \A i \in 1 .. n : F[i] = IF i = 1 THEN ss[i] ELSE F[i - 1] \o ss[i]
    BY <1>3
  <1> DEFINE Good(k) == /\ F[k] \in Seq(S)
                        /\ ToSet(F[k]) = UNION {ToSet(ss[i]) : i \in 1 .. k}
             P == {k \in Nat : k \in 1 .. n => Good(k)}
  <1>5. 0 \in P
    OBVIOUS
  <1>6. ASSUME NEW k \in P
        PROVE  k + 1 \in P
    <2> SUFFICES ASSUME k + 1 \in 1 .. n PROVE Good(k + 1)
      OBVIOUS
    <2>1. CASE k = 0
      <3>1. F[k + 1] = ss[k + 1] /\ 1 .. k + 1 = {k + 1} /\ ss[k + 1] \in Seq(S)
        BY <1>4, <2>1
      <3>2. UNION {ToSet(ss[i]) : i \in 1 .. k + 1} = ToSet(ss[k + 1])
        BY <3>1, Zenon
      <3> QED
        BY <3>1, <3>2
    <2>2. CASE k # 0
      <3>1. /\ k \in 1 .. n /\ k + 1 # 1 /\ (k + 1) - 1 = k /\ ss[k + 1] \in Seq(S)
            /\ 1 .. k + 1 = (1 .. k) \cup {k + 1}
        BY <2>2
      <3>2. F[k + 1] = F[k] \o ss[k + 1]
        BY <1>4, <3>1
      <3>3. Good(k)
        BY <3>1
      <3>4. F[k + 1] \in Seq(S) /\ ToSet(F[k + 1]) = ToSet(F[k]) \cup ToSet(ss[k + 1])
        BY <3>1, <3>2, <3>3, ToSetConcat
      <3>5. UNION {ToSet(ss[i]) : i \in 1 .. k + 1}
              = (UNION {ToSet(ss[i]) : i \in 1 .. k}) \cup ToSet(ss[k + 1])
        BY <3>1, Zenon
      <3> QED
        BY <3>3, <3>4, <3>5
    <2> QED
      BY <2>1, <2>2
  <1>7. P = Nat
    <2> HIDE DEF P
    <2>1. P \in SUBSET Nat
      BY DEF P
    <2> QED
      BY <1>5, <1>6, <2>1, SetInduction
  <1>8. Good(n)
    <2>1. n \in P /\ n \in 1 .. n
      <3> HIDE DEF P
      <3> QED
        BY <1>7
    <2> QED
      BY <2>1
  <1> QED
    BY <1>2, <1>8
\* What is left of a sequence without its first element, and what is in it with another
\* in front.
LEMMA TailIs ==
  ASSUME NEW S, NEW s \in Seq(S), s # <<>>
  PROVE  /\ Tail(s) \in Seq(S) /\ Head(s) \in S /\ Head(s) \in ToSet(s)
         /\ ToSet(s) \subseteq S
         /\ ToSet(s) = {Head(s)} \cup ToSet(Tail(s))
         /\ IF Len(s) > 1 THEN Tail(s) # <<>> ELSE ToSet(Tail(s)) = {}
  <1> DEFINE n == Len(s)
             t == Tail(s)
  <1>1. n \in Nat /\ n > 0 /\ DOMAIN s = 1 .. n /\ Head(s) = s[1] /\ s[1] \in S
    BY EmptySeq, LenProperties, ElementOfSeq
  <1>2. /\ t \in Seq(S) /\ Len(t) = n - 1
        /\ \A i \in 1 .. Len(t) : t[i] = s[i + 1]
    BY HeadTailProperties
  <1>3. DOMAIN t = 1 .. n - 1
    BY <1>2, LenProperties
  <1>4. ToSet(s) \subseteq S
    BY <1>1, ElementOfSeq DEF ToSet
  <1> HIDE DEF t, n
  <1>5. \A i \in 1 .. n - 1 : t[i] \in ToSet(s)
    <2>1. \A i \in 1 .. n - 1 : i + 1 \in DOMAIN s /\ t[i] = s[i + 1]
      BY <1>1, <1>2
    <2> QED
      BY <2>1 DEF ToSet
  <1>6. \A i \in 1 .. n : s[i] = Head(s) \/ s[i] \in ToSet(t)
    <2>1. ASSUME NEW i \in 1 .. n, i # 1
          PROVE  s[i] \in ToSet(t)
      <3>1. i - 1 \in DOMAIN t /\ t[i - 1] = s[i]
        BY <1>1, <1>2, <1>3, <2>1
      <3> QED
        BY <3>1 DEF ToSet
    <2> QED
      BY <1>1, <2>1
  <1>7. Head(s) \in ToSet(s)
    BY <1>1 DEF ToSet
  <1>8. ToSet(s) = {Head(s)} \cup ToSet(t)
    <2>1. ToSet(t) \subseteq ToSet(s)
      BY <1>3, <1>5 DEF ToSet
    <2>2. ToSet(s) \subseteq {Head(s)} \cup ToSet(t)
      BY <1>1, <1>6 DEF ToSet
    <2> QED
      BY <1>7, <2>1, <2>2
  <1>9. n > 1 => t # <<>>
    BY <1>1, <1>2, EmptySeq
  <1>10. ~(n > 1) => ToSet(t) = {}
    <2> SUFFICES ASSUME ~(n > 1) PROVE ToSet(t) = {}
      OBVIOUS
    <2>1. n - 1 = 0
      BY <1>1
    <2>2. DOMAIN t = {}
      BY <1>3, <2>1
    <2> QED
      BY <2>2 DEF ToSet
  <1> QED
    BY <1>1, <1>2, <1>4, <1>7, <1>8, <1>9, <1>10 DEF t, n

LEMMA ToSetOne ==
  ASSUME NEW x
  PROVE  ToSet(<<x>>) = {x} /\ <<x>> # <<>> /\ Head(<<x>>) = x
  BY DEF ToSet

LEMMA ConcatIs ==
  ASSUME NEW S, NEW a \in Seq(S), NEW b \in Seq(S)
  PROVE  /\ a \o b \in Seq(S)
         /\ Len(a \o b) = Len(a) + Len(b) /\ Len(a) \in Nat /\ Len(b) \in Nat
         /\ \A i \in 1 .. Len(a) : (a \o b)[i] = a[i]
         /\ \A i \in 1 .. Len(b) : (a \o b)[Len(a) + i] = b[i]
  <1> DEFINE c == a \o b
             m == Len(a)
             n == Len(b)
  <1>1. /\ c \in Seq(S) /\ Len(c) = m + n /\ m \in Nat /\ n \in Nat
        /\ \A i \in 1 .. m + n : c[i] = IF i <= m THEN a[i] ELSE b[i - m]
    BY ConcatProperties, LenProperties
  <1> HIDE DEF c, m, n
  <1>2. ASSUME NEW i \in 1 .. n
        PROVE  c[m + i] = b[i]
    <2>1. m + i \in 1 .. m + n /\ (m + i) - m = i /\ ~(m + i <= m)
      BY <1>1
    <2> QED
      BY <1>1, <2>1
  <1>3. ASSUME NEW i \in 1 .. m
        PROVE  c[i] = a[i]
    <2>1. i \in 1 .. m + n /\ i <= m
      BY <1>1
    <2> QED
      BY <1>1, <2>1
  <1> QED
    BY <1>1, <1>2, <1>3 DEF c, m, n

LEMMA ToSetFront ==
  ASSUME NEW S, NEW x \in S, NEW t \in Seq(S)
  PROVE  /\ <<x>> \o t \in Seq(S) /\ <<x>> \o t # <<>> /\ Head(<<x>> \o t) = x
         /\ ToSet(<<x>> \o t) = {x} \cup ToSet(t)
  <1> DEFINE b == <<x>>
             u == b \o t
  <1>1. b \in Seq(S) /\ Len(b) = 1 /\ b[1] = x /\ ToSet(b) = {x}
    BY ToSetOne
  <1> HIDE DEF b
  <1>2. u \in Seq(S) /\ Len(u) = 1 + Len(t) /\ u[1] = b[1]
    <2>1. /\ u \in Seq(S) /\ Len(u) = Len(b) + Len(t)
          /\ \A i \in 1 .. Len(b) : u[i] = b[i]
      BY <1>1, ConcatIs
    <2>2. 1 \in 1 .. Len(b)
      BY <1>1
    <2> QED
      BY <1>1, <2>1, <2>2
  <1>3. ToSet(u) = {x} \cup ToSet(t)
    BY <1>1, ToSetConcat
  <1>4. Len(t) \in Nat
    BY LenProperties
  <1> HIDE DEF u
  <1>5. u # <<>> /\ Head(u) = u[1]
    BY <1>2, <1>4, EmptySeq, HeadTailProperties
  <1> QED
    BY <1>1, <1>2, <1>3, <1>5 DEF u, b

LEMMA ToSetAppend ==
  ASSUME NEW S, NEW s \in Seq(S), NEW x \in S
  PROVE  /\ Append(s, x) \in Seq(S) /\ Len(Append(s, x)) = Len(s) + 1 /\ Len(s) \in Nat
         /\ \A i \in 1 .. Len(s) : Append(s, x)[i] = s[i]
         /\ Append(s, x)[Len(s) + 1] = x
         /\ ToSet(Append(s, x)) = ToSet(s) \cup {x}
  <1> DEFINE n == Len(s)
             a == Append(s, x)
  <1>1. /\ a \in Seq(S) /\ Len(a) = n + 1 /\ n \in Nat /\ DOMAIN s = 1 .. n
        /\ \A i \in 1 .. n : a[i] = s[i]
        /\ a[n + 1] = x
    BY AppendProperties, LenProperties
  <1>2. DOMAIN a = 1 .. n + 1
    BY <1>1, LenProperties
  <1> HIDE DEF n, a
  <1>3. ToSet(a) \subseteq ToSet(s) \cup {x}
    <2>1. \A i \in 1 .. n + 1 : i \in 1 .. n \/ i = n + 1
      BY <1>1
    <2> QED
      BY <1>1, <1>2, <2>1 DEF ToSet
  <1>4. ToSet(s) \cup {x} \subseteq ToSet(a)
    <2>1. 1 .. n \subseteq 1 .. n + 1 /\ n + 1 \in 1 .. n + 1
      BY <1>1
    <2> QED
      BY <1>1, <1>2, <2>1 DEF ToSet
  <1> QED
    BY <1>1, <1>3, <1>4 DEF n, a

-----------------------------------------------------------------------------
(* The pipelines *)

StepNames == {"preflight", "secrets", "db", "provision", "projections", "agent-notes", "memory",
              "cairn", "acb", "agent-wake", "user", "spec", "enrol", "sign", "wire", "lock",
              "doctor"}
Singles == {"acb", "agent-wake", "agent-notes", "cairn"}
Wirings == Singles \cup {"wire"}
Provisionings == {"provision", "enrol"}

\* The order of a plan, as far as it matters: `has` says what has been ended before step k.
Earlier(p, k, steps) == \E j \in 1 .. k - 1 : p[j] \in steps
Ordered(p) ==
    /\ p \in Seq(StepNames) /\ Len(p) > 0
    /\ \A k \in 1 .. Len(p) :
          /\ p[k] \in Wirings \cup {"sign", "lock"} => Earlier(p, k, Provisionings)
          /\ p[k] = "wire" => k > 1 /\ p[k - 1] = "sign"
          /\ p[k] = "lock" => /\ Earlier(p, k, {"provision"})
                              /\ Earlier(p, k, {"agent-notes"}) /\ Earlier(p, k, {"cairn"})
          /\ p[k] = "sign" => /\ k > 1 /\ p[k - 1] = "enrol"
                              /\ k < Len(p) /\ p[k + 1] = "wire"

Optional == {"acb", "agent-wake", "user"}
\* _steps_for_tier in its order: seven steps, then what depends on the tier.
CoreLike(p) ==
    /\ p \in Seq(StepNames) /\ Len(p) \in Nat /\ Len(p) >= 7
    /\ p[1] = "secrets" /\ p[2] = "db" /\ p[3] = "provision" /\ p[4] = "projections"
    /\ p[5] = "agent-notes" /\ p[6] = "memory" /\ p[7] = "cairn"
    /\ \A k \in 8 .. Len(p) : p[k] \in Optional

LEMMA CoreIs ==
  ASSUME NEW q \in Request
  PROVE  CoreLike(Core(q))
  <1> DEFINE a == <<"secrets", "db", "provision", "projections", "agent-notes", "memory", "cairn">>
             b == IF q.all THEN <<"acb", "agent-wake">> ELSE <<>>
             e == <<"user">>
             ab == a \o b
  <1>1. /\ a \in Seq(StepNames) /\ Len(a) = 7
        /\ a[1] = "secrets" /\ a[2] = "db" /\ a[3] = "provision" /\ a[4] = "projections"
        /\ a[5] = "agent-notes" /\ a[6] = "memory" /\ a[7] = "cairn"
    BY DEF StepNames
  <1>2. PICK n \in Nat : b \in Seq(StepNames) /\ Len(b) = n /\ \A i \in 1 .. n : b[i] \in Optional
    <2>1. CASE q.all
      <3>1. b = <<"acb", "agent-wake">>
        BY <2>1
      <3> HIDE DEF b
      <3>2. b \in Seq(StepNames) /\ Len(b) = 2 /\ \A i \in 1 .. 2 : b[i] \in Optional
        BY <3>1 DEF StepNames, Optional
      <3> QED
        BY <3>2
    <2>2. CASE ~q.all
      <3>1. b = <<>>
        BY <2>2
      <3>2. b \in Seq(StepNames) /\ Len(b) = 0
        BY <3>1, EmptySeq
      <3> HIDE DEF b
      <3>3. \A i \in 1 .. 0 : b[i] \in Optional
        OBVIOUS
      <3> QED
        BY <3>2, <3>3
    <2> QED
      BY <2>1, <2>2
  <1>3. e \in Seq(StepNames) /\ Len(e) = 1 /\ \A i \in 1 .. 1 : e[i] \in Optional
    BY DEF StepNames, Optional
  <1>4. Core(q) = ab \o e
    BY DEF Core
  <1> HIDE DEF a, b, e
  <1>5. /\ ab \in Seq(StepNames) /\ Len(ab) = 7 + n
        /\ \A i \in 1 .. 7 : ab[i] = a[i]
        /\ \A i \in 1 .. n : ab[7 + i] = b[i]
    <2>0. a \in Seq(StepNames) /\ b \in Seq(StepNames)
      BY <1>1, <1>2
    <2>1. /\ ab \in Seq(StepNames) /\ Len(ab) = Len(a) + Len(b)
          /\ \A i \in 1 .. Len(a) : ab[i] = a[i]
          /\ \A i \in 1 .. Len(b) : ab[Len(a) + i] = b[i]
      BY <2>0, ConcatIs
    <2> HIDE DEF ab
    <2> QED
      BY <1>1, <1>2, <2>1
  <1> HIDE DEF ab
  <1> DEFINE p == ab \o e
             m == 7 + n
  <1>6. m \in Nat /\ m >= 7
    OBVIOUS
  <1>7. /\ p \in Seq(StepNames) /\ Len(p) = m + 1
        /\ \A i \in 1 .. m : p[i] = ab[i]
        /\ \A i \in 1 .. 1 : p[m + i] = e[i]
    <2>0. ab \in Seq(StepNames) /\ e \in Seq(StepNames)
      BY <1>3, <1>5
    <2>1. /\ p \in Seq(StepNames) /\ Len(p) = Len(ab) + Len(e)
          /\ \A i \in 1 .. Len(ab) : p[i] = ab[i]
          /\ \A i \in 1 .. Len(e) : p[Len(ab) + i] = e[i]
      BY <2>0, ConcatIs
    <2> HIDE DEF p
    <2> QED
      BY <1>3, <1>5, <1>6, <2>1
  <1> HIDE DEF p
  <1>8. \A i \in 1 .. 7 : p[i] = a[i]
    BY <1>5, <1>7
  <1>9. ASSUME NEW k \in 8 .. m + 1
        PROVE  p[k] \in Optional
    <2>1. CASE k = m + 1
      BY <1>3, <1>7, <2>1
    <2>2. CASE k # m + 1
      <3>1. k - 7 \in 1 .. n /\ 7 + (k - 7) = k /\ k \in 1 .. m
        BY <2>2
      <3> QED
        BY <1>2, <1>5, <1>7, <3>1
    <2> QED
      BY <2>1, <2>2
  <1>10. CoreLike(p)
    BY <1>1, <1>6, <1>7, <1>8, <1>9 DEF CoreLike
  <1> QED
    BY <1>4, <1>10 DEF p

LEMMA CoreNames ==
  ASSUME NEW p, CoreLike(p), NEW k \in 1 .. Len(p)
  PROVE  /\ p[k] \notin {"wire", "lock", "sign"}
         /\ p[k] \in Wirings => k >= 5
  <1>1. Len(p) \in Nat /\ Len(p) >= 7
    BY DEF CoreLike
  <1>2. /\ k < 5 => p[k] \in {"secrets", "db", "provision", "projections"}
        /\ k >= 5 => p[k] \in Optional \cup {"agent-notes", "memory", "cairn"}
    <2>1. k \in {1, 2, 3, 4, 5, 6, 7} \/ k \in 8 .. Len(p)
      BY <1>1
    <2> QED
      BY <2>1 DEF CoreLike
  <1> QED
    BY <1>2 DEF Optional, Wirings, Singles

LEMMA CoreOrdered ==
  ASSUME NEW p, CoreLike(p)
  PROVE  Ordered(p)
  <1>1. p \in Seq(StepNames) /\ Len(p) \in Nat /\ Len(p) >= 7
    BY DEF CoreLike
  <1>3. p[3] \in Provisionings
    BY DEF CoreLike, Provisionings
  <1>4. ASSUME NEW k \in 1 .. Len(p)
        PROVE  /\ p[k] \notin {"wire", "lock", "sign"}
               /\ p[k] \in Wirings => k >= 5
    BY CoreNames
  <1>5. \A k \in 1 .. Len(p) : p[k] \in Wirings => Earlier(p, k, Provisionings)
    BY <1>3, <1>4 DEF Earlier
  <1> QED
    BY <1>1, <1>4, <1>5 DEF Ordered
LEMMA OnboardIs ==
  /\ Onboard \in Seq(StepNames) /\ Len(Onboard) = 4
  /\ Onboard[1] = "spec" /\ Onboard[2] = "enrol" /\ Onboard[3] = "sign" /\ Onboard[4] = "wire"
  BY DEF Onboard, StepNames

LEMMA OnboardOrdered == Ordered(Onboard)
  <1>1. Onboard[2] \in Provisionings
    BY OnboardIs DEF Provisionings
  <1>2. \A k \in 1 .. 4 : k = 1 \/ k = 2 \/ k = 3 \/ k = 4
    OBVIOUS
  <1>3. \A k \in 1 .. 4 : Onboard[k] \in Wirings \cup {"sign", "lock"}
                            => Earlier(Onboard, k, Provisionings)
    BY <1>1, <1>2, OnboardIs DEF Earlier, Wirings, Singles
  <1> QED
    BY <1>2, <1>3, OnboardIs DEF Ordered

LEMMA DeployOrdered ==
  ASSUME NEW K, CoreLike(K), NEW o \in Seq(StepNames), o = Onboard \/ Len(o) = 0
  PROVE  Ordered(<<"preflight">> \o K \o o \o <<"lock", "doctor">>)
  <1> DEFINE h == <<"preflight">>
             e == <<"lock", "doctor">>
             a == h \o K
             b == a \o o
             p == b \o e
             m == Len(K)
             n == Len(o)
  <1>0. n \in {0, 4} /\ (n = 4 => o = Onboard)
    BY OnboardIs
  <1>1. h \in Seq(StepNames) /\ Len(h) = 1 /\ h[1] = "preflight"
    BY DEF StepNames
  <1>2. e \in Seq(StepNames) /\ Len(e) = 2 /\ e[1] = "lock" /\ e[2] = "doctor"
    BY DEF StepNames
  <1>3. K \in Seq(StepNames) /\ m \in Nat /\ m >= 7
    BY DEF CoreLike
  <1> HIDE DEF h, e, m, n
  <1>4. /\ a \in Seq(StepNames) /\ Len(a) = 1 + m
        /\ \A i \in 1 .. 1 : a[i] = h[i]
        /\ \A i \in 1 .. m : a[1 + i] = K[i]
    <2>0. h \in Seq(StepNames) /\ K \in Seq(StepNames)
      BY <1>1, <1>3
    <2>1. /\ a \in Seq(StepNames) /\ Len(a) = Len(h) + Len(K)
          /\ \A i \in 1 .. Len(h) : a[i] = h[i]
          /\ \A i \in 1 .. Len(K) : a[Len(h) + i] = K[i]
      BY <2>0, ConcatIs DEF m, n
    <2> HIDE DEF a
    <2> QED
      BY <1>1, <2>1 DEF m
  <1> HIDE DEF a
  <1>5. /\ b \in Seq(StepNames) /\ Len(b) = 1 + m + n
        /\ \A i \in 1 .. 1 + m : b[i] = a[i]
        /\ \A i \in 1 .. n : b[1 + m + i] = o[i]
    <2>0. a \in Seq(StepNames) /\ o \in Seq(StepNames)
      BY <1>4
    <2>1. /\ b \in Seq(StepNames) /\ Len(b) = Len(a) + Len(o)
          /\ \A i \in 1 .. Len(a) : b[i] = a[i]
          /\ \A i \in 1 .. Len(o) : b[Len(a) + i] = o[i]
      BY <2>0, ConcatIs DEF m, n
    <2> HIDE DEF b
    <2> QED
      BY <1>4, <2>1 DEF n
  <1> HIDE DEF b
  <1>6. /\ p \in Seq(StepNames) /\ Len(p) = 1 + m + n + 2
        /\ \A i \in 1 .. 1 + m + n : p[i] = b[i]
        /\ \A i \in 1 .. 2 : p[1 + m + n + i] = e[i]
    <2>0. b \in Seq(StepNames) /\ e \in Seq(StepNames)
      BY <1>2, <1>5
    <2>1. /\ p \in Seq(StepNames) /\ Len(p) = Len(b) + Len(e)
          /\ \A i \in 1 .. Len(b) : p[i] = b[i]
          /\ \A i \in 1 .. Len(e) : p[Len(b) + i] = e[i]
      BY <2>0, ConcatIs DEF m, n
    <2> HIDE DEF p
    <2> QED
      BY <1>2, <1>5, <2>1
  <1> HIDE DEF p
  <1>7. n \in Nat
    BY <1>0
  <1>8. p[1] = "preflight"
    BY <1>1, <1>3, <1>4, <1>5, <1>6, <1>7
  <1>9. \A i \in 1 .. m : p[1 + i] = K[i]
    <2>1. \A i \in 1 .. m : 1 + i \in 1 .. 1 + m /\ 1 + i \in 1 .. 1 + m + n
      BY <1>3, <1>7
    <2> QED
      BY <1>4, <1>5, <1>6, <2>1
  <1>10. \A i \in 1 .. n : p[1 + m + i] = o[i]
    <2>1. \A i \in 1 .. n : 1 + m + i \in 1 .. 1 + m + n
      BY <1>3, <1>7
    <2> QED
      BY <1>5, <1>6, <2>1
  <1>11. p[1 + m + n + 1] = "lock" /\ p[1 + m + n + 2] = "doctor"
    BY <1>2, <1>6
  <1>12. ASSUME NEW k \in 1 .. Len(p)
         PROVE  \/ k = 1 /\ p[k] = "preflight"
                \/ k \in 2 .. 1 + m /\ k - 1 \in 1 .. m /\ p[k] = K[k - 1]
                \/ n = 4 /\ k = 1 + m + 1 /\ p[k] = "spec"
                \/ n = 4 /\ k = 1 + m + 2 /\ p[k] = "enrol"
                \/ n = 4 /\ k = 1 + m + 3 /\ p[k] = "sign"
                \/ n = 4 /\ k = 1 + m + 4 /\ p[k] = "wire"
                \/ k = 1 + m + n + 1 /\ p[k] = "lock"
                \/ k = 1 + m + n + 2 /\ p[k] = "doctor"
    <2>1. CASE k = 1
      BY <1>8, <2>1
    <2>2. CASE k \in 2 .. 1 + m
      <3>1. k - 1 \in 1 .. m /\ 1 + (k - 1) = k
        BY <1>3, <2>2
      <3> QED
        BY <1>9, <2>2, <3>1
    <2>3. CASE k > 1 + m /\ k <= 1 + m + n
      <3>1. n = 4 /\ k - (1 + m) \in 1 .. 4 /\ 1 + m + (k - (1 + m)) = k
        BY <1>0, <1>3, <1>6, <1>7, <2>3
      <3>2. p[k] = Onboard[k - (1 + m)]
        BY <1>0, <1>10, <3>1
      <3>3. \/ k = 1 + m + 1 /\ k - (1 + m) = 1
            \/ k = 1 + m + 2 /\ k - (1 + m) = 2
            \/ k = 1 + m + 3 /\ k - (1 + m) = 3
            \/ k = 1 + m + 4 /\ k - (1 + m) = 4
        BY <1>3, <3>1
      <3> QED
        BY <3>1, <3>2, <3>3, OnboardIs
    <2>4. CASE k > 1 + m + n
      <3>0. m \in Nat /\ n \in Nat /\ k \in Nat /\ k <= 1 + m + n + 2
        BY <1>3, <1>6, <1>7
      <3>1. k = 1 + m + n + 1 \/ k = 1 + m + n + 2
        BY <2>4, <3>0
      <3> QED
        BY <1>11, <3>1
    <2> QED
      BY <1>3, <1>6, <1>7, <2>1, <2>2, <2>3, <2>4
  <1>13. p[4] = "provision" /\ p[6] = "agent-notes" /\ p[8] = "cairn"
    <2>1. 3 \in 1 .. m /\ 5 \in 1 .. m /\ 7 \in 1 .. m
      BY <1>3
    <2>2. p[1 + 3] = K[3] /\ p[1 + 5] = K[5] /\ p[1 + 7] = K[7]
      BY <1>9, <2>1
    <2> QED
      BY <2>2 DEF CoreLike
  <1>14. ASSUME NEW k \in 1 .. Len(p), p[k] \in Wirings \cup {"sign", "lock"}
         PROVE  k >= 6
    <2>1. CASE k \in 2 .. 1 + m /\ k - 1 \in 1 .. m /\ p[k] = K[k - 1]
      BY <1>3, <1>14, <2>1, CoreNames DEF m
    <2>2. CASE k >= 1 + m + 1
      BY <1>3, <2>2
    <2> QED
      BY <1>3, <1>7, <1>12, <1>14, <2>1, <2>2 DEF Wirings, Singles
  <1>15. ASSUME NEW k \in 1 .. Len(p), p[k] \in Wirings \cup {"sign", "lock"}
         PROVE  Earlier(p, k, Provisionings)
    <2>1. 4 \in 1 .. k - 1
      BY <1>14, <1>15
    <2> QED
      BY <1>13, <2>1 DEF Earlier, Provisionings
  <1>16. ASSUME NEW k \in 1 .. Len(p), p[k] \in {"wire", "sign", "lock"}
         PROVE  /\ p[k] = "wire" => n = 4 /\ k = 1 + m + 4
                /\ p[k] = "sign" => n = 4 /\ k = 1 + m + 3
                /\ p[k] = "lock" => k = 1 + m + n + 1
    <2>1. ~(k \in 2 .. 1 + m /\ k - 1 \in 1 .. m /\ p[k] = K[k - 1])
      BY <1>16, CoreNames DEF m
    <2> QED
      BY <1>12, <1>16, <2>1
  <1>17. ASSUME NEW k \in 1 .. Len(p), p[k] = "wire"
         PROVE  k > 1 /\ p[k - 1] = "sign"
    <2>1. n = 4 /\ k - 1 = 1 + m + 3 /\ k > 1 /\ 3 \in 1 .. n
      BY <1>3, <1>16, <1>17
    <2> QED
      BY <1>0, <1>10, <2>1, OnboardIs
  <1>18. ASSUME NEW k \in 1 .. Len(p), p[k] = "sign"
         PROVE  k > 1 /\ p[k - 1] = "enrol" /\ k < Len(p) /\ p[k + 1] = "wire"
    <2>1. /\ n = 4 /\ k - 1 = 1 + m + 2 /\ k > 1 /\ 2 \in 1 .. n
          /\ k + 1 = 1 + m + 4 /\ 4 \in 1 .. n
      BY <1>3, <1>16, <1>18
    <2>2. k < Len(p)
      BY <1>3, <1>6, <1>16, <1>18, <2>1
    <2> QED
      BY <1>0, <1>10, <2>1, <2>2, OnboardIs
  <1>19. ASSUME NEW k \in 1 .. Len(p), p[k] = "lock"
         PROVE  /\ Earlier(p, k, {"provision"})
                /\ Earlier(p, k, {"agent-notes"}) /\ Earlier(p, k, {"cairn"})
    <2>1. 4 \in 1 .. k - 1 /\ 6 \in 1 .. k - 1 /\ 8 \in 1 .. k - 1
      BY <1>3, <1>7, <1>16, <1>19
    <2> QED
      BY <1>13, <2>1 DEF Earlier
  <1>20. Ordered(p)
    BY <1>3, <1>6, <1>7, <1>15, <1>17, <1>18, <1>19 DEF Ordered
  <1> QED
    BY <1>20 DEF p, b, a, h, e

\* Every plan is in order: nothing is wired, signed or locked before it is provisioned,
\* and the harnesses of an onboarding come right after the signature.
LEMMA PlanOrdered ==
  ASSUME NEW q \in Request
  PROVE  Ordered(Plan(q))
  <1>1. CASE q.kind = "bootstrap"
    BY <1>1, CoreIs, CoreOrdered DEF Plan
  <1>2. CASE q.kind = "onboard"
    BY <1>2, OnboardOrdered DEF Plan
  <1>3. CASE q.kind = "deploy"
    <2> DEFINE o == IF q.onboarding THEN Onboard ELSE <<>>
    <2>1. Plan(q) = <<"preflight">> \o Core(q) \o o \o <<"lock", "doctor">>
      BY <1>3 DEF Plan
    <2>2. CASE q.onboarding
      <3>1. o = Onboard /\ 4 \in {0, 4}
        BY <2>2
      <3> HIDE DEF o
      <3> QED
        BY <2>1, <3>1, CoreIs, OnboardIs, DeployOrdered
    <2>3. CASE ~q.onboarding
      <3>1. o = <<>> /\ 0 \in {0, 4}
        BY <2>3
      <3>2. o \in Seq(StepNames) /\ Len(o) = 0
        BY <3>1, EmptySeq
      <3> HIDE DEF o
      <3> QED
        BY <2>1, <3>1, <3>2, CoreIs, DeployOrdered
    <2> QED
      BY <2>2, <2>3
  <1> QED
    BY <1>1, <1>2, <1>3 DEF Request
-----------------------------------------------------------------------------
(* The programs a step runs *)

Dos == {"look", "ask", "project", "principal", "reuse", "check", "migrate", "recheck", "wire",
        "events", "sign"}
Identities == {"principal", "reuse"}
Places == Slugs \cup ToSet(Targets) \cup {"-"}
Program == [do : Dos, cli : Clis, on : Places]

\* What a step that is done leaves behind for good: projects that exist and know their
\* principal, harnesses that are wired, a spec that is signed.
Sought(s) == IF s = "provision" THEN Slugs ELSE IF s = "enrol" THEN {Main} ELSE {}
Harnessed(s) ==
    IF s = "wire" THEN {"agent-notes", "cairn"} ELSE IF s \in Singles THEN {s} ELSE {}
Pairs(s) == Harnessed(s) \X ToSet(Targets)

\* The programs that have a place in a step.
Suits(s, q, x) ==
    /\ x.do \in {"project"} \cup Identities <=> s \in Provisionings
    /\ s \in Provisionings => x.on \in Slugs
    /\ x.do = "wire" <=> s \in Wirings
    /\ s \in Wirings => x.on \in ToSet(Targets)
    /\ x.do \in {"check", "migrate", "recheck"} <=> s = "projections"
    /\ x.do \in {"events", "sign"} <=> s = "sign" /\ q.spec
    /\ s = "lock" \/ (s = "sign" /\ ~q.spec) => x.do = "look"
    /\ x.cli \in Plumbing => s \in Plumbing

\* What a step still has to do has a program that will do it.
Creates(t, p) == \E x \in ToSet(t) : x.do = "project" /\ x.on = p
Knows(t, p) == \E x \in ToSet(t) : x.do \in Identities /\ x.on = p
Installs(t, pair) == \E x \in ToSet(t) : x.do = "wire" /\ <<x.cli, x.on>> = pair

Complete(s, q, t) ==
    /\ t \in Seq(Program) /\ t # <<>>
    /\ \A x \in ToSet(t) : Suits(s, q, x) /\ x.do # "sign"
    /\ \A p \in Sought(s) : Creates(t, p) /\ Knows(t, p)
    /\ \A pair \in Pairs(s) : Installs(t, pair)

LEMMA MainIs == Main \in Slugs /\ ToSet(<<Main>>) = {Main} /\ <<Main>> \in Seq(Slugs)
  BY DeployAssumption, TailIs, ToSetOne DEF Main, Slugs

LEMMA ProgramIs ==
  ASSUME NEW do \in Dos, NEW cli \in Clis, NEW on \in Places
  PROVE  /\ C(do, cli, on) \in Program
         /\ C(do, cli, on).do = do /\ C(do, cli, on).cli = cli /\ C(do, cli, on).on = on
  BY DEF C, Program

LEMMA OneProgram ==
  ASSUME NEW q \in Request, NEW s \in StepNames, NEW do \in Dos \ {"sign"}, NEW cli \in Clis,
         Suits(s, q, C(do, cli, "-")), Sought(s) = {}, Pairs(s) = {}
  PROVE  Complete(s, q, <<C(do, cli, "-")>>)
  <1> DEFINE x == C(do, cli, "-")
             t == <<x>>
  <1>1. x \in Program /\ x.do = do
    BY ProgramIs DEF Places
  <1> HIDE DEF x
  <1>2. ToSet(t) = {x} /\ t # <<>> /\ t \in Seq(Program)
    BY <1>1, ToSetOne
  <1> HIDE DEF t
  <1>3. Complete(s, q, t)
    BY <1>1, <1>2 DEF Complete, x
  <1> QED
    BY <1>3 DEF t, x

LEMMA ProvisioningIs ==
  ASSUME NEW z \in Seq(Slugs), z # <<>>
  PROVE  /\ Provisioning(z) \in Seq(Program) /\ Provisioning(z) # <<>>
         /\ \A x \in ToSet(Provisioning(z)) :
               x.do \in {"project", "principal"} /\ x.cli = "regista" /\ x.on \in Slugs
         /\ \A p \in ToSet(z) : Creates(Provisioning(z), p) /\ Knows(Provisioning(z), p)
  <1> DEFINE n == Len(z)
             a(p) == C("project", "regista", p)
             b(p) == C("principal", "regista", p)
             ss == [i \in DOMAIN z |-> <<a(z[i]), b(z[i])>>]
             t == Provisioning(z)
  <1>1. n \in Nat \ {0} /\ DOMAIN z = 1 .. n /\ \A i \in 1 .. n : z[i] \in Slugs
    BY EmptySeq, LenProperties, ElementOfSeq
  <1>2. ASSUME NEW p \in Slugs
        PROVE  /\ a(p) \in Program /\ b(p) \in Program
               /\ a(p).do = "project" /\ a(p).cli = "regista" /\ a(p).on = p
               /\ b(p).do = "principal" /\ b(p).cli = "regista" /\ b(p).on = p
    BY ProgramIs DEF Dos, Clis, Places
  <1>3. t = FlattenSeq(ss)
    BY DEF Provisioning
  <1> HIDE DEF n, a, b, t
  <1>4. ASSUME NEW i \in 1 .. n
        PROVE  /\ ss[i] \in Seq(Program) /\ ToSet(ss[i]) = {a(z[i]), b(z[i])}
    <2>1. ss[i] = <<a(z[i]), b(z[i])>>
      BY <1>1
    <2> HIDE DEF ss
    <2>2. a(z[i]) \in Program /\ b(z[i]) \in Program
      BY <1>1, <1>2
    <2> QED
      BY <2>1, <2>2 DEF ToSet
  <1>5. ss \in [1 .. n -> Seq(Program)]
    BY <1>1, <1>4
  <1> HIDE DEF ss
  <1>6. t \in Seq(Program) /\ ToSet(t) = UNION {ToSet(ss[i]) : i \in 1 .. n}
    BY <1>1, <1>3, <1>5, FlattenIs
  <1>7. ASSUME NEW i \in 1 .. n
        PROVE  a(z[i]) \in ToSet(t) /\ b(z[i]) \in ToSet(t)
    <2>1. ToSet(ss[i]) \subseteq ToSet(t)
      BY <1>6, Zenon
    <2> QED
      BY <1>4, <2>1
  <1>8. ASSUME NEW x \in ToSet(t)
        PROVE  x.do \in {"project", "principal"} /\ x.cli = "regista" /\ x.on \in Slugs
    <2>1. PICK i \in 1 .. n : x \in ToSet(ss[i])
      BY <1>6
    <2>2. x = a(z[i]) \/ x = b(z[i])
      BY <1>4, <2>1
    <2> QED
      BY <1>1, <1>2, <2>2
  <1>9. ASSUME NEW p \in ToSet(z)
        PROVE  Creates(t, p) /\ Knows(t, p)
    <2>1. PICK i \in 1 .. n : p = z[i]
      BY <1>1 DEF ToSet
    <2> QED
      BY <1>1, <1>2, <1>7, <2>1 DEF Creates, Knows, Identities
  <1>10. t # <<>>
    <2>1. 1 \in 1 .. n
      BY <1>1
    <2>2. ToSet(t) # {}
      BY <1>7, <2>1
    <2>3. ToSet(<<>>) = {}
      BY DEF ToSet
    <2> QED
      BY <2>2, <2>3
  <1> QED
    BY <1>6, <1>8, <1>9, <1>10 DEF t

LEMMA WiringIs ==
  ASSUME NEW cli \in Clis
  PROVE  /\ Wiring(cli) \in Seq(Program)
         /\ \A x \in ToSet(Wiring(cli)) :
               x.do = "wire" /\ x.cli = cli /\ x.on \in ToSet(Targets)
         /\ \A m \in ToSet(Targets) : \E x \in ToSet(Wiring(cli)) :
               x.do = "wire" /\ x.cli = cli /\ x.on = m
         /\ ToSet(Wiring(cli)) # {}
  <1> DEFINE n == Len(Targets)
             a(m) == C("wire", cli, m)
             t == Wiring(cli)
  <1>1. n \in Nat \ {0} /\ DOMAIN Targets = 1 .. n /\ \A i \in 1 .. n : Targets[i] \in ToSet(Targets)
    BY DeployAssumption, EmptySeq, LenProperties, ElementOfSeq
  <1>2. ASSUME NEW m \in ToSet(Targets)
        PROVE  a(m) \in Program /\ a(m).do = "wire" /\ a(m).cli = cli /\ a(m).on = m
    BY ProgramIs DEF Dos, Places
  <1>3. t = [i \in 1 .. n |-> a(Targets[i])]
    BY <1>1 DEF Wiring
  <1> HIDE DEF n, a, t
  <1>4. t \in Seq(Program) /\ DOMAIN t = 1 .. n /\ \A i \in 1 .. n : t[i] = a(Targets[i])
    BY <1>1, <1>2, <1>3
  <1>5. \A i \in 1 .. n : a(Targets[i]) \in ToSet(t)
    BY <1>4 DEF ToSet
  <1>6. ASSUME NEW x \in ToSet(t)
        PROVE  x.do = "wire" /\ x.cli = cli /\ x.on \in ToSet(Targets)
    BY <1>1, <1>2, <1>4 DEF ToSet
  <1>7. ASSUME NEW m \in ToSet(Targets)
        PROVE  \E x \in ToSet(t) : x.do = "wire" /\ x.cli = cli /\ x.on = m
    <2>1. PICK i \in 1 .. n : m = Targets[i]
      BY <1>1 DEF ToSet
    <2> QED
      BY <1>1, <1>2, <1>5, <2>1
  <1>8. 1 \in 1 .. n
    BY <1>1
  <1> QED
    BY <1>4, <1>5, <1>6, <1>7, <1>8 DEF t

LEMMA FacesAre == ToSet(Faces) = {"agent-notes", "cairn"}
  BY DEF ToSet, Faces

LEMMA HarnessesComplete ==
  ASSUME NEW q \in Request, NEW s \in Singles
  PROVE  Complete(s, q, Wiring(s))
  <1>1. s \in Clis
    BY DEF Singles, Clis, Plumbing
  <1> DEFINE t == Wiring(s)
  <1>2. /\ t \in Seq(Program) /\ ToSet(t) # {}
        /\ \A x \in ToSet(t) : x.do = "wire" /\ x.cli = s /\ x.on \in ToSet(Targets)
        /\ \A m \in ToSet(Targets) : \E x \in ToSet(t) : x.do = "wire" /\ x.cli = s /\ x.on = m
    BY <1>1, WiringIs
  <1>3. ToSet(<<>>) = {}
    BY DEF ToSet
  <1> HIDE DEF t
  <1>4. Harnessed(s) = {s} /\ Sought(s) = {} /\ s \in Wirings /\ s \notin Provisionings
        /\ s # "sign" /\ s # "projections" /\ s # "lock"
    BY DEF Harnessed, Sought, Singles, Wirings, Provisionings
  <1>5. \A x \in ToSet(t) : Suits(s, q, x) /\ x.do # "sign"
    BY <1>2, <1>4 DEF Suits, Identities, Plumbing
  <1>6. ASSUME NEW pair \in Pairs(s)
        PROVE  Installs(t, pair)
    <2>1. PICK m \in ToSet(Targets) : pair = <<s, m>>
      BY <1>4, <1>6 DEF Pairs
    <2> QED
      BY <1>2, <2>1 DEF Installs
  <1> QED
    BY <1>2, <1>3, <1>4, <1>5, <1>6 DEF Complete, t

LEMMA WireComplete ==
  ASSUME NEW q \in Request
  PROVE  Complete("wire", q, FlattenSeq([i \in 1 .. 2 |-> Wiring(Faces[i])]))
  <1> DEFINE ss == [i \in 1 .. 2 |-> Wiring(Faces[i])]
             t == FlattenSeq(ss)
  <1>1. Faces[1] = "agent-notes" /\ Faces[2] = "cairn"
    BY DEF Faces
  <1>2. "agent-notes" \in Clis /\ "cairn" \in Clis
    BY DEF Clis
  <1>3. ss[1] = Wiring("agent-notes") /\ ss[2] = Wiring("cairn")
    BY <1>1
  <1>4. ss \in [1 .. 2 -> Seq(Program)]
    <2>1. \A i \in 1 .. 2 : i = 1 \/ i = 2
      OBVIOUS
    <2>2. \A i \in 1 .. 2 : Faces[i] \in Clis
      BY <1>1, <1>2, <2>1
    <2> QED
      BY <2>2, WiringIs
  <1> HIDE DEF ss
  <1>5. t \in Seq(Program) /\ ToSet(t) = UNION {ToSet(ss[i]) : i \in 1 .. 2}
    <2>1. 2 \in Nat \ {0}
      OBVIOUS
    <2> QED
      BY <1>4, <2>1, FlattenIs
  <1> HIDE DEF t
  <1>6. ToSet(t) = ToSet(ss[1]) \cup ToSet(ss[2])
    <2>1. 1 .. 2 = {1, 2}
      OBVIOUS
    <2>2. UNION {ToSet(ss[i]) : i \in {1, 2}} = ToSet(ss[1]) \cup ToSet(ss[2])
      BY Zenon
    <2> QED
      BY <1>5, <2>1, <2>2
  <1>7. \A x \in ToSet(t) :
           x.do = "wire" /\ x.cli \in {"agent-notes", "cairn"} /\ x.on \in ToSet(Targets)
    BY <1>2, <1>3, <1>6, WiringIs
  <1>8. \A x \in ToSet(t) : Suits("wire", q, x) /\ x.do # "sign"
    BY <1>7 DEF Suits, Identities, Wirings, Singles, Provisionings, Plumbing
  <1>9. Harnessed("wire") = {"agent-notes", "cairn"} /\ Sought("wire") = {}
    BY DEF Harnessed, Sought
  <1>10. ASSUME NEW cli \in {"agent-notes", "cairn"}, NEW m \in ToSet(Targets)
         PROVE  \E x \in ToSet(t) : x.do = "wire" /\ x.cli = cli /\ x.on = m
    <2>1. PICK x \in ToSet(Wiring(cli)) : x.do = "wire" /\ x.cli = cli /\ x.on = m
      BY <1>2, WiringIs
    <2>2. x \in ToSet(t)
      BY <1>3, <1>6, <2>1
    <2> QED
      BY <2>1, <2>2
  <1>11. ASSUME NEW pair \in Pairs("wire")
         PROVE  Installs(t, pair)
    <2>1. PICK cli \in {"agent-notes", "cairn"}, m \in ToSet(Targets) : pair = <<cli, m>>
      BY <1>9, <1>11 DEF Pairs
    <2> QED
      BY <1>10, <2>1 DEF Installs
  <1>12. t # <<>>
    <2>1. ToSet(<<>>) = {}
      BY DEF ToSet
    <2>2. ToSet(ss[1]) # {}
      BY <1>2, <1>3, WiringIs
    <2> QED
      BY <1>6, <2>1, <2>2
  <1> QED
    BY <1>5, <1>8, <1>9, <1>11, <1>12 DEF Complete, t, ss

LEMMA ProvisioningComplete ==
  ASSUME NEW q \in Request, NEW s \in Provisionings, NEW z \in Seq(Slugs), z # <<>>,
         ToSet(z) = Sought(s)
  PROVE  Complete(s, q, Provisioning(z))
  <1> DEFINE t == Provisioning(z)
  <1>1. /\ t \in Seq(Program) /\ t # <<>>
        /\ \A x \in ToSet(t) :
              x.do \in {"project", "principal"} /\ x.cli = "regista" /\ x.on \in Slugs
        /\ \A p \in ToSet(z) : Creates(t, p) /\ Knows(t, p)
    BY ProvisioningIs
  <1> HIDE DEF t
  <1>2. \A x \in ToSet(t) : Suits(s, q, x) /\ x.do # "sign"
    BY <1>1 DEF Suits, Identities, Wirings, Singles, Provisionings, Plumbing
  <1>3. Pairs(s) = {}
    BY DEF Pairs, Harnessed, Provisionings, Singles
  <1> QED
    BY <1>1, <1>2, <1>3 DEF Complete, t

\* The programs of every step are complete and have their place in it.
LEMMA CallsComplete ==
  ASSUME NEW q \in Request, NEW s \in StepNames
  PROVE  Complete(s, q, Calls(s, q))
  <1>1. CASE s \in Singles
    <2>1. Calls(s, q) = Wiring(s)
      BY <1>1 DEF Calls, Singles
    <2> QED
      BY <1>1, <2>1, HarnessesComplete
  <1>2. CASE s = "wire"
    <2>1. Calls(s, q) = FlattenSeq([i \in 1 .. 2 |-> Wiring(Faces[i])])
      BY <1>2 DEF Calls
    <2> QED
      BY <1>2, <2>1, WireComplete
  <1>3. CASE s = "provision"
    <2>1. Calls(s, q) = Provisioning(Projects) /\ Sought(s) = Slugs /\ s \in Provisionings
      BY <1>3 DEF Calls, Sought, Provisionings
    <2>2. Projects \in Seq(Slugs) /\ Projects # <<>> /\ ToSet(Projects) = Slugs
      BY DeployAssumption DEF Slugs
    <2> QED
      BY <2>1, <2>2, ProvisioningComplete
  <1>4. CASE s = "enrol"
    <2>1. Calls(s, q) = Provisioning(<<Main>>) /\ Sought(s) = {Main} /\ s \in Provisionings
      BY <1>4 DEF Calls, Sought, Provisionings
    <2>2. <<Main>> # <<>>
      BY ToSetOne
    <2> QED
      BY <2>1, <2>2, MainIs, ProvisioningComplete
  <1>5. CASE s \notin Singles \cup {"wire", "provision", "enrol"}
    <2>1. Sought(s) = {} /\ Pairs(s) = {}
      BY <1>5 DEF Sought, Pairs, Harnessed
    <2>2. "regista" \in Clis /\ "agent-notes" \in Clis
      BY DEF Clis
    <2>3. CASE s = "projections"
      <3>1. Calls(s, q) = <<C("check", "agent-notes", "-")>>
        BY <2>3 DEF Calls
      <3>2. "check" \in Dos \ {"sign"}
        BY DEF Dos
      <3>3. Suits(s, q, C("check", "agent-notes", "-"))
        BY <2>3 DEF Suits, C, Identities, Wirings, Singles, Provisionings, Plumbing
      <3> QED
        BY <2>1, <2>2, <3>1, <3>2, <3>3, OneProgram
    <2>4. CASE s = "sign" /\ q.spec
      <3>1. Calls(s, q) = <<C("events", "regista", "-")>>
        BY <2>4 DEF Calls
      <3>2. "events" \in Dos \ {"sign"}
        BY DEF Dos
      <3>3. Suits(s, q, C("events", "regista", "-"))
        BY <2>4 DEF Suits, C, Identities, Wirings, Singles, Provisionings, Plumbing
      <3> QED
        BY <2>1, <2>2, <3>1, <3>2, <3>3, OneProgram
    <2>5. CASE \/ s \in {"preflight", "spec", "doctor", "lock"}
               \/ s = "sign" /\ ~q.spec
               \/ s = "user" /\ ~q.extras
      <3>1. Calls(s, q) = <<C("look", "regista", "-")>>
        BY <2>5 DEF Calls, Look
      <3>2. "look" \in Dos \ {"sign"}
        BY DEF Dos
      <3>3. Suits(s, q, C("look", "regista", "-"))
        BY <1>5, <2>5 DEF Suits, C, Identities, Wirings, Singles, Provisionings, Plumbing
      <3> QED
        BY <2>1, <2>2, <3>1, <3>2, <3>3, OneProgram
    <2>6. CASE s \in {"secrets", "db", "memory"} \/ (s = "user" /\ q.extras)
      <3>1. PICK cli \in {"regista", "agent-notes"} : Calls(s, q) = <<C("ask", cli, "-")>>
        BY <2>6 DEF Calls, Ask
      <3>2. "ask" \in Dos \ {"sign"} /\ cli \in Clis
        BY <2>2 DEF Dos
      <3>3. Suits(s, q, C("ask", cli, "-"))
        BY <2>6 DEF Suits, C, Identities, Wirings, Singles, Provisionings, Plumbing
      <3> QED
        BY <2>1, <3>1, <3>2, <3>3, OneProgram
    <2> QED
      BY <1>5, <2>3, <2>4, <2>5, <2>6 DEF StepNames, Singles
  <1> QED
    BY <1>1, <1>2, <1>3, <1>4, <1>5

-----------------------------------------------------------------------------
(* A command and what its steps have left behind *)

StoreRecord == [schema : SUBSET Slugs, bound : SUBSET Slugs, projections : BOOLEAN,
                events : Seq(Event)]
HostRecord == [clis : SUBSET Clis, config : {"good", "bad_ref", "no_dsn"}, key : BOOLEAN,
               wired : SUBSET (Clis \X ToSet(Targets)),
               lock : {"none", "match", "drift", "torn"}, yaml : Yamls, md : Mds]
CommandRecord == [verdict : {"none", "running", "ok", "not_ok"}, req : Request,
                  results : Seq(Statuses), todo : Seq(Program), got : SUBSET Reports,
                  read : Yamls, md : Mds, saw : Nat]

Success == {"done", "already_done"}
\* What a command signs, or finds signed: a spec.md, and the schema version it read.
Subject(r) == <<r.md, VersionOf(r.read)>>
Attested(st, x) == \E e \in ToSet(st.events) : IsSigned(e, x[1], x[2])

\* What a step has left behind for good, in the store st and on the host ho; x is the
\* subject of the command that took it.
Steady(s, st, ho, x) ==
    /\ Sought(s) \subseteq st.schema /\ Sought(s) \subseteq st.bound
    /\ Pairs(s) \subseteq ho.wired
    /\ s = "sign" => Attested(st, x)

\* Every step that reported success is still true; of a signature this matters as long as
\* it is the last step.
Kept(st, ho, r) ==
    \A j \in 1 .. Len(r.results) :
        /\ r.results[j] \in Success
        /\ Plan(r.req)[j] = "sign" => j = Len(r.results)
        => Steady(Plan(r.req)[j], st, ho, Subject(r))

Skippable(s, q) == s \in {"acb", "agent-wake", "spec", "user"} \/ (s = "sign" /\ ~q.spec)
\* The steps of a command that goes on have succeeded, but for those that may be skipped.
Passed(r) ==
    \A j \in 1 .. Len(r.results) :
        r.results[j] \in Success \/ (r.results[j] = "skipped" /\ Skippable(Plan(r.req)[j], r.req))

Bad(got) == got \cap {"failed", "refused"} # {}
\* Where a command is: what its step has not done it is about to do, or will report that
\* it could not; and it signs only what it has not found signed, as far as it was shown.
Due(st, ho, r, s) ==
    /\ r.todo # <<>>
    /\ \A x \in ToSet(r.todo) : Suits(s, r.req, x)
    /\ \A p \in Sought(s) : \/ Bad(r.got)
                            \/ /\ p \in st.schema \/ Creates(r.todo, p)
                               /\ p \in st.bound \/ Knows(r.todo, p)
    /\ \A pair \in Pairs(s) : pair \in ho.wired \/ Installs(r.todo, pair)
    /\ Head(r.todo).do = "sign" /\ r.saw = Len(st.events) /\ r.saw <= ReadLimit
         => ~Attested(st, Subject(r))

Current(r) == Plan(r.req)[Len(r.results) + 1]
Underway(st, ho, r) ==
    /\ Len(r.results) < Len(Plan(r.req))
    /\ Passed(r) /\ Due(st, ho, r, Current(r))

Sound(st, ho, r) ==
    /\ r \in CommandRecord /\ r.saw <= Len(st.events)
    /\ Kept(st, ho, r)
    /\ r.verdict = "running" => Underway(st, ho, r)

\* What the others do takes nothing away.
Grows(st, ho, st2, ho2) ==
    /\ st.schema \subseteq st2.schema /\ st.bound \subseteq st2.bound
    /\ ho.wired \subseteq ho2.wired
    /\ \/ st2.events = st.events
       \/ Len(st2.events) > Len(st.events) /\ ToSet(st.events) \subseteq ToSet(st2.events)

LEMMA PlanIs ==
  ASSUME NEW q \in Request
  PROVE  Plan(q) \in Seq(StepNames) /\ Len(Plan(q)) \in Nat /\ Len(Plan(q)) > 0
         /\ \A k \in 1 .. Len(Plan(q)) : Plan(q)[k] \in StepNames
  BY PlanOrdered, LenProperties, ElementOfSeq DEF Ordered

LEMMA SoundGrows ==
  ASSUME NEW st \in StoreRecord, NEW ho, NEW st2 \in StoreRecord, NEW ho2, NEW r,
         Sound(st, ho, r), Grows(st, ho, st2, ho2)
  PROVE  Sound(st2, ho2, r)
  <1>1. Len(st.events) \in Nat /\ Len(st2.events) \in Nat /\ r.saw \in Nat
    BY LenProperties DEF StoreRecord, Sound, CommandRecord
  <1>2. r.saw <= Len(st2.events) /\ (r.saw = Len(st2.events) => st2.events = st.events)
    BY <1>1 DEF Sound, Grows
  <1>3. ASSUME NEW x, Attested(st, x)
        PROVE  Attested(st2, x)
    BY <1>3 DEF Attested, Grows
  <1>4. ASSUME NEW s, Steady(s, st, ho, Subject(r))
        PROVE  Steady(s, st2, ho2, Subject(r))
    BY <1>3, <1>4 DEF Steady, Grows
  <1>5. Kept(st2, ho2, r)
    BY <1>4 DEF Kept, Sound
  <1>6. ASSUME NEW s, Due(st, ho, r, s)
        PROVE  Due(st2, ho2, r, s)
    <2>1. r.saw = Len(st2.events) => (Attested(st2, Subject(r)) <=> Attested(st, Subject(r)))
                                      /\ r.saw = Len(st.events)
      BY <1>2 DEF Attested
    <2> QED
      BY <1>6, <2>1 DEF Due, Grows
  <1>7. Underway(st, ho, r) => Underway(st2, ho2, r)
    BY <1>6 DEF Underway
  <1> QED
    BY <1>2, <1>5, <1>7 DEF Sound

\* A step ends: what it reports must be true, and it may be skipped only if it is not needed.
LEMMA ConcludedSound ==
  ASSUME NEW st \in StoreRecord, NEW ho, NEW r \in CommandRecord, NEW status \in Statuses,
         r.saw <= Len(st.events), Kept(st, ho, r), Passed(r),
         Len(r.results) < Len(Plan(r.req)),
         status \in Success => Steady(Current(r), st, ho, Subject(r)),
         status = "skipped" => Skippable(Current(r), r.req)
  PROVE  /\ Sound(st, ho, Concluded(r, status))
         /\ Concluded(r, status).req = r.req
         /\ Concluded(r, status).results = Append(r.results, status)
  <1> DEFINE n == Len(r.results)
             p == Plan(r.req)
             results == Append(r.results, status)
             t == Calls(p[n + 2], r.req)
             R == Concluded(r, status)
             over == Terminal(status) \/ n + 2 > Len(p)
  <1>1. /\ results \in Seq(Statuses) /\ Len(results) = n + 1 /\ n \in Nat
        /\ \A i \in 1 .. n : results[i] = r.results[i]
        /\ results[n + 1] = status
    BY ToSetAppend DEF CommandRecord
  <1>2. p \in Seq(StepNames) /\ Len(p) \in Nat /\ r.req \in Request
        /\ \A k \in 1 .. Len(p) : p[k] \in StepNames
    BY PlanIs DEF CommandRecord
  <1>3. n < Len(p)
    OBVIOUS
  <1>4. R = IF over
            THEN [r EXCEPT !.results = results, !.todo = <<>>, !.got = {},
                       !.verdict = IF ToSet(results) \cap {"failed", "refused"} = {}
                                   THEN "ok" ELSE "not_ok"]
            ELSE [r EXCEPT !.results = results, !.got = {}, !.todo = t]
    <2>1. Len(results) + 1 = n + 2
      BY <1>1
    <2> HIDE DEF results, p, n
    <2> QED
      BY <2>1 DEF Concluded, results, p
  <1>5. ~over => Complete(p[n + 2], r.req, t)
    <2>1. ~over => n + 2 \in 1 .. Len(p)
      BY <1>1, <1>2
    <2> HIDE DEF p
    <2> QED
      BY <1>2, <2>1, CallsComplete
  <1> HIDE DEF t, R, results, n, p
  <1>6. /\ R \in CommandRecord /\ R.req = r.req /\ R.results = results
        /\ R.md = r.md /\ R.read = r.read /\ R.saw = r.saw /\ R.got = {}
        /\ R.verdict = "running" => ~over /\ R.todo = t
    <2>1. CASE over
      <3>1. <<>> \in Seq(Program)
        BY EmptySeq
      <3> DEFINE v == IF ToSet(results) \cap {"failed", "refused"} = {} THEN "ok" ELSE "not_ok"
      <3>2. v \in {"ok", "not_ok"}
        OBVIOUS
      <3>3. R = [r EXCEPT !.results = results, !.todo = <<>>, !.got = {}, !.verdict = v]
        BY <1>4, <2>1
      <3> HIDE DEF v, over
      <3> QED
        BY <1>1, <3>1, <3>2, <3>3 DEF CommandRecord
    <2>2. CASE ~over
      <3>1. R = [r EXCEPT !.results = results, !.got = {}, !.todo = t]
        BY <1>4, <2>2
      <3>2. t \in Seq(Program)
        BY <1>5, <2>2 DEF Complete
      <3> HIDE DEF over
      <3> QED
        BY <1>1, <2>2, <3>1, <3>2 DEF CommandRecord
    <2> QED
      BY <2>1, <2>2
  <1>7. Current(r) = p[n + 1] /\ Len(R.results) = n + 1
    BY <1>1, <1>6 DEF Current, p, n
  <1>8. ASSUME NEW j \in 1 .. n + 1, results[j] \in Success, p[j] = "sign" => j = n + 1
        PROVE  Steady(p[j], st, ho, Subject(r))
    <2>1. CASE j = n + 1
      BY <1>1, <1>7, <1>8, <2>1
    <2>2. CASE j # n + 1
      <3>1. j \in 1 .. n /\ results[j] = r.results[j] /\ p[j] # "sign"
        BY <1>1, <1>8, <2>2
      <3> QED
        BY <1>8, <3>1 DEF Kept, p, n
    <2> QED
      BY <2>1, <2>2
  <1>9. Kept(st, ho, R)
    <2>1. Subject(R) = Subject(r)
      BY <1>6 DEF Subject
    <2> QED
      BY <1>6, <1>7, <1>8, <2>1 DEF Kept, p
  <1>10. ASSUME R.verdict = "running"
         PROVE  Underway(st, ho, R)
    <2>1. n + 1 < Len(p) /\ R.todo = t /\ Complete(p[n + 2], r.req, t) /\ ~Terminal(status)
      BY <1>1, <1>2, <1>5, <1>6, <1>10
    <2>2. Current(R) = p[n + 2]
      <3>1. (n + 1) + 1 = n + 2
        BY <1>1
      <3> QED
        BY <1>6, <1>7, <3>1 DEF Current, p
    <2>3. status \in Success \cup {"skipped"}
      BY <2>1 DEF Terminal, Statuses, Success
    <2>4. Passed(R)
      <3>1. ASSUME NEW j \in 1 .. n + 1
            PROVE  results[j] \in Success
                   \/ (results[j] = "skipped" /\ Skippable(p[j], r.req))
        <4>1. CASE j = n + 1
          BY <1>1, <1>7, <2>3, <4>1
        <4>2. CASE j # n + 1
          <5>1. j \in 1 .. n /\ results[j] = r.results[j]
            BY <1>1, <4>2
          <5> QED
            BY <5>1 DEF Passed, p, n
        <4> QED
          BY <4>1, <4>2
      <3> QED
        BY <1>6, <1>7, <3>1 DEF Passed, p
    <2>5. Head(t) \in ToSet(t)
      BY <2>1, TailIs DEF Complete
    <2>6. Due(st, ho, R, p[n + 2])
      BY <1>6, <2>1, <2>5 DEF Due, Complete
    <2> QED
      BY <1>6, <1>7, <2>1, <2>2, <2>4, <2>6 DEF Underway, p
  <1>11. Sound(st, ho, R)
    BY <1>6, <1>9, <1>10 DEF Sound
  <1> QED
    BY <1>6, <1>11 DEF R, results

LEMMA WorstIs ==
  ASSUME NEW g \in SUBSET Reports
  PROVE  Worst(g) \in Statuses \ {"skipped"} /\ (Worst(g) \in Success => ~Bad(g))
  <1>1. CASE "failed" \in g
    BY <1>1 DEF Worst, Statuses, Success
  <1>2. CASE "failed" \notin g /\ "refused" \in g
    BY <1>2 DEF Worst, Statuses, Success
  <1>3. CASE "failed" \notin g /\ "refused" \notin g
    <2>1. ~Bad(g)
      BY <1>3 DEF Bad
    <2>2. Worst(g) \in {"done", "already_done"}
      BY <1>3 DEF Worst
    <2> QED
      BY <2>1, <2>2 DEF Statuses
  <1> QED
    BY <1>1, <1>2, <1>3

\* What a program reported of itself is true, or the step will not report success.
Accounted(st, ho, x, report) ==
    /\ x.do \in {"project"} \cup Identities \cup {"wire"}
    /\ x.do = "wire" => <<x.cli, x.on>> \in ho.wired
    /\ report \in Success => /\ x.do = "project" => x.on \in st.schema
                             /\ x.do \in Identities => x.on \in st.bound

LEMMA ReportedSound ==
  ASSUME NEW st \in StoreRecord, NEW ho, NEW r, Sound(st, ho, r), r.verdict = "running",
         NEW report \in Reports, Accounted(st, ho, Head(r.todo), report)
  PROVE  /\ Sound(st, ho, Reported(r, report))
         /\ Reported(r, report).req = r.req
         /\ \/ Reported(r, report).results = r.results
            \/ \E w \in Statuses : Reported(r, report).results = Append(r.results, w)
         /\ Current(r) \in Provisionings \cup Wirings
  <1> DEFINE s == Current(r)
             x == Head(r.todo)
             t == Tail(r.todo)
             g == r.got \cup {report}
             R == Reported(r, report)
  <1>1. /\ r \in CommandRecord /\ r.todo \in Seq(Program) /\ r.todo # <<>>
        /\ r.got \in SUBSET Reports /\ r.saw <= Len(st.events) /\ Kept(st, ho, r) /\ Passed(r)
        /\ Len(r.results) < Len(Plan(r.req)) /\ Due(st, ho, r, s)
    BY DEF Sound, Underway, Due, CommandRecord
  <1>2. /\ t \in Seq(Program) /\ x \in ToSet(r.todo)
        /\ ToSet(r.todo) = {x} \cup ToSet(t)
        /\ IF Len(r.todo) > 1 THEN t # <<>> ELSE ToSet(t) = {}
    BY <1>1, TailIs
  <1>3. /\ g \in SUBSET Reports
        /\ (report \notin Success => Bad(g)) /\ (Bad(r.got) => Bad(g))
    BY <1>1 DEF Bad, Reports, Success
  <1>4. R = IF Len(r.todo) > 1 THEN [r EXCEPT !.todo = t, !.got = g]
            ELSE Concluded(r, Worst(g))
    BY DEF Reported
  <1>5. Accounted(st, ho, x, report) /\ Suits(s, r.req, x)
    BY <1>1, <1>2 DEF Due
  <1> HIDE DEF x, t, g, R, s
  <1>6. s \in Provisionings \cup Wirings
    BY <1>5 DEF Accounted, Suits
  <1>7. \A y \in ToSet(t) : Suits(s, r.req, y) /\ y.do # "sign"
    BY <1>1, <1>2, <1>6 DEF Due, Suits, Provisionings, Wirings, Singles
  <1>8. ASSUME NEW p \in Sought(s)
        PROVE  \/ Bad(g)
               \/ /\ p \in st.schema \/ Creates(t, p)
                  /\ p \in st.bound \/ Knows(t, p)
    <2> SUFFICES ASSUME ~Bad(g)
                 PROVE  /\ p \in st.schema \/ Creates(t, p)
                        /\ p \in st.bound \/ Knows(t, p)
      OBVIOUS
    <2>1. /\ p \in st.schema \/ Creates(r.todo, p)
          /\ p \in st.bound \/ Knows(r.todo, p)
          /\ report \in Success
      BY <1>1, <1>3, <1>8 DEF Due
    <2>2. Creates(r.todo, p) => p \in st.schema \/ Creates(t, p)
      BY <1>2, <1>5, <2>1 DEF Creates, Accounted
    <2>3. Knows(r.todo, p) => p \in st.bound \/ Knows(t, p)
      BY <1>2, <1>5, <2>1 DEF Knows, Accounted
    <2> QED
      BY <2>1, <2>2, <2>3
  <1>9. ASSUME NEW pair \in Pairs(s)
        PROVE  pair \in ho.wired \/ Installs(t, pair)
    <2>1. pair \in ho.wired \/ Installs(r.todo, pair)
      BY <1>1, <1>9 DEF Due
    <2>2. Installs(r.todo, pair) => pair \in ho.wired \/ Installs(t, pair)
      BY <1>2, <1>5 DEF Installs, Accounted
    <2> QED
      BY <2>1, <2>2
  <1>10. CASE Len(r.todo) > 1
    <2>1. R = [r EXCEPT !.todo = t, !.got = g]
      BY <1>4, <1>10
    <2>2. /\ R \in CommandRecord /\ R.todo = t /\ R.got = g /\ R.req = r.req
          /\ R.md = r.md /\ R.read = r.read /\ R.results = r.results /\ R.saw = r.saw /\ R.verdict = "running"
      BY <1>1, <1>2, <1>3, <2>1 DEF CommandRecord
    <2>3. t # <<>> /\ Head(t) \in ToSet(t)
      BY <1>2, <1>10, TailIs
    <2>4. Due(st, ho, R, s)
      BY <1>7, <1>8, <1>9, <2>2, <2>3 DEF Due
    <2>5. Current(R) = s /\ Passed(R) /\ Kept(st, ho, R)
      BY <1>1, <2>2 DEF Current, Passed, Kept, Subject, s
    <2>6. Underway(st, ho, R)
      BY <1>1, <2>2, <2>4, <2>5 DEF Underway
    <2>7. Sound(st, ho, R)
      BY <1>1, <2>2, <2>5, <2>6 DEF Sound
    <2> QED
      BY <1>6, <2>2, <2>7 DEF R, s
  <1>11. CASE ~(Len(r.todo) > 1)
    <2> DEFINE w == Worst(g)
    <2>1. R = Concluded(r, w) /\ ToSet(t) = {}
      BY <1>2, <1>4, <1>11
    <2>2. w \in Statuses /\ w # "skipped" /\ (w \in Success => ~Bad(g))
      BY <1>3, WorstIs
    <2> HIDE DEF w
    <2>3. w \in Success => Steady(s, st, ho, Subject(r))
      <3>1. s # "sign"
        BY <1>6 DEF Provisionings, Wirings, Singles
      <3>2. \A p : ~Creates(t, p) /\ ~Knows(t, p) /\ ~Installs(t, p)
        BY <2>1 DEF Creates, Knows, Installs
      <3> QED
        BY <1>8, <1>9, <2>2, <3>1, <3>2 DEF Steady
    <2>4. /\ Sound(st, ho, Concluded(r, w)) /\ Concluded(r, w).req = r.req
          /\ Concluded(r, w).results = Append(r.results, w)
      BY <1>1, <2>2, <2>3, ConcludedSound DEF s
    <2> QED
      BY <1>6, <2>1, <2>2, <2>4 DEF R, s
  <1> QED
    BY <1>10, <1>11

\* A program is replaced by another that does the same for the step.
LEMMA InsteadSound ==
  ASSUME NEW st \in StoreRecord, NEW ho, NEW r, Sound(st, ho, r), r.verdict = "running",
         NEW y \in Program, Suits(Current(r), r.req, y), y.do # "sign",
         Head(r.todo).do \notin {"project", "wire"},
         Head(r.todo).do \in Identities => y.do \in Identities /\ y.on = Head(r.todo).on,
         NEW R, R = [r EXCEPT !.todo = <<y>> \o Tail(r.todo)]
  PROVE  Sound(st, ho, R) /\ R.req = r.req /\ R.results = r.results
  <1> DEFINE s == Current(r)
             x == Head(r.todo)
             t == Tail(r.todo)
             u == <<y>> \o t
  <1>1. /\ r \in CommandRecord /\ r.todo \in Seq(Program) /\ r.todo # <<>>
        /\ r.saw <= Len(st.events) /\ Kept(st, ho, r) /\ Passed(r)
        /\ Len(r.results) < Len(Plan(r.req)) /\ Due(st, ho, r, s)
    BY DEF Sound, Underway, Due, CommandRecord
  <1>2. t \in Seq(Program) /\ ToSet(r.todo) = {x} \cup ToSet(t)
    BY <1>1, TailIs
  <1>3. u \in Seq(Program) /\ u # <<>> /\ Head(u) = y /\ ToSet(u) = {y} \cup ToSet(t)
    BY <1>2, ToSetFront
  <1>4. R = [r EXCEPT !.todo = u]
    OBVIOUS
  <1>5. /\ x.do \notin {"project", "wire"}
        /\ x.do \in Identities => y.do \in Identities /\ y.on = x.on
        /\ Suits(s, r.req, y)
    OBVIOUS
  <1> HIDE DEF s, x, t, u
  <1>6. /\ R \in CommandRecord /\ R.todo = u /\ R.got = r.got /\ R.req = r.req
        /\ R.md = r.md /\ R.read = r.read /\ R.results = r.results /\ R.saw = r.saw
    BY <1>1, <1>3, <1>4 DEF CommandRecord
  <1>7. \A z \in ToSet(u) : Suits(s, r.req, z)
    BY <1>1, <1>2, <1>3, <1>5 DEF Due
  <1>8. \A p : /\ Creates(r.todo, p) => Creates(u, p)
               /\ Knows(r.todo, p) => Knows(u, p)
               /\ Installs(r.todo, p) => Installs(u, p)
    BY <1>2, <1>3, <1>5 DEF Creates, Knows, Installs
  <1>9. Due(st, ho, R, s)
    BY <1>1, <1>3, <1>6, <1>7, <1>8 DEF Due
  <1>10. Current(R) = s /\ Passed(R) /\ Kept(st, ho, R)
    BY <1>1, <1>6 DEF Current, Passed, Kept, Subject, s
  <1>11. Underway(st, ho, R)
    BY <1>1, <1>6, <1>9, <1>10 DEF Underway
  <1> QED
    BY <1>1, <1>6, <1>10, <1>11 DEF Sound

-----------------------------------------------------------------------------
(* The invariant *)

DeployInv ==
    /\ store \in StoreRecord /\ host \in HostRecord /\ cmd \in [Cmds -> CommandRecord]
    /\ mishaps \in 0 .. MaxMishaps /\ changes \in 0 .. MaxChanges /\ raced \in BOOLEAN
    /\ \A c \in Cmds : Sound(store, host, cmd[c])
    /\ OneEventZero

\* StepsAreTrue and DependenciesFirst, of one step.
DeployPromise ==
    /\ \A c \in Cmds : LET n == Len(cmd[c].results) IN
          /\ Len(cmd'[c].results) = n + 1
          /\ cmd'[c].results[n + 1] \in {"done", "already_done"}
          => Holds(Ended(c), c)'
    /\ (host'.wired # host.wired \/ store'.events # store.events) => Main \in Provisioned
    /\ \A c \in Cmds :
          /\ cmd[c].verdict = "running" /\ Step(c) = "wire" /\ cmd[c].req.spec
          /\ cmd'[c] # cmd[c] /\ host'.wired # host.wired
          => SignedAmong(DOMAIN store.events, c)
    /\ host.lock = "none" /\ host'.lock = "match" =>
          Slugs \subseteq Provisioned /\ WiredFor(ToSet(Faces))

LEMMA SignedIs ==
  ASSUME NEW c \in Cmds
  PROVE  SignedAmong(DOMAIN store.events, c) <=> Attested(store, Subject(cmd[c]))
  BY DEF SignedAmong, Attested, Subject, ToSet

LEMMA DeployTypes ==
  ASSUME DeployInv
  PROVE  DeployTypeOK
  <1>1. Len(store.events) \in Nat /\ ToSet(store.events) \subseteq Event
    <2>1. store.events \in Seq(Event)
      BY DEF DeployInv, StoreRecord
    <2> QED
      BY <2>1, LenProperties, ElementOfSeq DEF ToSet
  <1>2. ASSUME NEW c \in Cmds
        PROVE  /\ cmd[c].verdict \in {"none", "running", "ok", "not_ok"}
               /\ cmd[c].req \in Request
               /\ ToSet(cmd[c].results) \subseteq Statuses
               /\ cmd[c].got \subseteq Reports
               /\ cmd[c].read \in Yamls /\ cmd[c].md \in Mds
               /\ cmd[c].saw \in 0 .. Len(store.events)
               /\ cmd[c].verdict = "running" => cmd[c].todo # <<>>
    <2>1. cmd[c] \in CommandRecord /\ Sound(store, host, cmd[c])
      BY DEF DeployInv
    <2>2. ToSet(cmd[c].results) \subseteq Statuses
      <3>1. cmd[c].results \in Seq(Statuses)
        BY <2>1 DEF CommandRecord
      <3> QED
        BY <3>1, LenProperties, ElementOfSeq DEF ToSet
    <2>3. cmd[c].saw \in Nat /\ cmd[c].saw <= Len(store.events)
      BY <2>1 DEF CommandRecord, Sound
    <2>4. cmd[c].verdict = "running" => cmd[c].todo # <<>>
      BY <2>1 DEF Sound, Underway, Due
    <2> QED
      BY <1>1, <2>1, <2>2, <2>3, <2>4 DEF CommandRecord
  <1>3. /\ store.schema \subseteq Slugs /\ store.bound \subseteq Slugs
        /\ store.projections \in BOOLEAN
    BY DEF DeployInv, StoreRecord
  <1>4. /\ host.clis \subseteq Clis
        /\ host.config \in {"good", "bad_ref", "no_dsn"}
        /\ host.key \in BOOLEAN
        /\ host.wired \subseteq Clis \X ToSet(Targets)
        /\ host.lock \in {"none", "match", "drift", "torn"}
        /\ host.yaml \in Yamls /\ host.md \in Mds
    BY DEF DeployInv, HostRecord
  <1> QED
    BY <1>1, <1>2, <1>3, <1>4 DEF DeployTypeOK, DeployInv

\* A step of a command that goes on, before the current one, is still true unless it was
\* one that may be skipped.
LEMMA Relied ==
  ASSUME DeployInv, NEW c \in Cmds, cmd[c].verdict = "running",
         NEW j \in 1 .. Len(cmd[c].results), ~Skippable(Plan(cmd[c].req)[j], cmd[c].req),
         Plan(cmd[c].req)[j] = "sign" => j = Len(cmd[c].results)
  PROVE  Steady(Plan(cmd[c].req)[j], store, host, Subject(cmd[c]))
  <1>1. Sound(store, host, cmd[c]) /\ Passed(cmd[c])
    BY DEF DeployInv, Sound, Underway
  <1>2. cmd[c].results[j] \in Success
    BY <1>1 DEF Passed
  <1> QED
    BY <1>1, <1>2 DEF Sound, Kept

LEMMA Provides ==
  ASSUME DeployInv, NEW c \in Cmds, cmd[c].verdict = "running"
  PROVE  /\ Step(c) \in Wirings \cup {"sign", "lock"} => Main \in Provisioned
         /\ Step(c) = "wire" /\ cmd[c].req.spec => SignedAmong(DOMAIN store.events, c)
         /\ Step(c) = "lock" => Slugs \subseteq Provisioned /\ WiredFor(ToSet(Faces))
  <1> DEFINE r == cmd[c]
             p == Plan(r.req)
             n == Len(r.results)
  <1>1. /\ r \in CommandRecord /\ r.req \in Request /\ n \in Nat /\ n < Len(p)
        /\ Len(p) \in Nat /\ Step(c) = p[n + 1]
    <2>1. r \in CommandRecord /\ Sound(store, host, r)
      BY DEF DeployInv
    <2>2. r.req \in Request /\ n \in Nat
      BY <2>1, LenProperties DEF CommandRecord
    <2>3. n < Len(p)
      BY <2>1 DEF Sound, Underway
    <2> QED
      BY <2>1, <2>2, <2>3, PlanIs DEF Step
  <1>2. /\ n + 1 \in 1 .. Len(p)
        /\ p[n + 1] \in Wirings \cup {"sign", "lock"} => Earlier(p, n + 1, Provisionings)
        /\ p[n + 1] = "wire" => n + 1 > 1 /\ p[(n + 1) - 1] = "sign"
        /\ p[n + 1] = "lock" => /\ Earlier(p, n + 1, {"provision"})
                                /\ Earlier(p, n + 1, {"agent-notes"})
                                /\ Earlier(p, n + 1, {"cairn"})
    <2>1. n + 1 \in 1 .. Len(p)
      BY <1>1
    <2>2. Ordered(p)
      BY <1>1, PlanOrdered
    <2> HIDE DEF p, n
    <2> QED
      BY <2>1, <2>2 DEF Ordered
  <1>3. ASSUME NEW steps, Earlier(p, n + 1, steps),
               \A s \in steps : ~Skippable(s, r.req) /\ s # "sign"
        PROVE  \E s \in steps : Steady(s, store, host, Subject(r))
    <2>1. PICK j \in 1 .. (n + 1) - 1 : p[j] \in steps
      BY <1>3 DEF Earlier
    <2>2. j \in 1 .. n
      BY <1>1, <2>1
    <2> QED
      BY <1>3, <2>1, <2>2, Relied
  <1> HIDE DEF p, n, r
  <1>4. \A s \in Provisionings \cup {"agent-notes", "cairn"} : ~Skippable(s, r.req) /\ s # "sign"
    BY DEF Skippable, Provisionings
  <1>5. ASSUME Step(c) \in Wirings \cup {"sign", "lock"}
        PROVE  Main \in Provisioned
    <2>1. PICK s \in Provisionings : Steady(s, store, host, Subject(r))
      BY <1>1, <1>2, <1>3, <1>4, <1>5
    <2>2. Main \in Sought(s)
      BY MainIs DEF Sought, Provisionings
    <2> QED
      BY <2>1, <2>2 DEF Steady, Provisioned
  <1>6. ASSUME Step(c) = "wire", r.req.spec
        PROVE  SignedAmong(DOMAIN store.events, c)
    <2>1. n \in 1 .. n /\ p[n] = "sign"
      BY <1>1, <1>2, <1>6
    <2>2. ~Skippable("sign", r.req)
      BY <1>6 DEF Skippable
    <2>3. Steady("sign", store, host, Subject(r))
      BY <2>1, <2>2, Relied DEF p, n, r
    <2> QED
      BY <2>3, SignedIs DEF Steady, r
  <1>7. ASSUME Step(c) = "lock"
        PROVE  Slugs \subseteq Provisioned /\ WiredFor(ToSet(Faces))
    <2>1. "provision" \in Provisionings
      BY DEF Provisionings
    <2>2. /\ Steady("provision", store, host, Subject(r))
          /\ Steady("agent-notes", store, host, Subject(r))
          /\ Steady("cairn", store, host, Subject(r))
      BY <1>1, <1>2, <1>3, <1>4, <1>7, <2>1
    <2>3. Slugs \subseteq Provisioned
      BY <2>2 DEF Steady, Sought, Provisioned
    <2>4. Pairs("agent-notes") \subseteq host.wired /\ Pairs("cairn") \subseteq host.wired
      BY <2>2 DEF Steady
    <2>5. WiredFor({"agent-notes", "cairn"})
      BY <2>4 DEF Pairs, Harnessed, Singles, WiredFor
    <2> QED
      BY <2>3, <2>5, FacesAre
  <1> QED
    BY <1>5, <1>6, <1>7 DEF r

LEMMA HoldsIs ==
  ASSUME NEW c \in Cmds, NEW s \in StepNames, Ended(c)' = s,
         Steady(s, store', host', Subject(cmd'[c])),
         s = "projections" => store'.projections,
         s = "lock" => host'.lock \notin {"none", "torn"}
  PROVE  Holds(Ended(c), c)'
  <1>1. CASE s = "provision"
    BY <1>1 DEF Holds, Steady, Sought, Provisioned
  <1>2. CASE s = "enrol"
    BY <1>2 DEF Holds, Steady, Sought, Provisioned
  <1>3. CASE s \in Singles
    <2>1. ({s} \X ToSet(Targets)) \subseteq host'.wired
      BY <1>3 DEF Steady, Pairs, Harnessed, Singles
    <2> QED
      BY <1>3, <2>1 DEF Holds, Singles, WiredFor
  <1>4. CASE s = "wire"
    <2>1. ({"agent-notes", "cairn"} \X ToSet(Targets)) \subseteq host'.wired
      BY <1>4 DEF Steady, Pairs, Harnessed
    <2> QED
      BY <1>4, <2>1, FacesAre DEF Holds, WiredFor
  <1>5. CASE s = "sign"
    <2>1. Attested(store', Subject(cmd'[c]))
      BY <1>5 DEF Steady
    <2>2. SignedAmong(DOMAIN store.events, c)'
      BY <2>1 DEF SignedAmong, Attested, Subject, ToSet
    <2> QED
      BY <1>5, <2>2 DEF Holds
  <1>6. CASE s \in {"projections", "lock"}
    BY <1>6 DEF Holds
  <1>7. CASE s \notin Singles \cup {"provision", "enrol", "wire", "sign", "projections", "lock"}
    BY <1>7 DEF Holds, Singles
  <1> QED
    BY <1>1, <1>2, <1>3, <1>4, <1>5, <1>6, <1>7

\* What a step may end with, for the two steps whose effect others can undo.
True(c, w) ==
    w \in Success => /\ Step(c) = "projections" => store'.projections
                     /\ Step(c) = "lock" => host'.lock \notin {"none", "torn"}

LEMMA Goes ==
  ASSUME DeployInv, NEW c \in Cmds, cmd[c].verdict = "running",
         store' \in StoreRecord, host' \in HostRecord, Grows(store, host, store', host'),
         NEW R, cmd' = [cmd EXCEPT ![c] = R], Sound(store', host', R), R.req = cmd[c].req,
         \/ R.results = cmd[c].results
         \/ \E w \in Statuses : R.results = Append(cmd[c].results, w) /\ True(c, w),
         host'.wired # host.wired => Step(c) \in Wirings,
         store'.events # store.events => Step(c) = "sign",
         host.lock = "none" /\ host'.lock = "match" => Step(c) = "lock",
         mishaps' \in 0 .. MaxMishaps, changes' = changes, raced' \in BOOLEAN,
         OneEventZero'
  PROVE  DeployInv' /\ DeployPromise
  <1>1. /\ cmd'[c] = R /\ R \in CommandRecord /\ cmd[c] \in CommandRecord
        /\ cmd' \in [Cmds -> CommandRecord]
        /\ \A d \in Cmds \ {c} : cmd'[d] = cmd[d]
    BY DEF DeployInv, Sound
  <1>2. \A d \in Cmds : Sound(store', host', cmd'[d])
    BY <1>1, SoundGrows DEF DeployInv
  <1>3. DeployInv'
    BY <1>1, <1>2 DEF DeployInv
  <1>4. ASSUME NEW d \in Cmds, Len(cmd'[d].results) = Len(cmd[d].results) + 1,
               cmd'[d].results[Len(cmd[d].results) + 1] \in Success
        PROVE  Holds(Ended(d), d)'
    <2> DEFINE n == Len(cmd[d].results)
    <2>1. n \in Nat
      BY LenProperties DEF DeployInv, CommandRecord
    <2>2. d = c
      BY <1>1, <1>4, <2>1
    <2>3. PICK w \in Statuses : R.results = Append(cmd[c].results, w) /\ True(c, w)
      BY <1>1, <1>4, <2>1, <2>2
    <2>4. Len(R.results) = n + 1 /\ R.results[n + 1] = w
      <3>1. cmd[c].results \in Seq(Statuses)
        BY <1>1 DEF CommandRecord
      <3> QED
        BY <2>2, <2>3, <3>1, ToSetAppend
    <2>5. w \in Success
      BY <1>1, <1>4, <2>2, <2>4
    <2> DEFINE s == Plan(R.req)[n + 1]
    <2>6. n + 1 \in 1 .. n + 1
      BY <2>1
    <2>7. Steady(s, store', host', Subject(R))
      BY <2>4, <2>5, <2>6 DEF Sound, Kept
    <2>8. s = Step(c)
      BY <2>2 DEF Step
    <2>9. s \in StepNames
      <3>1. Len(cmd[c].results) < Len(Plan(cmd[c].req)) /\ cmd[c].req \in Request
        BY DEF DeployInv, Sound, Underway, CommandRecord
      <3>2. Len(Plan(cmd[c].req)) \in Nat
        BY <3>1, PlanIs
      <3>3. n + 1 \in 1 .. Len(Plan(cmd[c].req))
        BY <2>1, <2>2, <3>1, <3>2
      <3> QED
        BY <2>2, <3>1, <3>3, PlanIs
    <2>10. Ended(d)' = s
      BY <1>1, <2>2, <2>4 DEF Ended
    <2>11. cmd'[d] = R
      BY <1>1, <2>2
    <2> HIDE DEF s
    <2> QED
      BY <2>3, <2>5, <2>7, <2>8, <2>9, <2>10, <2>11, HoldsIs DEF True
  <1>5. (host'.wired # host.wired \/ store'.events # store.events) => Main \in Provisioned
    BY Provides
  <1>6. ASSUME NEW d \in Cmds, cmd[d].verdict = "running", Step(d) = "wire", cmd[d].req.spec
        PROVE  SignedAmong(DOMAIN store.events, d)
    BY <1>6, Provides
  <1>7. host.lock = "none" /\ host'.lock = "match" =>
          Slugs \subseteq Provisioned /\ WiredFor(ToSet(Faces))
    BY Provides
  <1> QED
    BY <1>3, <1>4, <1>5, <1>6, <1>7 DEF DeployPromise, Success

-----------------------------------------------------------------------------
(* The steps *)

LEMMA HeardIs ==
  ASSUME NEW w \in BOOLEAN, NEW v \in Heard[w]
  PROVE  v.is \in Outcomes /\ (v.is = "success" => w)
  <1>1. PICK r \in Replies : Honest(w, r) /\ v = Verdict(r)
    BY DEF Heard
  <1>2. v.is = Evaluate(r)
    BY <1>1 DEF Verdict
  <1>3. Evaluate(r) \in Outcomes /\ (Evaluate(r) = "success" => r = Clean)
    <2>1. CASE r.out = "refusal"
      <3>1. Clean.out # "refusal"
        BY DEF Clean
      <3> QED
        BY <2>1, <3>1 DEF Evaluate, Outcomes
    <2>2. CASE r.out # "refusal"
      BY <2>2 DEF Evaluate, Outcomes
    <2> QED
      BY <2>1, <2>2
  <1> QED
    BY <1>1, <1>2, <1>3 DEF Honest

LEMMA HeardInstallIs ==
  ASSUME NEW w \in BOOLEAN, NEW v \in HeardInstall[w]
  PROVE  v.ok => w
  <1>1. PICK r \in InstallReplies : HonestInstall(w, r) /\ v = InstallVerdict(r)
    BY DEF HeardInstall
  <1>2. v.ok = Installed(r)
    BY <1>1 DEF InstallVerdict
  <1>3. Installed(r) => r = Wired(r.noop) /\ r.noop \in BOOLEAN
    BY DEF Installed, Wired, InstallReplies
  <1> QED
    BY <1>1, <1>2, <1>3 DEF HonestInstall

LEMMA DeployBudget ==
  ASSUME DeployInv, NEW normal, AsItShould(normal) \/ UNCHANGED mishaps \/ Mishap
  PROVE  mishaps' \in 0 .. MaxMishaps
  <1>1. mishaps \in 0 .. MaxMishaps /\ MaxMishaps \in Nat
    BY DeployAssumption DEF DeployInv
  <1>2. UNCHANGED mishaps \/ Mishap
    BY DEF AsItShould
  <1> QED
    BY <1>1, <1>2 DEF Mishap

LEMMA StillSigned ==
  ASSUME DeployInv, store'.events = store.events, raced' = raced
  PROVE  OneEventZero'
  BY DEF DeployInv, OneEventZero

LEMMA NowIs ==
  ASSUME DeployInv, NEW c \in Cmds, cmd[c].verdict = "running"
  PROVE  /\ cmd[c] \in CommandRecord /\ Sound(store, host, cmd[c])
         /\ Step(c) = Current(cmd[c]) /\ Step(c) \in StepNames
         /\ Now(c) \in Program /\ Suits(Step(c), cmd[c].req, Now(c))
         /\ Now(c).do = "sign" /\ cmd[c].saw = Len(store.events) /\ cmd[c].saw <= ReadLimit
              => ~Attested(store, Subject(cmd[c]))
         /\ cmd[c].saw \in Nat /\ cmd[c].saw <= Len(store.events) /\ Len(store.events) \in Nat
         /\ Kept(store, host, cmd[c]) /\ Passed(cmd[c])
         /\ Len(cmd[c].results) < Len(Plan(cmd[c].req))
  <1> DEFINE r == cmd[c]
  <1>1. /\ r \in CommandRecord /\ Sound(store, host, r) /\ Underway(store, host, r)
        /\ store.events \in Seq(Event)
    BY DEF DeployInv, Sound, StoreRecord
  <1>2. Step(c) = Current(r)
    BY DEF Step, Current
  <1>3. Step(c) \in StepNames
    <2>1. Len(r.results) \in Nat /\ r.req \in Request /\ Len(r.results) < Len(Plan(r.req))
      BY <1>1, LenProperties DEF CommandRecord, Underway
    <2>2. Len(Plan(r.req)) \in Nat
      BY <2>1, PlanIs
    <2>3. Len(r.results) + 1 \in 1 .. Len(Plan(r.req))
      BY <2>1, <2>2
    <2> QED
      BY <1>2, <2>1, <2>3, PlanIs DEF Current
  <1>4. r.todo \in Seq(Program) /\ r.todo # <<>> /\ Due(store, host, r, Step(c))
    BY <1>1, <1>2 DEF Underway, Due, CommandRecord
  <1>5. Now(c) \in Program /\ Now(c) \in ToSet(r.todo)
    BY <1>4, TailIs DEF Now
  <1>6. Suits(Step(c), r.req, Now(c))
    BY <1>4, <1>5 DEF Due
  <1>7. Now(c).do = "sign" /\ r.saw = Len(store.events) /\ r.saw <= ReadLimit
          => ~Attested(store, Subject(r))
    BY <1>4 DEF Due, Now
  <1>8. r.saw \in Nat /\ r.saw <= Len(store.events) /\ Len(store.events) \in Nat
    BY <1>1, LenProperties DEF CommandRecord, Sound
  <1> QED
    BY <1>1, <1>2, <1>3, <1>5, <1>6, <1>7, <1>8 DEF Sound, Underway

\* A step ends: the general form of what the actions that end one have to show.
LEMMA Ends ==
  ASSUME DeployInv, NEW c \in Cmds, cmd[c].verdict = "running",
         store' \in StoreRecord, host' \in HostRecord, Grows(store, host, store', host'),
         NEW status \in Statuses, Conclude(c, status),
         status \in Success => Steady(Step(c), store', host', Subject(cmd[c])),
         status = "skipped" => Skippable(Step(c), cmd[c].req),
         True(c, status),
         host'.wired # host.wired => Step(c) \in Wirings,
         store'.events # store.events => Step(c) = "sign",
         host.lock = "none" /\ host'.lock = "match" => Step(c) = "lock",
         mishaps' \in 0 .. MaxMishaps, changes' = changes, raced' \in BOOLEAN,
         OneEventZero'
  PROVE  DeployInv' /\ DeployPromise
  <1> DEFINE r == cmd[c]
             R == Concluded(r, status)
  <1>1. cmd' = [cmd EXCEPT ![c] = R]
    BY DEF Conclude
  <1>2. /\ r \in CommandRecord /\ Sound(store', host', r)
        /\ Step(c) = Current(r) /\ Passed(r) /\ Len(r.results) < Len(Plan(r.req))
    BY NowIs, SoundGrows DEF DeployInv
  <1>3. r.saw <= Len(store'.events) /\ Kept(store', host', r)
    BY <1>2 DEF Sound
  <1>4. /\ Sound(store', host', R) /\ R.req = r.req
        /\ R.results = Append(r.results, status)
    BY <1>2, <1>3, ConcludedSound
  <1> HIDE DEF R
  <1> QED
    BY <1>1, <1>4, Goes

LEMMA NothingLost ==
  ASSUME DeployInv, store' = store, host' = host
  PROVE  store' \in StoreRecord /\ host' \in HostRecord /\ Grows(store, host, store', host')
  BY DEF DeployInv, Grows

\* Steps that leave nothing behind that has to last.
Passing(s) == s \notin Provisionings \cup Wirings \cup {"sign"}
LEMMA PassingIs ==
  ASSUME NEW s, Passing(s), NEW st, NEW ho, NEW x
  PROVE  Steady(s, st, ho, x)
  BY DEF Passing, Steady, Sought, Pairs, Harnessed, Provisionings, Wirings, Singles

LEMMA EndsQuietly ==
  ASSUME DeployInv, NEW c \in Cmds, cmd[c].verdict = "running",
         store' = store, host' = host, changes' = changes, raced' = raced,
         mishaps' \in 0 .. MaxMishaps,
         NEW status \in Statuses, Conclude(c, status),
         status \in Success => Passing(Step(c)),
         status = "skipped" => Skippable(Step(c), cmd[c].req),
         True(c, status)
  PROVE  DeployInv' /\ DeployPromise
  <1>1. store' \in StoreRecord /\ host' \in HostRecord /\ Grows(store, host, store', host')
    BY NothingLost
  <1>2. OneEventZero' /\ raced' \in BOOLEAN
    BY StillSigned DEF DeployInv
  <1>3. status \in Success => Steady(Step(c), store', host', Subject(cmd[c]))
    BY PassingIs
  <1> QED
    BY <1>1, <1>2, <1>3, Ends

LEMMA NotInstalledInv ==
  ASSUME DeployInv, NEW c \in Cmds, NotInstalled(c)
  PROVE  DeployInv' /\ DeployPromise
  <1> DEFINE status == IF Now(c).cli \in Plumbing THEN "skipped" ELSE "failed"
  <1>1. /\ cmd[c].verdict = "running" /\ Conclude(c, status)
        /\ store' = store /\ host' = host /\ changes' = changes /\ raced' = raced
        /\ mishaps' \in 0 .. MaxMishaps
    BY DEF NotInstalled, DeployInv
  <1>2. status \in Statuses /\ status \notin Success
    BY DEF Statuses, Success
  <1>3. status = "skipped" => Skippable(Step(c), cmd[c].req)
    BY <1>1, NowIs DEF Suits, Skippable, Plumbing
  <1> HIDE DEF status
  <1> QED
    BY <1>1, <1>2, <1>3, EndsQuietly DEF True

LEMMA PreflightInv ==
  ASSUME DeployInv, NEW c \in Cmds, Preflight(c)
  PROVE  DeployInv' /\ DeployPromise
  <1>1. PICK status \in {"done", "failed"} : Conclude(c, status)
    BY DEF Preflight
  <1>2. /\ cmd[c].verdict = "running" /\ Step(c) = "preflight"
        /\ store' = store /\ host' = host /\ changes' = changes /\ raced' = raced
        /\ mishaps' \in 0 .. MaxMishaps
    BY DEF Preflight, DeployInv, Running
  <1>3. Passing(Step(c)) /\ status \in Statuses /\ status # "skipped" /\ True(c, status)
    BY <1>2 DEF Passing, Provisionings, Wirings, Singles, Statuses, True
  <1> QED
    BY <1>1, <1>2, <1>3, EndsQuietly

LEMMA SkipInv ==
  ASSUME DeployInv, NEW c \in Cmds, Skip(c)
  PROVE  DeployInv' /\ DeployPromise
  <1>1. /\ cmd[c].verdict = "running" /\ Step(c) \in {"user", "sign"} /\ Now(c).do = "look"
        /\ store' = store /\ host' = host /\ changes' = changes /\ raced' = raced
        /\ mishaps' \in 0 .. MaxMishaps
        /\ Conclude(c, "skipped")
    BY DEF Skip, DeployInv, Running
  <1>2. Skippable(Step(c), cmd[c].req)
    BY <1>1, NowIs DEF Suits, Skippable
  <1>3. "skipped" \in Statuses /\ "skipped" \notin Success
    BY DEF Statuses, Success
  <1> QED
    BY <1>1, <1>2, <1>3, EndsQuietly DEF True

LEMMA QuestionInv ==
  ASSUME DeployInv, NEW c \in Cmds, Question(c)
  PROVE  DeployInv' /\ DeployPromise
  <1>1. PICK status \in UserStatuses \cup {"done", "failed"} :
           Conclude(c, status) /\ mishaps' \in 0 .. MaxMishaps
    BY DeployBudget DEF Question, UserStatuses
  <1>2. /\ cmd[c].verdict = "running" /\ Now(c).do = "ask"
        /\ store' = store /\ host' = host /\ changes' = changes /\ raced' = raced
    BY DEF Question, Runs, Running
  <1>3. Passing(Step(c)) /\ Step(c) \notin {"projections", "lock"}
    BY <1>2, NowIs DEF Suits, Passing, Identities
  <1>4. status \in Statuses /\ status # "skipped" /\ True(c, status)
    BY <1>3 DEF UserStatuses, Statuses, True
  <1> QED
    BY <1>1, <1>2, <1>3, <1>4, EndsQuietly

LEMMA RecheckInv ==
  ASSUME DeployInv, NEW c \in Cmds, Recheck(c)
  PROVE  DeployInv' /\ DeployPromise
  <1>1. PICK status \in {"done", "failed"} :
           /\ Conclude(c, status) /\ mishaps' \in 0 .. MaxMishaps
           /\ status = "done" => store.projections
    BY DeployBudget DEF Recheck
  <1>2. /\ cmd[c].verdict = "running" /\ Now(c).do = "recheck"
        /\ store' = store /\ host' = host /\ changes' = changes /\ raced' = raced
    BY DEF Recheck, Runs, Running
  <1>3. Step(c) = "projections"
    BY <1>2, NowIs DEF Suits
  <1>4. Passing(Step(c)) /\ status \in Statuses /\ status # "skipped" /\ True(c, status)
    BY <1>1, <1>2, <1>3 DEF Passing, Provisionings, Wirings, Singles, Statuses, True, Success
  <1> QED
    BY <1>1, <1>2, <1>4, EndsQuietly

LEMMA RunDoctorInv ==
  ASSUME DeployInv, NEW c \in Cmds, RunDoctor(c)
  PROVE  DeployInv' /\ DeployPromise
  <1>1. PICK status \in {"done", "failed"} : Conclude(c, status) /\ mishaps' \in 0 .. MaxMishaps
    BY DeployBudget DEF RunDoctor
  <1>2. /\ cmd[c].verdict = "running" /\ Step(c) = "doctor"
        /\ store' = store /\ host' = host /\ changes' = changes /\ raced' = raced
    BY DEF RunDoctor, Running
  <1>3. Passing(Step(c)) /\ status \in Statuses /\ status # "skipped" /\ True(c, status)
    BY <1>2 DEF Passing, Provisionings, Wirings, Singles, Statuses, True
  <1> QED
    BY <1>1, <1>2, <1>3, EndsQuietly

LEMMA ReadSpecInv ==
  ASSUME DeployInv, NEW c \in Cmds, ReadSpec(c)
  PROVE  DeployInv' /\ DeployPromise
  <1> DEFINE r == cmd[c]
             b == host.yaml
             q == [r EXCEPT !.read = b]
             status == IF ~cmd[c].req.spec THEN "skipped"
                       ELSE IF host.yaml = "unreadable" THEN "failed" ELSE "done"
             R == Concluded(q, status)
  <1>1. /\ cmd[c].verdict = "running" /\ Step(c) = "spec"
        /\ store' = store /\ host' = host /\ changes' = changes /\ raced' = raced
        /\ mishaps' \in 0 .. MaxMishaps
        /\ cmd' = [cmd EXCEPT ![c] = R]
    BY DEF ReadSpec, DeployInv, Running
  <1>2. b \in Yamls /\ status \in Statuses
    BY DEF Statuses, DeployInv, HostRecord
  <1> HIDE DEF b, status
  <1>3. /\ q \in CommandRecord /\ q.req = r.req /\ q.results = r.results /\ q.md = r.md
        /\ q.saw = r.saw
    BY <1>1, <1>2, NowIs DEF CommandRecord
  <1>4. /\ q.saw <= Len(store.events) /\ Kept(store, host, q) /\ Passed(q)
        /\ Len(q.results) < Len(Plan(q.req)) /\ Current(q) = "spec"
    <2> DEFINE n == Len(r.results)
               p == Plan(r.req)
    <2>1. /\ r.saw <= Len(store.events) /\ Kept(store, host, r) /\ Passed(r)
          /\ n < Len(p) /\ Current(r) = "spec" /\ r \in CommandRecord
      BY <1>1, NowIs
    <2>2. n \in Nat /\ Len(p) \in Nat /\ Ordered(p)
      BY <2>1, LenProperties, PlanIs, PlanOrdered DEF CommandRecord
    <2>3. ASSUME n > 0, p[n] = "sign"
          PROVE  FALSE
      <3>1. n \in 1 .. Len(p)
        BY <2>1, <2>2, <2>3
      <3>2. p[n + 1] = "wire"
        <4> HIDE DEF n, p
        <4> QED
          BY <2>2, <2>3, <3>1 DEF Ordered
      <3> QED
        BY <2>1, <3>2 DEF Current
    <2>4. ASSUME NEW j \in 1 .. n, r.results[j] \in Success, p[j] = "sign" => j = n
          PROVE  Steady(p[j], store, host, Subject(q))
      <3>1. p[j] # "sign"
        BY <2>2, <2>3, <2>4
      <3>2. Steady(p[j], store, host, Subject(r))
        BY <2>1, <2>4 DEF Kept
      <3> QED
        BY <3>1, <3>2 DEF Steady
    <2> HIDE DEF q
    <2>5. Kept(store, host, q)
      BY <1>3, <2>4 DEF Kept
    <2> QED
      BY <1>3, <2>1, <2>5 DEF Passed, Current
  <1>5. Steady("spec", store, host, Subject(q)) /\ Skippable("spec", q.req)
    BY PassingIs DEF Passing, Provisionings, Wirings, Singles, Skippable
  <1>6. store \in StoreRecord
    BY DEF DeployInv
  <1> HIDE DEF q
  <1>7. Sound(store, host, R) /\ R.req = r.req /\ R.results = Append(r.results, status)
    BY <1>2, <1>3, <1>4, <1>5, <1>6, ConcludedSound
  <1> HIDE DEF R
  <1>8. OneEventZero' /\ raced' \in BOOLEAN
    BY <1>1, StillSigned DEF DeployInv
  <1>9. True(c, status)
    BY <1>1 DEF True
  <1>10. store' \in StoreRecord /\ host' \in HostRecord /\ Grows(store, host, store', host')
    BY <1>1, NothingLost
  <1> QED
    BY <1>1, <1>2, <1>7, <1>8, <1>9, <1>10, Goes

\* A program is done with, and nothing it did is lost.
LEMMA Continues ==
  ASSUME DeployInv, NEW c \in Cmds, cmd[c].verdict = "running",
         store' \in StoreRecord, host' \in HostRecord, Grows(store, host, store', host'),
         NEW report \in Reports, Report(c, report), Accounted(store', host', Now(c), report),
         host'.wired # host.wired => Step(c) \in Wirings,
         store'.events = store.events, host'.lock = host.lock,
         mishaps' \in 0 .. MaxMishaps, changes' = changes, raced' = raced
  PROVE  DeployInv' /\ DeployPromise
  <1> DEFINE R == Reported(cmd[c], report)
  <1>1. cmd' = [cmd EXCEPT ![c] = R]
    BY DEF Report
  <1>2. Sound(store', host', cmd[c]) /\ Step(c) = Current(cmd[c])
    BY NowIs, SoundGrows DEF DeployInv
  <1>3. Accounted(store', host', Head(cmd[c].todo), report)
    BY DEF Now
  <1>4. /\ Sound(store', host', R) /\ R.req = cmd[c].req
        /\ \/ R.results = cmd[c].results
           \/ \E w \in Statuses : R.results = Append(cmd[c].results, w)
        /\ Current(cmd[c]) \in Provisionings \cup Wirings
    BY <1>2, <1>3, ReportedSound
  <1> HIDE DEF R
  <1>5. \A w : True(c, w)
    BY <1>2, <1>4 DEF True, Provisionings, Wirings, Singles
  <1>6. OneEventZero' /\ raced' \in BOOLEAN
    BY StillSigned DEF DeployInv
  <1>7. host.lock = "none" /\ host'.lock = "match" => Step(c) = "lock"
    OBVIOUS
  <1> QED
    BY <1>1, <1>4, <1>5, <1>6, <1>7, Goes

\* A step that fails, whatever its program did.
LEMMA Fails ==
  ASSUME DeployInv, NEW c \in Cmds, cmd[c].verdict = "running",
         store' \in StoreRecord, host' \in HostRecord, Grows(store, host, store', host'),
         NEW status \in {"failed", "refused"}, Conclude(c, status),
         host'.wired # host.wired => Step(c) \in Wirings,
         store'.events = store.events, host'.lock = host.lock,
         mishaps' \in 0 .. MaxMishaps, changes' = changes, raced' = raced
  PROVE  DeployInv' /\ DeployPromise
  <1>1. status \in Statuses /\ status \notin Success /\ status # "skipped"
    BY DEF Statuses, Success
  <1>2. OneEventZero' /\ raced' \in BOOLEAN
    BY StillSigned DEF DeployInv
  <1>3. True(c, status)
    BY <1>1 DEF True
  <1>4. host.lock = "none" /\ host'.lock = "match" => Step(c) = "lock"
    OBVIOUS
  <1> QED
    BY <1>1, <1>2, <1>3, <1>4, Ends

LEMMA Replaces ==
  ASSUME DeployInv, NEW c \in Cmds, cmd[c].verdict = "running",
         store' \in StoreRecord, host' \in HostRecord, Grows(store, host, store', host'),
         NEW y \in Program, Instead(c, <<y>>), Suits(Step(c), cmd[c].req, y), y.do # "sign",
         Now(c).do \notin {"project", "wire"},
         Now(c).do \in Identities => y.do \in Identities /\ y.on = Now(c).on,
         host'.wired = host.wired, store'.events = store.events, host'.lock = host.lock,
         mishaps' \in 0 .. MaxMishaps, changes' = changes, raced' = raced
  PROVE  DeployInv' /\ DeployPromise
  <1> DEFINE R == [cmd[c] EXCEPT !.todo = <<y>> \o Tail(cmd[c].todo)]
  <1>1. cmd' = [cmd EXCEPT ![c] = R]
    BY DEF Instead
  <1>2. Sound(store', host', cmd[c]) /\ Step(c) = Current(cmd[c])
    BY NowIs, SoundGrows DEF DeployInv
  <1>3. Sound(store', host', R) /\ R.req = cmd[c].req /\ R.results = cmd[c].results
    BY <1>2, InsteadSound DEF Now
  <1> HIDE DEF R
  <1>4. OneEventZero' /\ raced' \in BOOLEAN
    BY StillSigned DEF DeployInv
  <1>5. host.lock = "none" /\ host'.lock = "match" => Step(c) = "lock"
    OBVIOUS
  <1> QED
    BY <1>1, <1>3, <1>4, <1>5, Goes

LEMMA ProjectInv ==
  ASSUME DeployInv, NEW c \in Cmds, Project(c)
  PROVE  DeployInv' /\ DeployPromise
  <1> DEFINE p == Now(c).on
  <1>1. /\ cmd[c].verdict = "running" /\ Now(c).do = "project"
        /\ host' = host /\ changes' = changes /\ raced' = raced
    BY DEF Project, Runs, Running
  <1>2. PICK worked \in BOOLEAN : \E v \in Heard[worked \/ p \in store.schema] :
          /\ AsItShould(worked /\ v.clean)
          /\ store' = [store EXCEPT !.schema = IF worked THEN @ \cup {p} ELSE @]
          /\ Report(c, ProjectReport(v.is, p \notin store.schema))
    BY DEF Project
  <1>3. PICK v \in Heard[worked \/ p \in store.schema] :
          /\ AsItShould(worked /\ v.clean)
          /\ store' = [store EXCEPT !.schema = IF worked THEN @ \cup {p} ELSE @]
          /\ Report(c, ProjectReport(v.is, p \notin store.schema))
    BY <1>2
  <1> DEFINE report == ProjectReport(v.is, p \notin store.schema)
  <1>4. v.is \in Outcomes /\ (v.is = "success" => worked \/ p \in store.schema)
    <2>1. (worked \/ p \in store.schema) \in BOOLEAN
      OBVIOUS
    <2> QED
      BY <2>1, HeardIs
  <1>5. report \in Reports /\ (report \in Success => v.is = "success")
    BY DEF ProjectReport, NotDone, Reports, Success
  <1>6. Now(c) \in Program /\ Step(c) \in Provisionings
    BY <1>1, NowIs DEF Suits
  <1>7. /\ store' \in StoreRecord /\ store.schema \subseteq store'.schema
        /\ store'.bound = store.bound /\ store'.events = store.events
        /\ worked => p \in store'.schema
    <2>1. store \in StoreRecord
      BY DEF DeployInv
    <2>2. p \in Slugs
      BY <1>6, <1>1, NowIs DEF Suits
    <2> QED
      BY <1>3, <2>1, <2>2 DEF StoreRecord
  <1>8. Grows(store, host, store', host') /\ host' \in HostRecord
    BY <1>1, <1>7 DEF Grows, DeployInv
  <1>9. Accounted(store', host', Now(c), report)
    <2>1. Now(c).do \notin Identities
      BY <1>1 DEF Identities
    <2>2. report \in Success => p \in store'.schema
      BY <1>4, <1>5, <1>7
    <2> HIDE DEF report
    <2> QED
      BY <1>1, <2>1, <2>2 DEF Accounted
  <1>10. Report(c, report) /\ mishaps' \in 0 .. MaxMishaps
    BY <1>3, DeployBudget
  <1> HIDE DEF report
  <1> QED
    BY <1>1, <1>5, <1>7, <1>8, <1>9, <1>10, Continues

\* Who recorded what it was asked to, or said that it was there, is known.
LEMMA PrincipalInv ==
  ASSUME DeployInv, NEW c \in Cmds, Principal(c)
  PROVE  DeployInv' /\ DeployPromise
  <1> DEFINE call == Now(c)
             p == call.on
             reuse == call.do = "reuse"
             existed == p \in store.bound
  <1>1. /\ cmd[c].verdict = "running" /\ call.do \in Identities
        /\ changes' = changes /\ raced' = raced
    BY DEF Principal, Runs, Running, Identities
  <1>2. PICK does \in PrincipalDoes(p, reuse), recorded \in BOOLEAN :
        \E v \in Heard[recorded => existed \/ does = "binds"] : \E normal :
          /\ AsItShould(normal)
          /\ host' = [host EXCEPT !.key = @ \/ does # "nothing"]
          /\ store' = [store EXCEPT !.bound = IF does = "binds" THEN @ \cup {p} ELSE @]
          /\ IF Retries(v, call)
             THEN Instead(c, <<[call EXCEPT !.do = "reuse"]>>)
             ELSE Judged(c, call, PrincipalReport(v.is, existed, recorded))
    <2> DEFINE Normal(does, v, recorded) ==
                 IF p \notin store.schema THEN ~v.clean
                 ELSE IF MustReuse(p, reuse) THEN v.refusal
                 ELSE v.clean /\ recorded /\ (existed \/ does = "binds")
    <2>1. PICK does \in PrincipalDoes(p, reuse), recorded \in BOOLEAN :
          \E v \in Heard[recorded => existed \/ does = "binds"] :
            /\ AsItShould(Normal(does, v, recorded))
            /\ host' = [host EXCEPT !.key = @ \/ does # "nothing"]
            /\ store' = [store EXCEPT !.bound = IF does = "binds" THEN @ \cup {p} ELSE @]
            /\ IF Retries(v, call)
               THEN Instead(c, <<[call EXCEPT !.do = "reuse"]>>)
               ELSE Judged(c, call, PrincipalReport(v.is, existed, recorded))
      BY Zenon DEF Principal
    <2> HIDE DEF Normal
    <2> QED
      BY <2>1
  <1>3. PICK v \in Heard[recorded => existed \/ does = "binds"] : \E normal :
          /\ AsItShould(normal)
          /\ host' = [host EXCEPT !.key = @ \/ does # "nothing"]
          /\ store' = [store EXCEPT !.bound = IF does = "binds" THEN @ \cup {p} ELSE @]
          /\ IF Retries(v, call)
             THEN Instead(c, <<[call EXCEPT !.do = "reuse"]>>)
             ELSE Judged(c, call, PrincipalReport(v.is, existed, recorded))
    BY <1>2
  <1> DEFINE report == PrincipalReport(v.is, existed, recorded)
             new == [call EXCEPT !.do = "reuse"]
  <1>4. v.is \in Outcomes /\ (v.is = "success" /\ recorded => existed \/ does = "binds")
    <2>1. (recorded => existed \/ does = "binds") \in BOOLEAN
      OBVIOUS
    <2> QED
      BY <2>1, HeardIs
  <1>5. report \in Reports /\ (report \in Success => existed \/ does = "binds")
    BY <1>4 DEF PrincipalReport, NotDone, Reports, Success
  <1>6. /\ call \in Program /\ Step(c) \in Provisionings /\ p \in Slugs
        /\ Suits(Step(c), cmd[c].req, call)
    BY <1>1, NowIs DEF Suits
  <1>7. /\ store' \in StoreRecord /\ host' \in HostRecord /\ Grows(store, host, store', host')
        /\ store'.events = store.events /\ host'.wired = host.wired /\ host'.lock = host.lock
        /\ existed \/ does = "binds" => p \in store'.bound
    <2>1. store \in StoreRecord /\ host \in HostRecord
      BY DEF DeployInv
    <2>2. (host.key \/ does # "nothing") \in BOOLEAN
      OBVIOUS
    <2> DEFINE B == IF does = "binds" THEN store.bound \cup {p} ELSE store.bound
    <2>3. B \in SUBSET Slugs /\ store.bound \subseteq B /\ (existed \/ does = "binds" => p \in B)
      BY <1>6, <2>1 DEF StoreRecord
    <2>4. store' = [store EXCEPT !.bound = B]
      BY <1>3
    <2> HIDE DEF B
    <2>5. /\ store' \in StoreRecord /\ store'.schema = store.schema /\ store'.bound = B
          /\ store'.events = store.events
      BY <2>1, <2>3, <2>4 DEF StoreRecord
    <2>6. /\ host' \in HostRecord /\ host'.wired = host.wired /\ host'.lock = host.lock
      BY <1>3, <2>1, <2>2 DEF HostRecord
    <2> QED
      BY <2>3, <2>5, <2>6 DEF Grows
  <1>8. mishaps' \in 0 .. MaxMishaps
    BY <1>3, DeployBudget
  <1> HIDE DEF report, new
  <1>9. CASE Retries(v, call)
    <2>1. Instead(c, <<new>>)
      BY <1>3, <1>9 DEF new
    <2>2. /\ new \in Program /\ new.do = "reuse" /\ new.on = p /\ new.cli = call.cli
      BY <1>6 DEF Program, Dos, new
    <2>3. Suits(Step(c), cmd[c].req, new)
      BY <1>1, <1>6, <2>2 DEF Suits, Identities
    <2>4. new.do \in Identities /\ new.do # "sign" /\ call.do \notin {"project", "wire"}
      BY <1>1, <2>2 DEF Identities
    <2> HIDE DEF call
    <2> QED
      BY <1>1, <1>7, <1>8, <2>1, <2>2, <2>3, <2>4, Replaces DEF call
  <1>10. CASE ~Retries(v, call)
    <2> DEFINE bad == cmd[c].got \ {"done", "already_done"}
    <2>1. Judged(c, call, report)
      BY <1>3, <1>10 DEF report
    <2>2. \/ \E b \in bad : Conclude(c, b)
          \/ report \in Success /\ Report(c, report)
          \/ report \notin Success /\ Conclude(c, report)
      <3>1. bad # {} => (CHOOSE b \in bad : TRUE) \in bad
        OBVIOUS
      <3> QED
        BY <2>1, <3>1 DEF Judged, Ok, Success
    <2>3. CASE \E b \in bad : Conclude(c, b)
      <3>1. PICK b \in bad : Conclude(c, b)
        BY <2>3
      <3>2. b \in {"failed", "refused"}
        BY <1>1, NowIs DEF CommandRecord, Reports
      <3> QED
        BY <1>1, <1>7, <1>8, <3>1, <3>2, Fails
    <2>4. CASE report \in Success /\ Report(c, report)
      <3>1. Accounted(store', host', call, report)
        <4>1. call.do \notin {"project", "wire"}
          BY <1>1 DEF Identities
        <4> QED
          BY <1>1, <1>5, <1>7, <4>1 DEF Accounted
      <3> HIDE DEF call
      <3> QED
        BY <1>1, <1>5, <1>7, <1>8, <2>4, <3>1, Continues DEF call
    <2>5. CASE report \notin Success /\ Conclude(c, report)
      <3>1. report \in {"failed", "refused"}
        BY <1>5, <2>5 DEF Reports, Success
      <3> QED
        BY <1>1, <1>7, <1>8, <2>5, <3>1, Fails
    <2> QED
      BY <2>2, <2>3, <2>4, <2>5
  <1> QED
    BY <1>9, <1>10

LEMMA OtherProgram ==
  ASSUME NEW s, NEW q, NEW do \in {"check", "migrate", "recheck"},
         NEW cli \in {"agent-notes", "agent-notes-migrate"}, s = "projections"
  PROVE  /\ C(do, cli, "-") \in Program /\ C(do, cli, "-").do = do
         /\ Suits(s, q, C(do, cli, "-"))
  <1>1. do \in Dos /\ cli \in Clis /\ "-" \in Places
    BY DEF Dos, Clis, Places
  <1>2. C(do, cli, "-") \in Program /\ C(do, cli, "-").do = do /\ C(do, cli, "-").cli = cli
    BY <1>1, ProgramIs
  <1> QED
    BY <1>2 DEF Suits, Identities, Wirings, Singles, Provisionings, Plumbing

LEMMA CheckProjectionsInv ==
  ASSUME DeployInv, NEW c \in Cmds, CheckProjections(c)
  PROVE  DeployInv' /\ DeployPromise
  <1> DEFINE y == C("migrate", "agent-notes-migrate", "-")
  <1>1. /\ cmd[c].verdict = "running" /\ Now(c).do = "check"
        /\ store' = store /\ host' = host /\ changes' = changes /\ raced' = raced
    BY DEF CheckProjections, Runs, Running
  <1>2. Step(c) = "projections"
    BY <1>1, NowIs DEF Suits
  <1>3. CASE store.projections /\ UNCHANGED mishaps /\ Conclude(c, "already_done")
    <2>1. mishaps' \in 0 .. MaxMishaps
      BY <1>3 DEF DeployInv
    <2>2. /\ Passing(Step(c)) /\ "already_done" \in Statuses /\ "already_done" # "skipped"
          /\ True(c, "already_done")
      BY <1>1, <1>2, <1>3 DEF Passing, Provisionings, Wirings, Singles, Statuses, True
    <2> QED
      BY <1>1, <1>3, <2>1, <2>2, EndsQuietly
  <1>4. CASE AsItShould(~store.projections) /\ Instead(c, <<y>>)
    <2>1. mishaps' \in 0 .. MaxMishaps
      BY <1>4, DeployBudget
    <2>2. y \in Program /\ y.do = "migrate" /\ Suits(Step(c), cmd[c].req, y)
      BY <1>2, OtherProgram
    <2>3. store' \in StoreRecord /\ host' \in HostRecord /\ Grows(store, host, store', host')
      BY <1>1, NothingLost
    <2>4. Now(c).do \notin Identities
      BY <1>1 DEF Identities
    <2> HIDE DEF y
    <2> QED
      BY <1>1, <1>4, <2>1, <2>2, <2>3, <2>4, Replaces
  <1> QED
    BY <1>3, <1>4 DEF CheckProjections

LEMMA MigrateInv ==
  ASSUME DeployInv, NEW c \in Cmds, Migrate(c)
  PROVE  DeployInv' /\ DeployPromise
  <1> DEFINE y == C("recheck", "agent-notes", "-")
  <1>1. /\ cmd[c].verdict = "running" /\ Now(c).do = "migrate"
        /\ host' = host /\ changes' = changes /\ raced' = raced
    BY DEF Migrate, Runs, Running
  <1>2. PICK worked \in BOOLEAN, exit \in Exits :
          /\ AsItShould(worked /\ exit = 0)
          /\ store' = [store EXCEPT !.projections = @ \/ worked]
          /\ IF exit = 0 THEN Instead(c, <<y>>) ELSE Conclude(c, "failed")
    BY DEF Migrate
  <1>3. Step(c) = "projections"
    BY <1>1, NowIs DEF Suits
  <1>4. /\ store' \in StoreRecord /\ host' \in HostRecord /\ Grows(store, host, store', host')
        /\ store'.events = store.events
    <2>1. store \in StoreRecord /\ host \in HostRecord
      BY DEF DeployInv
    <2>2. (store.projections \/ worked) \in BOOLEAN
      OBVIOUS
    <2>3. /\ store' \in StoreRecord /\ store'.schema = store.schema
          /\ store'.bound = store.bound /\ store'.events = store.events
      BY <1>2, <2>1, <2>2 DEF StoreRecord
    <2> QED
      BY <1>1, <2>1, <2>3 DEF Grows
  <1>5. mishaps' \in 0 .. MaxMishaps
    BY <1>2, DeployBudget
  <1>6. y \in Program /\ y.do = "recheck" /\ Suits(Step(c), cmd[c].req, y)
    BY <1>3, OtherProgram
  <1>7. Now(c).do \notin Identities
    BY <1>1 DEF Identities
  <1> HIDE DEF y
  <1>8. CASE exit = 0
    BY <1>1, <1>2, <1>4, <1>5, <1>6, <1>7, <1>8, Replaces
  <1>9. CASE exit # 0
    BY <1>1, <1>2, <1>4, <1>5, <1>9, Fails
  <1> QED
    BY <1>8, <1>9

LEMMA WireInv ==
  ASSUME DeployInv, NEW c \in Cmds, Wire(c)
  PROVE  DeployInv' /\ DeployPromise
  <1> DEFINE pair == <<Now(c).cli, Now(c).on>>
             there == pair \in host.wired
  <1>1. /\ cmd[c].verdict = "running" /\ Now(c).do = "wire"
        /\ store' = store /\ changes' = changes /\ raced' = raced
    BY DEF Wire, Runs, Running
  <1>2. PICK worked \in BOOLEAN : \E v \in HeardInstall[worked \/ there] : \E normal :
          /\ AsItShould(normal)
          /\ host' = [host EXCEPT !.wired = IF worked THEN @ \cup {pair} ELSE @]
          /\ IF v.ok THEN Report(c, IF v.noop THEN "already_done" ELSE "done")
             ELSE Conclude(c, "failed")
    BY DEF Wire
  <1>3. PICK v \in HeardInstall[worked \/ there] : \E normal :
          /\ AsItShould(normal)
          /\ host' = [host EXCEPT !.wired = IF worked THEN @ \cup {pair} ELSE @]
          /\ IF v.ok THEN Report(c, IF v.noop THEN "already_done" ELSE "done")
             ELSE Conclude(c, "failed")
    BY <1>2
  <1>4. v.ok => worked \/ there
    <2>1. (worked \/ there) \in BOOLEAN
      OBVIOUS
    <2> QED
      BY <2>1, HeardInstallIs
  <1>5. Step(c) \in Wirings /\ Now(c) \in Program /\ Now(c).on \in ToSet(Targets)
    BY <1>1, NowIs DEF Suits
  <1>6. /\ host' \in HostRecord /\ host.wired \subseteq host'.wired /\ host'.lock = host.lock
        /\ worked \/ there => pair \in host'.wired
    <2>1. host \in HostRecord
      BY DEF DeployInv
    <2> DEFINE W == IF worked THEN host.wired \cup {pair} ELSE host.wired
    <2>2. pair \in Clis \X ToSet(Targets)
      BY <1>5 DEF Program
    <2>3. W \in SUBSET (Clis \X ToSet(Targets)) /\ host.wired \subseteq W
          /\ (worked \/ there => pair \in W)
      BY <2>1, <2>2 DEF HostRecord
    <2>4. host' = [host EXCEPT !.wired = W]
      BY <1>3
    <2> HIDE DEF W
    <2> QED
      BY <2>1, <2>3, <2>4 DEF HostRecord
  <1>7. /\ store' \in StoreRecord /\ Grows(store, host, store', host')
        /\ store'.events = store.events
    BY <1>1, <1>6 DEF DeployInv, Grows
  <1>8. mishaps' \in 0 .. MaxMishaps
    BY <1>3, DeployBudget
  <1>9. CASE v.ok
    <2> DEFINE report == IF v.noop THEN "already_done" ELSE "done"
    <2>1. Report(c, report)
      BY <1>3, <1>9
    <2>2. report \in Reports
      BY DEF Reports
    <2> HIDE DEF report
    <2>3. Accounted(store', host', Now(c), report)
      BY <1>1, <1>4, <1>6, <1>9 DEF Accounted, Identities
    <2> QED
      BY <1>1, <1>5, <1>6, <1>7, <1>8, <2>1, <2>2, <2>3, Continues
  <1>10. CASE ~v.ok
    BY <1>1, <1>3, <1>5, <1>6, <1>7, <1>8, <1>10, Fails
  <1> QED
    BY <1>9, <1>10

\* The step before a signature is not one: what a command is about to sign takes the place
\* of no other signature.
Reread(r, md, saw) == [r EXCEPT !.md = md, !.saw = saw]
LEMMA RereadKeeps ==
  ASSUME NEW r \in CommandRecord, NEW st, NEW ho, Kept(st, ho, r), Current(r) = "sign",
         Len(r.results) < Len(Plan(r.req)), Passed(r),
         NEW md \in Mds, NEW saw \in Nat,
         NEW R, R = Reread(r, md, saw)
  PROVE  /\ R \in CommandRecord /\ R.md = md /\ R.saw = saw /\ R.req = r.req
         /\ R.read = r.read /\ R.results = r.results /\ R.todo = r.todo /\ R.got = r.got
         /\ R.verdict = r.verdict
         /\ Kept(st, ho, R) /\ Passed(R) /\ Current(R) = "sign"
  <1> DEFINE n == Len(r.results)
             p == Plan(r.req)
  <1>1. /\ R \in CommandRecord /\ R.md = md /\ R.saw = saw /\ R.req = r.req
        /\ R.read = r.read /\ R.results = r.results /\ R.todo = r.todo /\ R.got = r.got
        /\ R.verdict = r.verdict
    BY DEF CommandRecord, Reread
  <1>2. n \in Nat /\ r.req \in Request
    BY LenProperties DEF CommandRecord
  <1>3. Len(p) \in Nat /\ Ordered(p)
    BY <1>2, PlanIs, PlanOrdered
  <1>4. p[n + 1] = "sign" => p[n] = "enrol"
    <2>1. n + 1 \in 1 .. Len(p) /\ (n + 1) - 1 = n
      BY <1>2, <1>3
    <2> HIDE DEF n, p
    <2> QED
      BY <1>3, <2>1 DEF Ordered
  <1>5. ASSUME NEW j \in 1 .. n, r.results[j] \in Success, p[j] = "sign" => j = n
        PROVE  Steady(p[j], st, ho, Subject(R))
    <2>1. p[j] # "sign"
      BY <1>4, <1>5 DEF Current
    <2> QED
      BY <1>5, <2>1 DEF Kept, Steady
  <1>6. Kept(st, ho, R)
    BY <1>1, <1>5 DEF Kept
  <1> QED
    BY <1>1, <1>6 DEF Passed, Current

LEMMA ReadEventsInv ==
  ASSUME DeployInv, NEW c \in Cmds, ReadEvents(c)
  PROVE  DeployInv' /\ DeployPromise
  <1> DEFINE r == cmd[c]
             md == host.md
             R == [r EXCEPT !.md = md, !.saw = Len(store.events)]
             y == C("sign", "regista", "-")
             onward == [R EXCEPT !.todo = <<y>>]
             out == VersionOf(r.read) = "none" \/ host.md = "absent"
             Known(i) == IsSigned(store.events[i], md, VersionOf(r.read))
             Signed(listed) == \E i \in listed : Known(i)
  <1>1. /\ r.verdict = "running" /\ Now(c).do = "events"
        /\ store' = store /\ host' = host /\ changes' = changes /\ raced' = raced
    BY DEF ReadEvents, Runs, Running
  <1>2. /\ store' \in StoreRecord /\ host' \in HostRecord /\ Grows(store, host, store', host')
        /\ store \in StoreRecord /\ host \in HostRecord
    BY <1>1, NothingLost DEF DeployInv
  <1>3. Step(c) = "sign" /\ r.req.spec
    BY <1>1, NowIs DEF Suits
  <1>4. CASE out
    <2>1. Conclude(c, "refused") /\ UNCHANGED mishaps
      BY <1>4 DEF ReadEvents
    <2>2. mishaps' \in 0 .. MaxMishaps
      BY <2>1, DeployBudget
    <2> QED
      BY <1>1, <1>2, <2>1, <2>2, Fails
  <1>5. CASE ~out
    <2>1. PICK readable \in BOOLEAN, listed \in Listings :
            /\ AsItShould(readable)
            /\ cmd' = [cmd EXCEPT ![c] =
                 IF readable
                 THEN IF Signed(listed) THEN Concluded(R, "already_done") ELSE onward
                 ELSE Concluded(R, "failed")]
      <3> HIDE DEF out
      <3>1. PICK readable \in BOOLEAN, listed \in Listings :
            /\ AsItShould(readable)
            /\ cmd' = [cmd EXCEPT ![c] =
                 IF readable
                 THEN IF Signed(listed) THEN Concluded(R, "already_done") ELSE onward
                 ELSE IF AfterUnread = "failed" THEN Concluded(R, "failed") ELSE onward]
        BY <1>5 DEF ReadEvents, out
      <3> HIDE DEF R, onward
      <3> QED
        BY <3>1 DEF AfterUnread
    <2>2. mishaps' \in 0 .. MaxMishaps
      BY <2>1, DeployBudget
    <2>3. md \in Mds /\ Len(store.events) \in Nat
      BY <1>2, LenProperties DEF HostRecord, StoreRecord
    <2>4. /\ r \in CommandRecord /\ Kept(store, host, r) /\ Passed(r) /\ Current(r) = "sign"
          /\ Len(r.results) < Len(Plan(r.req))
      BY <1>1, <1>3, NowIs
    <2>5. /\ R \in CommandRecord /\ R.md = md /\ R.saw = Len(store.events) /\ R.req = r.req
          /\ R.read = r.read
          /\ R.results = r.results /\ R.got = r.got /\ R.verdict = r.verdict
          /\ Kept(store, host, R) /\ Passed(R) /\ Current(R) = "sign"
      <3> DEFINE seen == Len(store.events)
      <3>1. R = Reread(r, md, seen)
        BY DEF Reread
      <3>2. seen \in Nat /\ md \in Mds
        BY <2>3
      <3>3. R.saw = seen => R.saw = Len(store.events)
        OBVIOUS
      <3> HIDE DEF R, md, seen, r, out, y, onward, Known, Signed
      <3>4. /\ R \in CommandRecord /\ R.md = md /\ R.saw = seen /\ R.req = r.req
            /\ R.read = r.read
            /\ R.results = r.results /\ R.got = r.got /\ R.verdict = r.verdict
            /\ Kept(store, host, R) /\ Passed(R) /\ Current(R) = "sign"
        BY <2>4, <3>1, <3>2, RereadKeeps
      <3> QED
        BY <3>3, <3>4
    <2>6. R.saw <= Len(store.events) /\ Len(R.results) < Len(Plan(R.req))
      BY <2>3, <2>4, <2>5
    <2>7. OneEventZero' /\ raced' \in BOOLEAN
      BY <1>1, StillSigned DEF DeployInv
    <2>8. \A w : True(c, w)
      BY <1>3 DEF True
    <2>9. Signed(listed) => Attested(store, Subject(R))
      <3>1. listed \subseteq DOMAIN store.events
        BY <1>2, LenProperties, DeployAssumption DEF Listings, StoreRecord
      <3>2. Subject(R) = <<md, VersionOf(r.read)>>
        <4> HIDE DEF R, md, r
        <4> QED
          BY <2>5 DEF Subject
      <3> HIDE DEF R, md, r
      <3> QED
        BY <3>1, <3>2 DEF Attested, ToSet
    <2>10. ~Signed(listed) /\ R.saw <= ReadLimit => ~Attested(store, Subject(R))
      <3>1. R.saw <= ReadLimit => listed = DOMAIN store.events
        BY <1>2, <2>5, LenProperties, DeployAssumption DEF Listings, StoreRecord
      <3>2. Subject(R) = <<md, VersionOf(r.read)>>
        <4> HIDE DEF R, md, r
        <4> QED
          BY <2>5 DEF Subject
      <3> HIDE DEF R, md, r
      <3> QED
        BY <3>1, <3>2 DEF Attested, ToSet
    <2> HIDE DEF r, R, md, out, Signed, Known
    <2>11. ASSUME NEW w \in {"already_done", "failed"}, w = "already_done" => Signed(listed),
                 cmd' = [cmd EXCEPT ![c] = Concluded(R, w)]
          PROVE  DeployInv' /\ DeployPromise
      <3> DEFINE N == Concluded(R, w)
      <3>1. w \in Statuses /\ w # "skipped"
        BY DEF Statuses
      <3>2. w \in Success => Steady("sign", store, host, Subject(R))
        BY <2>11, <2>9, FacesAre DEF Success, Steady, Sought, Pairs, Harnessed, Singles
      <3>3. Sound(store, host, N) /\ N.req = R.req /\ N.results = Append(R.results, w)
        BY <1>2, <2>5, <2>6, <3>1, <3>2, ConcludedSound
      <3>4. cmd' = [cmd EXCEPT ![c] = N]
        BY <2>11
      <3> HIDE DEF N
      <3>5. /\ N.req = cmd[c].req
            /\ \E u \in Statuses : N.results = Append(cmd[c].results, u) /\ True(c, u)
        BY <2>5, <2>8, <3>1, <3>3 DEF r
      <3> QED
        BY <1>1, <1>2, <2>2, <2>7, <3>3, <3>4, <3>5, Goes DEF r
    <2>12. ASSUME ~Signed(listed), cmd' = [cmd EXCEPT ![c] = onward]
           PROVE  DeployInv' /\ DeployPromise
      <3>1. "sign" \in Dos /\ "regista" \in Clis /\ "-" \in Places
        BY DEF Dos, Clis, Places
      <3>2. y \in Program /\ y.do = "sign" /\ y.cli = "regista"
        BY <3>1, ProgramIs
      <3> DEFINE t == <<y>>
      <3> HIDE DEF y
      <3>3. t \in Seq(Program) /\ t # <<>> /\ Head(t) = y /\ ToSet(t) = {y}
        BY <3>2, ToSetOne
      <3>4. onward = [R EXCEPT !.todo = t]
        OBVIOUS
      <3> HIDE DEF t, onward
      <3>5. /\ onward \in CommandRecord /\ onward.todo = t /\ onward.md = R.md
            /\ onward.read = R.read /\ onward.saw = R.saw /\ onward.req = R.req /\ onward.results = R.results
            /\ onward.verdict = R.verdict
        BY <2>5, <3>3, <3>4 DEF CommandRecord
      <3>6. Suits("sign", r.req, y)
        BY <1>3, <3>2 DEF Suits, Identities, Wirings, Singles, Provisionings, Plumbing, r
      <3>7. Sought("sign") = {} /\ Pairs("sign") = {}
        BY DEF Sought, Pairs, Harnessed, Singles
      <3>8. Subject(onward) = Subject(R) /\ (R.saw <= ReadLimit => ~Attested(store, Subject(R)))
        BY <2>12, <2>10, <3>5 DEF Subject
      <3>9. Due(store, host, onward, "sign")
        BY <2>5, <3>3, <3>5, <3>6, <3>7, <3>8 DEF Due
      <3>10. /\ Current(onward) = "sign" /\ Passed(onward)
             /\ Kept(store, host, onward)
        BY <2>5, <3>5, <3>8 DEF Current, Passed, Kept
      <3>11. Sound(store, host, onward)
        BY <2>5, <2>6, <3>5, <3>9, <3>10 DEF Sound, Underway
      <3>12. onward.req = cmd[c].req /\ onward.results = cmd[c].results
        BY <2>5, <3>5 DEF r
      <3> QED
        BY <1>1, <1>2, <2>2, <2>7, <2>12, <3>11, <3>12, Goes DEF r
    <2> HIDE DEF onward
    <2>13. CASE readable /\ Signed(listed)
      BY <2>1, <2>11, <2>13
    <2>14. CASE readable /\ ~Signed(listed)
      BY <2>1, <2>12, <2>14
    <2>15. CASE ~readable
      BY <2>1, <2>11, <2>15
    <2> QED
      BY <2>13, <2>14, <2>15
  <1> QED
    BY <1>4, <1>5

LEMMA VersionIs == \A yaml : VersionOf(yaml) \in Schemas
  BY DEF VersionOf, Schemas

LEMMA SignInv ==
  ASSUME DeployInv, NEW c \in Cmds, Sign(c)
  PROVE  DeployInv' /\ DeployPromise
  <1> DEFINE e == [yaml |-> host.yaml, md |-> cmd[c].md, version |-> VersionOf(cmd[c].read)]
             ev == store.events
  <1>1. cmd[c].verdict = "running" /\ Now(c).do = "sign" /\ host' = host /\ changes' = changes
    BY DEF Sign, Runs, Running
  <1>2. PICK worked \in BOOLEAN : \E v \in Heard[worked] :
          /\ AsItShould(v.clean \/ host.yaml = "unreadable")
          /\ store' = [store EXCEPT !.events = IF worked THEN Append(@, e) ELSE @]
          /\ raced' = (raced \/ (worked /\ (Len(ev) # cmd[c].saw \/ host.yaml # cmd[c].read)))
          /\ Conclude(c, IF v.is = "success" THEN "done" ELSE "failed")
    BY DEF Sign
  <1>3. PICK v \in Heard[worked] :
          /\ AsItShould(v.clean \/ host.yaml = "unreadable")
          /\ store' = [store EXCEPT !.events = IF worked THEN Append(@, e) ELSE @]
          /\ raced' = (raced \/ (worked /\ (Len(ev) # cmd[c].saw \/ host.yaml # cmd[c].read)))
          /\ Conclude(c, IF v.is = "success" THEN "done" ELSE "failed")
    BY <1>2
  <1> DEFINE status == IF v.is = "success" THEN "done" ELSE "failed"
  <1>4. status \in Statuses /\ status # "skipped" /\ (status \in Success => worked)
    BY HeardIs DEF Statuses, Success
  <1>5. Conclude(c, status) /\ mishaps' \in 0 .. MaxMishaps
    BY <1>3, DeployBudget
  <1> HIDE DEF status
  <1>6. /\ Step(c) = "sign" /\ cmd[c].md \in Mds /\ cmd[c].saw \in Nat
        /\ cmd[c].saw = Len(ev) /\ cmd[c].saw <= ReadLimit => ~Attested(store, Subject(cmd[c]))
    BY <1>1, NowIs DEF Suits, CommandRecord
  <1>7. /\ store \in StoreRecord /\ host \in HostRecord /\ ev \in Seq(Event)
        /\ e \in Event
    BY <1>6, VersionIs DEF DeployInv, StoreRecord, HostRecord, Event
  <1>8. e.md = cmd[c].md /\ e.yaml = host.yaml /\ e.version = VersionOf(cmd[c].read)
    OBVIOUS
  <1> HIDE DEF e
  <1> DEFINE ev2 == IF worked THEN Append(ev, e) ELSE ev
  <1>9. /\ ev2 \in Seq(Event) /\ Len(ev) \in Nat
        /\ worked => /\ Len(ev2) = Len(ev) + 1
                     /\ ToSet(ev2) = ToSet(ev) \cup {e}
                     /\ ev2[Len(ev) + 1] = e
                     /\ \A i \in 1 .. Len(ev) : ev2[i] = ev[i]
        /\ ~worked => ev2 = ev
    BY <1>7, ToSetAppend
  <1>10. store' = [store EXCEPT !.events = ev2]
    BY <1>3
  <1> HIDE DEF ev2
  <1>11. /\ store' \in StoreRecord /\ store'.events = ev2 /\ store'.schema = store.schema
         /\ store'.bound = store.bound
    BY <1>7, <1>9, <1>10 DEF StoreRecord
  <1>12. Grows(store, host, store', host') /\ host' \in HostRecord
    <2>1. worked => Len(ev2) > Len(ev)
      BY <1>9
    <2> QED
      BY <1>1, <1>7, <1>9, <1>11, <2>1 DEF Grows
  <1>13. status \in Success => Steady("sign", store', host', Subject(cmd[c]))
    <2>1. worked => Attested(store', Subject(cmd[c]))
      BY <1>8, <1>9, <1>11 DEF Attested, Subject, IsSigned
    <2> QED
      BY <1>4, <2>1 DEF Steady, Sought, Pairs, Harnessed, Singles
  <1>14. raced' \in BOOLEAN
    BY <1>3 DEF DeployInv
  <1>15. OneEventZero'
    <2>1. CASE ~worked
      <3>1. store'.events = store.events /\ raced' = raced
        BY <1>3, <1>9, <1>11, <2>1 DEF DeployInv
      <3> QED
        BY <3>1, StillSigned
    <2>2. CASE worked /\ ~raced'
      <3>1. ~raced /\ Len(ev) = cmd[c].saw /\ host.yaml = cmd[c].read
        BY <1>3, <2>2 DEF DeployInv
      <3>2. /\ \A i, j \in DOMAIN ev : i < j /\ IsSigned(ev[i], ev[j].md, ev[j].version)
                                         => j > ReadLimit + 1
            /\ \A x \in ToSet(ev) : x.version = VersionOf(x.yaml)
        BY <3>1 DEF DeployInv, OneEventZero
      <3>3. Len(ev) <= ReadLimit => \A x \in ToSet(ev) : ~IsSigned(x, e.md, e.version)
        BY <1>6, <1>8, <3>1 DEF Attested, Subject
      <3>4. DOMAIN ev = 1 .. Len(ev) /\ DOMAIN ev2 = 1 .. Len(ev) + 1
        BY <1>7, <1>9, <2>2, LenProperties
      <3>5. ASSUME NEW i \in 1 .. Len(ev), IsSigned(ev[i], e.md, e.version)
            PROVE  Len(ev) > ReadLimit
        <4>1. ev[i] \in ToSet(ev)
          BY <3>4 DEF ToSet
        <4> QED
          BY <1>9, <3>3, <3>5, <4>1, DeployAssumption
      <3>6. ASSUME NEW i \in 1 .. Len(ev) + 1, NEW j \in 1 .. Len(ev) + 1, i < j,
                   IsSigned(ev2[i], ev2[j].md, ev2[j].version)
            PROVE  j > ReadLimit + 1
        <4>1. i \in 1 .. Len(ev) /\ ev2[i] = ev[i]
          BY <1>9, <2>2, <3>6
        <4>2. CASE j = Len(ev) + 1
          <5>1. Len(ev) > ReadLimit
            BY <1>9, <2>2, <3>5, <3>6, <4>1, <4>2
          <5> QED
            BY <1>9, <4>2, <5>1, DeployAssumption
        <4>3. CASE j # Len(ev) + 1
          <5>1. j \in 1 .. Len(ev) /\ ev2[j] = ev[j]
            BY <1>9, <2>2, <4>3
          <5> QED
            BY <3>2, <3>4, <3>6, <4>1, <5>1
        <4> QED
          BY <4>2, <4>3
      <3>7. \A x \in ToSet(ev2) : x.version = VersionOf(x.yaml)
        BY <1>8, <1>9, <2>2, <3>1, <3>2
      <3> QED
        BY <1>11, <3>4, <3>6, <3>7 DEF OneEventZero
    <2>3. CASE raced'
      BY <2>3 DEF OneEventZero
    <2> QED
      BY <2>1, <2>2, <2>3
  <1>16. True(c, status)
    BY <1>6 DEF True
  <1>17. host'.wired = host.wired /\ host'.lock = host.lock
    BY <1>1
  <1> QED
    BY <1>1, <1>4, <1>5, <1>6, <1>11, <1>12, <1>13, <1>14, <1>15, <1>16, <1>17, Ends

LEMMA LockInv ==
  ASSUME DeployInv, NEW c \in Cmds, Lock(c)
  PROVE  DeployInv' /\ DeployPromise
  <1>1. /\ cmd[c].verdict = "running" /\ Step(c) = "lock"
        /\ store' = store /\ changes' = changes /\ raced' = raced
    BY DEF Lock, Running
  <1>2. PICK provenance \in BOOLEAN :
          /\ AsItShould(provenance)
          /\ host' = [host EXCEPT !.lock = IF provenance /\ @ = "none" THEN "match" ELSE @]
          /\ Conclude(c, IF ~provenance \/ host.lock = "torn" THEN "failed"
                         ELSE IF host.lock = "match" THEN "already_done" ELSE "done")
    BY DEF Lock
  <1> DEFINE status == IF ~provenance \/ host.lock = "torn" THEN "failed"
                       ELSE IF host.lock = "match" THEN "already_done" ELSE "done"
             lock == IF provenance /\ host.lock = "none" THEN "match" ELSE host.lock
  <1>3. Conclude(c, status) /\ mishaps' \in 0 .. MaxMishaps
    BY <1>2, DeployBudget
  <1>4. host \in HostRecord /\ host' = [host EXCEPT !.lock = lock]
    BY <1>2 DEF DeployInv
  <1>5. lock \in {"none", "match", "drift", "torn"}
    BY <1>4 DEF HostRecord
  <1>6. status \in Statuses /\ status # "skipped"
    BY DEF Statuses
  <1>7. status \in Success => lock \notin {"none", "torn"}
    BY <1>4 DEF Success, HostRecord
  <1> HIDE DEF status, lock
  <1>8. host' \in HostRecord /\ host'.wired = host.wired /\ host'.lock = lock
    BY <1>4, <1>5 DEF HostRecord
  <1>9. store' \in StoreRecord /\ Grows(store, host, store', host')
    BY <1>1, <1>8 DEF DeployInv, Grows
  <1>10. True(c, status)
    BY <1>1, <1>7, <1>8 DEF True
  <1>11. Steady(Step(c), store', host', Subject(cmd[c]))
    BY <1>1, PassingIs DEF Passing, Provisionings, Wirings, Singles
  <1>12. OneEventZero' /\ raced' \in BOOLEAN
    BY <1>1, StillSigned DEF DeployInv
  <1>13. store'.events = store.events
    BY <1>1
  <1> QED
    BY <1>1, <1>3, <1>6, <1>8, <1>9, <1>10, <1>11, <1>12, <1>13, Ends

-----------------------------------------------------------------------------
(* What else happens *)

\* A command starts from nothing: nothing is reported of it.
LEMMA Fresh ==
  ASSUME DeployInv, NEW c \in Cmds, NEW R, cmd' = [cmd EXCEPT ![c] = R],
         R.results = <<>>, Sound(store, host, R),
         UNCHANGED <<store, host, changes, raced>>, mishaps' \in 0 .. MaxMishaps
  PROVE  DeployInv' /\ DeployPromise
  <1>1. /\ cmd'[c] = R /\ R \in CommandRecord
        /\ cmd' \in [Cmds -> CommandRecord]
        /\ \A d \in Cmds \ {c} : cmd'[d] = cmd[d]
    BY DEF DeployInv, Sound
  <1>2. OneEventZero'
    BY StillSigned
  <1>3. DeployInv'
    BY <1>1, <1>2 DEF DeployInv
  <1>4. \A d \in Cmds : Len(cmd'[d].results) # Len(cmd[d].results) + 1
    <2> TAKE d \in Cmds
    <2>1. Len(cmd[d].results) \in Nat
      BY LenProperties DEF DeployInv, CommandRecord
    <2>2. CASE d = c
      BY <1>1, <2>1, <2>2, EmptySeq
    <2> QED
      BY <1>1, <2>1, <2>2
  <1> QED
    BY <1>3, <1>4 DEF DeployPromise

LEMMA NoCommandIs ==
  ASSUME NEW q \in Request
  PROVE  /\ [NoCommand EXCEPT !.req = q] \in CommandRecord
         /\ [NoCommand EXCEPT !.req = q].results = <<>>
         /\ [NoCommand EXCEPT !.req = q].verdict = "none"
         /\ [NoCommand EXCEPT !.req = q].saw = 0
  <1>1. <<>> \in Seq(Statuses) /\ <<>> \in Seq(Program)
    BY EmptySeq
  <1> QED
    BY <1>1 DEF NoCommand, CommandRecord, Yamls, Mds

Started(q, t) == [NoCommand EXCEPT !.verdict = "running", !.req = q, !.todo = t]
LEMMA StartedIs ==
  ASSUME NEW q \in Request, NEW t \in Seq(Program), NEW R, R = Started(q, t)
  PROVE  /\ R \in CommandRecord /\ R.results = <<>> /\ R.verdict = "running"
         /\ R.req = q /\ R.todo = t /\ R.got = {} /\ R.saw = 0
  <1>1. <<>> \in Seq(Statuses)
    BY EmptySeq
  <1> QED
    BY <1>1 DEF NoCommand, CommandRecord, Yamls, Mds, Started

LEMMA KillInv ==
  ASSUME DeployInv, NEW c \in Cmds, Kill(c)
  PROVE  DeployInv' /\ DeployPromise
  <1> DEFINE R == [NoCommand EXCEPT !.req = cmd[c].req]
  <1>1. cmd[c].req \in Request /\ Len(store.events) \in Nat
    BY LenProperties DEF DeployInv, CommandRecord, StoreRecord
  <1>2. R \in CommandRecord /\ R.results = <<>> /\ R.verdict = "none" /\ R.saw = 0
    BY <1>1, NoCommandIs
  <1>3. cmd' = [cmd EXCEPT ![c] = R] /\ UNCHANGED <<store, host, changes, raced>>
    BY DEF Kill
  <1>4. mishaps' \in 0 .. MaxMishaps
    BY DeployBudget DEF Kill
  <1> HIDE DEF R
  <1>5. Sound(store, host, R)
    BY <1>1, <1>2, EmptySeq DEF Sound, Kept
  <1> QED
    BY <1>2, <1>3, <1>4, <1>5, Fresh

LEMMA BeginInv ==
  ASSUME DeployInv, NEW c \in Cmds, NEW q \in Requests, Begin(c, q)
  PROVE  DeployInv' /\ DeployPromise
  <1> DEFINE s == Plan(q)[1]
             t == Calls(s, q)
             R == Started(q, t)
  <1>1. q \in Request /\ Len(Plan(q)) \in Nat /\ Len(Plan(q)) > 0
    BY PlanIs, DeployAssumption
  <1>2. s \in StepNames
    <2>1. 1 \in 1 .. Len(Plan(q))
      BY <1>1
    <2> QED
      BY <1>1, <2>1, PlanIs
  <1>3. cmd' = [cmd EXCEPT ![c] = R] /\ UNCHANGED <<store, host, mishaps, changes, raced>>
    BY DEF Begin, Started
  <1>4. Complete(s, q, t)
    BY <1>1, <1>2, CallsComplete
  <1> HIDE DEF s, t, R
  <1>5. /\ R \in CommandRecord /\ R.results = <<>> /\ R.verdict = "running"
        /\ R.req = q /\ R.todo = t /\ R.got = {} /\ R.saw = 0
    BY <1>1, <1>4, StartedIs DEF Complete, R
  <1>6. mishaps' \in 0 .. MaxMishaps
    BY <1>3 DEF DeployInv
  <1>7. Len(R.results) = 0 /\ Len(store.events) \in Nat
    BY <1>5, EmptySeq, LenProperties DEF DeployInv, StoreRecord
  <1>8. Passed(R) /\ Kept(store, host, R) /\ Current(R) = s
    BY <1>5, <1>7 DEF Passed, Kept, Current, s
  <1>9. Head(t) \in ToSet(t)
    BY <1>4, TailIs DEF Complete
  <1>10. Due(store, host, R, s)
    BY <1>4, <1>5, <1>9 DEF Due, Complete
  <1>11. Sound(store, host, R)
    BY <1>1, <1>5, <1>7, <1>8, <1>10 DEF Sound, Underway
  <1> QED
    BY <1>3, <1>5, <1>6, <1>11, Fresh

\* What happens around the commands takes nothing away that a step relies on, and no
\* lock that matches comes of it.
LEMMA Around ==
  ASSUME DeployInv, cmd' = cmd, mishaps' = mishaps, raced' = raced,
         changes' \in 0 .. MaxChanges,
         store' \in StoreRecord, host' \in HostRecord,
         store'.schema = store.schema, store'.bound = store.bound,
         store'.events = store.events, host'.wired = host.wired,
         host'.lock = "match" => host.lock = "match"
  PROVE  DeployInv' /\ DeployPromise
  <1>1. Grows(store, host, store', host') /\ OneEventZero' /\ store \in StoreRecord
    BY StillSigned DEF Grows, DeployInv
  <1>2. \A c \in Cmds : Sound(store', host', cmd'[c])
    BY <1>1, SoundGrows DEF DeployInv
  <1>3. DeployInv'
    BY <1>1, <1>2 DEF DeployInv
  <1>4. \A c \in Cmds : Len(cmd[c].results) \in Nat
    BY LenProperties DEF DeployInv, CommandRecord
  <1>5. \A c \in Cmds : Len(cmd'[c].results) # Len(cmd[c].results) + 1
    BY <1>4
  <1>6. ~(host.lock = "none" /\ host'.lock = "match")
    OBVIOUS
  <1> QED
    BY <1>3, <1>5, <1>6 DEF DeployPromise

LEMMA ChangeInv ==
  ASSUME DeployInv, Change
  PROVE  DeployInv' /\ DeployPromise
  <1>1. changes' \in 0 .. MaxChanges /\ UNCHANGED <<store, cmd, mishaps, raced>>
    BY DeployAssumption DEF Change, DeployInv
  <1>2. host \in HostRecord /\ store \in StoreRecord
    BY DEF DeployInv
  <1>3. host' \in HostRecord /\ host'.wired = host.wired
        /\ (host'.lock = "match" => host.lock = "match")
    <2>1. CASE \E yaml \in Yamls \ {host.yaml} : host' = [host EXCEPT !.yaml = yaml]
      BY <1>2, <2>1 DEF HostRecord
    <2>2. CASE \E md \in Mds \ {host.md} : host' = [host EXCEPT !.md = md]
      BY <1>2, <2>2 DEF HostRecord
    <2>3. CASE host' = [host EXCEPT !.config = "good"]
      BY <1>2, <2>3 DEF HostRecord
    <2>4. CASE host' = [host EXCEPT !.clis = Clis]
      BY <1>2, <2>4 DEF HostRecord
    <2>5. CASE \E l \in {"none", "drift", "torn"} : host' = [host EXCEPT !.lock = l]
      BY <1>2, <2>5 DEF HostRecord
    <2>6. CASE host' = [host EXCEPT !.clis = @ \ {"agent-notes-migrate"}]
      BY <1>2, <2>6 DEF HostRecord
    <2> QED
      BY <2>1, <2>2, <2>3, <2>4, <2>5, <2>6 DEF Change
  <1> QED
    BY <1>1, <1>2, <1>3, Around

LEMMA UpgradedInv ==
  ASSUME DeployInv, Upgraded
  PROVE  DeployInv' /\ DeployPromise
  <1>1. changes' \in 0 .. MaxChanges /\ UNCHANGED <<host, cmd, mishaps, raced>>
    BY DeployAssumption DEF Upgraded, DeployInv
  <1>2. store \in StoreRecord /\ host \in HostRecord
        /\ store' = [store EXCEPT !.projections = FALSE]
    BY DEF DeployInv, Upgraded
  <1>3. /\ store' \in StoreRecord /\ store'.schema = store.schema
        /\ store'.bound = store.bound /\ store'.events = store.events
    BY <1>2 DEF StoreRecord
  <1> QED
    BY <1>1, <1>2, <1>3, Around

LEMMA DeployInitInv ==
  ASSUME DeployInit
  PROVE  DeployInv
  <1>1. store.schema = {} /\ store.bound = {} /\ store.events = <<>>
        /\ store \in StoreRecord
    <2>1. <<>> \in Seq(Event)
      BY EmptySeq
    <2> QED
      BY <2>1 DEF DeployInit, StoreRecord
  <1>2. host \in HostRecord
    BY DEF DeployInit, HostRecord, Clis
  <1>3. mishaps \in 0 .. MaxMishaps /\ changes \in 0 .. MaxChanges /\ raced \in BOOLEAN
    <2>1. mishaps = 0 /\ changes = 0 /\ raced = FALSE
      BY Zenon DEF DeployInit
    <2>2. MaxMishaps \in Nat /\ MaxChanges \in Nat
      BY DeployAssumption
    <2>3. mishaps \in 0 .. MaxMishaps /\ changes \in 0 .. MaxChanges
      BY <2>1, <2>2
    <2> QED
      BY <2>1, <2>3
  <1>4. OneEventZero
    BY <1>1, EmptySeq DEF OneEventZero, ToSet
  <1> DEFINE R == NoCommand
  <1>5. NoRequest \in Request
    BY DEF NoRequest, Request
  <1>6. R \in CommandRecord /\ R.results = <<>> /\ R.verdict = "none" /\ R.saw = 0
    <2>1. <<>> \in Seq(Statuses) /\ <<>> \in Seq(Program)
      BY EmptySeq
    <2> QED
      BY <1>5, <2>1 DEF NoCommand, CommandRecord, Yamls, Mds
  <1>8. cmd = [c \in Cmds |-> R]
    BY Zenon DEF DeployInit
  <1> HIDE DEF R
  <1>9. Sound(store, host, R)
    BY <1>1, <1>6, EmptySeq DEF Sound, Kept
  <1> QED
    BY <1>1, <1>2, <1>3, <1>4, <1>6, <1>8, <1>9 DEF DeployInv

LEMMA DeployStep ==
  ASSUME DeployInv, [DeployNext]_deployVars
  PROVE  DeployInv' /\ (UNCHANGED deployVars \/ DeployPromise)
  <1>1. ASSUME NEW c \in Cmds, StepOf(c)
        PROVE  DeployInv' /\ DeployPromise
    BY <1>1, NotInstalledInv, PreflightInv, ReadSpecInv, SkipInv, QuestionInv, ProjectInv,
       PrincipalInv, CheckProjectionsInv, MigrateInv, RecheckInv, WireInv, ReadEventsInv,
       SignInv, LockInv, RunDoctorInv
    DEF StepOf
  <1>2. ASSUME NEW c \in Cmds, Kill(c)
        PROVE  DeployInv' /\ DeployPromise
    BY <1>2, KillInv
  <1>3. ASSUME NEW c \in Cmds, NEW q \in Requests, Begin(c, q)
        PROVE  DeployInv' /\ DeployPromise
    BY <1>3, BeginInv
  <1>4. CASE UNCHANGED deployVars
    BY <1>4 DEF deployVars, DeployInv, StoreRecord, HostRecord, OneEventZero
  <1> QED
    BY <1>1, <1>2, <1>3, <1>4, ChangeInv, UpgradedInv DEF DeployNext

\* Any number of commands on any projects, harnesses and requests, with any number of bad
\* replies, kills and changes to the host: the inductive invariant.
THEOREM DeployInductive == DeploySpec => []DeployInv
  <1>1. DeployInit => DeployInv
    BY DeployInitInv
  <1>2. DeployInv /\ [DeployNext]_deployVars => DeployInv'
    BY DeployStep
  <1> QED
    BY <1>1, <1>2, PTL DEF DeploySpec

\* The types of the three pipelines: among them, a command that goes on always has a
\* program to run, and has read no more events than there are.
THEOREM DeployTypeCorrect == DeploySpec => []DeployTypeOK
  <1>1. DeployInv => DeployTypeOK
    BY DeployTypes
  <1> QED
    BY <1>1, DeployInductive, PTL

\* While the chain fits one reading, the pair that identifies a spec (its spec.md and its
\* schema version) is signed once, and the document signed states that version, however
\* often onboarding is run again and however many run it; unless the reading it was signed
\* on had become old.
THEOREM OneEventZeroHolds == DeploySpec => []OneEventZero
  <1>1. DeployInv => OneEventZero
    BY DEF DeployInv
  <1> QED
    BY <1>1, DeployInductive, PTL

\* A step that reports done has had its effect, whatever its program printed.
THEOREM StepsAreTrueHolds == DeploySpec => StepsAreTrue
  <1>1. ASSUME DeployInv, [DeployNext]_deployVars
        PROVE  [\A c \in Cmds : LET n == Len(cmd[c].results) IN
                  /\ Len(cmd'[c].results) = n + 1
                  /\ cmd'[c].results[n + 1] \in {"done", "already_done"}
                  => Holds(Ended(c), c)']_deployVars
    BY <1>1, DeployStep DEF DeployPromise
  <1> QED
    BY <1>1, DeployInductive, PTL DEF DeploySpec, StepsAreTrue

\* No harness is wired, no spec signed and no lock written before what they rest on.
THEOREM DependenciesFirstHolds == DeploySpec => DependenciesFirst
  <1>1. ASSUME DeployInv, [DeployNext]_deployVars
        PROVE  [/\ (host'.wired # host.wired \/ store'.events # store.events) =>
                     Main \in Provisioned
                /\ \A c \in Cmds :
                     /\ cmd[c].verdict = "running" /\ Step(c) = "wire" /\ cmd[c].req.spec
                     /\ cmd'[c] # cmd[c] /\ host'.wired # host.wired
                     => SignedAmong(DOMAIN store.events, c)
                /\ host.lock = "none" /\ host'.lock = "match" =>
                     Slugs \subseteq Provisioned /\ WiredFor(ToSet(Faces))]_deployVars
    BY <1>1, DeployStep DEF DeployPromise
  <1> QED
    BY <1>1, DeployInductive, PTL DEF DeploySpec, DependenciesFirst

-----------------------------------------------------------------------------
(* Together *)

\* A step of the composition is a step of each part, or leaves that part alone.
LEMMA PartsStep ==
  ASSUME [MCNext]_vars
  PROVE  /\ [DeployNext]_deployVars /\ [ServicesNext]_svcVars
         /\ [WindowsNext]_winVars /\ [CodexNext]_codexVars
  <1>1. CASE Pipelines
    <2>1. ASSUME NEW c \in Cmds, ByItself(c)
          PROVE  DeployNext
      BY <2>1 DEF ByItself, DeployNext
    <2>2. DeployNext
      BY <1>1, <2>1, MCAssumption DEF Pipelines, DeployNext
    <2> QED
      BY <1>1, <2>2 DEF Pipelines
  <1>2. CASE UNCHANGED vars
    BY <1>2 DEF vars
  <1> QED
    BY <1>1, <1>2 DEF MCNext

LEMMA PartsSpecs ==
  MCSpec => DeploySpec /\ ServicesSpec /\ WindowsSpec /\ CodexSpec
  <1>1. MCInit => DeployInit /\ ServicesInit /\ WindowsInit /\ CodexInit
    BY DEF MCInit
  <1>2. [MCNext]_vars => /\ [DeployNext]_deployVars /\ [ServicesNext]_svcVars
                         /\ [WindowsNext]_winVars /\ [CodexNext]_codexVars
    BY PartsStep
  <1> QED
    BY <1>1, <1>2, PTL DEF MCSpec, DeploySpec, ServicesSpec, WindowsSpec, CodexSpec

\* The composition keeps every part's types.
THEOREM TypeCorrect == MCSpec => []TypeOK
  <1>1. SvcInv => ServicesTypeOK
    BY SvcTypes
  <1>2. WinInv => WindowsTypeOK
    BY WinTypes
  <1>3. CodexInv => CodexTypeOK
    BY CodexTypes
  <1> QED
    BY <1>1, <1>2, <1>3, PartsSpecs, DeployTypeCorrect, ServicesInductive, WindowsInductive,
       CodexInductive, PTL DEF TypeOK

\* What the parts promise holds of the composition.
THEOREM PromisesHold ==
    MCSpec => /\ []OneEventZero /\ StepsAreTrue /\ DependenciesFirst
              /\ ServicesAreTrue /\ ReceiptsAreTrue /\ CodexReportsAreTrue
  BY PartsSpecs, OneEventZeroHolds, StepsAreTrueHolds, DependenciesFirstHolds,
     ServicesAreTrueHolds, ReceiptsAreTrueHolds, CodexReportsAreTrueHolds
=============================================================================

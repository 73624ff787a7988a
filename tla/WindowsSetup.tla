---------------------------- MODULE WindowsSetup ----------------------------
(***************************************************************************)
(* `agent-suite setup-install` on a native Windows host                    *)
(* (src/agent_suite/windows_setup.py, windows_observation.py, winsw.py):   *)
(* the host is observed, a plan is made of what was observed, and every    *)
(* planned action is run whatever became of the one before; the receipt    *)
(* says what was applied.  Services are WinSW's: an XML file that the      *)
(* suite writes, and a registration that winsw.exe makes of it.            *)
(***************************************************************************)
EXTENDS Naturals, Sequences, FiniteSets, SequencesExt

CONSTANTS
    Services,       \* SUITE_SERVICES, in order
    MaxWinMishaps      \* bound on failing calls and kills together

ServiceSet == ToSet(Services)

ASSUME WindowsAssumption ==
    /\ Services \in Seq(ServiceSet) /\ Services # <<>> /\ IsInjective(Services)
    /\ MaxWinMishaps \in Nat

VARIABLES
    lacking,    \* the probes that do not find what they look for
    xml,        \* [ServiceSet -> the service's XML file]
    registered, \* the services the service control manager knows
    applied,    \* which of the other two operations have had their effect
    setup,      \* the command
    winMishaps,
    orphans     \* ghost: services whose XML was written and not registered

winVars == <<lacking, xml, registered, applied, setup, winMishaps, orphans>>

-----------------------------------------------------------------------------
(* Preflight and plan *)

\* profile_operations, in the order in which build_plan sorts them: services come before
\* the release that they run.
Operations(profile) ==
    CASE profile = "A" -> <<"wire_harnesses">>
      [] profile = "B" -> <<"install_release", "wire_harnesses">>
      [] profile = "C" -> <<"configure_services", "install_release", "wire_harnesses">>

\* run_preflight: what a set of operations needs of the host.
Always == {"windows", "python", "powershell", "release_identity", "ownership"}
Needs(ops) ==
    Always
      \cup (IF ops # {} THEN {"dns", "tls"} ELSE {})
      \cup (IF ops \cap {"install_release", "configure_services"} # {}
            THEN {"postgres", "secret_provider_present"} ELSE {})
      \cup (IF "configure_services" \in ops THEN {"elevation", "service_account"} ELSE {})
Probes == Needs(ToSet(Operations("C")))

\* PreflightState.READY.  build_plan also compares identities, but the command asks for
\* the ones it has just observed.
Ready(ops) == Needs(ops) \cap lacking = {}

-----------------------------------------------------------------------------
NoSetup == [verdict |-> "none", todo |-> <<>>, receipts |-> <<>>, service |-> 1,
            at |-> "compare", bad |-> FALSE]

WindowsTypeOK ==
    /\ lacking \subseteq Probes
    /\ xml \in [ServiceSet -> {"none", "same", "other"}]
    /\ registered \subseteq ServiceSet /\ orphans \subseteq ServiceSet
    /\ applied \subseteq {"install_release", "wire_harnesses"}
    /\ setup.verdict \in {"none", "running", "rejected", "dry_run", "applied", "partial", "failed"}
    /\ setup.at \in {"compare", "write", "register"}
    /\ setup.service \in DOMAIN Services
    /\ ToSet(setup.receipts) \subseteq {"applied", "failed"}
    /\ setup.verdict = "running" => setup.todo # <<>>
    /\ winMishaps \in 0 .. MaxWinMishaps

WindowsInit ==
    /\ lacking \in {{}} \cup {{p} : p \in Probes}
    /\ xml \in [ServiceSet -> {"none", "other"}]
    /\ registered = {s \in ServiceSet : xml[s] = "other"}
    /\ applied = {} /\ setup = NoSetup
    /\ winMishaps = 0 /\ orphans = {}

WinMishap == winMishaps < MaxWinMishaps /\ winMishaps' = winMishaps + 1
WinNormally(normal) == IF normal THEN UNCHANGED winMishaps ELSE WinMishap

\* setup-install without --apply is a dry run; with it, apply_plan refuses a plan that is
\* not ready.
SetupBegin(profile, apply) ==
    /\ setup.verdict # "running"
    /\ LET ops == Operations(profile) IN
       setup' = IF ~apply THEN [NoSetup EXCEPT !.verdict = "dry_run"]
                ELSE IF ~Ready(ToSet(ops)) THEN [NoSetup EXCEPT !.verdict = "rejected"]
                ELSE [NoSetup EXCEPT !.verdict = "running", !.todo = ops]
    /\ UNCHANGED <<lacking, xml, registered, applied, winMishaps, orphans>>

Doing(op) == setup.verdict = "running" /\ Head(setup.todo) = op

\* The receipt of an action, and at the end of the plan the receipt of all.
Summed(receipts) ==
    IF ToSet(receipts) = {"applied"} THEN "applied"
    ELSE IF ToSet(receipts) = {"failed"} THEN "failed" ELSE "partial"
Receipt(good) ==
    LET receipts == Append(setup.receipts, IF good THEN "applied" ELSE "failed") IN
    setup' = [NoSetup EXCEPT !.todo = Tail(setup.todo), !.receipts = receipts,
                !.verdict = IF Len(setup.todo) > 1 THEN "running" ELSE Summed(receipts)]

\* install_release: pip; wire_harnesses: `agent-suite onboard` (module Deploy), each by its
\* exit code alone.
Apply(op) ==
    /\ Doing(op)
    /\ \E worked, zero \in BOOLEAN :
          /\ zero => worked
          /\ WinNormally(zero)
          /\ applied' = IF worked THEN applied \cup {op} ELSE applied
          /\ Receipt(zero)
    /\ UNCHANGED <<lacking, xml, registered, orphans>>

-----------------------------------------------------------------------------
(* configure_services: install_winsw_service for each of them *)

Service == Services[setup.service]

\* The next service, however this one went, or the receipt of the operation.
ServiceDone(good) ==
    IF setup.service < Len(Services)
    THEN setup' = [setup EXCEPT !.service = @ + 1, !.at = "compare", !.bad = @ \/ ~good]
    ELSE Receipt(good /\ ~setup.bad)

ServiceAt(at) == Doing("configure_services") /\ setup.at = at

\* Mutant: a file of that name is enough.
Unchanged_Exists(s) == xml[s] # "none"

\* ALREADY_INSTALLED: the file holds what would be written.  The service itself is not
\* looked at.
Unchanged(s) == xml[s] = "same"
Compare ==
    /\ ServiceAt("compare")
    /\ IF Unchanged(Service) THEN ServiceDone(TRUE)
       ELSE setup' = [setup EXCEPT !.at = "write"]
    /\ UNCHANGED <<lacking, xml, registered, applied, winMishaps, orphans>>

WriteXml ==
    /\ ServiceAt("write")
    /\ \E written \in BOOLEAN :
          /\ WinNormally(written)
          /\ xml' = [xml EXCEPT ![Service] = IF written THEN "same" ELSE @]
          /\ IF written THEN setup' = [setup EXCEPT !.at = "register"] ELSE ServiceDone(FALSE)
          /\ orphans' = IF written THEN orphans \cup {Service} ELSE orphans
    /\ UNCHANGED <<lacking, registered, applied>>

Register ==
    /\ ServiceAt("register")
    /\ \E worked, zero \in BOOLEAN :
          /\ zero => worked
          /\ WinNormally(zero)
          /\ registered' = IF worked THEN registered \cup {Service} ELSE registered
          /\ orphans' = IF worked THEN orphans \ {Service} ELSE orphans
          /\ ServiceDone(zero)
    /\ UNCHANGED <<lacking, xml, applied>>

\* remove_winsw_service: what winsw.exe answers is ignored, and the XML goes.
RemoveService(s) ==
    /\ setup.verdict # "running" /\ xml[s] # "none"
    /\ \E worked, unlinked \in BOOLEAN :
          /\ WinNormally(worked /\ unlinked)
          /\ registered' = IF worked THEN registered \ {s} ELSE registered
          /\ xml' = [xml EXCEPT ![s] = IF unlinked THEN "none" ELSE @]
          /\ orphans' = IF unlinked THEN orphans \ {s}
                        ELSE IF worked /\ xml[s] = "same" THEN orphans \cup {s} ELSE orphans
    /\ UNCHANGED <<lacking, applied, setup>>

SetupKill ==
    /\ setup.verdict = "running" /\ WinMishap
    /\ setup' = NoSetup
    /\ UNCHANGED <<lacking, xml, registered, applied, orphans>>

WindowsNext ==
    \/ \E profile \in {"A", "B", "C"}, apply \in BOOLEAN : SetupBegin(profile, apply)
    \/ Apply("install_release") \/ Apply("wire_harnesses")
    \/ Compare \/ WriteXml \/ Register \/ SetupKill
    \/ \E s \in ServiceSet : RemoveService(s)

WindowsSpec == WindowsInit /\ [][WindowsNext]_winVars

-----------------------------------------------------------------------------
(* Property *)

\* A receipt that says applied is true of the host, over any failures and kills before it:
\* every service is known to Windows and has the XML that the suite writes for it now, and
\* every other operation has had its effect.  The one exception is the service that an
\* earlier run wrote the XML of and did not get registered (`orphans`): the XML is all that
\* a later run looks at.
ReceiptsAreTrue ==
    [][setup.verdict = "running" /\ setup'.verdict = "applied"
       => /\ "wire_harnesses" \in applied'
          /\ Len(setup'.receipts) > 1 => "install_release" \in applied'
          /\ Len(setup'.receipts) > 2 =>
                /\ ServiceSet \subseteq registered \cup orphans
                /\ \A s \in ServiceSet : xml[s] = "same"]_winVars
=============================================================================

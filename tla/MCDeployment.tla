---------------------------- MODULE MCDeployment ----------------------------
(* An instance for TLC of what makes a host ready: the three pipelines, the *)
(* services of Linux and of Windows, and the Codex plugins.  A behaviour is *)
(* about one of them (`focus`): they share nothing that is modelled.  The   *)
(* pipelines run alone with every request on every host, or two onboardings *)
(* of one project at the same time on a host that is fit for them.  A      *)
(* project is onboarded without a spec once its chain is at the bound.      *)
EXTENDS Deploy, Services, WindowsSetup, Codex

CONSTANTS c1, c2

ASSUME MCAssumption == {c1, c2} \subseteq Cmds

VARIABLE focus

MCProjects == <<"main", "prov">>
MCTargets == <<"claude">>
MCUnits == <<"dossier">>
MCServices == <<"agent-suite-dossier", "agent-suite-wake">>
MCProfiles == {<<"agent-notes">>, <<"agent-notes", "cairn">>}
A(kind, all, onboarding, spec, extras) ==
    [kind |-> kind, all |-> all, onboarding |-> onboarding, spec |-> spec, extras |-> extras]
MCRequests == {A("bootstrap", TRUE, FALSE, FALSE, TRUE),
               A("onboard", FALSE, FALSE, TRUE, FALSE),
               A("onboard", FALSE, FALSE, FALSE, FALSE),
               A("deploy", FALSE, TRUE, TRUE, FALSE)}

vars == <<focus, deployVars, svcVars, winVars, codexVars>>

TypeOK ==
    /\ DeployTypeOK /\ ServicesTypeOK
    /\ WindowsTypeOK /\ CodexTypeOK

\* One initial state for what a behaviour is not about.
Resting(focused, is) == focused \/ is
MCInit ==
    /\ focus \in {"one", "pair", "services", "windows", "codex"}
    /\ DeployInit
    /\ Resting(focus = "one", Fit)
    /\ host.yaml \in {"first", "unversioned", "unreadable"} /\ host.md # "v2"
    /\ ServicesInit
    /\ Resting(focus = "services", \A u \in UnitSet : program[u] = "system" /\ unit[u].counted)
    /\ WindowsInit
    /\ Resting(focus = "windows", lacking = {} /\ registered = {})
    /\ CodexInit
    /\ Resting(focus = "codex", ~market.alien /\ world.versioned
                                /\ world.namesakes = {} /\ world.direct = {})
    /\ (world.namesakes = {}) = (world.direct = {})

ByItself(c) == StepOf(c) \/ Kill(c) \/ \E q \in Requests : Begin(c, q)
Pipelines ==
    /\ \/ ByItself(c1)
       \/ focus = "pair" /\ ByItself(c2)
       \/ Change \/ Upgraded
    /\ focus = "pair" => /\ host'.config = "good" /\ host'.clis = Clis
                         /\ \A c \in Cmds : cmd'[c].req.kind = "onboard" \/ cmd'[c] = NoCommand
    /\ \A c \in Cmds : cmd'[c].req.kind = "onboard" /\ ~cmd'[c].req.spec
                         => Len(store.events) >= MaxEvents
    /\ UNCHANGED <<svcVars, winVars, codexVars>>
MCNext ==
    /\ \/ focus \in {"one", "pair"} /\ Pipelines
       \/ focus = "services" /\ ServicesNext
             /\ UNCHANGED <<deployVars, winVars, codexVars>>
       \/ focus = "windows" /\ WindowsNext
             /\ UNCHANGED <<deployVars, svcVars, codexVars>>
       \/ focus = "codex" /\ CodexNext
             /\ UNCHANGED <<deployVars, svcVars, winVars>>
    /\ UNCHANGED focus

MCSpec == MCInit /\ [][MCNext]_vars /\ DeployFairness
=============================================================================

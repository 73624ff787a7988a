-------------------------------- MODULE Codex --------------------------------
(***************************************************************************)
(* `agent-suite codex-plugins`: the pinned plugins of a Codex profile      *)
(* (src/agent_suite/codex_catalog.py, codex_marketplace.py,                *)
(* codex_health.py, codex_verify.py).                                      *)
(*                                                                         *)
(* build-marketplace composes a local marketplace of links into the        *)
(* components' checkouts; install and uninstall go through the Codex       *)
(* program, by one snapshot of what it has; health and verify read it      *)
(* again.  A plugin is its name and its marketplace: one of the same name  *)
(* from elsewhere (`namesakes`) is another plugin.                         *)
(***************************************************************************)
EXTENDS Naturals, Sequences, FiniteSets, SequencesExt

CONSTANTS
    Profiles,       \* catalog_for_profile: sequences of plugins
    MaxCodexMishaps,     \* bound on failing calls and kills together
    MaxCodexEdits        \* bound on what else happens to the checkouts and to Codex

Plugins == UNION {ToSet(p) : p \in Profiles}
Hooked == {"cairn"}                         \* has hooks to be reviewed
Doctored == {"agent-notes", "cairn"}        \* whose doctor reports a direct adapter

ASSUME CodexAssumption ==
    /\ Profiles # {} /\ \A p \in Profiles : p \in Seq(ToSet(p)) /\ p # <<>> /\ IsInjective(p)
    /\ MaxCodexMishaps \in Nat /\ MaxCodexEdits \in Nat

VARIABLES
    plugin,     \* [Plugins -> version, and whether it is enabled], as Codex has them
    checkout,   \* [Plugins -> what the component's own manifest says]
    market,     \* the local marketplace's directory
    world,      \* Codex, and what else is there
    use,        \* the command
    codexMishaps, codexEdits

codexVars == <<plugin, checkout, market, world, use, codexMishaps, codexEdits>>

Versions == {"absent", "pin", "other", "unknown"}
Snapshot == [installed : [Plugins -> Versions], offered : [Plugins -> Versions]]
NoSnapshot == [installed |-> [p \in Plugins |-> "absent"],
               offered |-> [p \in Plugins |-> "absent"]]
NoUse == [kind |-> "none", profile |-> <<>>, reviewed |-> FALSE, at |-> "none",
          todo |-> <<>>, seen |-> NoSnapshot, looked |-> FALSE, enabled |-> {},
          bad |-> FALSE, verdict |-> "none", disturbed |-> FALSE]

CodexTypeOK ==
    /\ plugin \in [Plugins -> [version : Versions, enabled : {"on", "off", "unset"}]]
    /\ checkout \in [Plugins -> {"pin", "other", "invalid"}]
    /\ market.links \subseteq Plugins /\ market.listed \subseteq Plugins
    /\ {market.made, market.owned, market.alien, market.odd} \subseteq BOOLEAN
    /\ world.namesakes \subseteq Plugins /\ world.direct \subseteq Plugins
    /\ {world.cli, world.configured, world.versioned} \subseteq BOOLEAN
    /\ use.kind \in {"none", "build", "install", "uninstall", "health", "verify"}
    /\ use.verdict \in {"none", "running", "ok", "not_ok"}
    /\ ToSet(use.todo) \subseteq ToSet(use.profile)
    /\ use.seen \in Snapshot /\ use.looked \in BOOLEAN
    /\ use.enabled \subseteq Plugins
    /\ market.owned => market.made
    /\ codexMishaps \in 0 .. MaxCodexMishaps /\ codexEdits \in 0 .. MaxCodexEdits

\* versioned: this Codex says which version a marketplace offers.
CodexInit ==
    /\ plugin = [p \in Plugins |-> [version |-> "absent", enabled |-> "on"]]
    /\ checkout = [p \in Plugins |-> "pin"]
    /\ \E alien \in BOOLEAN :
          market = [made |-> FALSE, owned |-> FALSE, alien |-> alien, odd |-> FALSE,
                    links |-> {}, listed |-> {}]
    /\ \E versioned \in BOOLEAN, namesakes \in {{}, Plugins}, direct \in {{}, Doctored} :
          world = [cli |-> TRUE, configured |-> TRUE, versioned |-> versioned,
                   namesakes |-> namesakes, direct |-> direct \cap Plugins]
    /\ use = NoUse /\ codexMishaps = 0 /\ codexEdits = 0

CodexMishap == codexMishaps < MaxCodexMishaps /\ codexMishaps' = codexMishaps + 1
CodexNormally(normal) == IF normal THEN UNCHANGED codexMishaps ELSE CodexMishap

Using(kinds, at) == use.verdict = "running" /\ use.kind \in kinds /\ use.at = at
To(at) == use' = [use EXCEPT !.at = at]
Done(good) == use' = [NoUse EXCEPT !.verdict = IF good THEN "ok" ELSE "not_ok"]

\* The commands begin with different questions.
First(kind) == CASE kind = "build"  -> "ownership"
                 [] kind = "verify" -> "session"
                 [] kind = "health" -> "health"
                 [] OTHER           -> "list"
CodexBegin(kind, profile, reviewed) ==
    /\ use.verdict # "running"
    /\ use' = [NoUse EXCEPT !.kind = kind, !.profile = profile, !.reviewed = reviewed,
                            !.at = First(kind), !.todo = profile, !.verdict = "running"]
    /\ UNCHANGED <<plugin, checkout, market, world, codexMishaps, codexEdits>>

-----------------------------------------------------------------------------
(* build-marketplace *)

\* A directory with something in it is touched only if it has the owner's file; every
\* manifest must have the name and the version of the pin; nothing but links may be among
\* the plugins.
Validate ==
    /\ Using({"build"}, "ownership")
    /\ IF /\ market.alien \/ market.made => market.owned
          /\ \A p \in ToSet(use.profile) : checkout[p] = "pin"
          /\ ~market.odd
       THEN To("links") ELSE Done(FALSE)
    /\ UNCHANGED <<plugin, checkout, market, world, codexMishaps, codexEdits>>

\* The links that are not of the profile go, and the others are made.  A file that somebody
\* put there since goes with them, unless it has a plugin's name.
Link ==
    /\ Using({"build"}, "links")
    /\ \E halfway \in SUBSET ToSet(use.profile) :
          LET whole == halfway = ToSet(use.profile)
              inTheWay == market.odd /\ ~whole
          IN  /\ CodexNormally(whole \/ inTheWay)
              /\ market' = [market EXCEPT !.made = TRUE, !.odd = @ /\ ~whole,
                                          !.links = (@ \cap ToSet(use.profile)) \cup halfway]
              /\ IF whole THEN To("catalog")
                 ELSE IF inTheWay THEN Done(FALSE) ELSE use' = NoUse
    /\ UNCHANGED <<plugin, checkout, world, codexEdits>>
Catalog ==
    /\ Using({"build"}, "catalog")
    /\ market' = [market EXCEPT !.listed = ToSet(use.profile)]
    /\ To("owner")
    /\ UNCHANGED <<plugin, checkout, world, codexMishaps, codexEdits>>

\* The owner's file is the last thing written: a first build that dies before it leaves a
\* directory that every later build refuses.
Own ==
    /\ Using({"build"}, "owner")
    /\ market' = [market EXCEPT !.owned = TRUE]
    /\ Done(TRUE)
    /\ UNCHANGED <<plugin, checkout, world, codexMishaps, codexEdits>>

-----------------------------------------------------------------------------
(* install, uninstall *)

\* What Codex says of the plugins of this marketplace: an installed one is not offered.
Offers(p) ==
    IF ~world.configured \/ p \notin market.links \cap market.listed
       \/ checkout[p] = "invalid" \/ plugin[p].version # "absent"
    THEN "absent"
    ELSE IF world.versioned THEN checkout[p] ELSE "unknown"
Inventory == [installed |-> [p \in Plugins |-> plugin[p].version],
              offered |-> [p \in Plugins |-> Offers(p)]]

\* _discover_plugin_state: one snapshot, and without it nothing is done.
List ==
    /\ Using({"install", "uninstall"}, "list")
    /\ \E readable \in BOOLEAN :
          /\ CodexNormally(readable)
          /\ IF world.cli /\ readable
             THEN use' = [use EXCEPT !.at = "each", !.seen = Inventory]
             ELSE Done(FALSE)
    /\ UNCHANGED <<plugin, checkout, market, world, codexEdits>>

\* The next plugin, however this one went.
Each(good) ==
    LET bad == use.bad \/ ~good IN
    IF Len(use.todo) = 1 THEN Done(~bad)
    ELSE use' = [use EXCEPT !.todo = Tail(@), !.bad = bad]

\* Mutant: a plugin is its name.
Present_ByName(p) == IF p \in world.namesakes THEN "pin" ELSE use.seen.installed[p]

\* index_by_identity
Present(p) == use.seen.installed[p]

\* A version that the marketplace does not state is taken for the pinned one.
Acceptable(version) == version \in {"pin", "unknown"}

AddPlugin ==
    /\ Using({"install"}, "each")
    /\ LET p == Head(use.todo) IN
       IF Present(p) # "absent"
       THEN /\ Each(Present(p) = "pin")
            /\ UNCHANGED <<plugin, codexMishaps>>
       ELSE IF ~Acceptable(use.seen.offered[p])
       THEN Each(FALSE) /\ UNCHANGED <<plugin, codexMishaps>>
       ELSE \E worked, zero \in BOOLEAN :
               /\ zero => worked
               /\ worked => world.cli /\ checkout[p] # "invalid"
               /\ CodexNormally(zero \/ ~world.cli \/ checkout[p] = "invalid")
               /\ plugin' = IF worked
                            THEN [plugin EXCEPT ![p] = [version |-> checkout[p],
                                                        enabled |-> "on"]]
                            ELSE plugin
               /\ Each(zero)
    /\ UNCHANGED <<checkout, market, world, codexEdits>>

RemovePlugin ==
    /\ Using({"uninstall"}, "each")
    /\ LET p == Head(use.todo) IN
       IF use.seen.installed[p] = "absent"
       THEN Each(TRUE) /\ UNCHANGED <<plugin, codexMishaps>>
       ELSE \E worked, zero \in BOOLEAN :
               /\ zero => worked
               /\ worked => world.cli
               /\ CodexNormally(zero \/ ~world.cli)
               /\ plugin' = IF worked THEN [plugin EXCEPT ![p].version = "absent"] ELSE plugin
               /\ Each(zero)
    /\ UNCHANGED <<checkout, market, world, codexEdits>>

-----------------------------------------------------------------------------
(* health, verify *)

\* _determine_plugin_status = INSTALLED_ENABLED
Healthy(p) == plugin[p].enabled = "on" /\ plugin[p].version = "pin"

\* A check that fails does not stop the ones after it.
Checked(good, next) == use' = [use EXCEPT !.at = next, !.bad = @ \/ ~good]
ReadOnly == UNCHANGED <<plugin, checkout, market, world, codexEdits>>

Session ==
    /\ Using({"verify"}, "session")
    /\ \E loggedIn \in BOOLEAN :
          /\ CodexNormally(loggedIn)
          /\ IF world.cli THEN Checked(loggedIn, "availability") ELSE Done(FALSE)
    /\ ReadOnly

\* _marketplace_check, _availability_checks: the offered and the installed together.
Availability ==
    /\ Using({"verify"}, "availability")
    /\ \E readable \in BOOLEAN :
          /\ CodexNormally(readable)
          /\ Checked(/\ readable /\ world.cli /\ world.configured
                     /\ \A p \in ToSet(use.profile) :
                           "pin" \in {Offers(p), plugin[p].version}, "health")
    /\ ReadOnly

\* check_codex_health: a Codex that is not found, by `which` or when it is run, is a report
\* of no plugins and no error; a list that cannot be had is an error.
Answers == {"list", "error", "not_found"}
HealthAnswers == IF world.cli THEN Answers ELSE {"not_found"}
Enabled(answer) == IF answer = "list" THEN {p \in ToSet(use.profile) : Healthy(p)} ELSE {}

\* The health command ends here: it also asks that every plugin is healthy.  verify has a
\* failing check for every error and for every unhealthy plugin that was listed.
Health ==
    /\ Using({"verify", "health"}, "health")
    /\ \E answer \in HealthAnswers :
          /\ CodexNormally(answer = "list" \/ ~world.cli)
          /\ LET looked == answer = "list"
                 ready == Enabled(answer) = ToSet(use.profile)
             IN  IF use.kind = "health" THEN Done(looked /\ ready)
                 ELSE use' = [use EXCEPT !.at = "overlap", !.looked = looked,
                                         !.enabled = Enabled(answer),
                                         !.bad = @ \/ answer = "error" \/ (looked /\ ~ready)]
    /\ ReadOnly

\* _component_doctor_check and the hook review.  A doctor that cannot be read is a warning,
\* and a warning does not stand in the way of ready; neither does a plugin that health did
\* not find enabled.
Overlap ==
    /\ Using({"verify"}, "overlap")
    /\ \E unread \in SUBSET (ToSet(use.profile) \cap Doctored) :
          /\ CodexNormally(unread = {})
          /\ Done(/\ ~use.bad
                  /\ world.direct \cap (use.enabled \ unread) = {}
                  /\ use.enabled \cap Hooked # {} => use.reviewed)
    /\ ReadOnly

-----------------------------------------------------------------------------
(* What else happens *)

CodexKill ==
    /\ use.verdict = "running" /\ CodexMishap
    /\ use' = NoUse
    /\ UNCHANGED <<plugin, checkout, market, world, codexEdits>>

\* A checkout moves on or back; a plugin is switched off, removed or updated; the direct
\* adapters are removed; somebody puts a file among the links.
Edit ==
    /\ codexEdits < MaxCodexEdits /\ codexEdits' = codexEdits + 1
    /\ use' = [use EXCEPT !.disturbed = @ \/ use.verdict = "running"]
    /\ \/ /\ \E p \in Plugins, v \in {"pin", "other", "invalid"} :
                checkout' = [checkout EXCEPT ![p] = v]
          /\ UNCHANGED <<plugin, market, world>>
       \/ /\ \E p \in Plugins :
                /\ plugin[p].version # "absent"
                /\ \E v \in {"absent", "other", "unknown"}, e \in {"on", "off", "unset"} :
                      plugin' = [plugin EXCEPT ![p] = [version |-> v, enabled |-> e]]
          /\ UNCHANGED <<checkout, market, world>>
       \/ /\ \/ world' = [world EXCEPT !.direct = {}]
             \/ world' = [world EXCEPT !.configured = ~@]
             \/ world' = [world EXCEPT !.cli = ~@]
          /\ UNCHANGED <<plugin, checkout, market>>
       \/ /\ market.made /\ market' = [market EXCEPT !.odd = ~@]
          /\ UNCHANGED <<plugin, checkout, world>>
    /\ UNCHANGED codexMishaps

CodexNext ==
    \/ \E kind \in {"build", "install", "uninstall", "health", "verify"},
          profile \in Profiles, reviewed \in BOOLEAN :
             (reviewed => kind = "verify") /\ CodexBegin(kind, profile, reviewed)
    \/ Validate \/ Link \/ Catalog \/ Own
    \/ List \/ AddPlugin \/ RemovePlugin
    \/ Session \/ Availability \/ Health \/ Overlap
    \/ CodexKill \/ Edit

CodexSpec == CodexInit /\ [][CodexNext]_codexVars

-----------------------------------------------------------------------------
(* Property *)

Wanted == ToSet(use.profile)

\* What verify's ready says: of a Codex that health found, everything; of one that was
\* there until then, only what was looked at before.
VerifyReady ==
    /\ world.configured
    /\ \A p \in Wanted : "pin" \in {Offers(p), plugin[p].version}
    /\ use.looked => /\ \A p \in Wanted : Healthy(p)
                     /\ Wanted \cap Hooked # {} => use.reviewed

\* What a command's success says.  The exception is a plugin whose version the marketplace
\* did not state: install calls it pinned unseen.
Earned ==
    CASE use.kind = "build" ->
           /\ market.links = Wanted /\ market.listed = Wanted
           /\ \A p \in Wanted : checkout[p] = "pin"
      [] use.kind = "install" ->
           \A p \in Wanted : plugin'[p].version = "pin" \/ use.seen.offered[p] = "unknown"
      [] use.kind = "uninstall" -> \A p \in Wanted : plugin'[p].version = "absent"
      [] use.kind = "health"    -> \A p \in Wanted : Healthy(p)
      [] use.kind = "verify"    -> VerifyReady

\* What a successful command says is so when it ends, if nobody else changed anything
\* meanwhile: whatever failed, was killed or was changed before it began.  And a directory
\* with somebody else's files in it is never written to.
CodexReportsAreTrue ==
    [][/\ use.verdict = "running" /\ use'.verdict = "ok" /\ ~use.disturbed => Earned
       /\ market.alien => market'.links = market.links /\ ~market'.owned]_codexVars
=============================================================================

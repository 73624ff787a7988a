----------------------------- MODULE ChildResult -----------------------------
(***************************************************************************)
(* How the suite reads a component it has run.  Every step of bootstrap,   *)
(* onboard and deploy is another program's work, and what that program     *)
(* prints and its exit code are all the suite has to judge it by.          *)
(*                                                                         *)
(*   component_result.py   a verb with --json (regista)                    *)
(*   harness_install.py    `<component> install-harness <target> --json`   *)
(*   provisioning.py       what a verdict means for a project's identity   *)
(*                                                                         *)
(* A component may be wrong about what it did.  The one thing asked of it  *)
(* is that work it did not do shows somewhere: in its exit code, in an     *)
(* error, or in what is missing from its reply (`Honest`).                 *)
(***************************************************************************)
EXTENDS Naturals, Sequences

Outcomes == {"success", "refused", "failed"}
Exits == {0, 1}

-----------------------------------------------------------------------------
(* --json verbs *)

\* `raised`: no reply at all (not found, killed, timed out).  `shapeless`: JSON, but
\* neither an object nor a list of objects.  `refusal`: the error envelope with the code
\* PRINCIPAL_KEY_ALREADY_EXISTS.  `error`: any other envelope, ok:false included.
Outs == {"raised", "empty", "garbled", "shapeless", "error", "refusal", "records"}
Replies == [out : Outs,
            error : BOOLEAN,        \* a record has an error string on it
            complete : BOOLEAN,     \* every record has the fields the caller reads
            exit : Exits]
Clean == [out |-> "records", error |-> FALSE, complete |-> TRUE, exit |-> 0]
Refusal == [Clean EXCEPT !.out = "refusal", !.exit = 1]

\* Mutant: the exit code is the verdict.
Evaluate_ByExit(r) ==
    IF r.out = "refusal" THEN "refused"
    ELSE IF r.out # "raised" /\ r.exit = 0 THEN "success" ELSE "failed"

\* evaluate_component_result: an error in the reply counts whatever the exit code is,
\* and an exit code can only make things worse.
Evaluate(r) ==
    CASE r.out = "refusal" -> "refused"
      [] r = Clean         -> "success"
      [] OTHER             -> "failed"

Honest(worked, r) == worked \/ r # Clean

\* The verdicts an honest component can come to, by whether its work is done.
Verdict(r) == [is |-> Evaluate(r), clean |-> r = Clean, refusal |-> r = Refusal]
Heard == [worked \in BOOLEAN |->
            {Verdict(r) : r \in {x \in Replies : Honest(worked, x)}}]

-----------------------------------------------------------------------------
(* install-harness *)

\* `one`: a single record; `many`: more than one.  `about`: the record has every field, in
\* its type, and names the tool and the harness that were asked for.
InstallOuts == {"raised", "empty", "garbled", "one", "many"}
InstallStatuses == {"none", "unknown", "installed", "degraded", "unsupported", "failed"}
InstallReplies == [out : InstallOuts, about : BOOLEAN, status : InstallStatuses,
                   noop : BOOLEAN, exit : Exits]
Wired(noop) == [out |-> "one", about |-> TRUE, status |-> "installed",
                noop |-> noop, exit |-> 0]

\* evaluate_install_harness_result, for the components asked for a structured result.
Installed(r) ==
    /\ r.out = "one" /\ r.about
    /\ r.status = "installed"
    /\ r.exit = 0

HonestInstall(worked, r) == worked \/ ~(\E n \in BOOLEAN : r = Wired(n))

InstallVerdict(r) == [ok |-> Installed(r), noop |-> r.noop, clean |-> r = Wired(r.noop)]
HeardInstall == [worked \in BOOLEAN |->
            {InstallVerdict(r) : r \in {x \in InstallReplies : HonestInstall(worked, x)}}]

-----------------------------------------------------------------------------
(* Provisioning *)

Reports == {"done", "already_done", "refused", "failed"}
Ok(report) == report \in {"done", "already_done"}

\* _outcome_for: for a verdict that is not a success.
NotDone(outcome) == IF outcome = "refused" THEN "refused" ELSE "failed"

\* provision_project: already_done only if the component says that it created nothing.
ProjectReport(outcome, created) ==
    IF outcome # "success" THEN NotDone(outcome)
    ELSE IF created THEN "done" ELSE "already_done"

\* _interpret_principal: `existed` and `registered` are the component's own words.
PrincipalReport(outcome, existed, registered) ==
    IF outcome # "success" THEN NotDone(outcome)
    ELSE IF existed THEN "already_done"
    ELSE IF registered THEN "done" ELSE "failed"

\* _OUTCOME_PRECEDENCE: the worst of several.
Worst(reports) ==
    IF "failed" \in reports THEN "failed"
    ELSE IF "refused" \in reports THEN "refused"
    ELSE IF "done" \in reports THEN "done" ELSE "already_done"
=============================================================================

------------------------------ MODULE Alerting ------------------------------
(***************************************************************************)
(* agent_suite.alerting.run_alert_check, which the agent-suite-doctor-alert *)
(* timer runs: one doctor call, compared with the verdict the last run left *)
(* in last-doctor-state.json; a change is posted to agent-wake.  The timer  *)
(* never runs its service twice at once.  `agent-suite doctor`, which an    *)
(* operator runs, makes the same call with other arguments.                *)
(***************************************************************************)
EXTENDS Doctor

VARIABLES
    timer,   \* whether the schedule is installed on this host
    url,     \* whether a wake URL is configured
    file,    \* last-doctor-state.json
    check,   \* the locals of run_alert_check
    told,    \* ghost: the last notice that reached agent-wake
    slip     \* ghost: since a notice was last delivered, a run lost its
             \* state or its notice

alertVars == <<timer, url, file, check, told, slip>>
vars == <<doctorVars, alertVars>>

\* _read_state gives no prior for a file that is missing or torn.
NoPrior == {"missing", "torn"}
Colours == {"green", "red"}
Files == NoPrior \cup Colours
Quiet == "quiet"

Resting == [at |-> "idle", kind |-> Quiet]

Init ==
    /\ DoctorInit
    /\ timer \in BOOLEAN
    /\ url \in {FALSE, timer}
    /\ file = "missing"
    /\ check = Resting
    /\ told = "nothing"
    /\ slip = FALSE

Colour(ok) == IF ok THEN "green" ELSE "red"

\* Mutant: only a change from a known colour is announced.
NoticeFor_KnownOnly(now, prior) ==
    IF prior \in NoPrior \/ prior = now THEN Quiet ELSE now

\* Mutant: every red run is announced.
NoticeFor_EveryRed(now, prior) ==
    IF now = "green" THEN IF prior = "red" THEN "green" ELSE Quiet ELSE "red"

\* Mutant: recoveries are not announced.
NoticeFor_NoRecovery(now, prior) ==
    IF now = "red" /\ prior # "red" THEN "red" ELSE Quiet

\* RED, RECOVERY or INITIAL_RED: the colour a notice announces, if there is one.
NoticeFor(now, prior) ==
    IF now = "green" THEN IF prior = "red" THEN "green" ELSE Quiet
    ELSE IF prior \in NoPrior \cup {"green"} THEN "red" ELSE Quiet

-----------------------------------------------------------------------------
BeginCheck ==
    /\ timer
    /\ check.at = "idle"
    /\ StartCall(FALSE, Unscoped, {})
    /\ check' = [check EXCEPT !.at = "doctor"]
    /\ UNCHANGED <<timer, url, file, told, slip>>

(* The verdict is in: the prior one is read and the notice chosen.          *)
Compare ==
    /\ check.at = "doctor"
    /\ call.at = "done"
    /\ check' = [at |-> "truncate", kind |-> NoticeFor(Colour(call.verdict), file)]
    /\ call' = [Idle EXCEPT !.at = "done", !.verdict = call.verdict]
    /\ UNCHANGED <<world, changes, faults, timer, url, file, told, slip>>

(* write_text truncates the file and then fills it; the colour it writes is  *)
(* the verdict's.                                                           *)
Truncate ==
    /\ check.at = "truncate"
    /\ file' = "torn"
    /\ check' = [check EXCEPT !.at = "fill"]
    /\ UNCHANGED <<doctorVars, timer, url, told, slip>>

Fill ==
    /\ check.at = "fill"
    /\ file' = Colour(call.verdict)
    /\ check' = [check EXCEPT !.at = "emit"]
    /\ UNCHANGED <<doctorVars, timer, url, told, slip>>

(* OSError from either is swallowed and the run goes on.                    *)
WriteFails ==
    /\ check.at \in {"truncate", "fill"}
    /\ faults < MaxFaults
    /\ faults' = faults + 1
    /\ check' = [check EXCEPT !.at = "emit"]
    /\ slip' = (slip \/ check.at = "fill" \/ check.kind # Quiet)
    /\ UNCHANGED <<world, call, changes, timer, url, file, told>>

EndCheck ==
    /\ check' = Resting
    /\ call' = Idle
    /\ UNCHANGED <<world, changes, timer, url, file>>

NothingToEmit ==
    /\ check.at = "emit"
    /\ check.kind = Quiet \/ ~url
    /\ slip' = (slip \/ check.kind # Quiet)
    /\ UNCHANGED <<told, faults>>
    /\ EndCheck

Delivered ==
    /\ check.at = "emit"
    /\ check.kind # Quiet /\ url
    /\ told' = check.kind
    /\ slip' = (file # check.kind)
    /\ UNCHANGED faults
    /\ EndCheck

(* No answer, or an error: the notice may have arrived all the same.        *)
DeliveryFails ==
    /\ check.at = "emit"
    /\ check.kind # Quiet /\ url
    /\ faults < MaxFaults
    /\ faults' = faults + 1
    /\ told' \in {told, check.kind}
    /\ slip' = TRUE
    /\ EndCheck

(* The process of the check dies.                                           *)
CheckDies ==
    /\ check.at # "idle"
    /\ faults < MaxFaults
    /\ faults' = faults + 1
    /\ slip' = (slip \/ check.at = "fill" \/ (check.at = "emit" /\ check.kind # Quiet))
    /\ UNCHANGED told
    /\ EndCheck

CheckStep == Compare \/ Truncate \/ Fill \/ NothingToEmit \/ Delivered

(* The operator's own doctor: its report goes to the terminal.  It touches   *)
(* nothing a check touches, so it is explored on hosts without the timer.    *)
BeginDoctor(required, asked) ==
    /\ ~timer
    /\ check.at = "idle"
    /\ StartCall(TRUE, required, asked)
    /\ UNCHANGED alertVars

EndDoctor ==
    /\ check.at = "idle"
    /\ call.at = "done"
    /\ call' = Idle
    /\ UNCHANGED <<world, changes, faults, alertVars>>

Next ==
    \/ BeginCheck
    \/ CheckStep
    \/ WriteFails
    \/ DeliveryFails
    \/ CheckDies
    \/ \E required \in Profiles \cup {Unscoped}, asked \in Asks :
           BeginDoctor(required, asked)
    \/ EndDoctor
    \/ CallStep /\ UNCHANGED alertVars
    \/ WorldStep /\ UNCHANGED alertVars

Spec == Init /\ [][Next]_vars

(***************************************************************************)
(* The timer keeps firing, and a run that has begun is a process that is    *)
(* scheduled: every subprocess it waits for has a timeout, whose expiry is  *)
(* an answer.  Nothing is assumed about slow probes, failures and crashes   *)
(* but their bound.                                                         *)
(***************************************************************************)
Answering ==
    \/ \E c \in Components : Look(c) \/ Ask(c) \/ AskRemote(c) \/ Collect(c)
    \/ Join \/ Check \/ Fold

Fairness ==
    /\ WF_vars(Answering /\ UNCHANGED alertVars)
    /\ WF_vars(CheckStep)
    /\ WF_vars(EndDoctor)
    /\ SF_vars(BeginCheck)

LiveSpec == Spec /\ Fairness

-----------------------------------------------------------------------------
TypeOK ==
    /\ DoctorTypeOK
    /\ timer \in BOOLEAN
    /\ url \in BOOLEAN
    /\ file \in Files
    /\ check \in [at : {"idle", "doctor", "truncate", "fill", "emit"},
                  kind : Colours \cup {Quiet}]
    /\ told \in Colours \cup {"nothing"}
    /\ slip \in BOOLEAN

(* A green report was earned: every component had, at some moment of the     *)
(* call, an answer that is not a failure, whatever the order in which the    *)
(* probes looked, finished and were collected; and the spine was there, or   *)
(* everything the profile requires was installed or served remotely.        *)
GreenWasSeen ==
    call.at = "done" /\ call.verdict /\ check.at \in {"idle", "doctor"} =>
        /\ \A c \in Components : call.seen[c] \ Broken # {}
        /\ call.required = Unscoped => call.seen[Spine] \cap {"ok", "degraded"} # {}
        /\ call.required # Unscoped =>
               \A c \in call.required \ configured :
                   call.seen[c] \cap {"ok", "degraded"} # {}

\* What a caller should be told of the estate as it is now, by the rules the
\* comments of _compute_suite_ok and aggregate give: nothing installed answers
\* badly, no configured endpoint the caller knows of is down, what must be there
\* is, and no check of the suite objects.
Serving(c, endpoints) ==
    IF cli[c] # "missing" THEN cli[c] \in {"ok", "degraded"}
    ELSE c \in Shared /\ endpoints /\ c \in configured /\ endpoint[c] = "up"

Bad(c, endpoints) ==
    \/ cli[c] \in Broken
    \/ cli[c] = "missing" /\ c \in Shared /\ endpoints /\ c \in configured
          /\ endpoint[c] = "down"

Sound(endpoints, required, asked) ==
    LET present == {c \in Components : Serving(c, endpoints)}
    IN  /\ \A c \in Components : ~Bad(c, endpoints)
        /\ IF required = Unscoped THEN Spine \in present ELSE required \subseteq present
        /\ pins # NoLock => suite["lock"] = "good" /\ pins = present
        /\ \A x \in {"memory", "keys"} : suite[x] # "bad"
        /\ \A x \in asked : suite[x] = "good"

(* When nothing moved during a call, and no probe was slow, its verdict is    *)
(* the one the estate deserves: no report was lost between a worker and the  *)
(* fold, and no check overrode another.                                     *)
VerdictIsDeserved ==
    call.at = "done" /\ call.still /\ check.at \in {"idle", "doctor"} =>
        call.verdict = Sound(call.endpoints, call.required, call.asked)

(* "Run agent-suite doctor" (alerting.py): on an estate at rest the verdict a *)
(* scheduled check acts on is the one `agent-suite doctor` prints.           *)
AlertAgreesWithDoctor ==
    check.at = "doctor" /\ call.at = "done" /\ call.still =>
        call.verdict = Sound(TRUE, Unscoped, {})

(* Between two runs the state file and what agent-wake was told agree, unless *)
(* a run lost its state or its notice: a red nobody was told of is not        *)
(* recorded as known, and a recovered suite is not left reported red.        *)
StateIsTold ==
    ~slip /\ check.at \notin {"fill", "emit"} => (told = "red" <=> file = "red")

(* A stable colour is announced once: a notice about to be posted says        *)
(* something else than the last one that arrived.                            *)
NoticeIsNews ==
    check.at = "emit" /\ check.kind # Quiet /\ url /\ ~slip =>
        /\ told # check.kind
        /\ told = "nothing" => check.kind = "red"

(* A call always ends, although a probe may raise, time out, or outlive the   *)
(* collection window.                                                       *)
Returns == call.at # "idle" ~> call.at = "idle"

Sick == \E c \in Components : cli[c] \in Broken
Well == Sound(FALSE, Unscoped, {})

(* A suite that stays broken is in the end reported red, and one that stays   *)
(* well is not, unless a run lost its state or its notice.                  *)
ColourIsTold ==
    /\ <>[]Sick => <>[](told = "red" \/ slip \/ ~timer)
    /\ <>[]Well => <>[](told # "red" \/ slip)
=============================================================================

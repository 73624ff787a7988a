--------------------------- MODULE LockAgreement ---------------------------
(***************************************************************************)
(* The release check that every member's own SUITE.lock pins the spine the   *)
(* umbrella lock pins (lock_agreement.py, scripts/check-lock-agreement.py).  *)
(*                                                                         *)
(* What a lock may leave out, or spell so that it reads as left out, is a    *)
(* set of at most one value. The umbrella maps each name of its components   *)
(* table to its entry, `locks` each member to the lock found in its checkout. *)
(***************************************************************************)
EXTENDS Naturals

Spine == "regista"

\* umbrella_regista_pin: both strings must be there.
Pin(umbrella) ==
    IF Spine \notin DOMAIN umbrella THEN {}
    ELSE {[version |-> v, sha |-> s] : v \in UNION {e.version : e \in umbrella[Spine]},
                                       s \in UNION {e.revision : e \in umbrella[Spine]}}

Members(umbrella) == DOMAIN umbrella \ {Spine}

\* Compared with or without --strict.
IdentityProblem(member, entry, lock) ==
    \E e \in entry, id \in lock.component :
        \/ id.name # member
        \/ \E v \in e.version : id.version # v

CheckMember(member, pin, entry, locks, strict) ==
    IF locks = {}
    THEN IF strict /\ entry # {} THEN "missing-lock" ELSE "no-spine"
    ELSE IF \E l \in locks : IdentityProblem(member, entry, l) THEN "identity-mismatch"
    ELSE IF \A l \in locks : l.spine = {} THEN "no-spine"
    ELSE IF \A l \in locks : l.spine \subseteq pin THEN "agree" ELSE "disagree"

CheckAll(umbrella, locks, strict) ==
    [m \in Members(umbrella) |->
        CheckMember(m, Pin(umbrella), umbrella[m], locks[m], strict)]

HasFailure(results) ==
    \E m \in DOMAIN results :
        results[m] \in {"disagree", "missing-lock", "identity-mismatch"}

\* 2: nothing was checked. An umbrella without a pin ends in an uncaught error.
CheckExit(umbrella, locks, strict) ==
    IF Members(umbrella) # {} /\ \A m \in Members(umbrella) : locks[m] = {} THEN 2
    ELSE IF Pin(umbrella) = {} \/ HasFailure(CheckAll(umbrella, locks, strict)) THEN 1
    ELSE 0

\* What a member's checkout must look like for the release.
InAgreement(member, pin, entry, locks) ==
    \A l \in locks :
        /\ l.spine \subseteq pin
        /\ \A e \in entry, id \in l.component :
              id.name = member /\ \A v \in e.version : id.version = v
=============================================================================

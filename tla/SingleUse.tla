----------------------------- MODULE SingleUse -----------------------------
(***************************************************************************)
(* What dual control promises, without files, clocks or processes: a       *)
(* request is asked for by one principal, granted at most once, by another *)
(* one, and used at most once after that; an unanswered one may lapse.     *)
(* DualControl implements it.                                              *)
(***************************************************************************)
CONSTANTS Ids, Principals

VARIABLES
    phase,      \* [Ids -> {"new", "asked", "granted", "used", "lapsed"}]
    asker,      \* [Ids -> SUBSET Principals]: who asked, at most one
    granter     \* [Ids -> SUBSET Principals]: who granted, at most one

vars == <<phase, asker, granter>>

Init ==
    /\ phase = [i \in Ids |-> "new"]
    /\ asker = [i \in Ids |-> {}]
    /\ granter = [i \in Ids |-> {}]

Ask(i, who) ==
    /\ phase[i] = "new"
    /\ phase' = [phase EXCEPT ![i] = "asked"]
    /\ asker' = [asker EXCEPT ![i] = {who}]
    /\ UNCHANGED granter

Grant(i, by) ==
    /\ phase[i] = "asked"
    /\ by \notin asker[i]
    /\ phase' = [phase EXCEPT ![i] = "granted"]
    /\ granter' = [granter EXCEPT ![i] = {by}]
    /\ UNCHANGED asker

Use(i) ==
    /\ phase[i] = "granted"
    /\ phase' = [phase EXCEPT ![i] = "used"]
    /\ UNCHANGED <<asker, granter>>

\* Unanswered requests lapse together.
Lapse(S) ==
    /\ \A i \in S : phase[i] = "asked"
    /\ phase' = [i \in Ids |-> IF i \in S THEN "lapsed" ELSE phase[i]]
    /\ UNCHANGED <<asker, granter>>

Next ==
    \/ \E i \in Ids, who \in Principals : Ask(i, who) \/ Grant(i, who)
    \/ \E i \in Ids : Use(i)
    \/ \E S \in SUBSET Ids : Lapse(S)

Spec == Init /\ [][Next]_vars
=============================================================================

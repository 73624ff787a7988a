----------------------------- MODULE MCUpgrade -----------------------------
(* Instances of Upgrade for TLC: a spine and one face whose unit is restarted. *)
EXTENDS Upgrade, TLC

CONSTANTS p1, p2

MCServices == {2}

\* The second regista release migrates the schema.
MCSchema == [v \in Versions |-> IF v = 1 THEN 1 ELSE 2]

\* Committed locks: two complete ones, and one made before the face was installed and
\* while `regista version --json` failed, so that it pins regista and has no quad.
MCRefs == {[pins |-> <<1, 1>>, quad |-> 1], [pins |-> <<2, 2>>, quad |-> 2],
           [pins |-> <<1, 0>>, quad |-> Absent]}
OneRef == {[pins |-> <<1, 1>>, quad |-> 1]}

AllEffects == {"none", "applied", "removed"}
Untouched == {"none"}

\* Another actor installs a managed version or an editable checkout, or removes it.
MCDriftTo == {Managed(1), [ver |-> 2, owned |-> FALSE], Gone}

\* Invocations are interchangeable.
Symmetry == Permutations(Procs)
=============================================================================

--------------------------- MODULE MCDualControl ---------------------------
(* An instance of DualControl for TLC: three people, one holding a weak     *)
(* token besides a strong one, a token text both present (as the CLI, which *)
(* stamps one principal per verb, allows), and two approving processes.     *)
EXTENDS DualControl, TLC

CONSTANTS alice, bob, carol, rotate, d1, d2, ta, tb, tc, tweak, r1, r2, h1, h2, c1, c2

MCTokenOf == [t \in {ta, tb, tc, tweak} |->
    CASE t = ta -> [principal |-> alice, level |-> 2, expires |-> 3, hash |-> h1]
      [] t = tb -> [principal |-> bob, level |-> 1, expires |-> 2, hash |-> h1]
      [] t = tc -> [principal |-> carol, level |-> 1, expires |-> 3, hash |-> h2]
      [] t = tweak -> [principal |-> bob, level |-> 0, expires |-> 3, hash |-> h2]]
MCMinLevel == [op \in {rotate} |-> 1]

\* The operation's minimum, the most step-up, and a requester whose token is too weak.
MCAsked == {[token |-> ta, op |-> rotate, digest |-> d1, level |-> 0],
            [token |-> ta, op |-> rotate, digest |-> d2, level |-> 2],
            [token |-> tweak, op |-> rotate, digest |-> d1, level |-> 1]}

\* A library caller may pass a request object that differs from the stored one in
\* requester, level and digest, and an approval written for another request or token.
Mismatched == [id |-> r1, requester |-> bob, op |-> rotate, level |-> 0,
               digest |-> d2, expires |-> 3]
MCPresented ==
    {[request |-> Mismatched, token |-> ta,
      approval |-> [id |-> r1, approver |-> alice, hash |-> h1, digest |-> d2]],
     [request |-> Mismatched, token |-> tb,
      approval |-> [id |-> r1, approver |-> bob, hash |-> h1, digest |-> d1]],
     [request |-> Mismatched, token |-> tb,
      approval |-> [id |-> r2, approver |-> alice, hash |-> h2, digest |-> d1]]}

Symmetry == Permutations(Callers)
=============================================================================

----------------------------- MODULE MCSession -----------------------------
(* Model values for checking LoginSession with TLC.                        *)
EXTENDS LoginSession, TLC

CONSTANTS a1, a2, s1, s2, z1, z2, z3, l1, l2, l3

TwoAccounts == {a1, a2}
TwoServers == {s1, s2}
ThreeZones == {z1, z2, z3}
ThreeLinks == {l1, l2, l3}

(* The first login server has two zone servers.                            *)
Layout == z1 :> s1 @@ z2 :> s1 @@ z3 :> s2

(* The zone servers of one login server, the links and the accounts can be *)
(* exchanged.                                                              *)
Symmetry == {f @@ g @@ h : f \in Permutations(Links), g \in Permutations(Accounts),
                           h \in Permutations({z1, z2})}
=============================================================================

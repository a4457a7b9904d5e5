----------------------------- MODULE MCPersist -----------------------------
(* Model values for checking PersistLayer with TLC.                        *)
EXTENDS PersistLayer, TLC

CONSTANTS a1, a2, s1, s2

OneAccount == {a1}
TwoAccounts == {a1, a2}
OneServer == {s1}
TwoServers == {s1, s2}

ServerSymmetry == Permutations(TwoServers)
AccountSymmetry == Permutations(TwoAccounts)
=============================================================================

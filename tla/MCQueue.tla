------------------------------ MODULE MCQueue ------------------------------
(* Model values for checking LoginQueue with TLC.                          *)
EXTENDS LoginQueue

CONSTANTS a1, a2, l1, l2, l3, l4

OneAccount == {a1}
TwoAccounts == {a1, a2}
OneLink == {l1}
FourLinks == {l1, l2, l3, l4}
AnyKind == {"PLAYER", "NEWPLAYER"}
KindCreated == {"NEWPLAYER"}
=============================================================================

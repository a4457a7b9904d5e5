----------------------------- MODULE MCSection -----------------------------
(* Model values for checking Section with TLC.                             *)
EXTENDS Section, TLC

CONSTANTS s1, s2

TwoSenders == {s1, s2}

(* A login server and a zone server, as a zone server's peers see them.    *)
DistinctKinds == s1 :> 2 @@ s2 :> 3
=============================================================================

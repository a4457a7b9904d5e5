------------------------------- MODULE MCZone -------------------------------
(* Model values for checking ZoneRegistry with TLC.                        *)
EXTENDS ZoneRegistry

CONSTANTS z1, z2

OneZone == {z1}
TwoZones == {z1, z2}
=============================================================================

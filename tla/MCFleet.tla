------------------------------ MODULE MCFleet ------------------------------
(* Small instances of Fleet: a site of three machines limited to two       *)
(* workers, a machine with no site, and two tokens for the three workers.  *)
EXTENDS Fleet

CONSTANTS d1, d2, d3, d4, home, none

MCDevices == {d1, d2, d3, d4}
MCSites == {home, none}
MCSiteOf == [d \in MCDevices |-> IF d = d4 THEN none ELSE home]
MCSiteConcurrency == [s \in MCSites |-> IF s = home THEN 2 ELSE 0]
MCOutcomes == {"ok"}
=============================================================================

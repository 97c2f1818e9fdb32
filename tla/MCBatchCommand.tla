--------------------------- MODULE MCBatchCommand ---------------------------
(* Three machines of one site, two workers, two tokens.                    *)
EXTENDS BatchCommand

CONSTANTS d1, d2, d3, home

MCDevices == {d1, d2, d3}
MCSites == {home}
MCSiteOf == [d \in MCDevices |-> home]
MCSiteConcurrency == [s \in MCSites |-> 2]
MCOutcomes == {"sent", "failed"}
MCSuccess == {"sent"}
=============================================================================

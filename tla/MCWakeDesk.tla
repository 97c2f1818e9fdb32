---------------------------- MODULE MCWakeDesk ----------------------------
(* Instances of the Wake Desk, each with a user who does some of what the  *)
(* desk offers.                                                            *)
EXTENDS WakeDesk, TLC

CONSTANTS pc1, pc2

MCMachines == {pc1, pc2}
MCOneMachine == {pc1}

MCBusy == Uses \ {"check", "delete"}
MCBatches == {"batch", "check", "act", "delete"}
MCPower == {"act", "power"}

MCSymmetry == Permutations(MCMachines)
=============================================================================

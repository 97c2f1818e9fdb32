-------------------------- MODULE MCRemoteManager --------------------------
(* Two browser sessions and one stream for a machine, one call of Stop and *)
(* the call of Close.                                                      *)
EXTENDS RemoteManager

CONSTANTS b1, b2, m1, m2, s1, pc1

MCOpens == {b1, b2, m1}
MCStops == {s1}
MCDevices == {pc1}
MCDeviceOf == [x \in MCOpens \cup MCStops |-> pc1]
MCStreams == {m1}

\* Streams only, as the Wake Desk opens them.
MCTwoStreams == {m1, m2}
MCStreamDeviceOf == [x \in MCTwoStreams \cup MCStops |-> pc1]
=============================================================================

--------------------------- MODULE MCLocalSession ---------------------------
EXTENDS LocalSession
CONSTANTS s1, s2, s0, p1, p2

MCPids == {p1, p2}
MCSessions == {s0, s1, s2}
MCOld == {s0}
=============================================================================

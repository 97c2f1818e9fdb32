-------------------------- MODULE MCPresenceCache --------------------------
(* Three calls for one key, one of them forced, and one for another key.   *)
EXTENDS PresenceCache

CONSTANTS c1, c2, c3, c4, k1, k2

MCCallers == {c1, c2, c3, c4}
MCKeys == {k1, k2}
MCKeyOf == [c \in MCCallers |-> IF c = c4 THEN k2 ELSE k1]
MCForced == {c2}
MCMortal == {c1, c2}
=============================================================================

---------------------------- MODULE MCInventory ----------------------------
EXTENDS LanSync, TLC
CONSTANTS r1, r2, s1, s2, m1, m2, m3, g1, a1, a2, p1, p2

MCRelayIds == {r1, r2}
MCSiteIds == {s1, s2}
MCMachineIds == {m1, m2, m3}
MCGroupIds == {g1}
MCNameOf == (r1 :> "router") @@ (r2 :> "router") @@ (s1 :> "home") @@ (s2 :> "home")
            @@ (m1 :> "pc") @@ (m2 :> "nas") @@ (m3 :> "pc") @@ (g1 :> "all")
MCAddresses == {a1, a2}
MCSubnet == (s1 :> {a1}) @@ (s2 :> {a1, a2})
MCSightings == {{a1}, {a2}, {a1, a2}}
MCProcs == {p1, p2}
MCDoing == {"relay", "site", "machine", "remotes", "powers", "file", "scan"}
MCStart == [relays |-> {r1}, sites |-> s1 :> None,
            machines |-> (m1 :> [site |-> None, relay |-> None, ip |-> a1])
                         @@ (m2 :> [site |-> s1, relay |-> r1, ip |-> a1]),
            groups |-> g1 :> {m1}, remotes |-> <<>>, powers |-> <<>>]

Symmetry == Permutations(MCProcs)
============================================================================

------------------------------- MODULE LanSync -------------------------------
(***************************************************************************)
(* A scan of the LAN that follows machines to the addresses they are found *)
(* at (internal/scanner/lan.go, wol scan, the discovery of the Wake Desk), *)
(* over the Inventory that other calls change meanwhile.                   *)
(*                                                                         *)
(* A scan is a call of Inventory: the machines as it read them, what the   *)
(* ARP table says of each, those still to follow, and the hosts to add.    *)
(***************************************************************************)
EXTENDS Inventory

CONSTANTS
    Subnet,     \* Subnet[s]: the addresses a scan may give a machine of site s
    Sightings   \* the sets of addresses a machine may be seen at

ASSUME SubnetAssumption == Subnet \in [SiteIds -> SUBSET Addresses]
ASSUME SightingsAssumption == Sightings \subseteq SUBSET Addresses /\ \A S \in Sightings : IsFiniteSet(S)

Found(c, m) == CHOOSE a \in c.found[m] : TRUE

\* ClassifyLAN: the machines found elsewhere than they were read; one seen at
\* two addresses, or woken through a relay, is not followed.
Moved(seen, found) ==
    {m \in DOMAIN seen :
        /\ Cardinality(found[m]) = 1 /\ found[m] # {seen[m].ip}
        /\ seen[m].relay = None}

\* The neighbors are listed and the machines read. --add takes the hosts whose
\* MAC no machine has.
BeginScan(p) ==
    /\ \E found \in [DOMAIN db.machines -> Sightings], n \in 0 .. 1 :
        /\ n <= Cardinality(Fresh(MachineIds, DOMAIN db.machines))
        /\ Begin(p, "scan", [step |-> "follow", seen |-> db.machines, found |-> found,
                             todo |-> Moved(db.machines, found), next |-> None, new |-> n])
    /\ NoWrite

\* Variant: the scan ends at the first machine that stays where it is.
CheckSiteOrStop(p) ==
    /\ At(p, "follow") /\ call[p].next = None
    /\ \E m \in call[p].todo :
        LET s == call[p].seen[m].site
            follow == s = None \/ (s \in DOMAIN db.sites /\ db.sites[s] = None /\ Found(call[p], m) \in Subnet[s])
        IN  call' = [call EXCEPT ![p].todo = IF follow THEN @ \ {m} ELSE {},
                                 ![p].next = IF follow THEN m ELSE None]
    /\ UNCHANGED begun
    /\ NoWrite

\* GetSite, for a machine that had one: a site there is no more ends the scan,
\* one that is behind a relay or whose subnet is another keeps its machine.
CheckSite(p) ==
    /\ At(p, "follow") /\ call[p].next = None
    /\ \E m \in call[p].todo :
        LET s == call[p].seen[m].site
            follow == s = None \/ (db.sites[s] = None /\ Found(call[p], m) \in Subnet[s])
        IN  IF s # None /\ s \notin DOMAIN db.sites
            THEN End(p)
            ELSE /\ call' = [call EXCEPT ![p].todo = @ \ {m}, ![p].next = IF follow THEN m ELSE None]
                 /\ UNCHANGED begun
    /\ NoWrite

\* Variant: the remote profile stays behind.
SyncMachineOnly(p) ==
    /\ At(p, "follow") /\ call[p].next # None
    /\ LET m == call[p].next
           old == call[p].seen[m].ip
           new == Found(call[p], m)
       IN  IF m \in DOMAIN db.machines /\ db.machines[m].ip = old
           THEN Write(p, [db EXCEPT !.machines[m].ip = new])
           ELSE UNCHANGED <<db, disturbed>>
    /\ call' = [call EXCEPT ![p].next = None]
    /\ UNCHANGED <<spent, file, begun, follows>>

\* SyncDeviceAddress: one transaction that moves the machine, if it is still
\* where it was read, and the remote profile that has that address.
SyncDeviceAddress(p) ==
    /\ At(p, "follow") /\ call[p].next # None
    /\ LET m == call[p].next
           old == call[p].seen[m].ip
           new == Found(call[p], m)
       IN  IF m \in DOMAIN db.machines /\ db.machines[m].ip = old
           THEN Write(p, [db EXCEPT !.machines[m].ip = new,
                    !.remotes = [n \in DOMAIN @ |-> IF n = m /\ @[n] = old THEN new ELSE @[n]]])
           ELSE UNCHANGED <<db, disturbed>>
    /\ call' = [call EXCEPT ![p].next = None]
    /\ UNCHANGED <<spent, file, begun, follows>>

\* A host is added under a name of its own; one that cannot be is left out.
AddHost(p) ==
    /\ At(p, "follow") /\ call[p].todo = {} /\ call[p].next = None /\ call[p].new > 0
    /\ \/ \E m \in Fresh(MachineIds, DOMAIN db.machines), a \in Addresses :
            /\ Write(p, [db EXCEPT !.machines = Put(@, m, [site |-> None, relay |-> None, ip |-> a])])
            /\ spent' = spent \cup {m}
       \/ UNCHANGED <<db, disturbed, spent>>
    /\ call' = [call EXCEPT ![p].new = @ - 1]
    /\ UNCHANGED <<begun, file, follows>>

EndScan(p) ==
    /\ At(p, "follow") /\ call[p].todo = {} /\ call[p].next = None /\ call[p].new = 0
    /\ End(p)
    /\ NoWrite

Scan(p) == BeginScan(p) \/ CheckSite(p) \/ SyncDeviceAddress(p) \/ AddHost(p) \/ EndScan(p)

SharedSpec == Init /\ [][Next \/ \E p \in Procs : Scan(p)]_vars

-----------------------------------------------------------------------------
\* A scan that nothing overtook leaves every machine it may follow where it
\* was found: those no relay wakes, found once, within the subnet of their
\* site; whatever happens to the others (SyncDeviceIPs).
ScanCatchesUp ==
    [][\A p \in Procs : EndScan(p) /\ ~disturbed =>
        LET c == call[p] IN
        \A m \in DOMAIN c.seen :
            (/\ Cardinality(c.found[m]) = 1
             /\ c.seen[m].relay = None
             /\ c.seen[m].site # None => db.sites[c.seen[m].site] = None /\ c.found[m] \subseteq Subnet[c.seen[m].site])
                => c.found[m] = {db.machines[m].ip}]_vars
=============================================================================

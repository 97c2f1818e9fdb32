---------------------------- MODULE InventoryProofs ----------------------------
(* Theorems about the inventory under any number of calls and scans of the *)
(* LAN, for every set of ids, names and addresses.                         *)
EXTENDS LanSync, FiniteSetTheorems, TLAPS

-----------------------------------------------------------------------------
(* The inductive invariant.                                                *)

\* What a call has read, by the step it is at.
DeleteRelayCalls == [step : {"deleteRelay"}, id : RelayIds]
SaveSiteCalls == [step : {"saveSite"}, id : SiteIds \cup {None}, relay : RelayIds \cup {None}]
DeleteSiteCalls == [step : {"deleteSite"}, id : SiteIds]
SaveMachineCalls == [step : {"saveMachine"}, id : MachineIds \cup {None}, row : MachineRows]
ProfileSteps == {"findProfile", "insertProfile", "updateProfile"}
RemoteCalls == [step : ProfileSteps, id : MachineIds, table : {"remotes"}, own : BOOLEAN, host : Addresses]
PowerCalls == [step : ProfileSteps, id : MachineIds, table : {"powers"}]
ScanCalls ==
    [step : {"follow"}, seen : Partial(MachineIds, MachineRows), found : Partial(MachineIds, Sightings),
     todo : SUBSET MachineIds, next : MachineIds \cup {None}, new : 0 .. 1]

\* What an export has read may be no inventory, but each table by itself.
TableTypes ==
    [relays |-> SUBSET RelayIds, sites |-> Partial(SiteIds, RelayIds \cup {None}),
     machines |-> Partial(MachineIds, MachineRows), groups |-> Partial(GroupIds, SUBSET MachineIds),
     remotes |-> Partial(MachineIds, Addresses), powers |-> Partial(MachineIds, {None})]
AnyTable == UNION {TableTypes[t] : t \in DOMAIN TableTypes}
Exporting(c) ==
    /\ c = [step |-> "export", read |-> c.read]
    /\ \E n \in 0 .. Len(Tables) : c.read = [i \in 1 .. n |-> c.read[i]]
    /\ \A i \in DOMAIN c.read : c.read[i] \in TableTypes[Tables[i]]

\* A scan follows only machines it has read and found elsewhere.
Scanning(c) ==
    /\ DOMAIN c.found = DOMAIN c.seen
    /\ c.todo \subseteq Moved(c.seen, c.found)
    /\ c.next \in (Moved(c.seen, c.found) \ c.todo) \cup {None}

CallTypeOK(c) ==
    \/ c \in DeleteRelayCalls \/ c \in SaveSiteCalls \/ c \in DeleteSiteCalls
    \/ c \in SaveMachineCalls \/ c \in RemoteCalls \/ c \in PowerCalls \/ (c.step = "export" /\ Exporting(c))
    \/ c \in ScanCalls /\ Scanning(c)

InventoryTypeOK ==
    /\ db \in Inventories /\ file \in Inventories
    /\ spent \subseteq AllIds /\ IdsOf(db) \subseteq spent
    /\ call = [p \in Procs |-> call[p]]
    /\ \A p \in Procs : call[p] # None => CallTypeOK(call[p])
    /\ follows \subseteq DOMAIN db.remotes
    /\ disturbed \in BOOLEAN

GroupsAreMachines == \A g \in DOMAIN db.groups : db.groups[g] \subseteq DOMAIN db.machines

\* May m be where a scan found it, for all its site says?
Followed(d, c, m) ==
    c.seen[m].site # None => d.sites[c.seen[m].site] = None /\ Found(c, m) \in Subnet[c.seen[m].site]

\* What a scan still has to follow is where it was read, and what it has treated
\* is where it was found.
ScanKnows(d, c) ==
    \A m \in DOMAIN c.seen :
        /\ m \in DOMAIN d.machines
        /\ m \in c.todo \cup {c.next} \/ m \notin Moved(c.seen, c.found) => d.machines[m].ip = c.seen[m].ip
        /\ m \in Moved(c.seen, c.found) \ (c.todo \cup {c.next}) /\ Followed(d, c, m)
              => d.machines[m].ip = Found(c, m)

\* What a call that nothing has overtaken knows of the tables d.
Knows(d, c) ==
    /\ c.step = "deleteRelay" => \A s \in DOMAIN d.sites : d.sites[s] # c.id
    /\ c.step = "saveSite" => c.relay \in d.relays \cup {None}
    /\ c.step = "saveMachine" =>
          c.row.site \in DOMAIN d.sites \cup {None} /\ c.row.relay \in d.relays \cup {None, Typed}
    /\ c.step \in ProfileSteps =>
          /\ c.id \in DOMAIN d.machines
          /\ c.table = "remotes" /\ c.own => c.host = d.machines[c.id].ip
    /\ c.step = "export" => \A i \in DOMAIN c.read : c.read[i] = d[Tables[i]]
    /\ c.step = "follow" => ScanKnows(d, c)

Agree(d, S) == \A m \in S : d.remotes[m] = d.machines[m].ip

Undisturbed ==
    ~disturbed => /\ Sound(db) /\ Agree(db, follows)
                  /\ \A p \in Procs : call[p] # None => Knows(db, call[p])

InventoryInv == InventoryTypeOK /\ Distinct(db) /\ GroupsAreMachines /\ Undisturbed

-----------------------------------------------------------------------------
(* Tables.                                                                 *)

\* A table is a function of some of the ids to its rows.
LEMMA PartialIs ==
    ASSUME NEW A, NEW B, NEW f
    PROVE  f \in Partial(A, B) <=>
              DOMAIN f \subseteq A /\ f = [x \in DOMAIN f |-> f[x]] /\ \A x \in DOMAIN f : f[x] \in B
<1>1. ASSUME f \in Partial(A, B)
      PROVE  DOMAIN f \subseteq A /\ f = [x \in DOMAIN f |-> f[x]] /\ \A x \in DOMAIN f : f[x] \in B
  <2>1. PICK S \in SUBSET A : f \in [S -> B]
    BY <1>1 DEF Partial
  <2> QED BY <2>1
<1>2. ASSUME DOMAIN f \subseteq A, f = [x \in DOMAIN f |-> f[x]], \A x \in DOMAIN f : f[x] \in B
      PROVE  f \in Partial(A, B)
  <2>1. f \in [DOMAIN f -> B] /\ DOMAIN f \in SUBSET A
    BY <1>2
  <2> QED BY <2>1 DEF Partial
<1> QED BY <1>1, <1>2

\* A row written into a table.
LEMMA PutIsPartial ==
    ASSUME NEW A, NEW B, NEW f \in Partial(A, B), NEW x \in A, NEW v \in B
    PROVE  Put(f, x, v) \in Partial(A, B)
<1>1. DOMAIN f \subseteq A /\ \A y \in DOMAIN f : f[y] \in B
  BY PartialIs
<1>2. Put(f, x, v) \in [DOMAIN f \cup {x} -> B]
  BY <1>1 DEF Put
<1> QED BY <1>1, <1>2 DEF Partial

\* A row of a table changed.
LEMMA SetIsPartial ==
    ASSUME NEW A, NEW B, NEW f \in Partial(A, B), NEW x \in DOMAIN f, NEW v \in B
    PROVE  [f EXCEPT ![x] = v] \in Partial(A, B)
<1>1. DOMAIN f \subseteq A /\ f \in [DOMAIN f -> B]
  BY PartialIs
<1>2. [f EXCEPT ![x] = v] \in [DOMAIN f -> B]
  BY <1>1
<1> QED BY <1>1, <1>2 DEF Partial

\* A row taken out of a table, or all of them rewritten.
LEMMA WithoutIsPartial ==
    ASSUME NEW A, NEW B, NEW f \in Partial(A, B), NEW x \in A
    PROVE  Without(f, x) \in Partial(A, B)
<1>1. DOMAIN f \subseteq A /\ \A y \in DOMAIN f : f[y] \in B
  BY PartialIs
<1>2. Without(f, x) \in [DOMAIN f \ {x} -> B]
  BY <1>1 DEF Without
<1> QED BY <1>1, <1>2 DEF Partial

\* What is left of a table when a row is taken out.
LEMMA WithoutIs ==
    ASSUME NEW f, NEW x
    PROVE  /\ DOMAIN Without(f, x) = DOMAIN f \ {x}
           /\ \A y \in DOMAIN f \ {x} : Without(f, x)[y] = f[y]
BY DEF Without

\* The tables of an inventory, with all that is to be known of each.
LEMMA TablesOf ==
    ASSUME NEW d \in Inventories
    PROVE  /\ d.relays \subseteq RelayIds
           /\ d.sites \in Partial(SiteIds, RelayIds \cup {None})
           /\ d.machines \in Partial(MachineIds, MachineRows)
           /\ d.groups \in Partial(GroupIds, SUBSET MachineIds)
           /\ d.remotes \in Partial(MachineIds, Addresses)
           /\ d.powers \in Partial(MachineIds, {None})
           /\ DOMAIN d.sites \subseteq SiteIds /\ \A s \in DOMAIN d.sites : d.sites[s] \in RelayIds \cup {None}
           /\ DOMAIN d.machines \subseteq MachineIds /\ \A m \in DOMAIN d.machines : d.machines[m] \in MachineRows
           /\ DOMAIN d.groups \subseteq GroupIds /\ \A g \in DOMAIN d.groups : d.groups[g] \subseteq MachineIds
           /\ DOMAIN d.remotes \subseteq MachineIds /\ \A m \in DOMAIN d.remotes : d.remotes[m] \in Addresses
           /\ DOMAIN d.powers \subseteq MachineIds
           /\ IdsOf(d) \subseteq AllIds
<1>1. /\ d.relays \subseteq RelayIds
      /\ d.sites \in Partial(SiteIds, RelayIds \cup {None})
      /\ d.machines \in Partial(MachineIds, MachineRows)
      /\ d.groups \in Partial(GroupIds, SUBSET MachineIds)
      /\ d.remotes \in Partial(MachineIds, Addresses)
      /\ d.powers \in Partial(MachineIds, {None})
  BY DEF Inventories
<1>2. DOMAIN d.sites \subseteq SiteIds /\ \A s \in DOMAIN d.sites : d.sites[s] \in RelayIds \cup {None}
  BY <1>1, PartialIs
<1>3. DOMAIN d.machines \subseteq MachineIds /\ \A m \in DOMAIN d.machines : d.machines[m] \in MachineRows
  BY <1>1, PartialIs
<1>4. DOMAIN d.groups \subseteq GroupIds /\ \A g \in DOMAIN d.groups : d.groups[g] \in SUBSET MachineIds
  BY <1>1, PartialIs
<1>5. DOMAIN d.remotes \subseteq MachineIds /\ \A m \in DOMAIN d.remotes : d.remotes[m] \in Addresses
  BY <1>1, PartialIs
<1>6. DOMAIN d.powers \subseteq MachineIds
  BY <1>1, PartialIs
<1>7. IdsOf(d) \subseteq AllIds
  BY <1>1, <1>2, <1>3, <1>4 DEF IdsOf, AllIds
<1>8. \A g \in DOMAIN d.groups : d.groups[g] \subseteq MachineIds
  BY <1>4
<1> QED BY <1>1, <1>2, <1>3, <1>4, <1>5, <1>6, <1>7, <1>8

\* The tables have ids, and names, of their own.
LEMMA IdsAreApart ==
    /\ RelayIds \cap SiteIds = {} /\ RelayIds \cap MachineIds = {} /\ RelayIds \cap GroupIds = {}
    /\ SiteIds \cap MachineIds = {} /\ SiteIds \cap GroupIds = {} /\ MachineIds \cap GroupIds = {}
    /\ None \notin AllIds /\ Typed \notin AllIds
BY NamesAssumption, ValuesAssumption DEF NamesAssumption, ValuesAssumption, AllIds

\* A row whose name is that of one with an id of table T is of that table.
LEMMA NamesAreApart ==
    ASSUME NEW x \in AllIds, NEW y \in AllIds, NameOf[x] = NameOf[y]
    PROVE  /\ x \in RelayIds <=> y \in RelayIds
           /\ x \in SiteIds <=> y \in SiteIds
           /\ x \in MachineIds <=> y \in MachineIds
           /\ x \in GroupIds <=> y \in GroupIds
BY NamesAssumption, IdsAreApart DEF NamesAssumption, AllIds

-----------------------------------------------------------------------------
(* A step of one call, seen by the others.                                 *)

\* A call that changes the tables leaves what the others know, or disturbs them.
LEMMA Change ==
    ASSUME InventoryInv, NEW p \in Procs, NEW new \in Inventories, NEW c,
           Write(p, new), call' = [call EXCEPT ![p] = c],
           spent' \subseteq AllIds, IdsOf(new) \subseteq spent', file' \in Inventories,
           follows' \subseteq DOMAIN new.remotes, Distinct(new),
           \A g \in DOMAIN new.groups : new.groups[g] \subseteq DOMAIN new.machines,
           c # None => CallTypeOK(c),
           ~disturbed => Sound(new) /\ Agree(new, follows') /\ (c # None => Knows(new, c))
    PROVE  InventoryInv'
<1> USE DEF InventoryInv
<1>1. db' = new
  BY DEF Write
<1>2. \A q \in Procs : call'[q] = IF q = p THEN c ELSE call[q]
  BY DEF InventoryTypeOK
<1>3. InventoryTypeOK'
  <2>1. call' = [q \in Procs |-> call'[q]]
    BY DEF InventoryTypeOK
  <2>2. \A q \in Procs : call'[q] # None => CallTypeOK(call'[q])
    BY <1>2 DEF InventoryTypeOK
  <2>3. disturbed' \in BOOLEAN
    BY DEF Write
  <2>4. (\A q \in Procs : call[q] # None => CallTypeOK(call[q]))'
    BY <2>2
  <2> QED BY <1>1, <2>1, <2>3, <2>4 DEF InventoryTypeOK
<1>4. Distinct(db') /\ GroupsAreMachines'
  BY <1>1 DEF GroupsAreMachines
<1>5. ASSUME ~disturbed'
      PROVE  /\ Sound(db') /\ Agree(db', follows')
             /\ \A q \in Procs : call'[q] # None => Knows(db', call'[q])
  <2>1. ~disturbed /\ (new = db \/ \A q \in Procs \ {p} : call[q] = None)
    BY <1>5 DEF Write
  <2>2. Sound(db') /\ Agree(db', follows') /\ (c # None => Knows(db', c))
    BY <1>1, <2>1
  <2>3. \A q \in Procs : call[q] # None => Knows(db, call[q])
    BY <2>1 DEF Undisturbed
  <2>4. ASSUME NEW q \in Procs, call'[q] # None
        PROVE  Knows(db', call'[q])
    <3>1. CASE q = p
      BY <1>2, <2>2, <2>4, <3>1
    <3>2. CASE q # p
      <4>1. call'[q] = call[q] /\ call[q] # None /\ new = db
        BY <1>2, <2>1, <2>4, <3>2
      <4> QED BY <1>1, <2>3, <4>1
    <3> QED BY <3>1, <3>2
  <2> QED BY <2>2, <2>4
<1>6. Undisturbed'
  BY <1>5 DEF Undisturbed
<1>7. Distinct(db)'
  BY <1>4 DEF Distinct, IdsOf
<1> QED BY <1>3, <1>4, <1>6, <1>7

\* A call that changes no table.
LEMMA Look ==
    ASSUME InventoryInv, NEW p \in Procs, NEW c, NoWrite, call' = [call EXCEPT ![p] = c],
           c # None => CallTypeOK(c),
           ~disturbed => (c # None => Knows(db, c))
    PROVE  InventoryInv'
<1>1. Write(p, db)
  BY DEF NoWrite, Write, InventoryInv, InventoryTypeOK
<1>2. /\ db \in Inventories /\ spent' \subseteq AllIds /\ IdsOf(db) \subseteq spent' /\ file' \in Inventories
      /\ follows' \subseteq DOMAIN db.remotes
  BY DEF NoWrite, InventoryInv, InventoryTypeOK
<1>3. Distinct(db) /\ \A g \in DOMAIN db.groups : db.groups[g] \subseteq DOMAIN db.machines
  BY DEF InventoryInv, GroupsAreMachines
<1>4. ~disturbed => Sound(db) /\ Agree(db, follows') /\ (c # None => Knows(db, c))
  BY DEF NoWrite, InventoryInv, Undisturbed
<1> QED BY <1>1, <1>2, <1>3, <1>4, Change

-----------------------------------------------------------------------------
(* Relays and sites.                                                       *)

\* What it is for every reference of d to name a row.
LEMMA SoundIs ==
    ASSUME NEW d
    PROVE  Sound(d) <=>
              /\ \A s \in DOMAIN d.sites : d.sites[s] \in d.relays \cup {None}
              /\ \A m \in DOMAIN d.machines :
                  /\ d.machines[m].site \in DOMAIN d.sites \cup {None}
                  /\ d.machines[m].relay \in d.relays \cup {None, Typed}
              /\ \A g \in DOMAIN d.groups : d.groups[g] \subseteq DOMAIN d.machines
              /\ DOMAIN d.remotes \subseteq DOMAIN d.machines
              /\ DOMAIN d.powers \subseteq DOMAIN d.machines
BY DEF Sound, ProfileTables

\* A new row has a name that no row has.
LEMMA FreshIsDistinct ==
    ASSUME NEW d \in Inventories, Distinct(d), NEW pool \in {RelayIds, SiteIds, MachineIds}, NEW live,
           \A y \in IdsOf(d) : y \in pool => y \in live, NEW x \in Fresh(pool, live),
           NEW e, IdsOf(e) = IdsOf(d) \cup {x}
    PROVE  Distinct(e)
<1>1. x \in AllIds /\ x \in pool /\ IdsOf(d) \subseteq AllIds
  BY TablesOf DEF Fresh, AllIds
<1>2. \A y \in IdsOf(d) : NameOf[y] # NameOf[x]
  <2> SUFFICES ASSUME NEW y \in IdsOf(d), NameOf[y] = NameOf[x] PROVE FALSE
    OBVIOUS
  <2>1. y \in pool
    BY <1>1, NamesAreApart
  <2> QED BY <2>1 DEF Fresh
<1> QED BY <1>2 DEF Distinct

\* CreateWakeRelay: one new relay, which nothing refers to yet.
LEMMA RelayCreated ==
    ASSUME InventoryInv, NEW p \in Procs, CreateWakeRelay(p)
    PROVE  InventoryInv'
<1> USE DEF InventoryInv, InventoryTypeOK
<1>1. PICK r \in Fresh(RelayIds, db.relays) :
          Write(p, [db EXCEPT !.relays = @ \cup {r}]) /\ spent' = spent \cup {r}
  BY DEF CreateWakeRelay
<1> DEFINE new == [db EXCEPT !.relays = @ \cup {r}]
<1>2. call' = [call EXCEPT ![p] = None] /\ file' = file /\ follows' = follows
  BY DEF CreateWakeRelay, BeginAndEnd, Begin
<1>3. /\ new \in Inventories /\ new.relays = db.relays \cup {r} /\ new.sites = db.sites
      /\ new.machines = db.machines /\ new.groups = db.groups /\ new.remotes = db.remotes /\ new.powers = db.powers
  BY DEF Inventories, Fresh
<1>4. IdsOf(new) = IdsOf(db) \cup {r} /\ r \in AllIds
  BY <1>3 DEF IdsOf, Fresh, AllIds
<1> HIDE DEF new
<1>5. \A y \in IdsOf(db) : y \in RelayIds => y \in db.relays
  BY TablesOf, IdsAreApart DEF IdsOf
<1>6. Distinct(new)
  BY <1>4, <1>5, FreshIsDistinct
<1>7. \A g \in DOMAIN new.groups : new.groups[g] \subseteq DOMAIN new.machines
  BY <1>3 DEF GroupsAreMachines
<1>8. ~disturbed => Sound(new) /\ Agree(new, follows')
  BY <1>2, <1>3, SoundIs DEF Undisturbed, Agree
<1>9. Write(p, new)
  BY <1>1 DEF new
<1>10. spent' \subseteq AllIds /\ IdsOf(new) \subseteq spent' /\ follows' \subseteq DOMAIN new.remotes
  BY <1>1, <1>2, <1>3, <1>4
<1>11. file' \in Inventories
  BY <1>2
<1> QED BY <1>2, <1>3, <1>6, <1>7, <1>8, <1>9, <1>10, <1>11, Change

\* What the steps that delete or rewrite have in common: no id is new.
LEMMA Rewrite ==
    ASSUME InventoryInv, NEW p \in Procs, NEW new \in Inventories,
           Write(p, new), call' = [call EXCEPT ![p] = None], UNCHANGED <<spent, file>>,
           IdsOf(new) \subseteq IdsOf(db), follows' \subseteq DOMAIN new.remotes,
           \A g \in DOMAIN new.groups : new.groups[g] \subseteq DOMAIN new.machines,
           ~disturbed => Sound(new) /\ Agree(new, follows')
    PROVE  InventoryInv'
<1>1. spent' \subseteq AllIds /\ IdsOf(new) \subseteq spent' /\ file' \in Inventories
  BY DEF InventoryInv, InventoryTypeOK
<1>2. Distinct(new)
  BY DEF InventoryInv, Distinct
<1> QED BY <1>1, <1>2, Change

\* DeleteWakeRelay, its count: no site uses the relay, and the call knows it.
LEMMA SitesCounted ==
    ASSUME InventoryInv, NEW p \in Procs, CountSites(p)
    PROVE  InventoryInv'
<1>1. PICK r \in db.relays : /\ \A s \in DOMAIN db.sites : db.sites[s] # r
                             /\ Begin(p, "relay", [step |-> "deleteRelay", id |-> r])
  BY DEF CountSites
<1> DEFINE c == [step |-> "deleteRelay", id |-> r]
<1>2. call' = [call EXCEPT ![p] = c] /\ NoWrite
  BY <1>1 DEF CountSites, Begin
<1>3. r \in RelayIds
  BY TablesOf DEF InventoryInv, InventoryTypeOK
<1>4. CallTypeOK(c)
  BY <1>3 DEF CallTypeOK, DeleteRelayCalls
<1>5. Knows(db, c)
  BY <1>1 DEF Knows, ProfileSteps
<1> HIDE DEF c
<1> QED BY <1>2, <1>4, <1>5, Look

\* DeleteWakeRelay, its transaction: the machines that used the relay name none, and
\* the count is what says that no site used it.
LEMMA RelayDeleted ==
    ASSUME InventoryInv, NEW p \in Procs, DeleteWakeRelay(p)
    PROVE  InventoryInv'
<1> USE DEF InventoryInv, InventoryTypeOK
<1> DEFINE r == call[p].id
           row(m) == IF db.machines[m].relay = r THEN [db.machines[m] EXCEPT !.relay = None] ELSE db.machines[m]
           rows == [m \in DOMAIN db.machines |-> row(m)]
           new == [db EXCEPT !.relays = @ \ {r}, !.machines = rows]
<1>1. /\ r \in db.relays /\ Write(p, new) /\ call' = [call EXCEPT ![p] = None]
      /\ UNCHANGED <<spent, file>> /\ follows' = follows
  BY DEF DeleteWakeRelay, End
<1>2. \A m \in DOMAIN db.machines :
          /\ row(m) \in MachineRows /\ row(m).site = db.machines[m].site /\ row(m).ip = db.machines[m].ip
          /\ row(m).relay = IF db.machines[m].relay = r THEN None ELSE db.machines[m].relay
  <2> TAKE m \in DOMAIN db.machines
  <2>1. db.machines[m] \in MachineRows
    BY TablesOf
  <2> QED BY <2>1 DEF MachineRows
<1> HIDE DEF row
<1>3. rows \in Partial(MachineIds, MachineRows) /\ DOMAIN rows = DOMAIN db.machines
  <2>1. DOMAIN db.machines \subseteq MachineIds
    BY TablesOf
  <2> QED BY <1>2, <2>1, PartialIs
<1> HIDE DEF rows
<1>4. /\ new \in Inventories /\ new.relays = db.relays \ {r} /\ new.sites = db.sites
      /\ new.machines = rows /\ new.groups = db.groups /\ new.remotes = db.remotes /\ new.powers = db.powers
  BY <1>3 DEF Inventories
<1> HIDE DEF new
<1>5. IdsOf(new) \subseteq IdsOf(db) /\ follows' \subseteq DOMAIN new.remotes
  BY <1>1, <1>3, <1>4 DEF IdsOf
<1>6. \A g \in DOMAIN new.groups : new.groups[g] \subseteq DOMAIN new.machines
  BY <1>3, <1>4 DEF GroupsAreMachines
<1>7. ASSUME ~disturbed PROVE Sound(new) /\ Agree(new, follows')
  <2>1. Sound(db) /\ Agree(db, follows) /\ \A s \in DOMAIN db.sites : db.sites[s] # r
    BY <1>7 DEF Undisturbed, Knows, DeleteWakeRelay, At
  <2>2. \A m \in DOMAIN rows : rows[m] = row(m)
    BY <1>3 DEF rows
  <2>3. \A s \in DOMAIN new.sites : new.sites[s] \in new.relays \cup {None}
    BY <1>4, <2>1, SoundIs
  <2>4. \A m \in DOMAIN new.machines :
            /\ new.machines[m].site \in DOMAIN new.sites \cup {None}
            /\ new.machines[m].relay \in new.relays \cup {None, Typed}
    BY <1>2, <1>3, <1>4, <2>1, <2>2, SoundIs
  <2>5. DOMAIN new.remotes \subseteq DOMAIN new.machines /\ DOMAIN new.powers \subseteq DOMAIN new.machines
    BY <1>3, <1>4, <2>1, SoundIs
  <2>6. follows \subseteq DOMAIN db.machines
    BY <2>1, SoundIs
  <2>7. Agree(new, follows')
    BY <1>1, <1>2, <1>3, <1>4, <2>1, <2>2, <2>6 DEF Agree
  <2> QED BY <1>6, <2>3, <2>4, <2>5, <2>7, SoundIs
<1> QED BY <1>1, <1>4, <1>5, <1>6, <1>7, Rewrite

\* A site form is filled in with a relay there is.
LEMMA SiteBegun ==
    ASSUME InventoryInv, NEW p \in Procs, BeginSite(p)
    PROVE  InventoryInv'
<1>1. PICK s \in DOMAIN db.sites \cup {None}, r \in db.relays \cup {None} :
          Begin(p, "site", [step |-> "saveSite", id |-> s, relay |-> r])
  BY DEF BeginSite
<1> DEFINE c == [step |-> "saveSite", id |-> s, relay |-> r]
<1>2. call' = [call EXCEPT ![p] = c] /\ NoWrite
  BY <1>1 DEF BeginSite, Begin
<1>3. s \in SiteIds \cup {None} /\ r \in RelayIds \cup {None}
  BY TablesOf DEF InventoryInv, InventoryTypeOK
<1>4. CallTypeOK(c)
  BY <1>3 DEF CallTypeOK, SaveSiteCalls
<1>5. Knows(db, c)
  BY <1>1 DEF Knows, ProfileSteps
<1> HIDE DEF c
<1> QED BY <1>2, <1>4, <1>5, Look

\* The row that a site form saves.
LEMMA SavedSite ==
    ASSUME InventoryInv, NEW p \in Procs, At(p, "saveSite")
    PROVE  call[p].relay \in RelayIds \cup {None} /\ (~disturbed => call[p].relay \in db.relays \cup {None})
<1>1. call[p] # None /\ call[p].step = "saveSite" /\ CallTypeOK(call[p])
  BY DEF At, InventoryInv, InventoryTypeOK
<1>2. call[p] \in SaveSiteCalls
  BY <1>1 DEF CallTypeOK, DeleteRelayCalls, SaveSiteCalls, DeleteSiteCalls, SaveMachineCalls, RemoteCalls, PowerCalls,
              ProfileSteps, ScanCalls
<1>3. ~disturbed => Knows(db, call[p])
  BY <1>1 DEF InventoryInv, Undisturbed
<1>4. ~disturbed => call[p].relay \in db.relays \cup {None}
  BY <1>1, <1>3 DEF Knows
<1> QED BY <1>2, <1>4 DEF SaveSiteCalls


\* CreateSite: one new site, whose relay is still there unless disturbed.
LEMMA SiteCreated ==
    ASSUME InventoryInv, NEW p \in Procs, CreateSite(p)
    PROVE  InventoryInv'
<1> USE DEF InventoryInv, InventoryTypeOK
<1> DEFINE r == call[p].relay
<1>1. PICK s \in Fresh(SiteIds, DOMAIN db.sites) :
          Write(p, [db EXCEPT !.sites = Put(@, s, r)]) /\ spent' = spent \cup {s}
  BY DEF CreateSite
<1> DEFINE new == [db EXCEPT !.sites = Put(@, s, r)]
<1>2. call' = [call EXCEPT ![p] = None] /\ file' = file /\ follows' = follows
  BY DEF CreateSite, End
<1>3. r \in RelayIds \cup {None} /\ (~disturbed => r \in db.relays \cup {None})
  BY SavedSite DEF CreateSite
<1> HIDE DEF r
<1>4. Put(db.sites, s, r) \in Partial(SiteIds, RelayIds \cup {None})
  BY <1>3, TablesOf, PutIsPartial DEF Fresh
<1>5. /\ new \in Inventories /\ new.relays = db.relays /\ new.sites = Put(db.sites, s, r)
      /\ new.machines = db.machines /\ new.groups = db.groups /\ new.remotes = db.remotes /\ new.powers = db.powers
  BY <1>4 DEF Inventories
<1>6. DOMAIN new.sites = DOMAIN db.sites \cup {s} /\ \A y \in DOMAIN new.sites : new.sites[y] \in {r, db.sites[y]}
  BY <1>5 DEF Put
<1>7. IdsOf(new) = IdsOf(db) \cup {s} /\ s \in AllIds
  BY <1>5, <1>6 DEF IdsOf, Fresh, AllIds
<1> HIDE DEF new
<1>8. \A y \in IdsOf(db) : y \in SiteIds => y \in DOMAIN db.sites
  BY TablesOf, IdsAreApart DEF IdsOf
<1>9. Distinct(new)
  BY <1>7, <1>8, FreshIsDistinct
<1>10. \A g \in DOMAIN new.groups : new.groups[g] \subseteq DOMAIN new.machines
  BY <1>5 DEF GroupsAreMachines
<1>11. ASSUME ~disturbed PROVE Sound(new) /\ Agree(new, follows')
  <2>1. Sound(db) /\ Agree(db, follows)
    BY <1>11 DEF Undisturbed
  <2>2. \A y \in DOMAIN new.sites : new.sites[y] \in new.relays \cup {None}
    <3> TAKE y \in DOMAIN new.sites
    <3>1. CASE y \in DOMAIN db.sites
      BY <1>3, <1>5, <1>6, <1>11, <2>1, <3>1, SoundIs
    <3>2. CASE y = s
      BY <1>3, <1>5, <1>11, <3>2 DEF Put
    <3> QED BY <1>6, <3>1, <3>2
  <2>3. \A m \in DOMAIN new.machines :
            /\ new.machines[m].site \in DOMAIN new.sites \cup {None}
            /\ new.machines[m].relay \in new.relays \cup {None, Typed}
    BY <1>5, <1>6, <2>1, SoundIs
  <2>4. DOMAIN new.remotes \subseteq DOMAIN new.machines /\ DOMAIN new.powers \subseteq DOMAIN new.machines
    BY <1>5, <2>1, SoundIs
  <2>5. Sound(new)
    BY <1>10, <2>2, <2>3, <2>4, SoundIs
  <2> QED BY <1>2, <1>5, <2>1, <2>5 DEF Agree
<1>12. Write(p, new)
  BY <1>1 DEF new
<1>13. spent' \subseteq AllIds /\ IdsOf(new) \subseteq spent' /\ follows' \subseteq DOMAIN new.remotes /\ file' \in Inventories
  BY <1>1, <1>2, <1>5, <1>7
<1> QED BY <1>2, <1>5, <1>9, <1>10, <1>11, <1>12, <1>13, Change

\* UpdateSite: no site is new, and its relay is still there unless disturbed.
LEMMA SiteUpdated ==
    ASSUME InventoryInv, NEW p \in Procs, UpdateSite(p)
    PROVE  InventoryInv'
<1> USE DEF InventoryInv, InventoryTypeOK
<1> DEFINE s == call[p].id
           r == call[p].relay
           sites == [db.sites EXCEPT ![s] = r]
           new == [db EXCEPT !.sites = sites]
<1>1. /\ s \in DOMAIN db.sites /\ call' = [call EXCEPT ![p] = None]
      /\ UNCHANGED <<spent, file>> /\ follows' = follows
  BY DEF UpdateSite, End
<1>2. new = [db EXCEPT !.sites[s] = r]
  BY DEF Inventories
<1>3. Write(p, new)
  BY <1>2 DEF UpdateSite
<1>4. r \in RelayIds \cup {None} /\ (~disturbed => r \in db.relays \cup {None})
  BY SavedSite DEF UpdateSite
<1> HIDE DEF r, s
<1>5. sites \in Partial(SiteIds, RelayIds \cup {None})
  BY <1>1, <1>4, TablesOf, SetIsPartial
<1>6. DOMAIN sites = DOMAIN db.sites /\ \A y \in DOMAIN sites : sites[y] \in {r, db.sites[y]}
  BY <1>1
<1>7. /\ new \in Inventories /\ new.relays = db.relays /\ new.sites = sites
      /\ new.machines = db.machines /\ new.groups = db.groups /\ new.remotes = db.remotes /\ new.powers = db.powers
  BY <1>5 DEF Inventories
<1> HIDE DEF new, sites
<1>8. IdsOf(new) \subseteq IdsOf(db) /\ follows' \subseteq DOMAIN new.remotes
  BY <1>1, <1>6, <1>7 DEF IdsOf
<1>9. \A g \in DOMAIN new.groups : new.groups[g] \subseteq DOMAIN new.machines
  BY <1>7 DEF GroupsAreMachines
<1>10. ASSUME ~disturbed PROVE Sound(new) /\ Agree(new, follows')
  <2>1. Sound(db) /\ Agree(db, follows)
    BY <1>10 DEF Undisturbed
  <2>2. Sound(new)
    BY <1>4, <1>6, <1>7, <1>10, <2>1, SoundIs
  <2> QED BY <1>1, <1>7, <2>1, <2>2 DEF Agree
<1> QED BY <1>1, <1>3, <1>7, <1>8, <1>9, <1>10, Rewrite

\* DeleteSite, its count.
LEMMA MachinesCounted ==
    ASSUME InventoryInv, NEW p \in Procs, CountMachines(p)
    PROVE  InventoryInv'
<1>1. PICK s \in DOMAIN db.sites : Begin(p, "site", [step |-> "deleteSite", id |-> s])
  BY DEF CountMachines
<1> DEFINE c == [step |-> "deleteSite", id |-> s]
<1>2. call' = [call EXCEPT ![p] = c] /\ NoWrite
  BY <1>1 DEF CountMachines, Begin
<1>3. s \in SiteIds
  BY TablesOf DEF InventoryInv, InventoryTypeOK
<1>4. CallTypeOK(c)
  BY <1>3 DEF CallTypeOK, DeleteSiteCalls
<1>5. Knows(db, c)
  BY DEF Knows, ProfileSteps
<1> HIDE DEF c
<1> QED BY <1>2, <1>4, <1>5, Look

\* DeleteSite, its transaction: the machines of the site have none.
LEMMA SiteDeleted ==
    ASSUME InventoryInv, NEW p \in Procs, DeleteSite(p)
    PROVE  InventoryInv'
<1> USE DEF InventoryInv, InventoryTypeOK
<1> DEFINE s == call[p].id
           row(m) == IF db.machines[m].site = s THEN [db.machines[m] EXCEPT !.site = None] ELSE db.machines[m]
           rows == [m \in DOMAIN db.machines |-> row(m)]
           new == [db EXCEPT !.sites = Without(@, s), !.machines = rows]
<1>1. /\ s \in DOMAIN db.sites /\ Write(p, new) /\ call' = [call EXCEPT ![p] = None]
      /\ UNCHANGED <<spent, file>> /\ follows' = follows
  BY DEF DeleteSite, End
<1>2. \A m \in DOMAIN db.machines :
          /\ row(m) \in MachineRows /\ row(m).relay = db.machines[m].relay /\ row(m).ip = db.machines[m].ip
          /\ row(m).site = IF db.machines[m].site = s THEN None ELSE db.machines[m].site
  <2> TAKE m \in DOMAIN db.machines
  <2>1. db.machines[m] \in MachineRows
    BY TablesOf
  <2> QED BY <2>1 DEF MachineRows
<1> HIDE DEF row
<1>3. rows \in Partial(MachineIds, MachineRows) /\ DOMAIN rows = DOMAIN db.machines
  <2>1. DOMAIN db.machines \subseteq MachineIds
    BY TablesOf
  <2> QED BY <1>2, <2>1, PartialIs
<1> HIDE DEF rows
<1>4. /\ Without(db.sites, s) \in Partial(SiteIds, RelayIds \cup {None})
      /\ DOMAIN Without(db.sites, s) = DOMAIN db.sites \ {s}
      /\ \A y \in DOMAIN db.sites \ {s} : Without(db.sites, s)[y] = db.sites[y]
  <2>1. db.sites \in Partial(SiteIds, RelayIds \cup {None}) /\ s \in SiteIds
    BY <1>1, TablesOf
  <2> QED BY <2>1, WithoutIsPartial, WithoutIs
<1>5. /\ new \in Inventories /\ new.relays = db.relays /\ new.sites = Without(db.sites, s)
      /\ new.machines = rows /\ new.groups = db.groups /\ new.remotes = db.remotes /\ new.powers = db.powers
  BY <1>3, <1>4 DEF Inventories
<1> HIDE DEF new
<1>6. IdsOf(new) \subseteq IdsOf(db) /\ follows' \subseteq DOMAIN new.remotes
  BY <1>1, <1>3, <1>4, <1>5 DEF IdsOf
<1>7. \A g \in DOMAIN new.groups : new.groups[g] \subseteq DOMAIN new.machines
  BY <1>3, <1>5 DEF GroupsAreMachines
<1>8. ASSUME ~disturbed PROVE Sound(new) /\ Agree(new, follows')
  <2>1. Sound(db) /\ Agree(db, follows)
    BY <1>8 DEF Undisturbed
  <2>2. \A m \in DOMAIN rows : rows[m] = row(m)
    BY <1>3 DEF rows
  <2>3. \A y \in DOMAIN new.sites : new.sites[y] \in new.relays \cup {None}
    BY <1>4, <1>5, <2>1, SoundIs
  <2>4. \A m \in DOMAIN new.machines :
            /\ new.machines[m].site \in DOMAIN new.sites \cup {None}
            /\ new.machines[m].relay \in new.relays \cup {None, Typed}
    BY <1>2, <1>3, <1>4, <1>5, <2>1, <2>2, SoundIs
  <2>5. DOMAIN new.remotes \subseteq DOMAIN new.machines /\ DOMAIN new.powers \subseteq DOMAIN new.machines
    BY <1>3, <1>5, <2>1, SoundIs
  <2>6. follows \subseteq DOMAIN db.machines
    BY <2>1, SoundIs
  <2>7. Agree(new, follows')
    BY <1>1, <1>2, <1>3, <1>5, <2>1, <2>2, <2>6 DEF Agree
  <2> QED BY <1>7, <2>3, <2>4, <2>5, <2>7, SoundIs
<1> QED BY <1>1, <1>5, <1>6, <1>7, <1>8, Rewrite

-----------------------------------------------------------------------------
(* Machines and their profiles.                                            *)

\* A machine form is filled in with a site there is.
LEMMA MachineBegun ==
    ASSUME InventoryInv, NEW p \in Procs, BeginMachine(p)
    PROVE  InventoryInv'
<1>1. PICK m \in DOMAIN db.machines \cup {None}, s \in DOMAIN db.sites \cup {None},
           r \in db.relays \cup {None, Typed}, a \in Addresses :
          Begin(p, "machine", [step |-> "saveMachine", id |-> m, row |-> [site |-> s, relay |-> r, ip |-> a]])
  BY DEF BeginMachine
<1> DEFINE row == [site |-> s, relay |-> r, ip |-> a]
           c == [step |-> "saveMachine", id |-> m, row |-> row]
<1>2. call' = [call EXCEPT ![p] = c] /\ NoWrite
  BY <1>1 DEF BeginMachine, Begin
<1>3. m \in MachineIds \cup {None} /\ s \in SiteIds \cup {None} /\ r \in RelayIds \cup {None, Typed}
  BY TablesOf DEF InventoryInv, InventoryTypeOK
<1>4. row \in MachineRows /\ row.site = s /\ row.relay = r
  BY <1>3 DEF MachineRows
<1> HIDE DEF row
<1>5. CallTypeOK(c)
  BY <1>3, <1>4 DEF CallTypeOK, SaveMachineCalls
<1>6. Knows(db, c)
  BY <1>1, <1>4 DEF Knows, ProfileSteps
<1> HIDE DEF c
<1> QED BY <1>2, <1>5, <1>6, Look

\* The row that a machine form saves.
LEMMA SavedMachine ==
    ASSUME InventoryInv, NEW p \in Procs, At(p, "saveMachine")
    PROVE  /\ call[p].row \in MachineRows
           /\ ~disturbed => /\ call[p].row.site \in DOMAIN db.sites \cup {None}
                            /\ call[p].row.relay \in db.relays \cup {None, Typed}
<1>1. call[p] # None /\ call[p].step = "saveMachine" /\ CallTypeOK(call[p])
  BY DEF At, InventoryInv, InventoryTypeOK
<1>2. call[p] \in SaveMachineCalls
  BY <1>1 DEF CallTypeOK, DeleteRelayCalls, SaveSiteCalls, DeleteSiteCalls, SaveMachineCalls, RemoteCalls, PowerCalls,
              ProfileSteps, ScanCalls
<1>3. ~disturbed => Knows(db, call[p])
  BY <1>1 DEF InventoryInv, Undisturbed
<1>4. ~disturbed => /\ call[p].row.site \in DOMAIN db.sites \cup {None}
                    /\ call[p].row.relay \in db.relays \cup {None, Typed}
  BY <1>1, <1>3 DEF Knows
<1> QED BY <1>2, <1>4 DEF SaveMachineCalls


\* CreateDevice: one new machine, whose site is still there unless disturbed.
LEMMA MachineCreated ==
    ASSUME InventoryInv, NEW p \in Procs, CreateDevice(p)
    PROVE  InventoryInv'
<1> USE DEF InventoryInv, InventoryTypeOK
<1> DEFINE row == call[p].row
<1>1. PICK m \in Fresh(MachineIds, DOMAIN db.machines) :
          Write(p, [db EXCEPT !.machines = Put(@, m, row)]) /\ spent' = spent \cup {m}
  BY DEF CreateDevice
<1> DEFINE new == [db EXCEPT !.machines = Put(@, m, row)]
<1>2. call' = [call EXCEPT ![p] = None] /\ file' = file /\ follows' = follows
  BY DEF CreateDevice, End
<1>3. /\ row \in MachineRows
      /\ ~disturbed => row.site \in DOMAIN db.sites \cup {None} /\ row.relay \in db.relays \cup {None, Typed}
  BY SavedMachine DEF CreateDevice
<1> HIDE DEF row
<1>4. m \notin DOMAIN db.machines /\ m \in MachineIds /\ m \in AllIds
  BY DEF Fresh, IdsOf, AllIds
<1>5. Put(db.machines, m, row) \in Partial(MachineIds, MachineRows)
  BY <1>3, <1>4, TablesOf, PutIsPartial
<1>6. /\ new \in Inventories /\ new.relays = db.relays /\ new.sites = db.sites
      /\ new.machines = Put(db.machines, m, row)
      /\ new.groups = db.groups /\ new.remotes = db.remotes /\ new.powers = db.powers
  BY <1>5 DEF Inventories
<1>7. /\ DOMAIN new.machines = DOMAIN db.machines \cup {m} /\ new.machines[m] = row
      /\ \A n \in DOMAIN db.machines : new.machines[n] = db.machines[n]
  BY <1>4, <1>6 DEF Put
<1> HIDE DEF new
<1>8. IdsOf(new) = IdsOf(db) \cup {m}
  BY <1>6, <1>7 DEF IdsOf
<1>9. \A y \in IdsOf(db) : y \in MachineIds => y \in DOMAIN db.machines
  BY TablesOf, IdsAreApart DEF IdsOf
<1>10. Distinct(new)
  BY <1>8, <1>9, FreshIsDistinct
<1>11. \A g \in DOMAIN new.groups : new.groups[g] \subseteq DOMAIN new.machines
  BY <1>6, <1>7 DEF GroupsAreMachines
<1>12. ASSUME ~disturbed PROVE Sound(new) /\ Agree(new, follows')
  <2>1. Sound(db) /\ Agree(db, follows)
    BY <1>12 DEF Undisturbed
  <2>2. Sound(new)
    BY <1>3, <1>6, <1>7, <1>11, <1>12, <2>1, SoundIs
  <2>3. follows \subseteq DOMAIN db.machines
    BY <2>1, SoundIs
  <2> QED BY <1>2, <1>6, <1>7, <2>1, <2>2, <2>3 DEF Agree
<1>13. Write(p, new)
  BY <1>1 DEF new
<1>14. spent' \subseteq AllIds /\ IdsOf(new) \subseteq spent' /\ follows' \subseteq DOMAIN new.remotes /\ file' \in Inventories
  BY <1>1, <1>2, <1>4, <1>6, <1>8
<1> QED BY <1>2, <1>6, <1>10, <1>11, <1>12, <1>13, <1>14, Change

\* UpdateDevice: a machine whose address changes follows no profile any more.
LEMMA MachineUpdated ==
    ASSUME InventoryInv, NEW p \in Procs, UpdateDevice(p)
    PROVE  InventoryInv'
<1> USE DEF InventoryInv, InventoryTypeOK
<1> DEFINE m == call[p].id
           row == call[p].row
           rows == [db.machines EXCEPT ![m] = row]
           new == [db EXCEPT !.machines = rows]
<1>1. /\ m \in DOMAIN db.machines /\ call' = [call EXCEPT ![p] = None]
      /\ UNCHANGED <<spent, file>>
      /\ follows' = IF db.machines[m].ip = row.ip THEN follows ELSE follows \ {m}
  BY DEF UpdateDevice, End
<1>2. new = [db EXCEPT !.machines[m] = row]
  BY DEF Inventories
<1>3. Write(p, new)
  BY <1>2 DEF UpdateDevice
<1>4. /\ row \in MachineRows
      /\ ~disturbed => row.site \in DOMAIN db.sites \cup {None} /\ row.relay \in db.relays \cup {None, Typed}
  BY SavedMachine DEF UpdateDevice
<1> HIDE DEF row, m
<1>5. rows \in Partial(MachineIds, MachineRows)
  BY <1>1, <1>4, TablesOf, SetIsPartial
<1>6. DOMAIN rows = DOMAIN db.machines /\ \A n \in DOMAIN rows : rows[n] = IF n = m THEN row ELSE db.machines[n]
  BY <1>1
<1>7. /\ new \in Inventories /\ new.relays = db.relays /\ new.sites = db.sites
      /\ new.machines = rows /\ new.groups = db.groups /\ new.remotes = db.remotes /\ new.powers = db.powers
  BY <1>5 DEF Inventories
<1> HIDE DEF new, rows
<1>8. IdsOf(new) \subseteq IdsOf(db) /\ follows' \subseteq DOMAIN new.remotes
  BY <1>1, <1>6, <1>7 DEF IdsOf
<1>9. \A g \in DOMAIN new.groups : new.groups[g] \subseteq DOMAIN new.machines
  BY <1>6, <1>7 DEF GroupsAreMachines
<1>10. ASSUME ~disturbed PROVE Sound(new) /\ Agree(new, follows')
  <2>1. Sound(db) /\ Agree(db, follows) /\ follows \subseteq DOMAIN db.machines
    BY <1>10, SoundIs DEF Undisturbed
  <2>2. Sound(new)
    BY <1>4, <1>6, <1>7, <1>9, <1>10, <2>1, SoundIs
  <2>3. \A n \in follows' : new.remotes[n] = new.machines[n].ip
    BY <1>1, <1>6, <1>7, <2>1 DEF Agree
  <2> QED BY <2>2, <2>3 DEF Agree
<1> QED BY <1>1, <1>3, <1>7, <1>8, <1>9, <1>10, Rewrite

\* DeleteDevice takes the machine out of the groups, and its profiles with it.
LEMMA MachineDeleted ==
    ASSUME InventoryInv, NEW p \in Procs, DeleteDevice(p)
    PROVE  InventoryInv'
<1> USE DEF InventoryInv, InventoryTypeOK
<1>1. PICK m \in DOMAIN db.machines :
          /\ Write(p, [db EXCEPT !.machines = Without(@, m),
                         !.groups = [g \in DOMAIN @ |-> @[g] \ {m}],
                         !.remotes = Without(@, m), !.powers = Without(@, m)])
          /\ follows' = follows \ {m}
  BY DEF DeleteDevice
<1>2. call' = [call EXCEPT ![p] = None] /\ UNCHANGED <<spent, file>>
  BY DEF DeleteDevice, BeginAndEnd, Begin
<1> DEFINE members == [g \in DOMAIN db.groups |-> db.groups[g] \ {m}]
           rest == Without(db.machines, m)
           hosts == Without(db.remotes, m)
           methods == Without(db.powers, m)
           new == [db EXCEPT !.machines = rest, !.groups = members, !.remotes = hosts, !.powers = methods]
<1>3. Write(p, new)
  BY <1>1
<1>4. members \in Partial(GroupIds, SUBSET MachineIds) /\ DOMAIN members = DOMAIN db.groups
  <2>1. DOMAIN db.groups \subseteq GroupIds /\ \A g \in DOMAIN db.groups : db.groups[g] \subseteq MachineIds
    BY TablesOf
  <2>2. members \in [DOMAIN db.groups -> SUBSET MachineIds]
    BY <2>1
  <2> QED BY <2>1, <2>2 DEF Partial
<1>5. /\ rest \in Partial(MachineIds, MachineRows) /\ DOMAIN rest = DOMAIN db.machines \ {m}
      /\ \A n \in DOMAIN db.machines \ {m} : rest[n] = db.machines[n]
  <2>1. db.machines \in Partial(MachineIds, MachineRows) /\ m \in MachineIds
    BY TablesOf
  <2> QED BY <2>1, WithoutIsPartial, WithoutIs
<1>6. /\ hosts \in Partial(MachineIds, Addresses) /\ DOMAIN hosts = DOMAIN db.remotes \ {m}
      /\ \A n \in DOMAIN db.remotes \ {m} : hosts[n] = db.remotes[n]
  <2>1. db.remotes \in Partial(MachineIds, Addresses) /\ m \in MachineIds
    BY TablesOf
  <2> QED BY <2>1, WithoutIsPartial, WithoutIs
<1>7. methods \in Partial(MachineIds, {None}) /\ DOMAIN methods = DOMAIN db.powers \ {m}
  <2>1. db.powers \in Partial(MachineIds, {None}) /\ m \in MachineIds
    BY TablesOf
  <2> QED BY <2>1, WithoutIsPartial, WithoutIs
<1>8. \A g \in DOMAIN members : members[g] = db.groups[g] \ {m}
  OBVIOUS
<1> HIDE DEF members, rest, hosts, methods
<1>9. /\ new \in Inventories /\ new.relays = db.relays /\ new.sites = db.sites
      /\ new.machines = rest /\ new.groups = members /\ new.remotes = hosts /\ new.powers = methods
  BY <1>4, <1>5, <1>6, <1>7 DEF Inventories
<1> HIDE DEF new
<1>10. IdsOf(new) \subseteq IdsOf(db) /\ follows' \subseteq DOMAIN new.remotes
  BY <1>1, <1>4, <1>5, <1>6, <1>9 DEF IdsOf
<1>11. \A g \in DOMAIN new.groups : new.groups[g] \subseteq DOMAIN new.machines
  BY <1>4, <1>5, <1>8, <1>9 DEF GroupsAreMachines
<1>12. ASSUME ~disturbed PROVE Sound(new) /\ Agree(new, follows')
  <2>1. Sound(db) /\ Agree(db, follows) /\ follows \subseteq DOMAIN db.machines
    BY <1>12, SoundIs DEF Undisturbed
  <2>2. Sound(new)
    BY <1>5, <1>6, <1>7, <1>9, <1>11, <2>1, SoundIs
  <2>3. \A n \in follows' : new.remotes[n] = new.machines[n].ip
    BY <1>1, <1>5, <1>6, <1>9, <2>1 DEF Agree
  <2> QED BY <2>2, <2>3 DEF Agree
<1> QED BY <1>2, <1>3, <1>9, <1>10, <1>11, <1>12, Rewrite


\* What a call that saves a profile has found.
LEMMA Profiling ==
    ASSUME InventoryInv, NEW p \in Procs, call[p] # None, call[p].step \in ProfileSteps
    PROVE  /\ call[p] \in RemoteCalls \/ call[p] \in PowerCalls
           /\ ~disturbed => call[p].id \in DOMAIN db.machines
           /\ ~disturbed /\ call[p].table = "remotes" /\ call[p].own => call[p].host = db.machines[call[p].id].ip
<1>1. CallTypeOK(call[p])
  BY DEF InventoryInv, InventoryTypeOK
<1>2. call[p] \in RemoteCalls \/ call[p] \in PowerCalls
  BY <1>1 DEF CallTypeOK, DeleteRelayCalls, SaveSiteCalls, DeleteSiteCalls, SaveMachineCalls, ProfileSteps, ScanCalls
<1>3. ~disturbed => Knows(db, call[p])
  BY DEF InventoryInv, Undisturbed
<1>4. /\ ~disturbed => call[p].id \in DOMAIN db.machines
      /\ ~disturbed /\ call[p].table = "remotes" /\ call[p].own => call[p].host = db.machines[call[p].id].ip
  BY <1>3 DEF Knows
<1> QED BY <1>2, <1>4

\* wol remote configure finds the machine, and its address.
LEMMA RemoteBegun ==
    ASSUME InventoryInv, NEW p \in Procs, BeginRemoteProfile(p)
    PROVE  InventoryInv'
<1>1. PICK m \in DOMAIN db.machines, h \in Addresses \cup {None} :
          Begin(p, "remotes", [step |-> "findProfile", id |-> m, table |-> "remotes", own |-> h = None,
                               host |-> IF h = None THEN db.machines[m].ip ELSE h])
  BY DEF BeginRemoteProfile
<1> DEFINE host == IF h = None THEN db.machines[m].ip ELSE h
           c == [step |-> "findProfile", id |-> m, table |-> "remotes", own |-> h = None, host |-> host]
<1>2. call' = [call EXCEPT ![p] = c] /\ NoWrite
  BY <1>1 DEF BeginRemoteProfile, Begin
<1>3. m \in MachineIds /\ db.machines[m] \in MachineRows
  BY TablesOf DEF InventoryInv, InventoryTypeOK
<1>4. host \in Addresses /\ (h = None => host = db.machines[m].ip)
  BY <1>3 DEF MachineRows
<1> HIDE DEF host
<1>5. c \in RemoteCalls
  BY <1>3, <1>4 DEF RemoteCalls, ProfileSteps
<1>6. CallTypeOK(c)
  BY <1>5 DEF CallTypeOK
<1>7. Knows(db, c)
  BY <1>4 DEF Knows, ProfileSteps
<1> HIDE DEF c
<1> QED BY <1>2, <1>6, <1>7, Look

\* wol shutdown configure finds the machine.
LEMMA PowerBegun ==
    ASSUME InventoryInv, NEW p \in Procs, BeginPowerProfile(p)
    PROVE  InventoryInv'
<1>1. PICK m \in DOMAIN db.machines :
          Begin(p, "powers", [step |-> "findProfile", id |-> m, table |-> "powers"])
  BY DEF BeginPowerProfile
<1> DEFINE c == [step |-> "findProfile", id |-> m, table |-> "powers"]
<1>2. call' = [call EXCEPT ![p] = c] /\ NoWrite
  BY <1>1 DEF BeginPowerProfile, Begin
<1>3. m \in MachineIds
  BY TablesOf DEF InventoryInv, InventoryTypeOK
<1>4. c \in PowerCalls
  BY <1>3 DEF PowerCalls, ProfileSteps
<1>5. CallTypeOK(c)
  BY <1>4 DEF CallTypeOK
<1>6. Knows(db, c)
  BY DEF Knows, ProfileSteps
<1> HIDE DEF c
<1> QED BY <1>2, <1>5, <1>6, Look

\* Whether there is a profile changes nothing of what the call knows.
LEMMA ProfileFound ==
    ASSUME InventoryInv, NEW p \in Procs, FindProfile(p)
    PROVE  InventoryInv'
<1> DEFINE next == IF call[p].id \in DOMAIN db[call[p].table] THEN "updateProfile" ELSE "insertProfile"
           c == [call[p] EXCEPT !.step = next]
<1>1. call[p] # None /\ call[p].step = "findProfile" /\ call' = [call EXCEPT ![p] = c] /\ NoWrite
  BY DEF FindProfile, At
<1>2. /\ call[p] \in RemoteCalls \/ call[p] \in PowerCalls
      /\ ~disturbed => call[p].id \in DOMAIN db.machines
      /\ ~disturbed /\ call[p].table = "remotes" /\ call[p].own => call[p].host = db.machines[call[p].id].ip
  BY <1>1, Profiling DEF ProfileSteps
<1>3. next \in {"insertProfile", "updateProfile"}
  OBVIOUS
<1> HIDE DEF next
<1>4. CASE call[p] \in RemoteCalls
  <2>1. /\ c \in RemoteCalls /\ c.step = next /\ c.id = call[p].id /\ c.own = call[p].own
        /\ c.host = call[p].host /\ call[p].table = "remotes"
    BY <1>3, <1>4 DEF RemoteCalls, ProfileSteps
  <2> HIDE DEF c
  <2>2. CallTypeOK(c)
    BY <2>1 DEF CallTypeOK
  <2>3. ~disturbed => Knows(db, c)
    BY <1>2, <1>3, <2>1 DEF Knows
  <2> QED BY <1>1, <2>2, <2>3, Look
<1>5. CASE call[p] \in PowerCalls
  <2>1. c \in PowerCalls /\ c.step = next /\ c.id = call[p].id /\ c.table = "powers"
    BY <1>3, <1>5 DEF PowerCalls, ProfileSteps
  <2> HIDE DEF c
  <2>2. CallTypeOK(c)
    BY <2>1 DEF CallTypeOK
  <2>3. ~disturbed => Knows(db, c)
    BY <1>2, <1>3, <2>1 DEF Knows
  <2> QED BY <1>1, <2>2, <2>3, Look
<1> QED BY <1>2, <1>4, <1>5

\* UpsertRemoteProfile writes the address of the machine, if it was left to it.
LEMMA RemoteWritten ==
    ASSUME InventoryInv, NEW p \in Procs, WriteRemoteProfile(p)
    PROVE  InventoryInv'
<1> USE DEF InventoryInv, InventoryTypeOK
<1> DEFINE m == call[p].id
           host == call[p].host
           hosts == Put(db.remotes, m, host)
           new == [db EXCEPT !.remotes = hosts]
<1>1. /\ call[p] # None /\ call[p].step \in ProfileSteps /\ call[p].table = "remotes"
      /\ Write(p, new) /\ call' = [call EXCEPT ![p] = None] /\ UNCHANGED <<spent, file>>
      /\ follows' = IF call[p].own THEN follows \cup {m} ELSE follows \ {m}
  BY DEF WriteRemoteProfile, Writable, End, ProfileSteps
<1>2. /\ m \in MachineIds /\ host \in Addresses
      /\ ~disturbed => m \in DOMAIN db.machines
      /\ ~disturbed /\ call[p].own => host = db.machines[m].ip
  <2>1. call[p] \in RemoteCalls
    BY <1>1, Profiling DEF PowerCalls
  <2> QED BY <1>1, <2>1, Profiling DEF RemoteCalls
<1> HIDE DEF m, host
<1>3. hosts \in Partial(MachineIds, Addresses)
  BY <1>2, TablesOf, PutIsPartial
<1>4. DOMAIN hosts = DOMAIN db.remotes \cup {m} /\ hosts[m] = host /\ \A n \in DOMAIN db.remotes \ {m} : hosts[n] = db.remotes[n]
  BY DEF Put
<1> HIDE DEF hosts
<1>5. /\ new \in Inventories /\ new.relays = db.relays /\ new.sites = db.sites
      /\ new.machines = db.machines /\ new.groups = db.groups /\ new.remotes = hosts /\ new.powers = db.powers
  BY <1>3 DEF Inventories
<1> HIDE DEF new
<1>6. IdsOf(new) \subseteq IdsOf(db)
  BY <1>5 DEF IdsOf
<1>7. follows' \subseteq DOMAIN new.remotes
  BY <1>1, <1>4, <1>5
<1>8. \A g \in DOMAIN new.groups : new.groups[g] \subseteq DOMAIN new.machines
  BY <1>5 DEF GroupsAreMachines
<1>9. ASSUME ~disturbed PROVE Sound(new) /\ Agree(new, follows')
  <2>1. Sound(db) /\ Agree(db, follows) /\ m \in DOMAIN db.machines
    BY <1>2, <1>9 DEF Undisturbed
  <2>2. Sound(new)
    BY <1>4, <1>5, <1>8, <2>1, SoundIs
  <2>3. \A n \in follows' \ {m} : new.remotes[n] = new.machines[n].ip
    BY <1>1, <1>4, <1>5, <2>1 DEF Agree
  <2>4. m \in follows' => new.remotes[m] = new.machines[m].ip
    BY <1>1, <1>2, <1>4, <1>5, <1>9
  <2> QED BY <2>2, <2>3, <2>4 DEF Agree
<1> QED BY <1>1, <1>5, <1>6, <1>7, <1>8, <1>9, Rewrite

\* UpsertPowerProfile writes a profile of a machine there is unless disturbed.
LEMMA PowerWritten ==
    ASSUME InventoryInv, NEW p \in Procs, WritePowerProfile(p)
    PROVE  InventoryInv'
<1> USE DEF InventoryInv, InventoryTypeOK
<1> DEFINE m == call[p].id
           methods == Put(db.powers, m, None)
           new == [db EXCEPT !.powers = methods]
<1>1. /\ call[p] # None /\ call[p].step \in ProfileSteps /\ call[p].table = "powers"
      /\ Write(p, new) /\ call' = [call EXCEPT ![p] = None] /\ UNCHANGED <<spent, file>> /\ follows' = follows
  BY DEF WritePowerProfile, Writable, End, ProfileSteps
<1>2. m \in MachineIds /\ (~disturbed => m \in DOMAIN db.machines)
  BY <1>1, Profiling DEF RemoteCalls, PowerCalls
<1> HIDE DEF m
<1>3. methods \in Partial(MachineIds, {None})
  BY <1>2, TablesOf, PutIsPartial
<1>4. DOMAIN methods = DOMAIN db.powers \cup {m}
  BY DEF Put
<1> HIDE DEF methods
<1>5. /\ new \in Inventories /\ new.relays = db.relays /\ new.sites = db.sites
      /\ new.machines = db.machines /\ new.groups = db.groups /\ new.remotes = db.remotes /\ new.powers = methods
  BY <1>3 DEF Inventories
<1> HIDE DEF new
<1>6. IdsOf(new) \subseteq IdsOf(db)
  BY <1>5 DEF IdsOf
<1>7. follows' \subseteq DOMAIN new.remotes
  BY <1>1, <1>5
<1>8. \A g \in DOMAIN new.groups : new.groups[g] \subseteq DOMAIN new.machines
  BY <1>5 DEF GroupsAreMachines
<1>9. ASSUME ~disturbed PROVE Sound(new) /\ Agree(new, follows')
  <2>1. Sound(db) /\ Agree(db, follows) /\ m \in DOMAIN db.machines
    BY <1>2, <1>9 DEF Undisturbed
  <2>2. Sound(new)
    BY <1>4, <1>5, <1>8, <2>1, SoundIs
  <2> QED BY <1>1, <1>5, <2>1, <2>2 DEF Agree
<1> QED BY <1>1, <1>5, <1>6, <1>7, <1>8, <1>9, Rewrite

\* wol remote clear: a machine without a profile follows none.
LEMMA RemoteCleared ==
    ASSUME InventoryInv, NEW p \in Procs, DeleteRemoteProfile(p)
    PROVE  InventoryInv'
<1> USE DEF InventoryInv, InventoryTypeOK
<1>1. PICK m \in DOMAIN db.remotes :
          Write(p, [db EXCEPT !.remotes = Without(@, m)]) /\ follows' = follows \ {m}
  BY DEF DeleteRemoteProfile
<1>2. call' = [call EXCEPT ![p] = None] /\ UNCHANGED <<spent, file>>
  BY DEF DeleteRemoteProfile, BeginAndEnd, Begin
<1> DEFINE hosts == Without(db.remotes, m)
           new == [db EXCEPT !.remotes = hosts]
<1>3. Write(p, new)
  BY <1>1
<1>4. /\ hosts \in Partial(MachineIds, Addresses) /\ DOMAIN hosts = DOMAIN db.remotes \ {m}
      /\ \A n \in DOMAIN db.remotes \ {m} : hosts[n] = db.remotes[n]
  <2>1. db.remotes \in Partial(MachineIds, Addresses) /\ m \in MachineIds
    BY TablesOf
  <2> QED BY <2>1, WithoutIsPartial, WithoutIs
<1> HIDE DEF hosts
<1>5. /\ new \in Inventories /\ new.relays = db.relays /\ new.sites = db.sites
      /\ new.machines = db.machines /\ new.groups = db.groups /\ new.remotes = hosts /\ new.powers = db.powers
  BY <1>4 DEF Inventories
<1> HIDE DEF new
<1>6. IdsOf(new) \subseteq IdsOf(db) /\ follows' \subseteq DOMAIN new.remotes
  BY <1>1, <1>4, <1>5 DEF IdsOf
<1>7. \A g \in DOMAIN new.groups : new.groups[g] \subseteq DOMAIN new.machines
  BY <1>5 DEF GroupsAreMachines
<1>8. ASSUME ~disturbed PROVE Sound(new) /\ Agree(new, follows')
  <2>1. Sound(db) /\ Agree(db, follows)
    BY <1>8 DEF Undisturbed
  <2>2. Sound(new)
    BY <1>4, <1>5, <1>7, <2>1, SoundIs
  <2> QED BY <1>1, <1>4, <1>5, <2>1, <2>2 DEF Agree
<1> QED BY <1>2, <1>3, <1>5, <1>6, <1>7, <1>8, Rewrite


-----------------------------------------------------------------------------
(* Export and import.                                                      *)

\* The tables of an inventory by their number.
LEMMA TablesByNumber ==
    /\ Len(Tables) = 6
    /\ Tables[1] = "sites" /\ Tables[2] = "machines" /\ Tables[3] = "groups"
    /\ Tables[4] = "relays" /\ Tables[5] = "remotes" /\ Tables[6] = "powers"
BY DEF Tables

\* Each table of an inventory is of its kind.
LEMMA TableIsTyped ==
    ASSUME NEW d \in Inventories, NEW i \in 1 .. 6
    PROVE  d[Tables[i]] \in TableTypes[Tables[i]]
<1>1. i = 1 \/ i = 2 \/ i = 3 \/ i = 4 \/ i = 5 \/ i = 6
  OBVIOUS
<1>2. d.relays \in SUBSET RelayIds
  BY DEF Inventories
<1>3. /\ d.sites \in TableTypes.sites /\ d.machines \in TableTypes.machines /\ d.groups \in TableTypes.groups
      /\ d.relays \in TableTypes.relays /\ d.remotes \in TableTypes.remotes /\ d.powers \in TableTypes.powers
  BY <1>2, TablesOf DEF TableTypes
<1> QED BY <1>1, <1>3, TablesByNumber

\* What an export reads is a table.
LEMMA TableTypesNumbered == \A i \in 1 .. 6 : TableTypes[Tables[i]] \subseteq AnyTable
<1>1. \A i \in 1 .. 6 : Tables[i] \in DOMAIN TableTypes
  <2> TAKE i \in 1 .. 6
  <2>1. i = 1 \/ i = 2 \/ i = 3 \/ i = 4 \/ i = 5 \/ i = 6
    OBVIOUS
  <2> QED BY <2>1, TablesByNumber DEF TableTypes
<1> QED BY <1>1 DEF AnyTable

\* What an export has read is a sequence.
LEMMA ExportReads ==
    ASSUME InventoryInv, NEW p \in Procs, At(p, "export")
    PROVE  /\ call[p] = [step |-> "export", read |-> call[p].read]
           /\ call[p].read \in Seq(AnyTable) /\ Len(call[p].read) \in 0 .. 6
           /\ \A i \in 1 .. Len(call[p].read) :
                 /\ call[p].read[i] \in TableTypes[Tables[i]]
                 /\ ~disturbed => call[p].read[i] = db[Tables[i]]
<1>1. call[p] # None /\ call[p].step = "export" /\ CallTypeOK(call[p])
  BY DEF At, InventoryInv, InventoryTypeOK
<1>2. Exporting(call[p])
  BY <1>1 DEF CallTypeOK, DeleteRelayCalls, SaveSiteCalls, DeleteSiteCalls, SaveMachineCalls, RemoteCalls, PowerCalls,
              ProfileSteps, ScanCalls
<1> DEFINE r == call[p].read
<1>3. PICK n \in 0 .. 6 : r = [i \in 1 .. n |-> r[i]]
  BY <1>2, TablesByNumber DEF Exporting
<1>4. \A i \in 1 .. n : r[i] \in TableTypes[Tables[i]] /\ r[i] \in AnyTable
  <2> TAKE i \in 1 .. n
  <2>1. i \in DOMAIN r /\ i \in 1 .. 6
    BY <1>3
  <2>2. r[i] \in TableTypes[Tables[i]]
    BY <1>2, <2>1 DEF Exporting
  <2> QED BY <2>1, <2>2, TableTypesNumbered
<1>5. r \in [1 .. n -> AnyTable]
  BY <1>3, <1>4
<1>6. r \in Seq(AnyTable) /\ Len(r) = n
  BY <1>5
<1>7. ~disturbed => Knows(db, call[p])
  BY <1>1 DEF InventoryInv, Undisturbed
<1>8. ~disturbed => \A i \in 1 .. n : r[i] = db[Tables[i]]
  BY <1>1, <1>5, <1>7 DEF Knows
<1> QED BY <1>2, <1>4, <1>6, <1>8 DEF Exporting

\* An export that has read nothing.
LEMMA ExportBegun ==
    ASSUME InventoryInv, NEW p \in Procs, BeginExport(p)
    PROVE  InventoryInv'
<1> DEFINE c == [step |-> "export", read |-> <<>>]
<1>1. call' = [call EXCEPT ![p] = c] /\ NoWrite
  BY DEF BeginExport, Begin
<1>2. c.step = "export" /\ c.read = <<>> /\ c = [step |-> "export", read |-> c.read]
  OBVIOUS
<1> HIDE DEF c
<1>3. DOMAIN c.read = {} /\ 0 \in 0 .. Len(Tables) /\ c.read = [i \in 1 .. 0 |-> c.read[i]]
  BY <1>2, TablesByNumber
<1>4. Exporting(c)
  BY <1>2, <1>3 DEF Exporting
<1>5. CallTypeOK(c)
  BY <1>2, <1>4 DEF CallTypeOK
<1>6. Knows(db, c)
  BY <1>2, <1>3 DEF Knows, ProfileSteps
<1> QED BY <1>1, <1>5, <1>6, Look

\* Export reads one more table.
LEMMA TableRead ==
    ASSUME InventoryInv, NEW p \in Procs, ReadTable(p)
    PROVE  InventoryInv'
<1> DEFINE r == call[p].read
           n == Len(r)
           s == Append(r, db[Tables[n + 1]])
           c == [step |-> "export", read |-> s]
<1>1. /\ call[p] = [step |-> "export", read |-> r] /\ r \in Seq(AnyTable) /\ n \in 0 .. 5
      /\ \A i \in 1 .. n : r[i] \in TableTypes[Tables[i]] /\ (~disturbed => r[i] = db[Tables[i]])
  BY ExportReads, TablesByNumber DEF ReadTable
<1>2. [call[p] EXCEPT !.read = s] = c
  <2>1. \A q, v : [[step |-> "export", read |-> q] EXCEPT !.read = v] = [step |-> "export", read |-> v]
    OBVIOUS
  <2> HIDE DEF r, s
  <2> QED BY <1>1, <2>1
<1>3. call' = [call EXCEPT ![p] = c] /\ NoWrite
  BY <1>2 DEF ReadTable
<1>4. db[Tables[n + 1]] \in TableTypes[Tables[n + 1]] /\ db[Tables[n + 1]] \in AnyTable
  <2>1. n + 1 \in 1 .. 6
    BY <1>1
  <2> QED BY <2>1, TableIsTyped, TableTypesNumbered DEF InventoryInv, InventoryTypeOK
<1>5. /\ s \in Seq(AnyTable) /\ Len(s) = n + 1 /\ DOMAIN s = 1 .. n + 1
      /\ s[n + 1] = db[Tables[n + 1]] /\ \A i \in 1 .. n : s[i] = r[i]
  BY <1>1, <1>4
<1>6. \A i \in 1 .. n + 1 : s[i] \in TableTypes[Tables[i]] /\ (~disturbed => s[i] = db[Tables[i]])
  <2> TAKE i \in 1 .. n + 1
  <2>1. i = n + 1 \/ i \in 1 .. n
    BY <1>1
  <2> QED BY <1>1, <1>4, <1>5, <2>1
<1>7. s = [i \in 1 .. n + 1 |-> s[i]] /\ n + 1 \in 0 .. Len(Tables)
  <2>1. n + 1 \in 0 .. Len(Tables)
    BY <1>1, TablesByNumber
  <2> HIDE DEF s
  <2>2. s \in [1 .. n + 1 -> AnyTable]
    BY <1>5
  <2> QED BY <2>1, <2>2
<1>8. c.step = "export" /\ c.read = s /\ c = [step |-> "export", read |-> c.read]
  OBVIOUS
<1> HIDE DEF c, s
<1>9. Exporting(c)
  BY <1>5, <1>6, <1>7, <1>8 DEF Exporting
<1>10. CallTypeOK(c)
  BY <1>8, <1>9 DEF CallTypeOK
<1>11. ~disturbed => Knows(db, c)
  BY <1>5, <1>6, <1>8 DEF Knows, ProfileSteps
<1> QED BY <1>3, <1>10, <1>11, Look

\* The file of six tables read.
LEMMA FileIs ==
    ASSUME NEW r
    PROVE  [t \in {Tables[i] : i \in DOMAIN Tables} |-> r[CHOOSE i \in DOMAIN Tables : Tables[i] = t]]
              = [relays |-> r[4], sites |-> r[1], machines |-> r[2], groups |-> r[3], remotes |-> r[5], powers |-> r[6]]
<1> DEFINE At1(t) == CHOOSE i \in DOMAIN Tables : Tables[i] = t
<1>1. DOMAIN Tables = 1 .. 6
  BY DEF Tables
<1>2. \A i \in 1 .. 6 : i = 1 \/ i = 2 \/ i = 3 \/ i = 4 \/ i = 5 \/ i = 6
  OBVIOUS
<1>3. At1("sites") = 1 /\ At1("machines") = 2 /\ At1("groups") = 3
      /\ At1("relays") = 4 /\ At1("remotes") = 5 /\ At1("powers") = 6
  BY <1>1, <1>2, TablesByNumber
<1>4. {Tables[i] : i \in DOMAIN Tables} = {"relays", "sites", "machines", "groups", "remotes", "powers"}
  <2>1. \A i \in 1 .. 6 : Tables[i] \in {"relays", "sites", "machines", "groups", "remotes", "powers"}
    BY <1>2, TablesByNumber
  <2>2. 1 \in 1 .. 6 /\ 2 \in 1 .. 6 /\ 3 \in 1 .. 6 /\ 4 \in 1 .. 6 /\ 5 \in 1 .. 6 /\ 6 \in 1 .. 6
    OBVIOUS
  <2> QED BY <1>1, <2>1, <2>2, TablesByNumber
<1> HIDE DEF At1
<1>5. [t \in {Tables[i] : i \in DOMAIN Tables} |-> r[At1(t)]]
        = [relays |-> r[4], sites |-> r[1], machines |-> r[2], groups |-> r[3], remotes |-> r[5], powers |-> r[6]]
  BY <1>3, <1>4
<1> QED BY <1>5 DEF At1

\* What is written is an inventory by its types, and the one there is unless
\* disturbed.
LEMMA FileWritten ==
    ASSUME InventoryInv, NEW p \in Procs, WriteFile(p)
    PROVE  InventoryInv' /\ (~disturbed => file' = db)
<1> DEFINE r == call[p].read
           f == [relays |-> r[4], sites |-> r[1], machines |-> r[2], groups |-> r[3], remotes |-> r[5], powers |-> r[6]]
<1>1. file' = f
  BY FileIs DEF WriteFile
<1>2. \A i \in 1 .. 6 : r[i] \in TableTypes[Tables[i]] /\ (~disturbed => r[i] = db[Tables[i]])
  BY ExportReads, TablesByNumber DEF WriteFile
<1>3. 1 \in 1 .. 6 /\ 2 \in 1 .. 6 /\ 3 \in 1 .. 6 /\ 4 \in 1 .. 6 /\ 5 \in 1 .. 6 /\ 6 \in 1 .. 6
  OBVIOUS
<1>4. /\ r[1] \in TableTypes.sites /\ r[2] \in TableTypes.machines /\ r[3] \in TableTypes.groups
      /\ r[4] \in TableTypes.relays /\ r[5] \in TableTypes.remotes /\ r[6] \in TableTypes.powers
  BY <1>2, <1>3, TablesByNumber
<1>5. f \in Inventories
  BY <1>4 DEF TableTypes, Inventories
<1>6. ~disturbed => f = db
  <2>1. ~disturbed => /\ r[1] = db.sites /\ r[2] = db.machines /\ r[3] = db.groups
                      /\ r[4] = db.relays /\ r[5] = db.remotes /\ r[6] = db.powers
    BY <1>2, <1>3, TablesByNumber
  <2>2. db = [relays |-> db.relays, sites |-> db.sites, machines |-> db.machines,
              groups |-> db.groups, remotes |-> db.remotes, powers |-> db.powers]
    BY DEF InventoryInv, InventoryTypeOK, Inventories
  <2> QED BY <2>1, <2>2
<1> HIDE DEF f
<1>7. call' = [call EXCEPT ![p] = None] /\ db' = db /\ spent' = spent /\ follows' = follows /\ disturbed' = disturbed
  BY DEF WriteFile, End
<1>8. Write(p, db)
  BY <1>7 DEF Write, InventoryInv, InventoryTypeOK
<1>9. /\ db \in Inventories /\ spent' \subseteq AllIds /\ IdsOf(db) \subseteq spent' /\ file' \in Inventories
      /\ follows' \subseteq DOMAIN db.remotes
  BY <1>1, <1>5, <1>7 DEF InventoryInv, InventoryTypeOK
<1>10. Distinct(db) /\ \A g \in DOMAIN db.groups : db.groups[g] \subseteq DOMAIN db.machines
  BY DEF InventoryInv, GroupsAreMachines
<1>11. ~disturbed => Sound(db) /\ Agree(db, follows')
  BY <1>7 DEF InventoryInv, Undisturbed
<1> QED BY <1>1, <1>6, <1>7, <1>8, <1>9, <1>10, <1>11, Change

\* A call that fails leaves the tables as they are.
LEMMA Failed ==
    ASSUME InventoryInv, NEW p \in Procs, Fail(p)
    PROVE  InventoryInv'
<1>1. call' = [call EXCEPT ![p] = None] /\ NoWrite
  BY DEF Fail, End
<1> QED BY <1>1, Look


\* The row that a row of a file becomes has its name, and is of its table.
LEMMA ToIs ==
    ASSUME NEW d \in Inventories, NEW used, NEW x \in AllIds, Rows(d, used, x) # {}
    PROVE  /\ To(d, used, x) \in Rows(d, used, x) /\ To(d, used, x) \in AllIds
           /\ NameOf[To(d, used, x)] = NameOf[x]
           /\ x \in RelayIds => To(d, used, x) \in RelayIds
           /\ x \in SiteIds => To(d, used, x) \in SiteIds
           /\ x \in MachineIds => To(d, used, x) \in MachineIds
           /\ x \in GroupIds => To(d, used, x) \in GroupIds
<1> DEFINE y == To(d, used, x)
<1>1. x # None
  BY IdsAreApart
<1>2. y \in Rows(d, used, x)
  BY <1>1 DEF To
<1> HIDE DEF y
<1>3. y \in AllIds /\ NameOf[y] = NameOf[x]
  BY <1>2, TablesOf DEF Rows
<1>4. /\ x \in RelayIds => y \in RelayIds
      /\ x \in SiteIds => y \in SiteIds
      /\ x \in MachineIds => y \in MachineIds
      /\ x \in GroupIds => y \in GroupIds
  BY <1>3, NamesAreApart
<1> QED BY <1>2, <1>3, <1>4 DEF y

\* Where the rows of a table come from after an import.
LEMMA OntoIs ==
    ASSUME NEW d, NEW used, NEW old, NEW new
    PROVE  /\ DOMAIN old \subseteq DOMAIN Onto(d, used, old, new)
           /\ \A x \in DOMAIN new : To(d, used, x) \in DOMAIN Onto(d, used, old, new)
           /\ \A y \in DOMAIN Onto(d, used, old, new) :
                 \/ y \in DOMAIN old /\ Onto(d, used, old, new)[y] = old[y]
                 \/ \E x \in DOMAIN new : To(d, used, x) = y /\ Onto(d, used, old, new)[y] = new[x]
<1> DEFINE over == {To(d, used, x) : x \in DOMAIN new}
           o == Onto(d, used, old, new)
<1>1. o = [y \in DOMAIN old \cup over |->
              IF y \in over THEN new[CHOOSE x \in DOMAIN new : To(d, used, x) = y] ELSE old[y]]
  BY DEF Onto
<1>2. \A y \in over : LET x == CHOOSE x \in DOMAIN new : To(d, used, x) = y
                      IN  x \in DOMAIN new /\ To(d, used, x) = y
  OBVIOUS
<1>3. \A y \in over : \E x \in DOMAIN new : To(d, used, x) = y /\ o[y] = new[x]
  BY <1>1, <1>2
<1>4. \A y \in DOMAIN old : y \in over \/ o[y] = old[y]
  BY <1>1
<1>5. DOMAIN o = DOMAIN old \cup over
  BY <1>1
<1> HIDE DEF o
<1>6. \A y \in DOMAIN o : (y \in DOMAIN old /\ o[y] = old[y]) \/ \E x \in DOMAIN new : To(d, used, x) = y /\ o[y] = new[x]
  BY <1>3, <1>4, <1>5
<1>7. DOMAIN old \subseteq DOMAIN o /\ \A x \in DOMAIN new : To(d, used, x) \in DOMAIN o
  BY <1>5
<1> QED BY <1>6, <1>7 DEF o

\* Rows written over others are of the same kind.
LEMMA OntoIsPartial ==
    ASSUME NEW A, NEW B, NEW d, NEW used, NEW old \in Partial(A, B), NEW new \in Partial(A, B),
           \A x \in DOMAIN new : To(d, used, x) \in A
    PROVE  Onto(d, used, old, new) \in Partial(A, B)
<1> DEFINE o == Onto(d, used, old, new)
<1>1. DOMAIN old \subseteq A /\ \A y \in DOMAIN old : old[y] \in B
  BY PartialIs
<1>2. \A x \in DOMAIN new : new[x] \in B
  BY PartialIs
<1>3. \A y \in DOMAIN o : \/ y \in DOMAIN old /\ o[y] = old[y]
                          \/ \E x \in DOMAIN new : To(d, used, x) = y /\ o[y] = new[x]
  BY OntoIs
<1>4. o = [y \in DOMAIN o |-> o[y]]
  BY DEF Onto
<1> HIDE DEF o
<1>5. DOMAIN o \subseteq A /\ \A y \in DOMAIN o : o[y] \in B
  BY <1>1, <1>2, <1>3
<1>6. o \in Partial(A, B)
  BY <1>4, <1>5, PartialIs
<1> QED BY <1>6 DEF o

\* An accepted file gives every table rows that it may hold.
LEMMA ImportedIs ==
    ASSUME NEW d \in Inventories, NEW f \in Inventories, NEW used, Accepts(f),
           \A x \in IdsOf(f) : Rows(d, used, x) # {}
    PROVE  /\ Imported(d, used, f) \in Inventories
           /\ IdsOf(Imported(d, used, f)) = IdsOf(d) \cup {To(d, used, x) : x \in IdsOf(f)}
<1> DEFINE T(x) == To(d, used, x)
           sites == [s \in DOMAIN f.sites |-> T(f.sites[s])]
           row(m) == [f.machines[m] EXCEPT !.relay = T(@), !.site = IF @ \in DOMAIN f.sites THEN T(@) ELSE None]
           machines == [m \in DOMAIN f.machines |-> row(m)]
           groups == [g \in DOMAIN f.groups |-> {T(m) : m \in f.groups[g]}]
           e == Imported(d, used, f)
<1>1. IdsOf(f) \subseteq AllIds /\ \A x \in IdsOf(f) : x \in AllIds /\ Rows(d, used, x) # {}
  BY TablesOf
<1>2. /\ \A s \in DOMAIN f.sites : f.sites[s] \in f.relays \cup {None}
      /\ \A m \in DOMAIN f.machines : f.machines[m].relay \in f.relays \cup {None}
      /\ \A g \in DOMAIN f.groups : f.groups[g] \subseteq DOMAIN f.machines
      /\ DOMAIN f.remotes \subseteq DOMAIN f.machines /\ DOMAIN f.powers \subseteq DOMAIN f.machines
  BY DEF Accepts, ProfileTables
<1>3. /\ f.relays \subseteq RelayIds /\ DOMAIN f.sites \subseteq SiteIds
      /\ DOMAIN f.machines \subseteq MachineIds /\ DOMAIN f.groups \subseteq GroupIds
      /\ \A m \in DOMAIN f.machines : f.machines[m] \in MachineRows
  BY TablesOf
<1>4. /\ f.relays \subseteq IdsOf(f) /\ DOMAIN f.sites \subseteq IdsOf(f)
      /\ DOMAIN f.machines \subseteq IdsOf(f) /\ DOMAIN f.groups \subseteq IdsOf(f)
  BY DEF IdsOf
<1>5. /\ \A x \in f.relays : T(x) \in RelayIds
      /\ \A x \in DOMAIN f.sites : T(x) \in SiteIds
      /\ \A x \in DOMAIN f.machines : T(x) \in MachineIds
      /\ \A x \in DOMAIN f.groups : T(x) \in GroupIds
  BY <1>1, <1>3, <1>4, ToIs
<1>6. T(None) = None
  BY DEF To
<1> HIDE DEF T
<1>7. sites \in Partial(SiteIds, RelayIds \cup {None})
  <2>1. \A s \in DOMAIN f.sites : T(f.sites[s]) \in RelayIds \cup {None}
    BY <1>2, <1>5, <1>6
  <2>2. DOMAIN sites = DOMAIN f.sites /\ sites = [s \in DOMAIN sites |-> sites[s]]
    OBVIOUS
  <2>3. \A s \in DOMAIN sites : sites[s] \in RelayIds \cup {None}
    BY <2>1
  <2> HIDE DEF sites
  <2> QED BY <1>3, <2>2, <2>3, PartialIs
<1>8. \A m \in DOMAIN f.machines : row(m) \in MachineRows
  <2> TAKE m \in DOMAIN f.machines
  <2> DEFINE relay == T(f.machines[m].relay)
             site == IF f.machines[m].site \in DOMAIN f.sites THEN T(f.machines[m].site) ELSE None
  <2>1. relay \in RelayIds \cup {None} /\ site \in SiteIds \cup {None}
    BY <1>2, <1>5, <1>6
  <2>2. f.machines[m] \in MachineRows
    BY <1>3
  <2>3. row(m) = [f.machines[m] EXCEPT !.relay = relay, !.site = site]
    BY <2>2 DEF MachineRows
  <2> HIDE DEF relay, site
  <2> QED BY <2>1, <2>2, <2>3 DEF MachineRows
<1>9. machines \in Partial(MachineIds, MachineRows)
  <2>1. DOMAIN machines = DOMAIN f.machines /\ machines = [m \in DOMAIN machines |-> machines[m]]
    OBVIOUS
  <2>2. \A m \in DOMAIN machines : machines[m] \in MachineRows
    BY <1>8
  <2> HIDE DEF machines
  <2> QED BY <1>3, <2>1, <2>2, PartialIs
<1> HIDE DEF row
<1>10. groups \in Partial(GroupIds, SUBSET MachineIds)
  <2>1. DOMAIN groups = DOMAIN f.groups /\ groups = [g \in DOMAIN groups |-> groups[g]]
    OBVIOUS
  <2>2. \A g \in DOMAIN groups : groups[g] \in SUBSET MachineIds
    BY <1>2, <1>5
  <2> HIDE DEF groups
  <2> QED BY <1>3, <2>1, <2>2, PartialIs
<1>11. /\ e = [relays |-> d.relays \cup {T(r) : r \in f.relays},
               sites |-> Onto(d, used, d.sites, sites), machines |-> Onto(d, used, d.machines, machines),
               groups |-> Onto(d, used, d.groups, groups),
               remotes |-> Onto(d, used, d.remotes, f.remotes), powers |-> Onto(d, used, d.powers, f.powers)]
  BY DEF Imported, UpsertRelays, UpsertSites, UpsertMachines, UpsertGroups, UpsertRemotes, UpsertPowers, T, row
<1>12. DOMAIN sites = DOMAIN f.sites /\ DOMAIN machines = DOMAIN f.machines /\ DOMAIN groups = DOMAIN f.groups
  OBVIOUS
<1> HIDE DEF sites, machines, groups, e
<1>13. Onto(d, used, d.sites, sites) \in Partial(SiteIds, RelayIds \cup {None})
  <2>1. d.sites \in Partial(SiteIds, RelayIds \cup {None}) /\ \A x \in DOMAIN sites : To(d, used, x) \in SiteIds
    BY <1>5, <1>12, TablesOf DEF T
  <2> QED BY <1>7, <2>1, OntoIsPartial
<1>14. Onto(d, used, d.machines, machines) \in Partial(MachineIds, MachineRows)
  <2>1. d.machines \in Partial(MachineIds, MachineRows) /\ \A x \in DOMAIN machines : To(d, used, x) \in MachineIds
    BY <1>5, <1>12, TablesOf DEF T
  <2> QED BY <1>9, <2>1, OntoIsPartial
<1>15. Onto(d, used, d.groups, groups) \in Partial(GroupIds, SUBSET MachineIds)
  <2>1. d.groups \in Partial(GroupIds, SUBSET MachineIds) /\ \A x \in DOMAIN groups : To(d, used, x) \in GroupIds
    BY <1>5, <1>12, TablesOf DEF T
  <2> QED BY <1>10, <2>1, OntoIsPartial
<1>16. Onto(d, used, d.remotes, f.remotes) \in Partial(MachineIds, Addresses)
  <2>1. /\ d.remotes \in Partial(MachineIds, Addresses) /\ f.remotes \in Partial(MachineIds, Addresses)
        /\ \A x \in DOMAIN f.remotes : To(d, used, x) \in MachineIds
    BY <1>2, <1>5, TablesOf DEF T
  <2> QED BY <2>1, OntoIsPartial
<1>17. Onto(d, used, d.powers, f.powers) \in Partial(MachineIds, {None})
  <2>1. /\ d.powers \in Partial(MachineIds, {None}) /\ f.powers \in Partial(MachineIds, {None})
        /\ \A x \in DOMAIN f.powers : To(d, used, x) \in MachineIds
    BY <1>2, <1>5, TablesOf DEF T
  <2> QED BY <2>1, OntoIsPartial
<1>18. d.relays \cup {T(r) : r \in f.relays} \in SUBSET RelayIds
  BY <1>5, TablesOf
<1>19. e \in Inventories
  BY <1>11, <1>13, <1>14, <1>15, <1>16, <1>17, <1>18 DEF Inventories
<1>20. IdsOf(e) = IdsOf(d) \cup {T(x) : x \in IdsOf(f)}
  <2>1. /\ e.relays = d.relays \cup {T(x) : x \in f.relays} /\ e.sites = Onto(d, used, d.sites, sites)
        /\ e.machines = Onto(d, used, d.machines, machines) /\ e.groups = Onto(d, used, d.groups, groups)
    BY <1>11
  <2>2. DOMAIN e.sites = DOMAIN d.sites \cup {T(x) : x \in DOMAIN f.sites}
    BY <1>12, <2>1 DEF Onto, T
  <2>3. DOMAIN e.machines = DOMAIN d.machines \cup {T(x) : x \in DOMAIN f.machines}
    BY <1>12, <2>1 DEF Onto, T
  <2>4. DOMAIN e.groups = DOMAIN d.groups \cup {T(x) : x \in DOMAIN f.groups}
    BY <1>12, <2>1 DEF Onto, T
  <2> QED BY <2>1, <2>2, <2>3, <2>4 DEF IdsOf
<1> QED BY <1>19, <1>20 DEF e, T


\* The tables of an import, row by row.
LEMMA RowsOfImport ==
    ASSUME NEW d \in Inventories, NEW f \in Inventories, NEW used, Accepts(f), NEW e, e = Imported(d, used, f)
    PROVE  /\ e.relays = d.relays \cup {To(d, used, r) : r \in f.relays}
           /\ \A s \in DOMAIN e.sites :
                 \/ s \in DOMAIN d.sites /\ e.sites[s] = d.sites[s]
                 \/ \E x \in DOMAIN f.sites : To(d, used, x) = s /\ e.sites[s] = To(d, used, f.sites[x])
           /\ \A m \in DOMAIN e.machines :
                 \/ m \in DOMAIN d.machines /\ e.machines[m] = d.machines[m]
                 \/ \E x \in DOMAIN f.machines :
                       /\ To(d, used, x) = m /\ e.machines[m].ip = f.machines[x].ip
                       /\ e.machines[m].relay = To(d, used, f.machines[x].relay)
                       /\ e.machines[m].site = IF f.machines[x].site \in DOMAIN f.sites
                                               THEN To(d, used, f.machines[x].site) ELSE None
           /\ \A g \in DOMAIN e.groups :
                 \/ g \in DOMAIN d.groups /\ e.groups[g] = d.groups[g]
                 \/ \E x \in DOMAIN f.groups : To(d, used, x) = g /\ e.groups[g] = {To(d, used, m) : m \in f.groups[x]}
           /\ \A m \in DOMAIN e.remotes :
                 \/ m \in DOMAIN d.remotes /\ e.remotes[m] = d.remotes[m]
                 \/ \E x \in DOMAIN f.remotes : To(d, used, x) = m /\ e.remotes[m] = f.remotes[x]
           /\ \A m \in DOMAIN e.powers : m \in DOMAIN d.powers \/ \E x \in DOMAIN f.powers : To(d, used, x) = m
           /\ \A s \in DOMAIN d.sites : s \in DOMAIN e.sites
           /\ \A s \in DOMAIN f.sites : To(d, used, s) \in DOMAIN e.sites
           /\ \A m \in DOMAIN d.machines : m \in DOMAIN e.machines
           /\ \A m \in DOMAIN f.machines : To(d, used, m) \in DOMAIN e.machines
           /\ \A x \in DOMAIN f.groups : To(d, used, x) \in DOMAIN e.groups
           /\ \A x \in DOMAIN f.remotes : To(d, used, x) \in DOMAIN e.remotes
           /\ \A x \in DOMAIN f.powers : To(d, used, x) \in DOMAIN e.powers
<1> DEFINE T(x) == To(d, used, x)
           sites == [s \in DOMAIN f.sites |-> T(f.sites[s])]
           row(m) == [f.machines[m] EXCEPT !.relay = T(@), !.site = IF @ \in DOMAIN f.sites THEN T(@) ELSE None]
           machines == [m \in DOMAIN f.machines |-> row(m)]
           groups == [g \in DOMAIN f.groups |-> {T(m) : m \in f.groups[g]}]
<1>1. /\ e.relays = d.relays \cup {T(r) : r \in f.relays}
      /\ e.sites = Onto(d, used, d.sites, sites) /\ e.machines = Onto(d, used, d.machines, machines)
      /\ e.groups = Onto(d, used, d.groups, groups)
      /\ e.remotes = Onto(d, used, d.remotes, f.remotes) /\ e.powers = Onto(d, used, d.powers, f.powers)
  BY DEF Imported, UpsertRelays, UpsertSites, UpsertMachines, UpsertGroups, UpsertRemotes, UpsertPowers
<1>2. \A m \in DOMAIN f.machines :
          /\ row(m).ip = f.machines[m].ip /\ row(m).relay = T(f.machines[m].relay)
          /\ row(m).site = IF f.machines[m].site \in DOMAIN f.sites THEN T(f.machines[m].site) ELSE None
  <2> TAKE m \in DOMAIN f.machines
  <2>1. f.machines[m] \in MachineRows
    BY TablesOf
  <2> QED BY <2>1 DEF MachineRows
<1> HIDE DEF row
<1>3. /\ DOMAIN sites = DOMAIN f.sites /\ \A x \in DOMAIN f.sites : sites[x] = T(f.sites[x])
      /\ DOMAIN machines = DOMAIN f.machines /\ \A x \in DOMAIN f.machines : machines[x] = row(x)
      /\ DOMAIN groups = DOMAIN f.groups /\ \A x \in DOMAIN f.groups : groups[x] = {T(m) : m \in f.groups[x]}
  OBVIOUS
<1> HIDE DEF T, sites, machines, groups
<1>4. /\ \A s \in DOMAIN e.sites :
            \/ s \in DOMAIN d.sites /\ e.sites[s] = d.sites[s]
            \/ \E x \in DOMAIN f.sites : T(x) = s /\ e.sites[s] = T(f.sites[x])
      /\ \A s \in DOMAIN d.sites : s \in DOMAIN e.sites
      /\ \A s \in DOMAIN f.sites : T(s) \in DOMAIN e.sites
  BY <1>1, <1>3, OntoIs DEF T
<1>5. /\ \A m \in DOMAIN e.machines :
            \/ m \in DOMAIN d.machines /\ e.machines[m] = d.machines[m]
            \/ \E x \in DOMAIN f.machines : T(x) = m /\ e.machines[m] = row(x)
      /\ \A m \in DOMAIN d.machines : m \in DOMAIN e.machines
      /\ \A m \in DOMAIN f.machines : T(m) \in DOMAIN e.machines
  BY <1>1, <1>3, OntoIs DEF T
<1>6. /\ \A g \in DOMAIN e.groups :
            \/ g \in DOMAIN d.groups /\ e.groups[g] = d.groups[g]
            \/ \E x \in DOMAIN f.groups : T(x) = g /\ e.groups[g] = groups[x]
      /\ \A x \in DOMAIN f.groups : T(x) \in DOMAIN e.groups
  BY <1>1, <1>3, OntoIs DEF T
<1>7. \A g \in DOMAIN e.groups :
          \/ g \in DOMAIN d.groups /\ e.groups[g] = d.groups[g]
          \/ \E x \in DOMAIN f.groups : T(x) = g /\ e.groups[g] = {T(m) : m \in f.groups[x]}
  BY <1>3, <1>6
<1>8. /\ \A m \in DOMAIN e.remotes :
            \/ m \in DOMAIN d.remotes /\ e.remotes[m] = d.remotes[m]
            \/ \E x \in DOMAIN f.remotes : T(x) = m /\ e.remotes[m] = f.remotes[x]
      /\ \A x \in DOMAIN f.remotes : T(x) \in DOMAIN e.remotes
  BY <1>1, OntoIs DEF T
<1>9. /\ \A m \in DOMAIN e.powers : m \in DOMAIN d.powers \/ \E x \in DOMAIN f.powers : T(x) = m
      /\ \A x \in DOMAIN f.powers : T(x) \in DOMAIN e.powers
  BY <1>1, OntoIs DEF T
<1>10. \A m \in DOMAIN e.machines :
          \/ m \in DOMAIN d.machines /\ e.machines[m] = d.machines[m]
          \/ \E x \in DOMAIN f.machines :
                /\ T(x) = m /\ e.machines[m].ip = f.machines[x].ip
                /\ e.machines[m].relay = T(f.machines[x].relay)
                /\ e.machines[m].site = IF f.machines[x].site \in DOMAIN f.sites THEN T(f.machines[x].site) ELSE None
  BY <1>2, <1>5
<1> QED BY <1>1, <1>4, <1>5, <1>6, <1>7, <1>8, <1>9, <1>10 DEF T

\* An import keeps every group a group of machines there are, and an inventory
\* whose references are sound sound (Import: the checks before its first row).
LEMMA ImportIsSound ==
    ASSUME NEW d \in Inventories, NEW f \in Inventories, NEW used, Accepts(f), NEW e, e = Imported(d, used, f)
    PROVE  /\ (\A g \in DOMAIN d.groups : d.groups[g] \subseteq DOMAIN d.machines)
                 => \A g \in DOMAIN e.groups : e.groups[g] \subseteq DOMAIN e.machines
           /\ Sound(d) => Sound(e)
<1> DEFINE T(x) == To(d, used, x)
<1>1. /\ \A s \in DOMAIN f.sites : f.sites[s] \in f.relays \cup {None}
      /\ \A m \in DOMAIN f.machines : f.machines[m].relay \in f.relays \cup {None}
      /\ \A g \in DOMAIN f.groups : f.groups[g] \subseteq DOMAIN f.machines
      /\ DOMAIN f.remotes \subseteq DOMAIN f.machines /\ DOMAIN f.powers \subseteq DOMAIN f.machines
  BY DEF Accepts, ProfileTables
<1>2. T(None) = None
  BY DEF To
<1> HIDE DEF T
<1>3. /\ d.relays \subseteq e.relays /\ \A r \in f.relays : T(r) \in e.relays
      /\ \A m \in DOMAIN d.machines : m \in DOMAIN e.machines
      /\ \A m \in DOMAIN f.machines : T(m) \in DOMAIN e.machines
      /\ \A s \in DOMAIN d.sites : s \in DOMAIN e.sites
      /\ \A s \in DOMAIN f.sites : T(s) \in DOMAIN e.sites
  BY RowsOfImport DEF T
<1>4. ASSUME \A g \in DOMAIN d.groups : d.groups[g] \subseteq DOMAIN d.machines
      PROVE  \A g \in DOMAIN e.groups : e.groups[g] \subseteq DOMAIN e.machines
  <2> TAKE g \in DOMAIN e.groups
  <2>1. \/ g \in DOMAIN d.groups /\ e.groups[g] = d.groups[g]
        \/ \E x \in DOMAIN f.groups : e.groups[g] = {T(m) : m \in f.groups[x]}
    BY RowsOfImport DEF T
  <2>2. CASE g \in DOMAIN d.groups /\ e.groups[g] = d.groups[g]
    BY <1>3, <1>4, <2>2
  <2>3. ASSUME NEW x \in DOMAIN f.groups, e.groups[g] = {T(m) : m \in f.groups[x]}
        PROVE  e.groups[g] \subseteq DOMAIN e.machines
    BY <1>1, <1>3, <2>3
  <2> QED BY <2>1, <2>2, <2>3
<1>5. ASSUME Sound(d) PROVE Sound(e)
  <2>1. /\ \A s \in DOMAIN d.sites : d.sites[s] \in d.relays \cup {None}
        /\ \A m \in DOMAIN d.machines :
            /\ d.machines[m].site \in DOMAIN d.sites \cup {None}
            /\ d.machines[m].relay \in d.relays \cup {None, Typed}
        /\ \A g \in DOMAIN d.groups : d.groups[g] \subseteq DOMAIN d.machines
        /\ DOMAIN d.remotes \subseteq DOMAIN d.machines
        /\ DOMAIN d.powers \subseteq DOMAIN d.machines
    BY <1>5, SoundIs
  <2>2. \A s \in DOMAIN e.sites : e.sites[s] \in e.relays \cup {None}
    <3> TAKE s \in DOMAIN e.sites
    <3>1. \/ s \in DOMAIN d.sites /\ e.sites[s] = d.sites[s]
          \/ \E x \in DOMAIN f.sites : e.sites[s] = T(f.sites[x])
      BY RowsOfImport DEF T
    <3> QED BY <1>1, <1>2, <1>3, <2>1, <3>1
  <2>3. \A m \in DOMAIN e.machines :
            /\ e.machines[m].site \in DOMAIN e.sites \cup {None}
            /\ e.machines[m].relay \in e.relays \cup {None, Typed}
    <3> TAKE m \in DOMAIN e.machines
    <3>1. \/ m \in DOMAIN d.machines /\ e.machines[m] = d.machines[m]
          \/ \E x \in DOMAIN f.machines :
                /\ e.machines[m].relay = T(f.machines[x].relay)
                /\ e.machines[m].site = IF f.machines[x].site \in DOMAIN f.sites THEN T(f.machines[x].site) ELSE None
      BY RowsOfImport DEF T
    <3> QED BY <1>1, <1>2, <1>3, <2>1, <3>1
  <2>4. DOMAIN e.remotes \subseteq DOMAIN e.machines
    <3> SUFFICES ASSUME NEW m \in DOMAIN e.remotes PROVE m \in DOMAIN e.machines
      OBVIOUS
    <3>1. m \in DOMAIN d.remotes \/ \E x \in DOMAIN f.remotes : T(x) = m
      BY RowsOfImport DEF T
    <3> QED BY <1>1, <1>3, <2>1, <3>1
  <2>5. DOMAIN e.powers \subseteq DOMAIN e.machines
    <3> SUFFICES ASSUME NEW m \in DOMAIN e.powers PROVE m \in DOMAIN e.machines
      OBVIOUS
    <3>1. m \in DOMAIN d.powers \/ \E x \in DOMAIN f.powers : T(x) = m
      BY RowsOfImport DEF T
    <3> QED BY <1>1, <1>3, <2>1, <3>1
  <2> QED BY <1>4, <2>1, <2>2, <2>3, <2>4, <2>5, SoundIs
<1> QED BY <1>4, <1>5


\* Rows of a file that have one name become one row, so names stay unique.
LEMMA ImportIsDistinct ==
    ASSUME NEW d \in Inventories, Distinct(d), NEW f \in Inventories, NEW used, NEW e,
           \A x \in IdsOf(f) : Rows(d, used, x) # {},
           IdsOf(e) = IdsOf(d) \cup {To(d, used, x) : x \in IdsOf(f)}
    PROVE  Distinct(e)
<1>1. IdsOf(d) \subseteq AllIds /\ IdsOf(f) \subseteq AllIds
  BY TablesOf
<1>2. \A x \in IdsOf(f) : To(d, used, x) \in Rows(d, used, x) /\ NameOf[To(d, used, x)] = NameOf[x]
  BY <1>1, ToIs
<1>3. ASSUME NEW u \in IdsOf(d), NEW x \in IdsOf(f), NameOf[x] = NameOf[u]
      PROVE  To(d, used, x) = u
  <2>1. u \in {y \in IdsOf(d) : NameOf[y] = NameOf[x]}
    BY <1>3
  <2>2. To(d, used, x) \in IdsOf(d)
    BY <1>2, <2>1 DEF Rows
  <2> QED BY <1>2, <1>3, <2>2 DEF Distinct
<1>4. ASSUME NEW x \in IdsOf(f), NEW z \in IdsOf(f), NameOf[x] = NameOf[z]
      PROVE  To(d, used, x) = To(d, used, z)
  <2>1. Rows(d, used, x) = Rows(d, used, z)
    BY <1>4 DEF Rows
  <2>2. x # None /\ z # None
    BY <1>1, IdsAreApart
  <2> QED BY <2>1, <2>2 DEF To
<1> SUFFICES ASSUME NEW u \in IdsOf(e), NEW v \in IdsOf(e), NameOf[u] = NameOf[v] PROVE u = v
  BY DEF Distinct
<1>5. u \in IdsOf(d) \/ \E x \in IdsOf(f) : u = To(d, used, x)
  OBVIOUS
<1>6. v \in IdsOf(d) \/ \E x \in IdsOf(f) : v = To(d, used, x)
  OBVIOUS
<1>7. CASE u \in IdsOf(d) /\ v \in IdsOf(d)
  BY <1>7 DEF Distinct
<1>8. CASE u \in IdsOf(d) /\ \E x \in IdsOf(f) : v = To(d, used, x)
  BY <1>2, <1>3, <1>8
<1>9. CASE v \in IdsOf(d) /\ \E x \in IdsOf(f) : u = To(d, used, x)
  BY <1>2, <1>3, <1>9
<1>10. CASE (\E x \in IdsOf(f) : u = To(d, used, x)) /\ (\E x \in IdsOf(f) : v = To(d, used, x))
  BY <1>2, <1>4, <1>10
<1> QED BY <1>5, <1>6, <1>7, <1>8, <1>9, <1>10

\* Import, the whole transaction.
LEMMA FileImported ==
    ASSUME InventoryInv, NEW p \in Procs, Import(p)
    PROVE  InventoryInv' /\ (Sound(db) => Sound(db'))
<1> USE DEF InventoryInv, InventoryTypeOK
<1> DEFINE new == Imported(db, spent, file)
<1>1. /\ Accepts(file) /\ \A x \in IdsOf(file) : Rows(db, spent, x) # {}
      /\ Write(p, new) /\ spent' = spent \cup IdsOf(db') /\ file' = file
      /\ follows' = {m \in follows \cap DOMAIN db'.remotes \cap DOMAIN db'.machines : db'.remotes[m] = db'.machines[m].ip}
  BY DEF Import
<1>2. call' = [call EXCEPT ![p] = None] /\ db' = new
  BY <1>1 DEF Import, BeginAndEnd, Begin, Write
<1>3. new \in Inventories /\ IdsOf(new) = IdsOf(db) \cup {To(db, spent, x) : x \in IdsOf(file)}
  BY <1>1, ImportedIs
<1>4. /\ (\A g \in DOMAIN db.groups : db.groups[g] \subseteq DOMAIN db.machines)
            => \A g \in DOMAIN new.groups : new.groups[g] \subseteq DOMAIN new.machines
      /\ Sound(db) => Sound(new)
  BY <1>1, ImportIsSound
<1>5. Distinct(new)
  BY <1>1, <1>3, ImportIsDistinct
<1> HIDE DEF new
<1>6. \A g \in DOMAIN new.groups : new.groups[g] \subseteq DOMAIN new.machines
  BY <1>4 DEF GroupsAreMachines
<1>7. IdsOf(new) \subseteq AllIds
  BY <1>3, TablesOf
<1>8. spent' \subseteq AllIds /\ IdsOf(new) \subseteq spent' /\ follows' \subseteq DOMAIN new.remotes /\ file' \in Inventories
  BY <1>1, <1>2, <1>7
<1>9. ~disturbed => Sound(new) /\ Agree(new, follows')
  BY <1>1, <1>2, <1>4 DEF Undisturbed, Agree
<1>10. InventoryInv'
  BY <1>1, <1>2, <1>3, <1>5, <1>6, <1>8, <1>9, Change
<1> QED BY <1>2, <1>4, <1>10

-----------------------------------------------------------------------------
(* Scans.                                                                  *)

\* Of what a scan has read and found.
LEMMA ScanIs ==
    ASSUME InventoryInv, NEW p \in Procs, At(p, "follow")
    PROVE  /\ call[p] # None /\ call[p].step = "follow"
           /\ call[p] \in ScanCalls /\ Scanning(call[p]) /\ (~disturbed => ScanKnows(db, call[p]))
<1>1. call[p] # None /\ call[p].step = "follow" /\ CallTypeOK(call[p])
  BY DEF At, InventoryInv, InventoryTypeOK
<1>2. call[p] \in ScanCalls /\ Scanning(call[p])
  BY <1>1 DEF CallTypeOK, DeleteRelayCalls, SaveSiteCalls, DeleteSiteCalls, SaveMachineCalls, RemoteCalls, PowerCalls,
              ProfileSteps
<1>3. ~disturbed => Knows(db, call[p])
  BY <1>1 DEF InventoryInv, Undisturbed
<1> QED BY <1>1, <1>2, <1>3 DEF Knows

\* A machine that is followed was read, and found at one address.
LEMMA MovedIs ==
    ASSUME NEW c \in ScanCalls, Scanning(c), NEW m \in Moved(c.seen, c.found)
    PROVE  /\ m \in DOMAIN c.seen /\ m \in MachineIds /\ m # None
           /\ c.found[m] = {Found(c, m)} /\ Found(c, m) \in Addresses
<1>1. m \in DOMAIN c.seen /\ m \in DOMAIN c.found /\ Cardinality(c.found[m]) = 1
  BY DEF Moved, Scanning
<1>2. c.found \in Partial(MachineIds, Sightings)
  BY DEF ScanCalls
<1>3. c.found[m] \in Sightings /\ m \in MachineIds
  BY <1>1, <1>2, PartialIs
<1>4. IsFiniteSet(c.found[m]) /\ c.found[m] \subseteq Addresses
  BY <1>3, SightingsAssumption DEF SightingsAssumption
<1>5. PICK a : c.found[m] = {a}
  BY <1>1, <1>4, FS_Singleton
<1>6. Found(c, m) = a
  BY <1>5 DEF Found
<1>7. m # None
  BY <1>3, IdsAreApart DEF AllIds
<1> QED BY <1>1, <1>3, <1>4, <1>5, <1>6, <1>7

\* A scan that has read the machines and followed none.
LEMMA ScanBegun ==
    ASSUME InventoryInv, NEW p \in Procs, BeginScan(p)
    PROVE  InventoryInv'
<1>1. PICK found \in [DOMAIN db.machines -> Sightings], n \in 0 .. 1 :
          Begin(p, "scan", [step |-> "follow", seen |-> db.machines, found |-> found,
                            todo |-> Moved(db.machines, found), next |-> None, new |-> n])
  BY DEF BeginScan
<1> DEFINE todo == Moved(db.machines, found)
           c == [step |-> "follow", seen |-> db.machines, found |-> found, todo |-> todo, next |-> None, new |-> n]
<1>2. call' = [call EXCEPT ![p] = c] /\ NoWrite
  BY <1>1 DEF BeginScan, Begin
<1>3. DOMAIN db.machines \subseteq MachineIds /\ db.machines \in Partial(MachineIds, MachineRows)
  BY TablesOf DEF InventoryInv, InventoryTypeOK
<1>4. found \in Partial(MachineIds, Sightings) /\ DOMAIN found = DOMAIN db.machines
  BY <1>3 DEF Partial
<1>5. todo \subseteq DOMAIN db.machines
  BY DEF Moved
<1> HIDE DEF todo
<1>6. c \in ScanCalls
  BY <1>3, <1>4, <1>5 DEF ScanCalls
<1>7. c.step = "follow" /\ c.seen = db.machines /\ c.found = found /\ c.todo = todo /\ c.next = None
  OBVIOUS
<1> HIDE DEF c
<1>8. Scanning(c)
  BY <1>4, <1>7 DEF Scanning, todo
<1>9. CallTypeOK(c)
  BY <1>6, <1>8 DEF CallTypeOK
<1>10. ScanKnows(db, c)
  BY <1>7 DEF ScanKnows, todo
<1>11. Knows(db, c)
  BY <1>7, <1>10 DEF Knows, ProfileSteps
<1> QED BY <1>2, <1>9, <1>11, Look

\* GetSite: the machine is next, or stays because of its site, or the scan ends.
LEMMA SiteChecked ==
    ASSUME InventoryInv, NEW p \in Procs, CheckSite(p)
    PROVE  InventoryInv'
<1> DEFINE o == call[p]
<1>1. /\ o \in ScanCalls /\ Scanning(o) /\ (~disturbed => ScanKnows(db, o)) /\ o.step = "follow"
      /\ o.next = None /\ NoWrite
  BY ScanIs DEF CheckSite, At
<1>2. PICK m \in o.todo :
          LET s == o.seen[m].site
              follow == s = None \/ (db.sites[s] = None /\ Found(o, m) \in Subnet[s])
          IN  IF s # None /\ s \notin DOMAIN db.sites
              THEN End(p)
              ELSE call' = [call EXCEPT ![p].todo = @ \ {m}, ![p].next = IF follow THEN m ELSE None]
  BY DEF CheckSite
<1> DEFINE next == IF o.seen[m].site = None \/ (db.sites[o.seen[m].site] = None /\ Found(o, m) \in Subnet[o.seen[m].site])
                   THEN m ELSE None
           c == [o EXCEPT !.todo = @ \ {m}, !.next = next]
<1>3. CASE End(p)
  <2>1. call' = [call EXCEPT ![p] = None]
    BY <1>3 DEF End
  <2> QED BY <1>1, <2>1, Look
<1>4. CASE call' = [call EXCEPT ![p].todo = @ \ {m}, ![p].next = next]
  <2>1. call' = [call EXCEPT ![p] = c]
    BY <1>4 DEF InventoryInv, InventoryTypeOK
  <2>2. m \in Moved(o.seen, o.found) /\ m \in MachineIds /\ m # None
    BY <1>1, MovedIs DEF Scanning
  <2>3. next \in {m, None} /\ (next = None => ~Followed(db, o, m))
    BY <2>2 DEF Followed
  <2> HIDE DEF next
  <2>4. /\ c \in ScanCalls /\ c.step = "follow" /\ c.seen = o.seen /\ c.found = o.found
        /\ c.todo = o.todo \ {m} /\ c.next = next
    BY <1>1, <2>2, <2>3 DEF ScanCalls
  <2> HIDE DEF c, o
  <2>5. Scanning(c)
    BY <1>1, <2>2, <2>3, <2>4 DEF Scanning
  <2>6. CallTypeOK(c)
    BY <2>4, <2>5 DEF CallTypeOK
  <2>7. ASSUME ~disturbed PROVE ScanKnows(db, c)
    <3> SUFFICES ASSUME NEW n \in DOMAIN o.seen
                 PROVE  /\ n \in DOMAIN db.machines
                        /\ n \in c.todo \cup {c.next} \/ n \notin Moved(o.seen, o.found)
                              => db.machines[n].ip = o.seen[n].ip
                        /\ n \in Moved(o.seen, o.found) \ (c.todo \cup {c.next}) /\ Followed(db, o, n)
                              => db.machines[n].ip = Found(o, n)
      BY <2>4 DEF ScanKnows, Followed, Found
    <3>1. /\ n \in DOMAIN db.machines
          /\ n \in o.todo \cup {o.next} \/ n \notin Moved(o.seen, o.found) => db.machines[n].ip = o.seen[n].ip
          /\ n \in Moved(o.seen, o.found) \ (o.todo \cup {o.next}) /\ Followed(db, o, n)
                => db.machines[n].ip = Found(o, n)
      BY <1>1, <2>7 DEF ScanKnows
    <3>2. n # None
      BY <1>1, <3>1, TablesOf, IdsAreApart DEF InventoryInv, InventoryTypeOK, AllIds
    <3>3. CASE n = m
      BY <1>2, <2>2, <2>3, <2>4, <3>1, <3>2, <3>3
    <3>4. CASE n # m
      BY <1>1, <2>2, <2>3, <2>4, <3>1, <3>2, <3>4
    <3> QED BY <3>3, <3>4
  <2>8. ~disturbed => Knows(db, c)
    BY <2>4, <2>7 DEF Knows, ProfileSteps
  <2> QED BY <1>1, <2>1, <2>6, <2>8, Look
<1> QED BY <1>2, <1>3, <1>4


\* SyncDeviceAddress: the machine is where it was found, with its profile; a machine
\* that is not where it was read has been disturbed.
LEMMA AddressSynced ==
    ASSUME InventoryInv, NEW p \in Procs, SyncDeviceAddress(p)
    PROVE  InventoryInv'
<1> USE DEF InventoryInv, InventoryTypeOK
<1> DEFINE o == call[p]
           m == o.next
           old == o.seen[m].ip
           at == Found(o, m)
           c == [o EXCEPT !.next = None]
           row == [db.machines[m] EXCEPT !.ip = at]
           rows == [db.machines EXCEPT ![m] = row]
           hosts == [n \in DOMAIN db.remotes |-> IF n = m /\ db.remotes[n] = old THEN at ELSE db.remotes[n]]
           new == [db EXCEPT !.machines = rows, !.remotes = hosts]
<1>1. /\ o \in ScanCalls /\ Scanning(o) /\ (~disturbed => ScanKnows(db, o)) /\ o.step = "follow"
      /\ m # None /\ UNCHANGED <<spent, file>> /\ follows' = follows
      /\ call' = [call EXCEPT ![p] = c]
  BY ScanIs DEF SyncDeviceAddress, At
<1>2. m \in Moved(o.seen, o.found) /\ m \notin o.todo
  BY <1>1 DEF Scanning
<1>3. m \in DOMAIN o.seen /\ m \in MachineIds /\ at \in Addresses
  BY <1>1, <1>2, MovedIs
<1>4. IF m \in DOMAIN db.machines /\ db.machines[m].ip = old
      THEN Write(p, [db EXCEPT !.machines[m].ip = at, !.remotes = hosts])
      ELSE UNCHANGED <<db, disturbed>>
  BY DEF SyncDeviceAddress
<1>5. /\ c \in ScanCalls /\ c.step = "follow" /\ c.seen = o.seen /\ c.found = o.found
      /\ c.todo = o.todo /\ c.next = None
  BY <1>1 DEF ScanCalls
<1> HIDE DEF c
<1>6. Scanning(c) /\ CallTypeOK(c)
  BY <1>1, <1>5 DEF Scanning, CallTypeOK
<1>7. CASE ~(m \in DOMAIN db.machines /\ db.machines[m].ip = old)
  <2>1. NoWrite
    BY <1>1, <1>4, <1>7 DEF NoWrite
  <2>2. disturbed
    BY <1>1, <1>3, <1>7 DEF ScanKnows
  <2> QED BY <1>1, <1>6, <2>1, <2>2, Look
<1>8. CASE m \in DOMAIN db.machines /\ db.machines[m].ip = old
  <2>1. Write(p, new)
    <3>1. [db EXCEPT !.machines[m].ip = at, !.remotes = hosts] = new
      BY DEF Inventories
    <3> QED BY <1>4, <1>8, <3>1
  <2>2. row \in MachineRows /\ row.ip = at /\ row.site = db.machines[m].site /\ row.relay = db.machines[m].relay
    <3>1. db.machines[m] \in MachineRows
      BY <1>8, TablesOf
    <3> QED BY <1>3, <3>1 DEF MachineRows
  <2> HIDE DEF row
  <2>3. rows \in Partial(MachineIds, MachineRows)
    BY <1>8, <2>2, TablesOf, SetIsPartial
  <2>4. DOMAIN rows = DOMAIN db.machines /\ rows[m] = row /\ \A n \in DOMAIN db.machines \ {m} : rows[n] = db.machines[n]
    BY <1>8
  <2>5. hosts \in Partial(MachineIds, Addresses)
    <3>1. DOMAIN db.remotes \subseteq MachineIds /\ \A n \in DOMAIN db.remotes : db.remotes[n] \in Addresses
      BY TablesOf
    <3>2. hosts \in [DOMAIN db.remotes -> Addresses]
      BY <1>3, <3>1
    <3> QED BY <3>1, <3>2 DEF Partial
  <2>6. DOMAIN hosts = DOMAIN db.remotes /\ \A n \in DOMAIN hosts :
            hosts[n] = IF n = m /\ db.remotes[n] = old THEN at ELSE db.remotes[n]
    OBVIOUS
  <2> HIDE DEF rows, hosts, at, old, m, o
  <2>7. /\ new \in Inventories /\ new.relays = db.relays /\ new.sites = db.sites
        /\ new.machines = rows /\ new.groups = db.groups /\ new.remotes = hosts /\ new.powers = db.powers
    BY <2>3, <2>5 DEF Inventories
  <2> HIDE DEF new
  <2>8. IdsOf(new) = IdsOf(db)
    BY <2>4, <2>7 DEF IdsOf
  <2>9. Distinct(new)
    BY <2>8 DEF Distinct
  <2>10. \A g \in DOMAIN new.groups : new.groups[g] \subseteq DOMAIN new.machines
    BY <2>4, <2>7 DEF GroupsAreMachines
  <2>11. spent' \subseteq AllIds /\ IdsOf(new) \subseteq spent' /\ follows' \subseteq DOMAIN new.remotes /\ file' \in Inventories
    BY <1>1, <2>6, <2>7, <2>8
  <2>12. ASSUME ~disturbed PROVE Sound(new) /\ Agree(new, follows') /\ Knows(new, c)
    <3>1. Sound(db) /\ Agree(db, follows) /\ follows \subseteq DOMAIN db.machines
      BY <2>12, SoundIs DEF Undisturbed
    <3>2. \A n \in DOMAIN new.machines :
              new.machines[n].site = db.machines[n].site /\ new.machines[n].relay = db.machines[n].relay
      BY <2>2, <2>4, <2>7
    <3>3. Sound(new)
      BY <2>4, <2>6, <2>7, <2>10, <3>1, <3>2, SoundIs
    <3>4. \A n \in follows : new.remotes[n] = new.machines[n].ip
      <4> TAKE n \in follows
      <4>1. n \in DOMAIN db.remotes /\ db.remotes[n] = db.machines[n].ip
        BY <3>1 DEF Agree
      <4> QED BY <1>8, <2>2, <2>4, <2>6, <2>7, <3>1, <4>1
    <3>5. ScanKnows(new, c)
      <4> SUFFICES ASSUME NEW n \in DOMAIN o.seen
                   PROVE  /\ n \in DOMAIN new.machines
                          /\ n \in c.todo \cup {c.next} \/ n \notin Moved(o.seen, o.found)
                                => new.machines[n].ip = o.seen[n].ip
                          /\ n \in Moved(o.seen, o.found) \ (c.todo \cup {c.next}) /\ Followed(new, o, n)
                                => new.machines[n].ip = Found(o, n)
        BY <1>5 DEF ScanKnows, Followed, Found
      <4>1. /\ n \in DOMAIN db.machines
            /\ n \in o.todo \cup {o.next} \/ n \notin Moved(o.seen, o.found) => db.machines[n].ip = o.seen[n].ip
            /\ n \in Moved(o.seen, o.found) \ (o.todo \cup {o.next}) /\ Followed(db, o, n)
                  => db.machines[n].ip = Found(o, n)
        BY <1>1, <2>12 DEF ScanKnows
      <4>2. n # None
        BY <4>1, TablesOf, IdsAreApart DEF AllIds
      <4>3. Followed(new, o, n) <=> Followed(db, o, n)
        BY <2>7 DEF Followed
      <4>4. CASE n = m
        BY <1>2, <1>5, <2>2, <2>4, <2>7, <4>1, <4>2, <4>4 DEF at
      <4>5. CASE n # m
        BY <1>5, <2>4, <2>7, <4>1, <4>2, <4>3, <4>5 DEF m
      <4> QED BY <4>4, <4>5
    <3> QED BY <1>1, <1>5, <3>3, <3>4, <3>5 DEF Agree, Knows, ProfileSteps
  <2> QED BY <1>1, <1>6, <2>1, <2>7, <2>9, <2>10, <2>11, <2>12, Change
<1> QED BY <1>7, <1>8

\* A host is added, and the machines there were stay as they are.
LEMMA HostAdded ==
    ASSUME InventoryInv, NEW p \in Procs, AddHost(p)
    PROVE  InventoryInv'
<1> USE DEF InventoryInv, InventoryTypeOK
<1> DEFINE o == call[p]
           c == [o EXCEPT !.new = @ - 1]
<1>1. /\ o \in ScanCalls /\ Scanning(o) /\ (~disturbed => ScanKnows(db, o)) /\ o.step = "follow"
      /\ o.new > 0 /\ file' = file /\ follows' = follows /\ call' = [call EXCEPT ![p] = c]
  BY ScanIs DEF AddHost, At
<1>2. /\ c \in ScanCalls /\ c.step = "follow" /\ c.seen = o.seen /\ c.found = o.found
      /\ c.todo = o.todo /\ c.next = o.next
  BY <1>1 DEF ScanCalls
<1> HIDE DEF c, o
<1>3. Scanning(c) /\ CallTypeOK(c)
  BY <1>1, <1>2 DEF Scanning, CallTypeOK
<1>4. ~disturbed => Knows(db, c)
  BY <1>1, <1>2 DEF Knows, ProfileSteps, ScanKnows, Followed, Found
<1>5. CASE UNCHANGED <<db, disturbed, spent>>
  <2>1. NoWrite
    BY <1>1, <1>5 DEF NoWrite
  <2> QED BY <1>1, <1>3, <1>4, <2>1, Look
<1>6. ASSUME NEW m \in Fresh(MachineIds, DOMAIN db.machines), NEW a \in Addresses,
             Write(p, [db EXCEPT !.machines = Put(@, m, [site |-> None, relay |-> None, ip |-> a])]),
             spent' = spent \cup {m}
      PROVE  InventoryInv'
  <2> DEFINE row == [site |-> None, relay |-> None, ip |-> a]
             new == [db EXCEPT !.machines = Put(@, m, row)]
  <2>1. row \in MachineRows /\ row.site = None /\ row.relay = None
    BY DEF MachineRows
  <2>2. Write(p, new)
    BY <1>6
  <2> HIDE DEF row
  <2>3. m \notin DOMAIN db.machines /\ m \in MachineIds /\ m \in AllIds
    BY DEF Fresh, IdsOf, AllIds
  <2>4. Put(db.machines, m, row) \in Partial(MachineIds, MachineRows)
    BY <2>1, <2>3, TablesOf, PutIsPartial
  <2>5. /\ new \in Inventories /\ new.relays = db.relays /\ new.sites = db.sites
        /\ new.machines = Put(db.machines, m, row)
        /\ new.groups = db.groups /\ new.remotes = db.remotes /\ new.powers = db.powers
    BY <2>4 DEF Inventories
  <2>6. /\ DOMAIN new.machines = DOMAIN db.machines \cup {m} /\ new.machines[m] = row
        /\ \A n \in DOMAIN db.machines : new.machines[n] = db.machines[n]
    BY <2>3, <2>5 DEF Put
  <2> HIDE DEF new
  <2>7. IdsOf(new) = IdsOf(db) \cup {m}
    BY <2>5, <2>6 DEF IdsOf
  <2>8. \A y \in IdsOf(db) : y \in MachineIds => y \in DOMAIN db.machines
    BY TablesOf, IdsAreApart DEF IdsOf
  <2>9. Distinct(new)
    BY <2>7, <2>8, FreshIsDistinct
  <2>10. \A g \in DOMAIN new.groups : new.groups[g] \subseteq DOMAIN new.machines
    BY <2>5, <2>6 DEF GroupsAreMachines
  <2>11. spent' \subseteq AllIds /\ IdsOf(new) \subseteq spent' /\ follows' \subseteq DOMAIN new.remotes /\ file' \in Inventories
    BY <1>1, <1>6, <2>3, <2>5, <2>7
  <2>12. ASSUME ~disturbed PROVE Sound(new) /\ Agree(new, follows') /\ Knows(new, c)
    <3>1. Sound(db) /\ Agree(db, follows) /\ follows \subseteq DOMAIN db.machines
      BY <2>12, SoundIs DEF Undisturbed
    <3>2. Sound(new)
      BY <2>1, <2>5, <2>6, <2>10, <3>1, SoundIs
    <3>3. Agree(new, follows')
      BY <1>1, <2>5, <2>6, <3>1 DEF Agree
    <3>4. ScanKnows(new, c)
      BY <1>1, <1>2, <2>5, <2>6, <2>12 DEF ScanKnows, Followed, Found
    <3> QED BY <1>2, <3>2, <3>3, <3>4 DEF Knows, ProfileSteps
  <2> QED BY <1>1, <1>3, <2>2, <2>5, <2>9, <2>10, <2>11, <2>12, Change
<1> QED BY <1>5, <1>6 DEF AddHost

\* The end of a scan.
LEMMA ScanEnded ==
    ASSUME InventoryInv, NEW p \in Procs, EndScan(p)
    PROVE  InventoryInv'
<1>1. call' = [call EXCEPT ![p] = None] /\ NoWrite
  BY DEF EndScan, End
<1> QED BY <1>1, Look

-----------------------------------------------------------------------------
(* What is proved of every run.                                            *)

\* The inventory at the beginning.
LEMMA InitInventory == Init => InventoryInv
<1> SUFFICES ASSUME Init PROVE InventoryInv
  OBVIOUS
<1>1. db \in Inventories /\ file \in Inventories /\ Sound(db) /\ Distinct(db)
  BY StartAssumption DEF StartAssumption, Init
<1>2. spent = IdsOf(db) /\ IdsOf(db) \subseteq AllIds
  BY <1>1, TablesOf DEF Init
<1>3. call = [p \in Procs |-> call[p]] /\ \A p \in Procs : call[p] = None
  BY DEF Init
<1>4. GroupsAreMachines
  BY <1>1, SoundIs DEF GroupsAreMachines
<1>5. follows = {} /\ disturbed = FALSE
  BY DEF Init
<1> QED BY <1>1, <1>2, <1>3, <1>4, <1>5 DEF InventoryInv, InventoryTypeOK, Undisturbed, Agree

\* Every step of every call keeps the invariant.
LEMMA NextInventory ==
    ASSUME InventoryInv, [Next \/ \E p \in Procs : Scan(p)]_vars
    PROVE  InventoryInv'
<1>1. ASSUME NEW p \in Procs, Step(p)
      PROVE  InventoryInv'
  BY <1>1, RelayCreated, SitesCounted, RelayDeleted, SiteBegun, SiteCreated, SiteUpdated, MachinesCounted, SiteDeleted,
     MachineBegun, MachineCreated, MachineUpdated, MachineDeleted, RemoteBegun, PowerBegun, ProfileFound,
     RemoteWritten, PowerWritten, RemoteCleared, ExportBegun, TableRead, FileWritten, FileImported, Failed DEF Step
<1>2. ASSUME NEW p \in Procs, Scan(p)
      PROVE  InventoryInv'
  BY <1>2, ScanBegun, SiteChecked, AddressSynced, HostAdded, ScanEnded DEF Scan
<1>3. CASE UNCHANGED vars
  <2>1. /\ db' = db /\ file' = file /\ spent' = spent /\ call' = call /\ follows' = follows /\ disturbed' = disturbed
    BY <1>3 DEF vars
  <2>2. InventoryTypeOK'
    BY <2>1 DEF InventoryInv, InventoryTypeOK
  <2>3. Distinct(db)' /\ GroupsAreMachines'
    BY <2>1 DEF InventoryInv, GroupsAreMachines
  <2>4. Undisturbed'
    BY <2>1 DEF InventoryInv, Undisturbed
  <2> QED BY <2>2, <2>3, <2>4 DEF InventoryInv
<1> QED BY <1>1, <1>2, <1>3 DEF Next

\* The invariant holds of every run, with scans and without.
THEOREM Invariance == SharedSpec => []InventoryInv
<1>1. InventoryInv /\ [Next \/ \E p \in Procs : Scan(p)]_vars => InventoryInv'
  BY NextInventory
<1> QED BY <1>1, InitInventory, PTL DEF SharedSpec

\* As long as no call was overtaken by another's write, no reference dangles and
\* the remote profiles left to their machine's address have it; and however calls
\* interleave, the members of a group are machines there are (internal/store).
THEOREM UndisturbedCallsAreSound == SharedSpec => []UndisturbedIsSound
<1>1. InventoryInv => UndisturbedIsSound
  BY DEF InventoryInv, GroupsAreMachines, Undisturbed, Agree, UndisturbedIsSound
<1> QED BY <1>1, Invariance, PTL

\* Whatever file an export has left, an import of it into an inventory whose
\* references are sound leaves them sound (Import).
THEOREM ImportsKeepSound == SharedSpec => ImportKeepsSound
<1>1. InventoryInv => \A p \in Procs : Import(p) /\ Sound(db) => Sound(db')
  BY FileImported
<1> QED BY <1>1, Invariance, PTL DEF ImportKeepsSound

\* A scan that nothing overtook leaves every machine it may follow where it was
\* found, whatever happens to the others (SyncDeviceIPs).
THEOREM ScansCatchUp == SharedSpec => ScanCatchesUp
<1>1. ASSUME InventoryInv, NEW p \in Procs, EndScan(p), ~disturbed,
             NEW m \in DOMAIN call[p].seen, Cardinality(call[p].found[m]) = 1, call[p].seen[m].relay = None,
             call[p].seen[m].site # None =>
                db.sites[call[p].seen[m].site] = None /\ call[p].found[m] \subseteq Subnet[call[p].seen[m].site]
      PROVE  call[p].found[m] = {db.machines[m].ip}
  <2> DEFINE c == call[p]
  <2>1. c \in ScanCalls /\ Scanning(c) /\ ScanKnows(db, c) /\ c.todo = {} /\ c.next = None
    BY <1>1, ScanIs DEF EndScan
  <2>2. m # None
    <3>1. m \in DOMAIN db.machines /\ DOMAIN db.machines \subseteq MachineIds
      BY <1>1, <2>1, TablesOf DEF InventoryInv, InventoryTypeOK, ScanKnows
    <3> QED BY <3>1, IdsAreApart DEF AllIds
  <2>3. CASE m \in Moved(c.seen, c.found)
    <3>1. c.found[m] = {Found(c, m)}
      BY <2>1, <2>3, MovedIs
    <3>2. Followed(db, c, m)
      BY <1>1, <3>1 DEF Followed
    <3>3. db.machines[m].ip = Found(c, m)
      BY <2>1, <2>2, <2>3, <3>2 DEF ScanKnows
    <3> QED BY <3>1, <3>3
  <2>4. CASE m \notin Moved(c.seen, c.found)
    <3>1. c.found[m] = {c.seen[m].ip}
      BY <1>1, <2>4 DEF Moved
    <3>2. db.machines[m].ip = c.seen[m].ip
      BY <2>1, <2>4 DEF ScanKnows
    <3> QED BY <3>1, <3>2
  <2> QED BY <2>3, <2>4
<1>2. InventoryInv => \A p \in Procs : EndScan(p) /\ ~disturbed =>
        LET c == call[p] IN
        \A m \in DOMAIN c.seen :
            (/\ Cardinality(c.found[m]) = 1
             /\ c.seen[m].relay = None
             /\ c.seen[m].site # None => db.sites[c.seen[m].site] = None /\ c.found[m] \subseteq Subnet[c.seen[m].site])
                => c.found[m] = {db.machines[m].ip}
  BY <1>1
<1> QED BY <1>2, Invariance, PTL DEF ScanCatchesUp


-----------------------------------------------------------------------------
(* What an export is worth.                                                *)

\* A row as its name.
NameIn(x) == IF x \in AllIds THEN NameOf[x] ELSE x

\* The empty inventory is one.
LEMMA EmptyIs == Empty \in Inventories /\ IdsOf(Empty) = {}
<1>1. \A A, B : <<>> \in Partial(A, B)
  <2> TAKE A, B
  <2>1. DOMAIN <<>> = {} /\ <<>> = [x \in DOMAIN <<>> |-> <<>>[x]]
    OBVIOUS
  <2> QED BY <2>1, PartialIs
<1>2. /\ <<>> \in Partial(SiteIds, RelayIds \cup {None}) /\ <<>> \in Partial(MachineIds, MachineRows)
      /\ <<>> \in Partial(GroupIds, SUBSET MachineIds) /\ <<>> \in Partial(MachineIds, Addresses)
      /\ <<>> \in Partial(MachineIds, {None})
  BY <1>1
<1>3. Empty \in Inventories
  BY <1>2 DEF Empty, Inventories
<1>4. IdsOf(Empty) = {}
  BY DEF Empty, IdsOf
<1> QED BY <1>3, <1>4

\* Imported into an empty inventory, the rows of a file keep their names apart.
LEMMA RestoredRows ==
    ASSUME NEW d \in Inventories, Distinct(d)
    PROVE  /\ \A x \in IdsOf(d) : Rows(Empty, {}, x) # {}
           /\ \A x \in IdsOf(d) \cup {None} : NameIn(To(Empty, {}, x)) = NameIn(x)
           /\ \A x, y \in IdsOf(d) : To(Empty, {}, x) = To(Empty, {}, y) => x = y
<1>1. IdsOf(d) \subseteq AllIds
  BY TablesOf
<1>2. \A x \in IdsOf(d) : Rows(Empty, {}, x) # {}
  <2> TAKE x \in IdsOf(d)
  <2>1. {y \in IdsOf(Empty) : NameOf[y] = NameOf[x]} = {}
    BY EmptyIs
  <2>2. x \in Rows(Empty, {}, x)
    BY <1>1, <2>1 DEF Rows
  <2> QED BY <2>2
<1>3. \A x \in IdsOf(d) : To(Empty, {}, x) \in AllIds /\ NameOf[To(Empty, {}, x)] = NameOf[x]
  BY <1>1, <1>2, EmptyIs, ToIs
<1>4. To(Empty, {}, None) = None
  BY DEF To
<1> QED BY <1>1, <1>2, <1>3, <1>4 DEF Distinct, NameIn

\* An inventory whose references are sound, and whose relays are all relays there
\* are, is accepted by an import, which restores it in an empty inventory.
LEMMA ImportRestores ==
    ASSUME NEW d \in Inventories, Sound(d), Distinct(d), \A m \in DOMAIN d.machines : d.machines[m].relay # Typed
    PROVE  Accepts(d) /\ Named(Imported(Empty, {}, d)) = Named(d)
<1>1. /\ \A s \in DOMAIN d.sites : d.sites[s] \in d.relays \cup {None}
      /\ \A m \in DOMAIN d.machines :
          d.machines[m].site \in DOMAIN d.sites \cup {None} /\ d.machines[m].relay \in d.relays \cup {None}
      /\ \A g \in DOMAIN d.groups : d.groups[g] \subseteq DOMAIN d.machines
      /\ DOMAIN d.remotes \subseteq DOMAIN d.machines /\ DOMAIN d.powers \subseteq DOMAIN d.machines
  BY SoundIs
<1>2. Accepts(d)
  BY <1>1 DEF Accepts, ProfileTables
<1> DEFINE T(x) == To(Empty, {}, x)
           N(x) == NameIn(x)
           e == Imported(Empty, {}, d)
<1>3. /\ \A x \in IdsOf(d) \cup {None} : N(T(x)) = N(x)
      /\ \A x, y \in IdsOf(d) : T(x) = T(y) => x = y
      /\ T(None) = None
  BY RestoredRows DEF To
<1>4. /\ d.relays \subseteq IdsOf(d) /\ DOMAIN d.sites \subseteq IdsOf(d)
      /\ DOMAIN d.machines \subseteq IdsOf(d) /\ DOMAIN d.groups \subseteq IdsOf(d)
      /\ DOMAIN d.remotes \subseteq IdsOf(d) /\ DOMAIN d.powers \subseteq IdsOf(d)
  BY <1>1 DEF IdsOf
<1>5. None \notin DOMAIN d.sites
  BY TablesOf, IdsAreApart DEF AllIds
<1> HIDE DEF T, N, e
<1>6. /\ e.relays = {T(r) : r \in d.relays}
      /\ \A s \in DOMAIN e.sites : \E x \in DOMAIN d.sites : T(x) = s /\ e.sites[s] = T(d.sites[x])
      /\ \A m \in DOMAIN e.machines : \E x \in DOMAIN d.machines :
            /\ T(x) = m /\ e.machines[m].ip = d.machines[x].ip /\ e.machines[m].relay = T(d.machines[x].relay)
            /\ e.machines[m].site = T(d.machines[x].site)
      /\ \A g \in DOMAIN e.groups : \E x \in DOMAIN d.groups : T(x) = g /\ e.groups[g] = {T(m) : m \in d.groups[x]}
      /\ \A m \in DOMAIN e.remotes : \E x \in DOMAIN d.remotes : T(x) = m /\ e.remotes[m] = d.remotes[x]
      /\ \A m \in DOMAIN e.powers : \E x \in DOMAIN d.powers : T(x) = m
      /\ \A x \in DOMAIN d.sites : T(x) \in DOMAIN e.sites
      /\ \A x \in DOMAIN d.machines : T(x) \in DOMAIN e.machines
      /\ \A x \in DOMAIN d.groups : T(x) \in DOMAIN e.groups
      /\ \A x \in DOMAIN d.remotes : T(x) \in DOMAIN e.remotes
      /\ \A x \in DOMAIN d.powers : T(x) \in DOMAIN e.powers
  <2>1. /\ Empty.relays = {} /\ DOMAIN Empty.sites = {} /\ DOMAIN Empty.machines = {} /\ DOMAIN Empty.groups = {}
        /\ DOMAIN Empty.remotes = {} /\ DOMAIN Empty.powers = {}
    BY DEF Empty
  <2>2. e.relays = Empty.relays \cup {T(r) : r \in d.relays}
    BY <1>2, EmptyIs, RowsOfImport DEF T, e
  <2>3. \A s \in DOMAIN e.sites :
            \/ s \in DOMAIN Empty.sites
            \/ \E x \in DOMAIN d.sites : T(x) = s /\ e.sites[s] = T(d.sites[x])
    BY <1>2, EmptyIs, RowsOfImport DEF T, e
  <2>4. \A m \in DOMAIN e.machines :
            \/ m \in DOMAIN Empty.machines
            \/ \E x \in DOMAIN d.machines :
                  /\ T(x) = m /\ e.machines[m].ip = d.machines[x].ip /\ e.machines[m].relay = T(d.machines[x].relay)
                  /\ e.machines[m].site =
                        IF d.machines[x].site \in DOMAIN d.sites THEN T(d.machines[x].site) ELSE None
    BY <1>2, EmptyIs, RowsOfImport DEF T, e
  <2>5. \A g \in DOMAIN e.groups :
            \/ g \in DOMAIN Empty.groups
            \/ \E x \in DOMAIN d.groups : T(x) = g /\ e.groups[g] = {T(m) : m \in d.groups[x]}
    BY <1>2, EmptyIs, RowsOfImport DEF T, e
  <2>6. /\ \A m \in DOMAIN e.remotes :
              m \in DOMAIN Empty.remotes \/ \E x \in DOMAIN d.remotes : T(x) = m /\ e.remotes[m] = d.remotes[x]
        /\ \A m \in DOMAIN e.powers : m \in DOMAIN Empty.powers \/ \E x \in DOMAIN d.powers : T(x) = m
    BY <1>2, EmptyIs, RowsOfImport DEF T, e
  <2>7. /\ \A x \in DOMAIN d.sites : T(x) \in DOMAIN e.sites
        /\ \A x \in DOMAIN d.machines : T(x) \in DOMAIN e.machines
        /\ \A x \in DOMAIN d.groups : T(x) \in DOMAIN e.groups
        /\ \A x \in DOMAIN d.remotes : T(x) \in DOMAIN e.remotes
        /\ \A x \in DOMAIN d.powers : T(x) \in DOMAIN e.powers
    BY <1>2, EmptyIs, RowsOfImport DEF T, e
  <2>8. \A m \in DOMAIN e.machines : \E x \in DOMAIN d.machines :
            /\ T(x) = m /\ e.machines[m].ip = d.machines[x].ip /\ e.machines[m].relay = T(d.machines[x].relay)
            /\ e.machines[m].site = T(d.machines[x].site)
    BY <1>1, <1>3, <1>5, <2>1, <2>4
  <2> QED BY <2>1, <2>2, <2>3, <2>5, <2>6, <2>7, <2>8
<1> DEFINE relays(f) == {N(r) : r \in f.relays}
           sites(f) == {<<N(s), N(f.sites[s])>> : s \in DOMAIN f.sites}
           machines(f) ==
               {<<N(m), N(f.machines[m].site), N(f.machines[m].relay), f.machines[m].ip>> : m \in DOMAIN f.machines}
           members(f, g) == {N(m) : m \in f.groups[g]}
           groups(f) == {<<N(g), members(f, g)>> : g \in DOMAIN f.groups}
           remotes(f) == {<<N(m), f.remotes[m]>> : m \in DOMAIN f.remotes}
           powers(f) == {N(m) : m \in DOMAIN f.powers}
<1>7. relays(e) = relays(d)
  BY <1>3, <1>4, <1>6
<1>8. sites(e) = sites(d)
  <2>1. \A x \in DOMAIN d.sites : e.sites[T(x)] = T(d.sites[x]) /\ N(T(x)) = N(x) /\ N(T(d.sites[x])) = N(d.sites[x])
    BY <1>1, <1>3, <1>4, <1>6
  <2>2. \A s \in DOMAIN e.sites : \E x \in DOMAIN d.sites : T(x) = s
    BY <1>6
  <2> QED BY <1>6, <2>1, <2>2
<1>9. machines(e) = machines(d)
  <2>1. \A x \in DOMAIN d.machines :
            /\ N(T(x)) = N(x) /\ N(e.machines[T(x)].site) = N(d.machines[x].site)
            /\ N(e.machines[T(x)].relay) = N(d.machines[x].relay) /\ e.machines[T(x)].ip = d.machines[x].ip
    BY <1>1, <1>3, <1>4, <1>6
  <2>2. \A m \in DOMAIN e.machines : \E x \in DOMAIN d.machines : T(x) = m
    BY <1>6
  <2> QED BY <1>6, <2>1, <2>2
<1>10. groups(e) = groups(d)
  <2>1. \A x \in DOMAIN d.groups : N(T(x)) = N(x) /\ e.groups[T(x)] = {T(m) : m \in d.groups[x]}
    BY <1>3, <1>4, <1>6
  <2>2. \A x \in DOMAIN d.groups : members(e, T(x)) = members(d, x)
    BY <1>1, <1>3, <1>4, <2>1
  <2>3. \A m \in DOMAIN e.groups : \E x \in DOMAIN d.groups : T(x) = m
    BY <1>6
  <2> HIDE DEF members
  <2> QED BY <1>6, <2>1, <2>2, <2>3
<1>11. remotes(e) = remotes(d)
  <2>1. \A x \in DOMAIN d.remotes : N(T(x)) = N(x) /\ e.remotes[T(x)] = d.remotes[x]
    BY <1>3, <1>4, <1>6
  <2>2. \A m \in DOMAIN e.remotes : \E x \in DOMAIN d.remotes : T(x) = m
    BY <1>6
  <2> QED BY <1>6, <2>1, <2>2
<1>12. powers(e) = powers(d)
  BY <1>3, <1>4, <1>6
<1>13. \A f : Named(f) = [relays |-> relays(f), sites |-> sites(f), machines |-> machines(f),
                           groups |-> groups(f), remotes |-> remotes(f), powers |-> powers(f)]
  BY DEF Named, N, NameIn
<1>14. Named(e) = Named(d)
  <2> HIDE DEF relays, sites, machines, groups, remotes, powers
  <2> QED BY <1>7, <1>8, <1>9, <1>10, <1>11, <1>12, <1>13
<1> QED BY <1>2, <1>14 DEF e

\* An export that nothing overtook can be imported, and into an empty inventory
\* gives the inventory exported, unless a machine names a relay there is not
\* (runExport, Import).
THEOREM ExportsRestore == SharedSpec => ExportRestores
<1>1. ASSUME InventoryInv, NEW p \in Procs, WriteFile(p), ~disturbed,
             \A m \in DOMAIN db.machines : db.machines[m].relay # Typed
      PROVE  Accepts(file') /\ Named(Imported(Empty, {}, file')) = Named(db)
  <2>1. file' = db
    BY <1>1, FileWritten
  <2>2. db \in Inventories /\ Sound(db) /\ Distinct(db)
    BY <1>1 DEF InventoryInv, InventoryTypeOK, Undisturbed
  <2> QED BY <1>1, <2>1, <2>2, ImportRestores
<1>2. InventoryInv => \A p \in Procs :
        (/\ WriteFile(p) /\ ~disturbed
         /\ \A m \in DOMAIN db.machines : db.machines[m].relay # Typed)
            => Accepts(file') /\ Named(Imported(Empty, {}, file')) = Named(db)
  BY <1>1
<1> QED BY <1>2, Invariance, PTL DEF ExportRestores

=============================================================================

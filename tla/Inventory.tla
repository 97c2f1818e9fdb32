------------------------------ MODULE Inventory ------------------------------
(***************************************************************************)
(* The inventory of internal/store: sites, relays, machines, groups and    *)
(* profiles in one SQLite file that several processes open at once.        *)
(*                                                                         *)
(* SQLite makes a statement, or a transaction, one step. It enforces no    *)
(* reference: foreign keys are declared and never switched on, so what a   *)
(* row refers to is the code's business, and the code looks in one         *)
(* statement and writes in another. A call in progress is what it has      *)
(* read so far; the others run between its steps.                          *)
(*                                                                         *)
(* An id is used once (newID); NameOf is the unique name its row would     *)
(* have (for a machine, its name and MAC), by which an import finds a row. *)
(***************************************************************************)
EXTENDS Integers, Sequences, FiniteSets

CONSTANTS
    RelayIds, SiteIds, MachineIds, GroupIds,  \* the ids newID may hand out
    NameOf,      \* NameOf[id]: the table and the unique name of the row with that id
    Addresses,   \* IPv4 addresses
    Typed,       \* a relay typed into the machine form that names none
    Procs,       \* processes, and commands of the Wake Desk, that run at once
    Doing,       \* the kinds of calls they make
    MaxCalls,    \* bound on the calls begun
    Start,       \* the inventory at the beginning, also in the first file
    None

Tables == <<"sites", "machines", "groups", "relays", "remotes", "powers">>
ProfileTables == {"remotes", "powers"}
AllIds == RelayIds \cup SiteIds \cup MachineIds \cup GroupIds
\* What the tables may hold; a reference need not name a row.
Partial(A, B) == UNION {[S -> B] : S \in SUBSET A}
MachineRows == [site : SiteIds \cup {None}, relay : RelayIds \cup {None, Typed}, ip : Addresses]
Inventories ==
    [relays : SUBSET RelayIds, sites : Partial(SiteIds, RelayIds \cup {None}),
     machines : Partial(MachineIds, MachineRows), groups : Partial(GroupIds, SUBSET MachineIds),
     remotes : Partial(MachineIds, Addresses), powers : Partial(MachineIds, {None})]

IdsOf(d) == d.relays \cup DOMAIN d.sites \cup DOMAIN d.machines \cup DOMAIN d.groups

VARIABLES
    db,        \* the tables: each a function of the ids of its rows
    spent,     \* the ids handed out
    file,      \* the file last exported
    call,      \* call[p]: what the call of p has read, and where it is; or None
    begun,     \* calls begun so far
    follows,   \* history: machines whose remote profile was left to their own address
    disturbed  \* history: a call was overtaken by another's write

vars == <<db, spent, file, call, begun, follows, disturbed>>

Init ==
    /\ db = Start
    /\ spent = IdsOf(Start)
    /\ file = Start
    /\ call = [p \in Procs |-> None]
    /\ begun = 0
    /\ follows = {}
    /\ disturbed = FALSE

-----------------------------------------------------------------------------
(* What the calls are made of.                                             *)

\* A row written into a table, or taken out of it.
Put(f, x, row) == [y \in DOMAIN f \cup {x} |-> IF y = x THEN row ELSE f[y]]
Without(f, x) == [y \in DOMAIN f \ {x} |-> f[y]]

Begin(p, kind, c) ==
    /\ kind \in Doing /\ begun < MaxCalls
    /\ call[p] = None
    /\ begun' = begun + 1
    /\ call' = [call EXCEPT ![p] = c]

\* A call of one statement.
BeginAndEnd(p, kind) == Begin(p, kind, None)

At(p, step) == call[p] # None /\ call[p].step = step
End(p) == call' = [call EXCEPT ![p] = None] /\ UNCHANGED begun

\* p changes the tables; whoever is between two steps has been overtaken.
Write(p, new) ==
    /\ db' = new
    /\ disturbed' = (disturbed \/ (new # db /\ \E q \in Procs \ {p} : call[q] # None))

NoWrite == UNCHANGED <<db, spent, file, follows, disturbed>>

\* Ids an INSERT may use: new ones whose unique name no row has.
Fresh(pool, live) ==
    {x \in pool \ spent : \A y \in live : NameOf[y] # NameOf[x]}

-----------------------------------------------------------------------------
(* Relays and sites.                                                       *)

CreateWakeRelay(p) ==
    /\ BeginAndEnd(p, "relay")
    /\ \E r \in Fresh(RelayIds, db.relays) :
        /\ Write(p, [db EXCEPT !.relays = @ \cup {r}])
        /\ spent' = spent \cup {r}
    /\ UNCHANGED <<file, follows>>

\* DeleteWakeRelay refuses while a site uses the relay; it counts first.
CountSites(p) ==
    /\ \E r \in db.relays :
        /\ \A s \in DOMAIN db.sites : db.sites[s] # r
        /\ Begin(p, "relay", [step |-> "deleteRelay", id |-> r])
    /\ NoWrite

DeleteWakeRelay(p) ==
    /\ At(p, "deleteRelay")
    /\ LET r == call[p].id IN
        /\ r \in db.relays
        /\ Write(p, [db EXCEPT !.relays = @ \ {r},
                !.machines = [m \in DOMAIN @ |-> IF @[m].relay = r THEN [@[m] EXCEPT !.relay = None] ELSE @[m]]])
    /\ End(p)
    /\ UNCHANGED <<spent, file, follows>>

\* The site form takes its relay from the list of relays the desk has loaded.
BeginSite(p) ==
    /\ \E s \in DOMAIN db.sites \cup {None}, r \in db.relays \cup {None} :
        Begin(p, "site", [step |-> "saveSite", id |-> s, relay |-> r])
    /\ NoWrite

CreateSite(p) ==
    /\ At(p, "saveSite") /\ call[p].id = None
    /\ \E s \in Fresh(SiteIds, DOMAIN db.sites) :
        /\ Write(p, [db EXCEPT !.sites = Put(@, s, call[p].relay)])
        /\ spent' = spent \cup {s}
    /\ End(p)
    /\ UNCHANGED <<file, follows>>

UpdateSite(p) ==
    /\ At(p, "saveSite") /\ call[p].id \in DOMAIN db.sites
    /\ Write(p, [db EXCEPT !.sites[call[p].id] = call[p].relay])
    /\ End(p)
    /\ UNCHANGED <<spent, file, follows>>

\* DeleteSite refuses while a machine is assigned to the site; it counts first.
CountMachines(p) ==
    /\ \E s \in DOMAIN db.sites :
        /\ \A m \in DOMAIN db.machines : db.machines[m].site # s
        /\ Begin(p, "site", [step |-> "deleteSite", id |-> s])
    /\ NoWrite

DeleteSite(p) ==
    /\ At(p, "deleteSite")
    /\ LET s == call[p].id IN
        /\ s \in DOMAIN db.sites
        /\ Write(p, [db EXCEPT !.sites = Without(@, s),
                !.machines = [m \in DOMAIN @ |-> IF @[m].site = s THEN [@[m] EXCEPT !.site = None] ELSE @[m]]])
    /\ End(p)
    /\ UNCHANGED <<spent, file, follows>>

-----------------------------------------------------------------------------
(* Machines and their profiles.                                            *)

\* The machine form: the site is one of those loaded, the relay one of those
\* loaded or any text, and every field is written when it is saved.
BeginMachine(p) ==
    /\ \E m \in DOMAIN db.machines \cup {None}, s \in DOMAIN db.sites \cup {None},
          r \in db.relays \cup {None, Typed}, a \in Addresses :
        Begin(p, "machine", [step |-> "saveMachine", id |-> m,
                             row |-> [site |-> s, relay |-> r, ip |-> a]])
    /\ NoWrite

CreateDevice(p) ==
    /\ At(p, "saveMachine") /\ call[p].id = None
    /\ \E m \in Fresh(MachineIds, DOMAIN db.machines) :
        /\ Write(p, [db EXCEPT !.machines = Put(@, m, call[p].row)])
        /\ spent' = spent \cup {m}
    /\ End(p)
    /\ UNCHANGED <<file, follows>>

\* An edited address leaves the remote profile where it was.
UpdateDevice(p) ==
    /\ At(p, "saveMachine") /\ call[p].id \in DOMAIN db.machines
    /\ LET m == call[p].id IN
        /\ Write(p, [db EXCEPT !.machines[m] = call[p].row])
        /\ follows' = IF db.machines[m].ip = call[p].row.ip THEN follows ELSE follows \ {m}
    /\ End(p)
    /\ UNCHANGED <<spent, file>>

DeleteDevice(p) ==
    /\ BeginAndEnd(p, "machine")
    /\ \E m \in DOMAIN db.machines :
        /\ Write(p, [db EXCEPT !.machines = Without(@, m),
                !.groups = [g \in DOMAIN @ |-> @[g] \ {m}],
                !.remotes = Without(@, m), !.powers = Without(@, m)])
        /\ follows' = follows \ {m}
    /\ UNCHANGED <<spent, file>>

\* UpsertRemoteProfile and UpsertPowerProfile: find the machine, whose address
\* is the host of a remote profile that names none; find the profile; write.
BeginRemoteProfile(p) ==
    /\ \E m \in DOMAIN db.machines, h \in Addresses \cup {None} :
        Begin(p, "remotes", [step |-> "findProfile", id |-> m, table |-> "remotes", own |-> h = None,
                             host |-> IF h = None THEN db.machines[m].ip ELSE h])
    /\ NoWrite

BeginPowerProfile(p) ==
    /\ \E m \in DOMAIN db.machines :
        Begin(p, "powers", [step |-> "findProfile", id |-> m, table |-> "powers"])
    /\ NoWrite

FindProfile(p) ==
    /\ At(p, "findProfile")
    /\ LET known == call[p].id \in DOMAIN db[call[p].table] IN
        call' = [call EXCEPT ![p].step = IF known THEN "updateProfile" ELSE "insertProfile"]
    /\ UNCHANGED begun
    /\ NoWrite

\* An INSERT meets the unique index if another has inserted in between, an
\* UPDATE no row if another has deleted: both are errors (Fail).
Writable(p, table) ==
    /\ call[p] # None /\ call[p].step \in {"insertProfile", "updateProfile"} /\ call[p].table = table
    /\ call[p].step = "updateProfile" <=> call[p].id \in DOMAIN db[table]

WriteRemoteProfile(p) ==
    /\ Writable(p, "remotes")
    /\ LET c == call[p] IN
        /\ Write(p, [db EXCEPT !.remotes = Put(@, c.id, c.host)])
        /\ follows' = IF c.own THEN follows \cup {c.id} ELSE follows \ {c.id}
    /\ End(p)
    /\ UNCHANGED <<spent, file>>

WritePowerProfile(p) ==
    /\ Writable(p, "powers")
    /\ Write(p, [db EXCEPT !.powers = Put(@, call[p].id, None)])
    /\ End(p)
    /\ UNCHANGED <<spent, file, follows>>

\* wol remote clear; nothing in the program deletes a power profile.
DeleteRemoteProfile(p) ==
    /\ BeginAndEnd(p, "remotes")
    /\ \E m \in DOMAIN db.remotes :
        /\ Write(p, [db EXCEPT !.remotes = Without(@, m)])
        /\ follows' = follows \ {m}
    /\ UNCHANGED <<spent, file>>

-----------------------------------------------------------------------------
(* Export and import.                                                      *)

BeginExport(p) ==
    /\ Begin(p, "file", [step |-> "export", read |-> <<>>])
    /\ NoWrite

\* Variant: an export without the last table.
ReadTableButLast(p) ==
    /\ At(p, "export") /\ Len(call[p].read) < Len(Tables)
    /\ LET t == Tables[Len(call[p].read) + 1] IN
        call' = [call EXCEPT ![p].read = Append(@, IF t = "powers" THEN <<>> ELSE db[t])]
    /\ UNCHANGED begun
    /\ NoWrite

\* Each table is read by a statement of its own.
ReadTable(p) ==
    /\ At(p, "export") /\ Len(call[p].read) < Len(Tables)
    /\ call' = [call EXCEPT ![p].read = Append(@, db[Tables[Len(@) + 1]])]
    /\ UNCHANGED begun
    /\ NoWrite

WriteFile(p) ==
    /\ At(p, "export") /\ Len(call[p].read) = Len(Tables)
    /\ file' = [t \in {Tables[i] : i \in DOMAIN Tables} |->
                    call[p].read[CHOOSE i \in DOMAIN Tables : Tables[i] = t]]
    /\ End(p)
    /\ UNCHANGED <<db, spent, follows, disturbed>>

\* Variant: the relays of machines are not looked at.
AcceptsAnyRoute(f) ==
    /\ \A s \in DOMAIN f.sites : f.sites[s] \in f.relays \cup {None}
    /\ \A g \in DOMAIN f.groups : f.groups[g] \subseteq DOMAIN f.machines
    /\ \A t \in ProfileTables : DOMAIN f[t] \subseteq DOMAIN f.machines

\* The references Import insists on; an unknown site is dropped instead.
Accepts(f) ==
    /\ \A s \in DOMAIN f.sites : f.sites[s] \in f.relays \cup {None}
    /\ \A m \in DOMAIN f.machines : f.machines[m].relay \in f.relays \cup {None}
    /\ \A g \in DOMAIN f.groups : f.groups[g] \subseteq DOMAIN f.machines
    /\ \A t \in ProfileTables : DOMAIN f[t] \subseteq DOMAIN f.machines

\* The row of d that row x of a file becomes: the one with its name, or a new one.
Rows(d, used, x) ==
    LET live == {y \in IdsOf(d) : NameOf[y] = NameOf[x]}
    IN  IF live # {} THEN live ELSE {y \in AllIds \ used : NameOf[y] = NameOf[x]}

To(d, used, x) == IF x = None THEN None ELSE CHOOSE y \in Rows(d, used, x) : TRUE

\* The rows of new written over, or beside, those of old.
Onto(d, used, old, new) ==
    LET over == {To(d, used, x) : x \in DOMAIN new}
    IN  [y \in DOMAIN old \cup over |->
            IF y \in over THEN new[CHOOSE x \in DOMAIN new : To(d, used, x) = y] ELSE old[y]]

UpsertRelays(d, used, f) == d.relays \cup {To(d, used, r) : r \in f.relays}
UpsertSites(d, used, f) == Onto(d, used, d.sites, [s \in DOMAIN f.sites |-> To(d, used, f.sites[s])])
UpsertMachines(d, used, f) ==
    Onto(d, used, d.machines,
         [m \in DOMAIN f.machines |->
             [f.machines[m] EXCEPT !.relay = To(d, used, @),
                                   !.site = IF @ \in DOMAIN f.sites THEN To(d, used, @) ELSE None]])
UpsertGroups(d, used, f) ==
    Onto(d, used, d.groups, [g \in DOMAIN f.groups |-> {To(d, used, m) : m \in f.groups[g]}])
UpsertRemotes(d, used, f) == Onto(d, used, d.remotes, f.remotes)
UpsertPowers(d, used, f) == Onto(d, used, d.powers, f.powers)

\* What the tables are after importing f, an accepted file, into d.
Imported(d, used, f) ==
    [relays |-> UpsertRelays(d, used, f), sites |-> UpsertSites(d, used, f),
     machines |-> UpsertMachines(d, used, f), groups |-> UpsertGroups(d, used, f),
     remotes |-> UpsertRemotes(d, used, f), powers |-> UpsertPowers(d, used, f)]

\* One transaction: all of the file or, if any row is refused, none of it.
Import(p) ==
    /\ BeginAndEnd(p, "file")
    /\ Accepts(file)
    /\ \A x \in IdsOf(file) : Rows(db, spent, x) # {}
    /\ Write(p, Imported(db, spent, file))
    /\ spent' = spent \cup IdsOf(db')
    /\ follows' = {m \in follows \cap DOMAIN db'.remotes \cap DOMAIN db'.machines :
                      db'.remotes[m] = db'.machines[m].ip}
    /\ UNCHANGED file

\* A statement fails: the transaction it is part of is rolled back and what
\* earlier statements did stays.
Fail(p) ==
    /\ call[p] # None
    /\ End(p)
    /\ NoWrite

-----------------------------------------------------------------------------
Step(p) ==
    \/ CreateWakeRelay(p) \/ CountSites(p) \/ DeleteWakeRelay(p)
    \/ BeginSite(p) \/ CreateSite(p) \/ UpdateSite(p)
    \/ CountMachines(p) \/ DeleteSite(p)
    \/ BeginMachine(p) \/ CreateDevice(p) \/ UpdateDevice(p) \/ DeleteDevice(p)
    \/ BeginRemoteProfile(p) \/ BeginPowerProfile(p) \/ FindProfile(p)
    \/ WriteRemoteProfile(p) \/ WritePowerProfile(p) \/ DeleteRemoteProfile(p)
    \/ BeginExport(p) \/ ReadTable(p) \/ WriteFile(p) \/ Import(p)
    \/ Fail(p)

Next == \E p \in Procs : Step(p)

Spec == Init /\ [][Next]_vars

-----------------------------------------------------------------------------
(* Properties.                                                             *)

\* Every reference of d names a row; the relay of a machine may be a text.
Sound(d) ==
    /\ \A s \in DOMAIN d.sites : d.sites[s] \in d.relays \cup {None}
    /\ \A m \in DOMAIN d.machines :
        /\ d.machines[m].site \in DOMAIN d.sites \cup {None}
        /\ d.machines[m].relay \in d.relays \cup {None, Typed}
    /\ \A g \in DOMAIN d.groups : d.groups[g] \subseteq DOMAIN d.machines
    /\ \A t \in ProfileTables : DOMAIN d[t] \subseteq DOMAIN d.machines

\* Unique indexes: no two rows of a table have the same name.
Distinct(d) == \A x, y \in IdsOf(d) : NameOf[x] = NameOf[y] => x = y

\* An id is one of a table (newID writes the table into it) and so is a name.
ASSUME NamesAssumption ==
    /\ \A x \in RelayIds, y \in SiteIds : NameOf[x] # NameOf[y]
    /\ \A x \in RelayIds \cup SiteIds, y \in MachineIds : NameOf[x] # NameOf[y]
    /\ \A x \in RelayIds \cup SiteIds \cup MachineIds, y \in GroupIds : NameOf[x] # NameOf[y]

ASSUME ValuesAssumption == None # Typed /\ {None, Typed} \cap AllIds = {}

\* The inventory at the beginning is empty, or one of which that can be said.
ASSUME StartAssumption == Start \in Inventories /\ Sound(Start) /\ Distinct(Start)

\* As long as no call was overtaken by another's write, no reference dangles,
\* and the remote profiles left to their machine's address have it. However the
\* calls interleave, the members of a group are machines there are.
UndisturbedIsSound ==
    /\ ~disturbed => Sound(db) /\ \A m \in follows : db.remotes[m] = db.machines[m].ip
    /\ \A g \in DOMAIN db.groups : db.groups[g] \subseteq DOMAIN db.machines

\* An inventory as the names of its rows, which is what a user has of it.
Named(d) ==
    LET N(x) == IF x \in AllIds THEN NameOf[x] ELSE x IN
    [relays   |-> {N(r) : r \in d.relays},
     sites    |-> {<<N(s), N(d.sites[s])>> : s \in DOMAIN d.sites},
     machines |-> {<<N(m), N(d.machines[m].site), N(d.machines[m].relay), d.machines[m].ip>> : m \in DOMAIN d.machines},
     groups   |-> {<<N(g), {N(m) : m \in d.groups[g]}>> : g \in DOMAIN d.groups},
     remotes  |-> {<<N(m), d.remotes[m]>> : m \in DOMAIN d.remotes},
     powers   |-> {N(m) : m \in DOMAIN d.powers}]

Empty == [relays |-> {}, sites |-> <<>>, machines |-> <<>>, groups |-> <<>>, remotes |-> <<>>, powers |-> <<>>]

\* An export that nothing overtook can be imported, and imported into an empty
\* inventory it is the inventory exported (Export, Import), unless a machine
\* names a relay there is not, which the machine form lets pass.
ExportRestores ==
    [][\A p \in Procs :
        (/\ WriteFile(p) /\ ~disturbed
         /\ \A m \in DOMAIN db.machines : db.machines[m].relay # Typed)
            => Accepts(file') /\ Named(Imported(Empty, {}, file')) = Named(db)]_vars

\* Whatever the file, an import into a sound inventory leaves it sound
\* (Import: the file may come from an export that others overtook).
ImportKeepsSound ==
    [][\A p \in Procs : Import(p) /\ Sound(db) => Sound(db')]_vars

\* What is in use is not deleted: no site that has machines, no relay that a
\* site uses (DeleteSite and DeleteWakeRelay, which ask the user to reassign first).
InUseStays ==
    [][/\ \A m \in DOMAIN db.machines \cap DOMAIN db'.machines :
            db.machines[m].site \in DOMAIN db.sites => db.machines[m].site \in DOMAIN db'.sites
       /\ \A s \in DOMAIN db.sites \cap DOMAIN db'.sites :
            db.sites[s] \in db.relays => db.sites[s] \in db'.relays]_vars
=============================================================================

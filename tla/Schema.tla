--------------------------------- MODULE Schema ---------------------------------
(***************************************************************************)
(* store.Open on a database of an earlier release: columns are added, the  *)
(* hosted URLs of machines are erased and the remote profiles are copied   *)
(* to a new table, by several processes that open it at once, each of      *)
(* which may fail or crash between two statements. A statement, or the     *)
(* transaction that copies the profiles, is one step.                      *)
(***************************************************************************)
EXTENDS Naturals, FiniteSets

CONSTANTS
    Openers,   \* processes that open the database
    Devices,
    Apps,      \* what a user may set in a profile since
    None

\* The columns that matter here: those of a remote profile that an upgrade adds,
\* and those of earlier releases.
Added == {"domain_hint", "certificate_policy", "app_name"}
Legacy == {"name", "domain"}
Current == Added \cup {"mode"}

VARIABLES
    columns,   \* of remote_profiles
    rows,      \* of remote_profiles: [device, row, domain, app]
    urls,      \* "stored" or "erased" while devices has a remote_url, "dropped"
    opening,   \* opening[o]: the step of a process
    seen,      \* seen[o]: the columns it has read
    first,     \* history: the rows there were at first
    saved,     \* history: saved[d], the app last set for d, or None
    raced      \* history: machines set while another process was upgrading

schemaVars == <<columns, rows, urls, opening, seen, first, saved, raced>>
history == <<first, saved, raced>>

Newest(rs, d) == {r \in rs : r.device = d /\ \A q \in rs : q.device = d => q.row <= r.row}

\* A database of this release, or an earlier one, with the domain of a profile in
\* one column or the other; where profiles have names a machine may have several.
SchemaInit ==
    /\ \E old \in BOOLEAN, legacy \in SUBSET Legacy, added \in SUBSET Added, mode \in SUBSET {"mode"} :
        /\ columns = IF old THEN legacy \cup added \cup mode ELSE Current
        /\ rows \in SUBSET [device : Devices, row : 1 .. 2, domain : {"example"}, app : {None}]
        /\ "name" \notin columns => \A d \in Devices : Cardinality({r \in rows : r.device = d}) <= 1
        /\ old => "domain" \in legacy \/ "domain_hint" \in added
        /\ urls \in IF old THEN {"stored", "dropped"} ELSE {"dropped"}
    /\ opening = [o \in Openers |-> "idle"]
    /\ seen = [o \in Openers |-> {}]
    /\ first = rows
    /\ saved = [d \in Devices |-> None]
    /\ raced = {}

Step(o, s) == opening' = [opening EXCEPT ![o] = s]

\* CREATE TABLE IF NOT EXISTS: nothing, here.
Open(o) ==
    /\ opening[o] = "idle"
    /\ Step(o, "columns")
    /\ UNCHANGED <<columns, rows, urls, seen, history>>

\* ensureColumn, its two statements: it is read and then added, and adding one
\* that another process has added meanwhile is an error.
ReadColumns(o) ==
    /\ opening[o] = "columns"
    /\ seen' = [seen EXCEPT ![o] = columns]
    /\ Step(o, IF Added \subseteq columns THEN "urls" ELSE "add")
    /\ UNCHANGED <<columns, rows, urls, history>>

AddColumn(o) ==
    /\ opening[o] = "add"
    /\ \E c \in Added \ seen[o] :
        IF c \in columns THEN Step(o, "failed") /\ UNCHANGED columns
        ELSE Step(o, "columns") /\ columns' = columns \cup {c}
    /\ UNCHANGED <<rows, urls, seen, history>>

\* dropLegacyRemoteURL.
FindUrls(o) ==
    /\ opening[o] = "urls"
    /\ Step(o, IF urls = "dropped" THEN "look" ELSE "erase")
    /\ UNCHANGED <<columns, rows, urls, seen, history>>

EraseUrls(o) ==
    /\ opening[o] = "erase"
    /\ IF urls = "dropped" THEN Step(o, "failed") /\ UNCHANGED urls ELSE Step(o, "drop") /\ urls' = "erased"
    /\ UNCHANGED <<columns, rows, seen, history>>

DropUrls(o) ==
    /\ opening[o] = "drop"
    /\ IF urls = "dropped" THEN Step(o, "failed") /\ UNCHANGED urls ELSE Step(o, "look") /\ urls' = "dropped"
    /\ UNCHANGED <<columns, rows, seen, history>>

\* migrateRemoteProfiles: it looks at the columns, and then copies.
UpToDate(cols) == Current \subseteq cols /\ cols \cap Legacy = {}

Look(o) ==
    /\ opening[o] = "look"
    /\ seen' = [seen EXCEPT ![o] = columns]
    /\ Step(o, IF UpToDate(columns) THEN "open" ELSE "copy")
    /\ UNCHANGED <<columns, rows, urls, history>>

\* Variant: every profile is copied to the table, where the device is unique.
CopyFirst(o) ==
    /\ opening[o] = "copy"
    /\ columns' = Current
    /\ rows' = {[r EXCEPT !.app = None] : r \in {s \in rows : \A q \in rows : q.device = s.device => q.row >= s.row}}
    /\ Step(o, "open")
    /\ UNCHANGED <<urls, seen, history>>

\* The newest profile of each machine, its domain from the column that was seen;
\* the rest of a profile is as new. Without that column the copy is an error.
Copy(o) ==
    /\ opening[o] = "copy"
    /\ LET source == IF "domain" \in seen[o] THEN "domain" ELSE "domain_hint" IN
        IF source \notin columns THEN Step(o, "failed") /\ UNCHANGED <<columns, rows>>
        ELSE /\ columns' = Current
             /\ rows' = {[r EXCEPT !.app = None] : r \in UNION {Newest(rows, d) : d \in Devices}}
             /\ Step(o, "open")
    /\ UNCHANGED <<urls, seen, history>>

\* A statement fails, the database is busy for too long, or the process crashes;
\* it may try again.
Fail(o) ==
    /\ opening[o] \notin {"idle", "open", "failed"}
    /\ Step(o, "failed")
    /\ UNCHANGED <<columns, rows, urls, seen, history>>

Again(o) ==
    /\ opening[o] = "failed"
    /\ Step(o, "idle")
    /\ seen' = [seen EXCEPT ![o] = {}]
    /\ UNCHANGED <<columns, rows, urls, history>>

\* A user of an open database sets the app of a profile.
Save(o, d) ==
    /\ opening[o] = "open"
    /\ \E r \in rows, a \in Apps :
        /\ r.device = d
        /\ rows' = (rows \ {r}) \cup {[r EXCEPT !.app = a]}
        /\ saved' = [saved EXCEPT ![d] = a]
    /\ raced' = IF \E p \in Openers : opening[p] = "copy" THEN raced \cup {d} ELSE raced \ {d}
    /\ UNCHANGED <<columns, urls, opening, seen, first>>

SchemaNext ==
    \E o \in Openers :
        \/ Open(o) \/ ReadColumns(o) \/ AddColumn(o) \/ FindUrls(o) \/ EraseUrls(o) \/ DropUrls(o)
        \/ Look(o) \/ Copy(o) \/ Fail(o) \/ Again(o)
        \/ \E d \in Devices : Save(o, d)

-----------------------------------------------------------------------------
\* An upgrade loses nothing ("Keep upgrades additive so an existing wol.db can be
\* opened without a reset"), wherever it is cut and whoever upgrades at the same
\* time: a machine that had a profile has the newest one, with its domain; a
\* database that is open is of this release, and its URLs are gone; and a setting
\* saved stays, unless another process had looked at the columns but not copied
\* when it was saved.
UpgradeLosesNothing ==
    /\ \A d \in Devices :
        /\ {[r EXCEPT !.app = None] : r \in Newest(rows, d)} = Newest(first, d)
        /\ d \notin raced /\ saved[d] # None => \A r \in rows : r.device = d => r.app = saved[d]
    /\ \A o \in Openers :
        /\ opening[o] = "open" => UpToDate(columns) /\ urls = "dropped"
                                  /\ \A d \in Devices : {r \in rows : r.device = d} = Newest(rows, d)
        /\ opening[o] = "drop" => urls # "stored"
=============================================================================

---------------------------- MODULE LocalSession ----------------------------
(***************************************************************************)
(* The sessions of internal/localremote and what they have in Docker: a    *)
(* private network and two containers each, made one command after the     *)
(* other, and removed by the session or, when its process is gone, by the  *)
(* next session of any process that starts.                                *)
(*                                                                         *)
(* A command of Docker is one step. One that fails may have acted all the  *)
(* same: it is cut when its context ends, and Docker goes on.              *)
(***************************************************************************)
EXTENDS Naturals, Sequences, FiniteSets

CONSTANTS
    Pids,       \* process ids; another process may be given the id of one that ended
    Sessions,   \* the random names of sessions, each used once
    Old,        \* those of a process that crashed before
    OldPid,     \* its id
    MaxCrashes, \* bound on the processes that end with their sessions up
    None

ASSUME OldAssumption == Old \subseteq Sessions /\ OldPid \in Pids

Containers == {"guacd", "guacamole"}
Creating == <<"network", "guacd", "guacamole">>
Removing == <<"guacamole", "guacd", "network">>
Starting == {"listContainers", "reapContainers", "listNetworks", "reapNetworks",
             "network", "guacd", "guacamole", "port", "listen"}

\* None is not the resource of a session.
ASSUME NoneAssumption == None \notin Sessions \X (Containers \cup {"network"})

VARIABLES
    alive,    \* the process ids in use
    phase,    \* phase[s]: the step session s is at
    owner,    \* owner[s]: the process id its resources are labelled with
    started,  \* started[s]: the resources it knows it has made
    todo,     \* todo[s]: orphans it has still to look at, or resources still to remove
    victim,   \* victim[s]: the orphan it is about to remove
    asked,    \* asked[s]: why it should end, to its watcher or while it is starting
    failed,   \* failed[s]: Start or Close has an error to return
    docker,   \* what exists: <<s, kind>>
    faulty,   \* history: a command of s failed, or was cut by the end of its context
    orphans,  \* history: orphans[s], what s found orphaned when it began, and is since
    crashes

vars == <<alive, phase, owner, started, todo, victim, asked, failed, docker, faulty, orphans, crashes>>
docks == <<docker, faulty>>
fixed == <<alive, owner, orphans, crashes>>

Init ==
    /\ alive = Pids \ {OldPid}
    /\ phase = [s \in Sessions |-> IF s \in Old THEN "lost" ELSE "new"]
    /\ owner = [s \in Sessions |-> IF s \in Old THEN OldPid ELSE None]
    /\ started = [s \in Sessions |-> {}]
    /\ todo = [s \in Sessions |-> {}]
    /\ victim = [s \in Sessions |-> None]
    /\ asked = [s \in Sessions |-> None]
    /\ failed = [s \in Sessions |-> FALSE]
    /\ \E n \in 0 .. 3 : docker = Old \X {Creating[i] : i \in 1 .. n}
    /\ faulty = [s \in Sessions |-> FALSE]
    /\ orphans = [s \in Sessions |-> {}]
    /\ crashes = 0

Orphaned(x) == owner[x[1]] \notin alive
Goto(s, p) == phase' = [phase EXCEPT ![s] = p]

\* A command of s that ends well, and one that fails: with its effect or without.
Succeeds(after) == docker' = after /\ UNCHANGED faulty
Fails(s, after) == docker' \in {docker, after} /\ faulty' = [faulty EXCEPT ![s] = TRUE]

\* docker network rm refuses while a container is attached.
InUse(x) == x[2] = "network" /\ \E k \in Containers : <<x[1], k>> \in docker

\* Start gives up and removes what it has made (docker.close, context of its own);
\* the end of its own context has no more to say.
GiveUp(s) ==
    /\ Goto(s, "close")
    /\ todo' = [todo EXCEPT ![s] = started[s]]
    /\ failed' = [failed EXCEPT ![s] = TRUE]
    /\ asked' = [asked EXCEPT ![s] = None]

-----------------------------------------------------------------------------
(* Starting: orphans first.                                                *)

Begin(s) ==
    /\ phase[s] = "new"
    /\ \E p \in alive : owner' = [owner EXCEPT ![s] = p]
    /\ Goto(s, "listContainers")
    /\ orphans' = [orphans EXCEPT ![s] = {x \in docker : Orphaned(x)}]
    /\ UNCHANGED <<alive, started, todo, victim, asked, failed, docks, crashes>>

List(s) ==
    /\ phase[s] \in {"listContainers", "listNetworks"}
    /\ \/ /\ LET kinds == IF phase[s] = "listContainers" THEN Containers ELSE {"network"} IN
             todo' = [todo EXCEPT ![s] = {x \in docker : x[2] \in kinds}]
          /\ Goto(s, IF phase[s] = "listContainers" THEN "reapContainers" ELSE "reapNetworks")
          /\ UNCHANGED <<docks, failed, asked>>
       \/ Fails(s, docker) /\ GiveUp(s)
    /\ UNCHANGED <<fixed, started, victim>>

Reaping(s) == phase[s] \in {"reapContainers", "reapNetworks"}

\* Variant: the first one that lives ends the search.
InspectUntilAlive(s) ==
    /\ Reaping(s) /\ victim[s] = None
    /\ \E x \in todo[s] :
        /\ todo' = [todo EXCEPT ![s] = IF x \in docker /\ Orphaned(x) THEN @ \ {x} ELSE {}]
        /\ victim' = [victim EXCEPT ![s] = IF x \in docker /\ Orphaned(x) THEN x ELSE None]
    /\ UNCHANGED <<fixed, asked, phase, started, failed, docks>>

\* Variant: whatever has the label is an orphan.
InspectLabel(s) ==
    /\ Reaping(s) /\ victim[s] = None
    /\ \E x \in todo[s] :
        /\ todo' = [todo EXCEPT ![s] = @ \ {x}]
        /\ victim' = [victim EXCEPT ![s] = IF x \in docker THEN x ELSE None]
    /\ UNCHANGED <<fixed, asked, phase, started, failed, docks>>

\* docker inspect and processAlive: what cannot be inspected is passed over.
Inspect(s) ==
    /\ Reaping(s) /\ victim[s] = None
    /\ \E x \in todo[s] :
        /\ todo' = [todo EXCEPT ![s] = @ \ {x}]
        /\ \/ /\ victim' = [victim EXCEPT ![s] = IF x \in docker /\ Orphaned(x) THEN x ELSE None]
              /\ UNCHANGED faulty
           \/ Fails(s, docker) /\ UNCHANGED victim
    /\ UNCHANGED <<fixed, asked, phase, started, failed, docker>>

\* docker rm and docker network rm. A container another session has removed may
\* be an error to Docker, and ends the start; a network that is not found is not.
Reap(s) ==
    /\ Reaping(s) /\ victim[s] # None
    /\ LET x == victim[s] IN
        \/ ~InUse(x) /\ Succeeds(docker \ {x}) /\ UNCHANGED <<phase, todo, failed, asked>>
        \/ InUse(x) /\ UNCHANGED docks /\ GiveUp(s)
        \/ x \notin docker /\ x[2] \in Containers /\ UNCHANGED docks /\ GiveUp(s)
        \/ ~InUse(x) /\ Fails(s, docker \ {x}) /\ GiveUp(s)
    /\ victim' = [victim EXCEPT ![s] = None]
    /\ UNCHANGED <<fixed, started>>

Reaped(s) ==
    /\ Reaping(s) /\ victim[s] = None /\ todo[s] = {}
    /\ Goto(s, IF phase[s] = "reapContainers" THEN "listNetworks" ELSE "network")
    /\ UNCHANGED <<fixed, asked, started, todo, victim, failed, docks>>

-----------------------------------------------------------------------------
(* Starting: the network, the containers, the port, the listener.          *)

After(k) == CASE k = "network" -> "guacd" [] k = "guacd" -> "guacamole" [] k = "guacamole" -> "port"

Create(s) ==
    /\ phase[s] \in {"network", "guacd", "guacamole"}
    /\ LET k == phase[s] IN
        \/ /\ Succeeds(docker \cup {<<s, k>>})
           /\ started' = [started EXCEPT ![s] = @ \cup {k}]
           /\ Goto(s, After(k))
           /\ UNCHANGED <<todo, failed, asked>>
        \/ Fails(s, docker \cup {<<s, k>>}) /\ GiveUp(s) /\ UNCHANGED started
    /\ orphans' = [orphans EXCEPT ![s] = {}]
    /\ UNCHANGED <<alive, owner, crashes, victim>>

DiscoverPort(s) ==
    /\ phase[s] = "port"
    /\ \/ Goto(s, "listen") /\ UNCHANGED <<docks, todo, failed, asked>>
       \/ Fails(s, docker) /\ GiveUp(s)
    /\ UNCHANGED <<fixed, started, victim>>

\* The loopback listener, the tokens and the server.
Listen(s) ==
    /\ phase[s] = "listen"
    /\ \/ Goto(s, "up") /\ UNCHANGED <<todo, failed, asked>>
       \/ GiveUp(s)
    /\ UNCHANGED <<fixed, started, victim, docks>>

-----------------------------------------------------------------------------
(* Ending.                                                                 *)

\* Why a session should end: its context is done, which cuts the command of a
\* session that is starting; the user disconnects in the browser; the server stops.
Ask(s, why) ==
    /\ asked[s] = None
    /\ phase[s] = "up" \/ (phase[s] \in Starting /\ why = "context")
    /\ asked' = [asked EXCEPT ![s] = why]
    /\ UNCHANGED <<fixed, phase, started, todo, victim, failed, docks>>

\* Session.Close, once; nobody waits for the goroutine that watches any more.
Close(s) ==
    /\ phase[s] = "up"
    /\ Goto(s, "shutdown")
    /\ asked' = [asked EXCEPT ![s] = None]
    /\ UNCHANGED <<fixed, started, todo, victim, failed, docks>>

\* Variant: it waits for the context and the server.
WatchWithoutBrowser(s) == asked[s] \notin {None, "disconnect"} /\ Close(s)

\* The goroutine of Start that waits for one of the three.
Watch(s) == asked[s] # None /\ Close(s)

\* The manager closes it, or Start, when the browser cannot be opened.
CloseByOwner(s) == Close(s)

\* server.Shutdown has fifteen seconds for the requests in progress.
Shutdown(s) ==
    /\ phase[s] = "shutdown"
    /\ Goto(s, "close")
    /\ todo' = [todo EXCEPT ![s] = started[s]]
    /\ \E late \in BOOLEAN : failed' = [failed EXCEPT ![s] = late]
    /\ UNCHANGED <<fixed, asked, started, victim, docks>>

Next1(s) == LET i == CHOOSE i \in 1 .. 3 : Removing[i] \in todo[s] /\ \A j \in 1 .. i - 1 : Removing[j] \notin todo[s]
            IN  Removing[i]

\* Variant: the containers have what is left of the server's fifteen seconds.
RemoveInTime(s) ==
    /\ phase[s] = "close" /\ todo[s] # {}
    /\ LET x == <<s, Next1(s)>> IN
        /\ todo' = [todo EXCEPT ![s] = @ \ {x[2]}]
        /\ IF failed[s] THEN UNCHANGED docks ELSE Succeeds(docker \ {x})
    /\ UNCHANGED <<fixed, asked, phase, started, victim, failed>>

\* docker.close: each resource in turn, whatever became of the one before.
Remove(s) ==
    /\ phase[s] = "close" /\ todo[s] # {}
    /\ LET x == <<s, Next1(s)>> IN
        /\ todo' = [todo EXCEPT ![s] = @ \ {x[2]}]
        /\ \/ ~InUse(x) /\ Succeeds(docker \ {x}) /\ UNCHANGED failed
           \/ InUse(x) /\ UNCHANGED docks /\ failed' = [failed EXCEPT ![s] = TRUE]
           \/ ~InUse(x) /\ Fails(s, docker \ {x}) /\ failed' = [failed EXCEPT ![s] = TRUE]
    /\ UNCHANGED <<fixed, asked, phase, started, victim>>

Over(s) ==
    /\ phase[s] = "close" /\ todo[s] = {}
    /\ Goto(s, "over")
    /\ started' = [started EXCEPT ![s] = {}]
    /\ orphans' = [orphans EXCEPT ![s] = {}]
    /\ UNCHANGED <<alive, owner, crashes, asked, todo, victim, failed, docks>>

\* A process ends without closing its sessions; what it asked of Docker last
\* may still be done.
Crash(p) ==
    /\ crashes < MaxCrashes /\ p \in alive
    /\ LET mine == {s \in Sessions : owner[s] = p /\ phase[s] \notin {"over", "lost"}} IN
        /\ mine # {}
        /\ \E late \in SUBSET {s \in mine : phase[s] \in {"network", "guacd", "guacamole"}} :
            docker' = docker \cup {<<s, phase[s]>> : s \in late}
        /\ LET Lost(f, end) == [s \in Sessions |-> IF s \in mine THEN end ELSE f[s]] IN
            /\ phase' = Lost(phase, "lost")
            /\ asked' = Lost(asked, None) /\ victim' = Lost(victim, None)
            /\ todo' = Lost(todo, {}) /\ started' = Lost(started, {}) /\ orphans' = Lost(orphans, {})
            /\ failed' = Lost(failed, FALSE) /\ faulty' = Lost(faulty, FALSE)
    /\ alive' = alive \ {p}
    /\ crashes' = crashes + 1
    /\ UNCHANGED owner

\* The operating system gives the id to another process.
Reuse(p) ==
    /\ p \notin alive
    /\ alive' = alive \cup {p}
    /\ orphans' = [s \in Sessions |-> {x \in orphans[s] : owner[x[1]] # p}]
    /\ UNCHANGED <<phase, owner, started, todo, victim, asked, failed, docks, crashes>>

-----------------------------------------------------------------------------
Work(s) ==
    \/ List(s) \/ Inspect(s) \/ Reap(s) \/ Reaped(s)
    \/ Create(s) \/ DiscoverPort(s) \/ Listen(s)
    \/ Watch(s) \/ Shutdown(s) \/ Remove(s) \/ Over(s)

Next ==
    \/ \E s \in Sessions :
        \/ Begin(s) \/ Work(s) \/ CloseByOwner(s)
        \/ \E why \in {"context", "disconnect", "served"} : Ask(s, why)
    \/ \E p \in Pids : Crash(p) \/ Reuse(p)

(***************************************************************************)
(* The commands of Start have the context of wol remote open or of the      *)
(* manager, which has no deadline: if Docker does not answer they end only  *)
(* when that context does. Closing has fifteen seconds for the server and   *)
(* fifteen for the containers.                                             *)
(***************************************************************************)
Bounded(s) == phase[s] \in Starting => asked[s] = "context"

Spec == Init /\ [][Next]_vars /\ \A s \in Sessions \ Old : WF_vars(Bounded(s) /\ Work(s))

-----------------------------------------------------------------------------
\* Whatever sessions of other processes reap, a session that is starting or up
\* has all it has made (cleanupOrphans: "left untouched").
LiveSessionsAreUntouched ==
    \A s \in Sessions :
        phase[s] \notin {"close", "over", "lost"} => {<<s, k>> : k \in started[s]} \subseteq docker

\* A session that is over, after a Start that failed at any step or a Close, has
\* left nothing, however late its requests ended, unless a command failed or was
\* cut; and then Start or Close says so (Start, its closeFn, docker.close).
NothingLeftBehind ==
    \A s \in Sessions :
        phase[s] = "over" /\ (\E x \in docker : x[1] = s) => faulty[s] /\ failed[s]

\* A start that comes to its own network has removed all that dead processes
\* had when it began, but for what Docker failed to show.
OrphansAreReaped ==
    \A s \in Sessions :
        (phase[s] = "network" /\ ~faulty[s]) =>
            orphans[s] \cap docker = {}

\* Even if Docker has stopped answering, a session whose context ends at any step
\* of its start, that is asked to end, or that has begun to close comes to its end,
\* unless its process does before. (A start that nobody cuts may wait for Docker.)
SessionsEnd ==
    \A s \in Sessions \ Old :
        /\ asked[s] # None ~> phase[s] \in {"over", "lost"}
        /\ phase[s] \in {"shutdown", "close"} ~> phase[s] \in {"over", "lost"}
=============================================================================

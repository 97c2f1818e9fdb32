----------------------------- MODULE SessionProofs -----------------------------
(* Theorems about local sessions for any number of sessions, processes and *)
(* crashes.                                                                *)
EXTENDS LocalSession, TLAPS

Kinds == Containers \cup {"network"}

Phases == Starting \cup {"new", "up", "shutdown", "close", "over", "lost"}

-----------------------------------------------------------------------------
(* The inductive invariant.                                                *)

SessionTypeOK ==
    /\ alive \subseteq Pids
    /\ phase \in [Sessions -> Phases]
    /\ owner \in [Sessions -> Pids \cup {None}]
    /\ started \in [Sessions -> SUBSET Kinds]
    /\ todo \in [Sessions -> SUBSET (Kinds \cup (Sessions \X Kinds))]
    /\ victim \in [Sessions -> {None} \cup (Sessions \X Kinds)]
    /\ failed \in [Sessions -> BOOLEAN]
    /\ faulty \in [Sessions -> BOOLEAN]
    /\ docker \subseteq Sessions \X Kinds

\* A session that has begun and is not over belongs to a process that runs.
OwnersLive == \A s \in Sessions : phase[s] \notin {"new", "over", "lost"} => owner[s] \in alive

\* What is about to be removed as an orphan is so for ever: the process id may be
\* given to another process, but its session is over or lost.
VictimsAreDead ==
    \A s \in Sessions : victim[s] # None => phase[victim[s][1]] \in {"over", "lost"}

\* What exists of a session is known to it until it has been asked to be removed;
\* what is left then is the work of a command that failed.
Known(s, k) ==
    \/ phase[s] = "lost"
    \/ phase[s] = "close" /\ k \in todo[s]
    \/ phase[s] \in {"close", "over"} /\ faulty[s] /\ failed[s]
    \/ phase[s] \notin {"new", "close", "over", "lost"} /\ k \in started[s]

Accounted == \A s \in Sessions, k \in Kinds : <<s, k>> \in docker => Known(s, k)

NothingYet == \A s \in Sessions : phase[s] = "new" => started[s] = {}

Remaining == \A s \in Sessions : phase[s] = "close" => todo[s] \subseteq Kinds

SessionInv ==
    /\ SessionTypeOK /\ OwnersLive /\ VictimsAreDead /\ Accounted /\ NothingYet /\ Remaining
    /\ LiveSessionsAreUntouched

\* The network is removed last.
LEMMA NetworkIsLast ==
    ASSUME NEW s \in Sessions, todo[s] \subseteq Kinds, todo[s] # {}
    PROVE  /\ Next1(s) \in todo[s]
           /\ Next1(s) = "network" => todo[s] = {"network"}
<1> DEFINE First(i) == Removing[i] \in todo[s] /\ \A j \in 1 .. i - 1 : Removing[j] \notin todo[s]
<1>1. Removing[1] = "guacamole" /\ Removing[2] = "guacd" /\ Removing[3] = "network"
  BY DEF Removing
<1>2. \E i \in 1 .. 3 : First(i)
  <2>1. CASE "guacamole" \in todo[s]
    BY <1>1, <2>1
  <2>2. CASE "guacamole" \notin todo[s] /\ "guacd" \in todo[s]
    <3>1. First(2)
      BY <1>1, <2>2
    <3> QED BY <3>1
  <2>3. CASE "guacamole" \notin todo[s] /\ "guacd" \notin todo[s]
    <3>1. "network" \in todo[s]
      BY <2>3 DEF Kinds, Containers
    <3>2. First(3)
      BY <1>1, <2>3, <3>1
    <3> QED BY <3>2
  <2> QED BY <2>1, <2>2, <2>3
<1>3. PICK i \in 1 .. 3 : i = (CHOOSE j \in 1 .. 3 : First(j)) /\ First(i)
  BY <1>2
<1>4. Next1(s) = Removing[i]
  BY <1>3 DEF Next1
<1>5. Next1(s) = "network" => i = 3
  <2>1. i \in {1, 2, 3}
    BY <1>3
  <2> QED BY <1>1, <1>4, <2>1
<1>6. Next1(s) = "network" => "guacamole" \notin todo[s] /\ "guacd" \notin todo[s]
  <2> SUFFICES ASSUME i = 3 PROVE Removing[1] \notin todo[s] /\ Removing[2] \notin todo[s]
    BY <1>1, <1>5
  <2>1. 1 \in 1 .. i - 1 /\ 2 \in 1 .. i - 1
    OBVIOUS
  <2> QED BY <1>3, <2>1
<1> QED BY <1>3, <1>4, <1>6 DEF Kinds, Containers

\* At first there is what a dead process left.
LEMMA InitInv == Init => SessionInv
BY OldAssumption DEF OldAssumption, Init, SessionInv, SessionTypeOK, OwnersLive, VictimsAreDead, Accounted,
   Known, NothingYet, Remaining, LiveSessionsAreUntouched, Phases, Starting, Kinds, Containers, Creating

-----------------------------------------------------------------------------
(* One lemma for each action.                                              *)

\* The session gets a process that runs.
LEMMA BeginInv ==
    ASSUME SessionInv, NEW s \in Sessions, Begin(s)
    PROVE  SessionInv'
<1> USE DEF SessionInv, Begin, Goto, docks
<1>1. SessionTypeOK'
  BY DEF SessionTypeOK, Phases, Starting, Kinds, Containers
<1>2. OwnersLive'
  BY DEF OwnersLive, SessionTypeOK, Starting
<1>3. VictimsAreDead'
  BY DEF VictimsAreDead, SessionTypeOK, OwnersLive, Accounted, Known, Orphaned
<1>4. Accounted'
  BY DEF Accounted, Known, SessionTypeOK, Kinds, Containers, NothingYet, Remaining
<1>5. NothingYet'
  BY DEF NothingYet, SessionTypeOK
<1>6. Remaining'
  BY DEF Remaining, SessionTypeOK
<1>7. LiveSessionsAreUntouched'
  BY DEF LiveSessionsAreUntouched, SessionTypeOK, VictimsAreDead, NothingYet
<1> QED BY <1>1, <1>2, <1>3, <1>4, <1>5, <1>6, <1>7

\* Nothing is removed yet.
LEMMA ListInv ==
    ASSUME SessionInv, NEW s \in Sessions, List(s)
    PROVE  SessionInv'
<1> USE DEF SessionInv, List, Fails, GiveUp, Goto, fixed, docks
<1>1. SessionTypeOK'
  <2> USE DEF SessionTypeOK
  <2>1. alive' \subseteq Pids /\ owner' \in [Sessions -> Pids \cup {None}]
    OBVIOUS
  <2>2. phase' \in [Sessions -> Phases]
    BY DEF Phases, Starting
  <2>3. started' \in [Sessions -> SUBSET Kinds]
    OBVIOUS
  <2>4. todo' \in [Sessions -> SUBSET (Kinds \cup (Sessions \X Kinds))]
    OBVIOUS
  <2>5. victim' \in [Sessions -> {None} \cup (Sessions \X Kinds)]
    OBVIOUS
  <2>6. failed' \in [Sessions -> BOOLEAN] /\ faulty' \in [Sessions -> BOOLEAN]
    OBVIOUS
  <2>7. docker' \subseteq Sessions \X Kinds
    OBVIOUS
  <2> QED BY <2>1, <2>2, <2>3, <2>4, <2>5, <2>6, <2>7
<1>2. OwnersLive'
  BY DEF OwnersLive, SessionTypeOK, Starting
<1>3. VictimsAreDead'
  BY DEF VictimsAreDead, SessionTypeOK, OwnersLive, Accounted, Known, Orphaned
<1>4. Accounted'
  <2> SUFFICES ASSUME NEW r \in Sessions, NEW k \in Kinds, <<r, k>> \in docker' PROVE Known(r, k)'
    BY DEF Accounted
  <2>1. CASE r # s
    <3>1. phase'[r] = phase[r] /\ todo'[r] = todo[r] /\ started'[r] = started[r]
      BY <2>1 DEF SessionTypeOK
    <3>2. failed'[r] = failed[r] /\ faulty'[r] = faulty[r]
      BY <2>1 DEF SessionTypeOK
    <3>3. <<r, k>> \in docker
      BY <2>1
    <3> QED BY <3>1, <3>2, <3>3 DEF Accounted, Known
  <2>2. CASE r = s
    <3>1. <<s, k>> \in docker
      BY <2>2
    <3>2. k \in started[s]
      BY <2>2, <3>1 DEF Accounted, Known
    <3> QED BY <2>2, <3>2 DEF Known, SessionTypeOK
  <2> QED BY <2>1, <2>2
<1>5. NothingYet'
  BY DEF NothingYet, SessionTypeOK
<1>6. Remaining'
  BY DEF Remaining, SessionTypeOK
<1>7. LiveSessionsAreUntouched'
  BY DEF LiveSessionsAreUntouched, SessionTypeOK, VictimsAreDead, NothingYet
<1> QED BY <1>1, <1>2, <1>3, <1>4, <1>5, <1>6, <1>7

\* A resource of a process that does not run is of a session over or lost.
LEMMA InspectInv ==
    ASSUME SessionInv, NEW s \in Sessions, Inspect(s)
    PROVE  SessionInv'
<1> USE DEF SessionInv, Inspect, Reaping, Fails, fixed, docks
<1>1. SessionTypeOK'
  <2> USE DEF SessionTypeOK
  <2>1. alive' \subseteq Pids /\ owner' \in [Sessions -> Pids \cup {None}]
    OBVIOUS
  <2>2. phase' \in [Sessions -> Phases]
    BY DEF Phases, Starting
  <2>3. started' \in [Sessions -> SUBSET Kinds]
    OBVIOUS
  <2>4. todo' \in [Sessions -> SUBSET (Kinds \cup (Sessions \X Kinds))]
    OBVIOUS
  <2>5. victim' \in [Sessions -> {None} \cup (Sessions \X Kinds)]
    OBVIOUS
  <2>6. failed' \in [Sessions -> BOOLEAN] /\ faulty' \in [Sessions -> BOOLEAN]
    OBVIOUS
  <2>7. docker' \subseteq Sessions \X Kinds
    OBVIOUS
  <2> QED BY <2>1, <2>2, <2>3, <2>4, <2>5, <2>6, <2>7
<1>2. OwnersLive'
  BY DEF OwnersLive, SessionTypeOK, Starting
<1>3. VictimsAreDead'
  BY DEF VictimsAreDead, SessionTypeOK, OwnersLive, Accounted, Known, Orphaned
<1>4. Accounted'
  BY DEF Accounted, Known, SessionTypeOK, Kinds, Containers, NothingYet, Remaining
<1>5. NothingYet'
  BY DEF NothingYet, SessionTypeOK
<1>6. Remaining'
  BY DEF Remaining, SessionTypeOK
<1>7. LiveSessionsAreUntouched'
  BY DEF LiveSessionsAreUntouched, SessionTypeOK, VictimsAreDead, NothingYet
<1> QED BY <1>1, <1>2, <1>3, <1>4, <1>5, <1>6, <1>7

\* What is removed is nobody's.
LEMMA ReapInv ==
    ASSUME SessionInv, NEW s \in Sessions, Reap(s)
    PROVE  SessionInv'
<1> USE DEF SessionInv, Reap, Reaping, Fails, Succeeds, InUse, GiveUp, Goto, fixed, docks
<1>1. SessionTypeOK'
  <2> USE DEF SessionTypeOK
  <2>1. alive' \subseteq Pids /\ owner' \in [Sessions -> Pids \cup {None}]
    OBVIOUS
  <2>2. phase' \in [Sessions -> Phases]
    BY DEF Phases, Starting
  <2>3. started' \in [Sessions -> SUBSET Kinds]
    OBVIOUS
  <2>4. todo' \in [Sessions -> SUBSET (Kinds \cup (Sessions \X Kinds))]
    OBVIOUS
  <2>5. victim' \in [Sessions -> {None} \cup (Sessions \X Kinds)]
    OBVIOUS
  <2>6. failed' \in [Sessions -> BOOLEAN] /\ faulty' \in [Sessions -> BOOLEAN]
    OBVIOUS
  <2>7. docker' \subseteq Sessions \X Kinds
    OBVIOUS
  <2> QED BY <2>1, <2>2, <2>3, <2>4, <2>5, <2>6, <2>7
<1>2. OwnersLive'
  BY DEF OwnersLive, SessionTypeOK, Starting
<1>3. VictimsAreDead'
  BY DEF VictimsAreDead, SessionTypeOK, OwnersLive, Accounted, Known, Orphaned
<1>4. Accounted'
  <2> SUFFICES ASSUME NEW r \in Sessions, NEW k \in Kinds, <<r, k>> \in docker' PROVE Known(r, k)'
    BY DEF Accounted
  <2>1. CASE r # s
    <3>1. phase'[r] = phase[r] /\ todo'[r] = todo[r] /\ started'[r] = started[r]
      BY <2>1 DEF SessionTypeOK
    <3>2. failed'[r] = failed[r] /\ faulty'[r] = faulty[r]
      BY <2>1 DEF SessionTypeOK
    <3>3. <<r, k>> \in docker
      BY <2>1
    <3> QED BY <3>1, <3>2, <3>3 DEF Accounted, Known
  <2>2. CASE r = s
    <3>1. <<s, k>> \in docker
      BY <2>2
    <3>2. k \in started[s]
      BY <2>2, <3>1 DEF Accounted, Known
    <3> QED BY <2>2, <3>2 DEF Known, SessionTypeOK
  <2> QED BY <2>1, <2>2
<1>5. NothingYet'
  BY DEF NothingYet, SessionTypeOK
<1>6. Remaining'
  BY DEF Remaining, SessionTypeOK
<1>7. LiveSessionsAreUntouched'
  BY DEF LiveSessionsAreUntouched, SessionTypeOK, VictimsAreDead, NothingYet
<1> QED BY <1>1, <1>2, <1>3, <1>4, <1>5, <1>6, <1>7

\* The orphans are done with.
LEMMA ReapedInv ==
    ASSUME SessionInv, NEW s \in Sessions, Reaped(s)
    PROVE  SessionInv'
<1> USE DEF SessionInv, Reaped, Reaping, Goto, fixed, docks
<1>1. SessionTypeOK'
  BY DEF SessionTypeOK, Phases, Starting, Kinds, Containers
<1>2. OwnersLive'
  BY DEF OwnersLive, SessionTypeOK, Starting
<1>3. VictimsAreDead'
  BY DEF VictimsAreDead, SessionTypeOK, OwnersLive, Accounted, Known, Orphaned
<1>4. Accounted'
  BY DEF Accounted, Known, SessionTypeOK, Kinds, Containers, NothingYet, Remaining
<1>5. NothingYet'
  BY DEF NothingYet, SessionTypeOK
<1>6. Remaining'
  BY DEF Remaining, SessionTypeOK
<1>7. LiveSessionsAreUntouched'
  BY DEF LiveSessionsAreUntouched, SessionTypeOK, VictimsAreDead, NothingYet
<1> QED BY <1>1, <1>2, <1>3, <1>4, <1>5, <1>6, <1>7

\* What exists is known, unless the command failed.
LEMMA CreateInv ==
    ASSUME SessionInv, NEW s \in Sessions, Create(s)
    PROVE  SessionInv'
<1> USE DEF SessionInv, Create, Fails, Succeeds, GiveUp, After, Goto, fixed, docks
<1>1. SessionTypeOK'
  <2> USE DEF SessionTypeOK
  <2>1. alive' \subseteq Pids /\ owner' \in [Sessions -> Pids \cup {None}]
    OBVIOUS
  <2>2. phase' \in [Sessions -> Phases]
    BY DEF Phases, Starting
  <2>3. started' \in [Sessions -> SUBSET Kinds]
    BY DEF Kinds, Containers
  <2>4. todo' \in [Sessions -> SUBSET (Kinds \cup (Sessions \X Kinds))]
    OBVIOUS
  <2>5. victim' \in [Sessions -> {None} \cup (Sessions \X Kinds)]
    OBVIOUS
  <2>6. failed' \in [Sessions -> BOOLEAN] /\ faulty' \in [Sessions -> BOOLEAN]
    OBVIOUS
  <2>7. docker' \subseteq Sessions \X Kinds
    BY DEF Kinds, Containers
  <2> QED BY <2>1, <2>2, <2>3, <2>4, <2>5, <2>6, <2>7
<1>2. OwnersLive'
  BY DEF OwnersLive, SessionTypeOK, Starting
<1>3. VictimsAreDead'
  BY DEF VictimsAreDead, SessionTypeOK, OwnersLive, Accounted, Known, Orphaned
<1>4. Accounted'
  <2> SUFFICES ASSUME NEW r \in Sessions, NEW k \in Kinds, <<r, k>> \in docker' PROVE Known(r, k)'
    BY DEF Accounted
  <2>1. CASE r # s
    <3>1. phase'[r] = phase[r] /\ todo'[r] = todo[r] /\ started'[r] = started[r]
      BY <2>1 DEF SessionTypeOK
    <3>2. failed'[r] = failed[r] /\ faulty'[r] = faulty[r]
      BY <2>1 DEF SessionTypeOK
    <3>3. <<r, k>> \in docker
      BY <2>1
    <3> QED BY <3>1, <3>2, <3>3 DEF Accounted, Known
  <2>2. CASE r = s
    <3>1. phase[s] \in Kinds
      BY DEF Kinds, Containers
    <3>2. k # phase[s] => k \in started[s]
      BY <2>2 DEF Accounted, Known, SessionTypeOK
    <3>3. CASE docker' = docker \cup {<<s, phase[s]>>} /\ started' = [started EXCEPT ![s] = @ \cup {phase[s]}]
               /\ phase' = [phase EXCEPT ![s] = After(phase[s])]
      <4>1. phase'[s] \notin {"new", "close", "over", "lost"}
        BY <3>3 DEF SessionTypeOK
      <4>2. k \in started'[s]
        BY <3>2, <3>3 DEF SessionTypeOK
      <4> QED BY <2>2, <4>1, <4>2 DEF Known
    <3>4. CASE phase' = [phase EXCEPT ![s] = "close"] /\ faulty' = [faulty EXCEPT ![s] = TRUE]
               /\ failed' = [failed EXCEPT ![s] = TRUE]
      BY <2>2, <3>4 DEF Known, SessionTypeOK
    <3> QED BY <3>3, <3>4
  <2> QED BY <2>1, <2>2
<1>5. NothingYet'
  BY DEF NothingYet, SessionTypeOK
<1>6. Remaining'
  BY DEF Remaining, SessionTypeOK
<1>7. LiveSessionsAreUntouched'
  BY DEF LiveSessionsAreUntouched, SessionTypeOK, VictimsAreDead, NothingYet
<1> QED BY <1>1, <1>2, <1>3, <1>4, <1>5, <1>6, <1>7

\* A failed command that makes nothing.
LEMMA DiscoverPortInv ==
    ASSUME SessionInv, NEW s \in Sessions, DiscoverPort(s)
    PROVE  SessionInv'
<1> USE DEF SessionInv, DiscoverPort, Fails, GiveUp, Goto, fixed, docks
<1>1. SessionTypeOK'
  <2> USE DEF SessionTypeOK
  <2>1. alive' \subseteq Pids /\ owner' \in [Sessions -> Pids \cup {None}]
    OBVIOUS
  <2>2. phase' \in [Sessions -> Phases]
    BY DEF Phases, Starting
  <2>3. started' \in [Sessions -> SUBSET Kinds]
    OBVIOUS
  <2>4. todo' \in [Sessions -> SUBSET (Kinds \cup (Sessions \X Kinds))]
    OBVIOUS
  <2>5. victim' \in [Sessions -> {None} \cup (Sessions \X Kinds)]
    OBVIOUS
  <2>6. failed' \in [Sessions -> BOOLEAN] /\ faulty' \in [Sessions -> BOOLEAN]
    OBVIOUS
  <2>7. docker' \subseteq Sessions \X Kinds
    OBVIOUS
  <2> QED BY <2>1, <2>2, <2>3, <2>4, <2>5, <2>6, <2>7
<1>2. OwnersLive'
  BY DEF OwnersLive, SessionTypeOK, Starting
<1>3. VictimsAreDead'
  BY DEF VictimsAreDead, SessionTypeOK, OwnersLive, Accounted, Known, Orphaned
<1>4. Accounted'
  <2> SUFFICES ASSUME NEW r \in Sessions, NEW k \in Kinds, <<r, k>> \in docker' PROVE Known(r, k)'
    BY DEF Accounted
  <2>1. CASE r # s
    <3>1. phase'[r] = phase[r] /\ todo'[r] = todo[r] /\ started'[r] = started[r]
      BY <2>1 DEF SessionTypeOK
    <3>2. failed'[r] = failed[r] /\ faulty'[r] = faulty[r]
      BY <2>1 DEF SessionTypeOK
    <3>3. <<r, k>> \in docker
      BY <2>1
    <3> QED BY <3>1, <3>2, <3>3 DEF Accounted, Known
  <2>2. CASE r = s
    <3>1. <<s, k>> \in docker
      BY <2>2
    <3>2. k \in started[s]
      BY <2>2, <3>1 DEF Accounted, Known
    <3> QED BY <2>2, <3>2 DEF Known, SessionTypeOK
  <2> QED BY <2>1, <2>2
<1>5. NothingYet'
  BY DEF NothingYet, SessionTypeOK
<1>6. Remaining'
  BY DEF Remaining, SessionTypeOK
<1>7. LiveSessionsAreUntouched'
  BY DEF LiveSessionsAreUntouched, SessionTypeOK, VictimsAreDead, NothingYet
<1> QED BY <1>1, <1>2, <1>3, <1>4, <1>5, <1>6, <1>7

\* Containers are no concern of the listener.
LEMMA ListenInv ==
    ASSUME SessionInv, NEW s \in Sessions, Listen(s)
    PROVE  SessionInv'
<1> USE DEF SessionInv, Listen, GiveUp, Goto, fixed, docks
<1>1. SessionTypeOK'
  <2> USE DEF SessionTypeOK
  <2>1. alive' \subseteq Pids /\ owner' \in [Sessions -> Pids \cup {None}]
    OBVIOUS
  <2>2. phase' \in [Sessions -> Phases]
    BY DEF Phases, Starting
  <2>3. started' \in [Sessions -> SUBSET Kinds]
    OBVIOUS
  <2>4. todo' \in [Sessions -> SUBSET (Kinds \cup (Sessions \X Kinds))]
    OBVIOUS
  <2>5. victim' \in [Sessions -> {None} \cup (Sessions \X Kinds)]
    OBVIOUS
  <2>6. failed' \in [Sessions -> BOOLEAN] /\ faulty' \in [Sessions -> BOOLEAN]
    OBVIOUS
  <2>7. docker' \subseteq Sessions \X Kinds
    OBVIOUS
  <2> QED BY <2>1, <2>2, <2>3, <2>4, <2>5, <2>6, <2>7
<1>2. OwnersLive'
  BY DEF OwnersLive, SessionTypeOK, Starting
<1>3. VictimsAreDead'
  BY DEF VictimsAreDead, SessionTypeOK, OwnersLive, Accounted, Known, Orphaned
<1>4. Accounted'
  BY DEF Accounted, Known, SessionTypeOK, Kinds, Containers, NothingYet, Remaining
<1>5. NothingYet'
  BY DEF NothingYet, SessionTypeOK
<1>6. Remaining'
  BY DEF Remaining, SessionTypeOK
<1>7. LiveSessionsAreUntouched'
  BY DEF LiveSessionsAreUntouched, SessionTypeOK, VictimsAreDead, NothingYet
<1> QED BY <1>1, <1>2, <1>3, <1>4, <1>5, <1>6, <1>7

\* The session goes from up to shutting down.
LEMMA CloseInv ==
    ASSUME SessionInv, NEW s \in Sessions, Close(s)
    PROVE  SessionInv'
<1> USE DEF SessionInv, Close, Goto, fixed, docks
<1>1. SessionTypeOK'
  BY DEF SessionTypeOK, Phases, Starting, Kinds, Containers
<1>2. OwnersLive'
  BY DEF OwnersLive, SessionTypeOK, Starting
<1>3. VictimsAreDead'
  BY DEF VictimsAreDead, SessionTypeOK, OwnersLive, Accounted, Known, Orphaned
<1>4. Accounted'
  BY DEF Accounted, Known, SessionTypeOK, Kinds, Containers, NothingYet, Remaining
<1>5. NothingYet'
  BY DEF NothingYet, SessionTypeOK
<1>6. Remaining'
  BY DEF Remaining, SessionTypeOK
<1>7. LiveSessionsAreUntouched'
  BY DEF LiveSessionsAreUntouched, SessionTypeOK, VictimsAreDead, NothingYet
<1> QED BY <1>1, <1>2, <1>3, <1>4, <1>5, <1>6, <1>7

\* All it has made is to be removed.
LEMMA ShutdownInv ==
    ASSUME SessionInv, NEW s \in Sessions, Shutdown(s)
    PROVE  SessionInv'
<1> USE DEF SessionInv, Shutdown, Goto, fixed, docks
<1>1. SessionTypeOK'
  BY DEF SessionTypeOK, Phases, Starting, Kinds, Containers
<1>2. OwnersLive'
  BY DEF OwnersLive, SessionTypeOK, Starting
<1>3. VictimsAreDead'
  BY DEF VictimsAreDead, SessionTypeOK, OwnersLive, Accounted, Known, Orphaned
<1>4. Accounted'
  BY DEF Accounted, Known, SessionTypeOK, Kinds, Containers, NothingYet, Remaining
<1>5. NothingYet'
  BY DEF NothingYet, SessionTypeOK
<1>6. Remaining'
  BY DEF Remaining, SessionTypeOK
<1>7. LiveSessionsAreUntouched'
  BY DEF LiveSessionsAreUntouched, SessionTypeOK, VictimsAreDead, NothingYet
<1> QED BY <1>1, <1>2, <1>3, <1>4, <1>5, <1>6, <1>7

\* What is not removed is the fault of a command.
LEMMA RemoveInv ==
    ASSUME SessionInv, NEW s \in Sessions, Remove(s)
    PROVE  SessionInv'
<1> USE DEF SessionInv, Remove, Fails, Succeeds, InUse, fixed, docks
<1>1. SessionTypeOK'
  <2> USE DEF SessionTypeOK
  <2>1. alive' \subseteq Pids /\ owner' \in [Sessions -> Pids \cup {None}]
    OBVIOUS
  <2>2. phase' \in [Sessions -> Phases]
    BY DEF Phases, Starting
  <2>3. started' \in [Sessions -> SUBSET Kinds]
    OBVIOUS
  <2>4. todo' \in [Sessions -> SUBSET (Kinds \cup (Sessions \X Kinds))]
    OBVIOUS
  <2>5. victim' \in [Sessions -> {None} \cup (Sessions \X Kinds)]
    OBVIOUS
  <2>6. failed' \in [Sessions -> BOOLEAN] /\ faulty' \in [Sessions -> BOOLEAN]
    OBVIOUS
  <2>7. docker' \subseteq Sessions \X Kinds
    OBVIOUS
  <2> QED BY <2>1, <2>2, <2>3, <2>4, <2>5, <2>6, <2>7
<1>2. OwnersLive'
  BY DEF OwnersLive, SessionTypeOK, Starting
<1>3. VictimsAreDead'
  BY DEF VictimsAreDead, SessionTypeOK, OwnersLive, Accounted, Known, Orphaned
<1>4. Accounted'
  <2> SUFFICES ASSUME NEW r \in Sessions, NEW k \in Kinds, <<r, k>> \in docker' PROVE Known(r, k)'
    BY DEF Accounted
  <2>1. CASE r # s
    <3>1. phase'[r] = phase[r] /\ todo'[r] = todo[r] /\ started'[r] = started[r]
      BY <2>1 DEF SessionTypeOK
    <3>2. failed'[r] = failed[r] /\ faulty'[r] = faulty[r]
      BY <2>1 DEF SessionTypeOK
    <3>3. <<r, k>> \in docker
      BY <2>1
    <3> QED BY <3>1, <3>2, <3>3 DEF Accounted, Known
  <2>2. CASE r = s
    <3>1. phase'[s] = "close" /\ phase[s] = "close"
      BY DEF SessionTypeOK
    <3>2. todo[s] \subseteq Kinds
      BY DEF Remaining
    <3>3. Next1(s) \in todo[s] /\ (Next1(s) = "network" => todo[s] = {"network"})
      BY <3>2, NetworkIsLast
    <3>4. <<s, k>> \in docker
      BY <2>2
    <3>5. k \in todo[s] \/ (faulty[s] /\ failed[s])
      BY <3>1, <3>4 DEF Accounted, Known
    <3>6. CASE k # Next1(s)
      <4>1. k \in todo[s] => k \in todo'[s]
        BY <3>6 DEF SessionTypeOK
      <4>2. faulty[s] /\ failed[s] => faulty'[s] /\ failed'[s]
        BY DEF SessionTypeOK
      <4> QED BY <2>2, <3>1, <3>5, <4>1, <4>2 DEF Known
    <3>7. CASE k = Next1(s)
      <4>1. CASE InUse(<<s, Next1(s)>>)
        <5>1. Next1(s) = "network" /\ \E c \in Containers : <<s, c>> \in docker
          BY <4>1
        <5>2. todo[s] = {"network"}
          BY <3>3, <5>1
        <5>3. faulty[s] /\ failed[s]
          BY <3>1, <5>1, <5>2 DEF Accounted, Known, Kinds, Containers
        <5>4. faulty'[s] /\ failed'[s]
          BY <5>3 DEF SessionTypeOK
        <5> QED BY <2>2, <3>1, <5>4 DEF Known
      <4>2. CASE faulty' = [faulty EXCEPT ![s] = TRUE] /\ failed' = [failed EXCEPT ![s] = TRUE]
        BY <2>2, <3>1, <4>2 DEF Known, SessionTypeOK
      <4>3. CASE docker' = docker \ {<<s, Next1(s)>>}
        BY <2>2, <3>7, <4>3
      <4> QED BY <4>1, <4>2, <4>3
    <3> QED BY <3>6, <3>7
  <2> QED BY <2>1, <2>2
<1>5. NothingYet'
  BY DEF NothingYet, SessionTypeOK
<1>6. Remaining'
  BY DEF Remaining, SessionTypeOK
<1>7. LiveSessionsAreUntouched'
  BY DEF LiveSessionsAreUntouched, SessionTypeOK, VictimsAreDead, NothingYet
<1> QED BY <1>1, <1>2, <1>3, <1>4, <1>5, <1>6, <1>7

\* What is left has an error.
LEMMA OverInv ==
    ASSUME SessionInv, NEW s \in Sessions, Over(s)
    PROVE  SessionInv'
<1> USE DEF SessionInv, Over, Goto, fixed, docks
<1>1. SessionTypeOK'
  BY DEF SessionTypeOK, Phases, Starting, Kinds, Containers
<1>2. OwnersLive'
  BY DEF OwnersLive, SessionTypeOK, Starting
<1>3. VictimsAreDead'
  BY DEF VictimsAreDead, SessionTypeOK, OwnersLive, Accounted, Known, Orphaned
<1>4. Accounted'
  BY DEF Accounted, Known, SessionTypeOK, Kinds, Containers, NothingYet, Remaining
<1>5. NothingYet'
  BY DEF NothingYet, SessionTypeOK
<1>6. Remaining'
  BY DEF Remaining, SessionTypeOK
<1>7. LiveSessionsAreUntouched'
  BY DEF LiveSessionsAreUntouched, SessionTypeOK, VictimsAreDead, NothingYet
<1> QED BY <1>1, <1>2, <1>3, <1>4, <1>5, <1>6, <1>7

\* The sessions of a dead process are lost.
LEMMA CrashInv ==
    ASSUME SessionInv, NEW p \in Pids, Crash(p)
    PROVE  SessionInv'
<1> USE DEF SessionInv, Crash, docks
<1>1. SessionTypeOK'
  <2> USE DEF SessionTypeOK
  <2>1. alive' \subseteq Pids /\ owner' \in [Sessions -> Pids \cup {None}]
    OBVIOUS
  <2>2. phase' \in [Sessions -> Phases]
    BY DEF Phases, Starting
  <2>3. started' \in [Sessions -> SUBSET Kinds]
    OBVIOUS
  <2>4. todo' \in [Sessions -> SUBSET (Kinds \cup (Sessions \X Kinds))]
    OBVIOUS
  <2>5. victim' \in [Sessions -> {None} \cup (Sessions \X Kinds)]
    OBVIOUS
  <2>6. failed' \in [Sessions -> BOOLEAN] /\ faulty' \in [Sessions -> BOOLEAN]
    OBVIOUS
  <2>7. docker' \subseteq Sessions \X Kinds
    BY DEF Kinds, Containers
  <2> QED BY <2>1, <2>2, <2>3, <2>4, <2>5, <2>6, <2>7
<1>2. OwnersLive'
  BY DEF OwnersLive, SessionTypeOK, Starting
<1>3. VictimsAreDead'
  BY DEF VictimsAreDead, SessionTypeOK, OwnersLive, Accounted, Known, Orphaned
<1>4. Accounted'
  <2> SUFFICES ASSUME NEW r \in Sessions, NEW k \in Kinds, <<r, k>> \in docker' PROVE Known(r, k)'
    BY DEF Accounted
  <2> DEFINE mine == {s \in Sessions : owner[s] = p /\ phase[s] \notin {"over", "lost"}}
  <2>1. CASE r \notin mine
    <3>1. phase'[r] = phase[r] /\ todo'[r] = todo[r] /\ started'[r] = started[r]
      BY <2>1 DEF SessionTypeOK
    <3>2. failed'[r] = failed[r] /\ faulty'[r] = faulty[r]
      BY <2>1 DEF SessionTypeOK
    <3>3. <<r, k>> \in docker
      BY <2>1
    <3> QED BY <3>1, <3>2, <3>3 DEF Accounted, Known
  <2>2. CASE r \in mine
    BY <2>2 DEF Known
  <2> QED BY <2>1, <2>2
<1>5. NothingYet'
  BY DEF NothingYet, SessionTypeOK
<1>6. Remaining'
  BY DEF Remaining, SessionTypeOK
<1>7. LiveSessionsAreUntouched'
  BY DEF LiveSessionsAreUntouched, SessionTypeOK, VictimsAreDead, NothingYet
<1> QED BY <1>1, <1>2, <1>3, <1>4, <1>5, <1>6, <1>7

\* No session gets its process back.
LEMMA ReuseInv ==
    ASSUME SessionInv, NEW p \in Pids, Reuse(p)
    PROVE  SessionInv'
<1> USE DEF SessionInv, Reuse, docks
<1>1. SessionTypeOK'
  BY DEF SessionTypeOK, Phases, Starting, Kinds, Containers
<1>2. OwnersLive'
  BY DEF OwnersLive, SessionTypeOK, Starting
<1>3. VictimsAreDead'
  BY DEF VictimsAreDead, SessionTypeOK, OwnersLive, Accounted, Known, Orphaned
<1>4. Accounted'
  BY DEF Accounted, Known, SessionTypeOK, Kinds, Containers, NothingYet, Remaining
<1>5. NothingYet'
  BY DEF NothingYet, SessionTypeOK
<1>6. Remaining'
  BY DEF Remaining, SessionTypeOK
<1>7. LiveSessionsAreUntouched'
  BY DEF LiveSessionsAreUntouched, SessionTypeOK, VictimsAreDead, NothingYet
<1> QED BY <1>1, <1>2, <1>3, <1>4, <1>5, <1>6, <1>7

-----------------------------------------------------------------------------
\* No step of any session or process breaks the invariant.
LEMMA NextInv == SessionInv /\ [Next]_vars => SessionInv'
<1> SUFFICES ASSUME SessionInv, [Next]_vars PROVE SessionInv'
  OBVIOUS
<1>1. ASSUME NEW s \in Sessions, Begin(s) \/ Work(s) \/ CloseByOwner(s) PROVE SessionInv'
  BY <1>1, BeginInv, ListInv, InspectInv, ReapInv, ReapedInv, CreateInv, DiscoverPortInv, ListenInv,
     CloseInv, ShutdownInv, RemoveInv, OverInv DEF Work, CloseByOwner, Watch
<1>2. ASSUME NEW s \in Sessions, NEW why, Ask(s, why) PROVE SessionInv'
  BY <1>2 DEF Ask, SessionInv, SessionTypeOK, OwnersLive, VictimsAreDead, Accounted, Known, NothingYet,
     Remaining, LiveSessionsAreUntouched, fixed, docks
<1>3. ASSUME NEW p \in Pids, Crash(p) \/ Reuse(p) PROVE SessionInv'
  BY <1>3, CrashInv, ReuseInv
<1>4. CASE UNCHANGED vars
  BY <1>4 DEF vars, SessionInv, SessionTypeOK, OwnersLive, VictimsAreDead, Accounted, Known, NothingYet,
     Remaining, LiveSessionsAreUntouched
<1> QED BY <1>1, <1>2, <1>3, <1>4 DEF Next

\* The invariant holds in every state of every behaviour.
THEOREM SessionInvariance == Spec => []SessionInv
BY InitInv, NextInv, PTL DEF Spec

\* However many sessions look for orphans, and however process ids are used again,
\* a session that lives keeps all it has made.
THEOREM ReapingSparesTheLiving == Spec => []LiveSessionsAreUntouched
<1>1. SessionInv => LiveSessionsAreUntouched
  BY DEF SessionInv
<1> QED BY <1>1, SessionInvariance, PTL

\* What is left of a session that is over is the work of a failed command, and
\* there is an error that says so.
THEOREM LeftoversAreReported == Spec => []NothingLeftBehind
<1>1. SessionInv => NothingLeftBehind
  BY DEF SessionInv, Accounted, Known, NothingLeftBehind, SessionTypeOK
<1> QED BY <1>1, SessionInvariance, PTL

-----------------------------------------------------------------------------
(* The orphans of a dead process.                                          *)

\* What was orphaned when a session began is of a session that is over or lost, and
\* of a process that is not there; otherwise it has been taken off the list.
OrphansAreDead ==
    \A s \in Sessions : \A x \in orphans[s] :
        x \in Sessions \X Kinds /\ phase[x[1]] \in {"over", "lost"} /\ Orphaned(x)

\* An orphan that is still there is one s has still to look at or is about to remove;
\* the containers go before the networks are listed.
Progress(s) ==
    ~faulty[s] => \A x \in orphans[s] \cap docker :
        /\ phase[s] = "reapContainers" /\ x[2] \in Containers => x \in todo[s] \/ victim[s] = x
        /\ phase[s] \in {"listNetworks", "reapNetworks"} => x[2] \notin Containers
        /\ phase[s] = "reapNetworks" => x \in todo[s] \/ victim[s] = x
        /\ phase[s] # "network"

OrphanInv ==
    /\ orphans \in [Sessions -> SUBSET (Sessions \X Kinds)]
    /\ OrphansAreDead
    /\ \A s \in Sessions : Progress(s)

\* At first nothing has been found.
LEMMA OrphanInitInv == Init => OrphanInv
BY DEF Init, OrphanInv, OrphansAreDead, Progress

\* What exists and has no process is of a session that is over or lost.
LEMMA DeadOwners ==
    ASSUME SessionInv, NEW x \in docker, Orphaned(x)
    PROVE  x \in Sessions \X Kinds /\ phase[x[1]] \in {"over", "lost"}
<1>1. x \in Sessions \X Kinds
  BY DEF SessionInv, SessionTypeOK
<1>2. PICK r \in Sessions, k \in Kinds : x = <<r, k>>
  BY <1>1
<1>3. Known(r, k) /\ owner[r] \notin alive
  BY <1>2 DEF SessionInv, Accounted, Orphaned
<1> QED BY <1>1, <1>2, <1>3 DEF SessionInv, Known, OwnersLive, SessionTypeOK, Phases

\* A step of one session leaves the orphans of the others as they are, and adds none.
LEMMA OneSession ==
    ASSUME SessionInv, OrphanInv, NEW s \in Sessions,
           phase[s] \notin {"over", "lost"}, phase[s] = "new" \/ owner'[s] = owner[s], alive' = alive,
           \A r \in Sessions \ {s} :
              /\ phase'[r] = phase[r] /\ owner'[r] = owner[r] /\ todo'[r] = todo[r] /\ victim'[r] = victim[r]
              /\ faulty'[r] = faulty[r] /\ orphans'[r] = orphans[r],
           \A x \in docker' : x \in docker \/ x[1] = s,
           orphans' \in [Sessions -> SUBSET (Sessions \X Kinds)],
           \A x \in orphans'[s] : x \in orphans[s] \/ (x \in docker /\ Orphaned(x)),
           Progress(s)'
    PROVE  OrphanInv'
<1>1. ASSUME NEW x, phase[x[1]] \in {"over", "lost"}, x \in Sessions \X Kinds
      PROVE  /\ phase'[x[1]] = phase[x[1]] /\ owner'[x[1]] = owner[x[1]]
             /\ x \in docker' => x \in docker
  BY <1>1
<1>2. ASSUME NEW r \in Sessions, NEW x \in orphans'[r]
      PROVE  x \in Sessions \X Kinds /\ phase'[x[1]] \in {"over", "lost"} /\ Orphaned(x)'
  <2>1. x \in Sessions \X Kinds /\ phase[x[1]] \in {"over", "lost"} /\ Orphaned(x)
    BY DeadOwners DEF OrphanInv, OrphansAreDead
  <2> QED BY <1>1, <2>1 DEF Orphaned
<1>3. ASSUME NEW r \in Sessions PROVE Progress(r)'
  <2>1. CASE r = s
    BY <2>1
  <2>2. CASE r # s
    <3>1. \A x \in orphans[r] : x \in docker' => x \in docker
      BY <1>1 DEF OrphanInv, OrphansAreDead
    <3> QED BY <2>2, <3>1 DEF OrphanInv, Progress
  <2> QED BY <2>1, <2>2
<1> QED BY <1>2, <1>3 DEF OrphanInv, OrphansAreDead

\* A session begins with the orphans there are.
LEMMA OrphanBegin ==
    ASSUME SessionInv, OrphanInv, NEW s \in Sessions, Begin(s) PROVE OrphanInv'
<1> USE DEF Begin, Goto, docks
<1>1. orphans' \in [Sessions -> SUBSET (Sessions \X Kinds)]
  BY DEF OrphanInv, SessionInv, SessionTypeOK
<1>2. phase'[s] = "listContainers" /\ orphans'[s] = {x \in docker : Orphaned(x)}
  BY DEF OrphanInv, SessionInv, SessionTypeOK
<1>3. Progress(s)'
  BY <1>2 DEF Progress
<1>4. \A r \in Sessions \ {s} :
              /\ phase'[r] = phase[r] /\ owner'[r] = owner[r] /\ todo'[r] = todo[r] /\ victim'[r] = victim[r]
              /\ faulty'[r] = faulty[r] /\ orphans'[r] = orphans[r]
  BY DEF OrphanInv, SessionInv, SessionTypeOK
<1> QED BY <1>1, <1>2, <1>3, <1>4, OneSession

\* A list has every orphan of its kind.
LEMMA OrphanList ==
    ASSUME SessionInv, OrphanInv, NEW s \in Sessions, List(s) PROVE OrphanInv'
<1> USE DEF List, Goto, GiveUp, Fails, docks, fixed
<1>1. /\ phase \in [Sessions -> Phases] /\ todo \in [Sessions -> SUBSET (Kinds \cup (Sessions \X Kinds))]
      /\ faulty \in [Sessions -> BOOLEAN] /\ docker' = docker
      /\ orphans \in [Sessions -> SUBSET (Sessions \X Kinds)] /\ UNCHANGED <<alive, owner, orphans, victim>>
  BY DEF OrphanInv, SessionInv, SessionTypeOK
<1>2. Progress(s)'
  <2>1. CASE phase[s] = "listContainers" /\ phase'[s] = "reapContainers"
    <3>1. todo'[s] = {x \in docker : x[2] \in Containers} /\ faulty' = faulty
      BY <1>1, <2>1
    <3> QED BY <1>1, <2>1, <3>1 DEF Progress
  <2>2. CASE phase[s] = "listNetworks" /\ phase'[s] = "reapNetworks"
    <3>1. todo'[s] = {x \in docker : x[2] \in {"network"}} /\ faulty' = faulty
      BY <1>1, <2>2
    <3>2. \A x \in orphans[s] : x[2] \in Containers \/ x[2] = "network"
      BY <1>1 DEF Kinds
    <3>3. Progress(s)
      BY DEF OrphanInv
    <3> QED BY <1>1, <2>2, <3>1, <3>2, <3>3 DEF Progress
  <2>3. CASE phase'[s] = "close"
    BY <2>3 DEF Progress
  <2> QED BY <1>1, <2>1, <2>2, <2>3
<1>3. \A r \in Sessions \ {s} : phase'[r] = phase[r] /\ todo'[r] = todo[r] /\ faulty'[r] = faulty[r]
  BY <1>1
<1> QED BY <1>1, <1>2, <1>3, OneSession

\* What is looked at is removed next if it is orphaned.
LEMMA OrphanInspect ==
    ASSUME SessionInv, OrphanInv, NEW s \in Sessions, Inspect(s) PROVE OrphanInv'
<1> USE DEF Inspect, Reaping, Fails, docks, fixed
<1>1. /\ victim \in [Sessions -> {None} \cup (Sessions \X Kinds)]
      /\ todo \in [Sessions -> SUBSET (Kinds \cup (Sessions \X Kinds))]
      /\ faulty \in [Sessions -> BOOLEAN]
      /\ orphans \in [Sessions -> SUBSET (Sessions \X Kinds)] /\ UNCHANGED <<alive, owner, orphans, phase, docker>>
  BY DEF OrphanInv, SessionInv, SessionTypeOK
<1>2. Progress(s)'
  <2>1. PICK y \in todo[s] :
          /\ todo' = [todo EXCEPT ![s] = @ \ {y}]
          /\ \/ /\ victim' = [victim EXCEPT ![s] = IF y \in docker /\ Orphaned(y) THEN y ELSE None]
                /\ UNCHANGED faulty
             \/ Fails(s, docker) /\ UNCHANGED victim
    OBVIOUS
  <2>2. CASE faulty'[s]
    BY <2>2 DEF Progress
  <2>3. CASE faulty' = faulty /\ victim'[s] = (IF y \in docker /\ Orphaned(y) THEN y ELSE None)
    <3>1. Progress(s) /\ \A x \in orphans[s] : Orphaned(x)
      BY DEF OrphanInv, OrphansAreDead
    <3>2. todo'[s] = todo[s] \ {y} /\ victim[s] = None
      BY <1>1, <2>1
    <3>3. \A x \in orphans[s] \cap docker : x # None
      BY <1>1, NoneAssumption DEF Kinds
    <3> QED BY <1>1, <2>3, <3>1, <3>2, <3>3 DEF Progress
  <2> QED BY <1>1, <2>1, <2>2, <2>3
<1>3. \A r \in Sessions \ {s} : todo'[r] = todo[r] /\ victim'[r] = victim[r] /\ faulty'[r] = faulty[r]
  BY <1>1
<1>4. phase[s] \notin {"over", "lost"}
  OBVIOUS
<1> QED BY <1>1, <1>2, <1>3, <1>4, OneSession

\* What is about to be removed is removed, or the start ends.
LEMMA OrphanReap ==
    ASSUME SessionInv, OrphanInv, NEW s \in Sessions, Reap(s) PROVE OrphanInv'
<1> USE DEF Reap, Reaping, Fails, Succeeds, GiveUp, Goto, docks, fixed
<1>1. /\ victim \in [Sessions -> {None} \cup (Sessions \X Kinds)] /\ phase \in [Sessions -> Phases]
      /\ todo \in [Sessions -> SUBSET (Kinds \cup (Sessions \X Kinds))]
      /\ faulty \in [Sessions -> BOOLEAN]
      /\ orphans \in [Sessions -> SUBSET (Sessions \X Kinds)] /\ UNCHANGED <<alive, owner, orphans>>
      /\ docker' \subseteq docker
  BY DEF OrphanInv, SessionInv, SessionTypeOK
<1>2. Progress(s)'
  <2>1. CASE phase'[s] = "close"
    BY <2>1 DEF Progress
  <2>2. CASE docker' = docker \ {victim[s]} /\ UNCHANGED <<phase, todo, faulty>>
    <3>1. Progress(s)
      BY DEF OrphanInv
    <3> QED BY <1>1, <2>2, <3>1 DEF Progress
  <2> QED BY <1>1, <2>1, <2>2
<1>3. \A r \in Sessions \ {s} : /\ phase'[r] = phase[r] /\ todo'[r] = todo[r] /\ victim'[r] = victim[r]
                                /\ faulty'[r] = faulty[r]
  BY <1>1
<1>4. phase[s] \notin {"over", "lost"}
  OBVIOUS
<1> QED BY <1>1, <1>2, <1>3, <1>4, OneSession

\* Nothing is left to look at.
LEMMA OrphanReaped ==
    ASSUME SessionInv, OrphanInv, NEW s \in Sessions, Reaped(s) PROVE OrphanInv'
<1> USE DEF Reaped, Reaping, Goto, docks, fixed
<1>1. /\ phase \in [Sessions -> Phases]
      /\ orphans \in [Sessions -> SUBSET (Sessions \X Kinds)]
      /\ UNCHANGED <<alive, owner, orphans, todo, victim, docker, faulty>>
  BY DEF OrphanInv, SessionInv, SessionTypeOK
<1>2. Progress(s)'
  <2>1. Progress(s) /\ victim[s] = None /\ todo[s] = {}
    BY DEF OrphanInv
  <2>2. \A x \in orphans[s] \cap docker : x # None
    BY <1>1, NoneAssumption DEF Kinds
  <2> QED BY <1>1, <2>1, <2>2 DEF Progress
<1>3. \A r \in Sessions \ {s} : phase'[r] = phase[r]
  BY <1>1
<1>4. phase[s] \notin {"over", "lost"}
  OBVIOUS
<1> QED BY <1>1, <1>2, <1>3, <1>4, OneSession

\* The steps after the orphans are done with, which have none to look at.
LEMMA OrphanOwn ==
    ASSUME SessionInv, OrphanInv, NEW s \in Sessions,
           \/ Create(s) \/ DiscoverPort(s) \/ Listen(s) \/ Close(s) \/ Shutdown(s) \/ Remove(s) \/ Over(s)
    PROVE  OrphanInv'
<1> USE DEF Goto, GiveUp, Fails, Succeeds, docks, fixed
<1>1. /\ phase \in [Sessions -> Phases] /\ todo \in [Sessions -> SUBSET (Kinds \cup (Sessions \X Kinds))]
      /\ faulty \in [Sessions -> BOOLEAN] /\ orphans \in [Sessions -> SUBSET (Sessions \X Kinds)]
  BY DEF OrphanInv, SessionInv, SessionTypeOK
<1>2. UNCHANGED <<alive, owner, victim>> /\ phase[s] \notin {"over", "lost"}
  BY DEF Create, DiscoverPort, Listen, Close, Shutdown, Remove, Over
<1>3. orphans' = orphans \/ orphans' = [orphans EXCEPT ![s] = {}]
  BY DEF Create, DiscoverPort, Listen, Close, Shutdown, Remove, Over
<1>4. \A r \in Sessions \ {s} : phase'[r] = phase[r] /\ todo'[r] = todo[r] /\ faulty'[r] = faulty[r]
  BY <1>1 DEF Create, DiscoverPort, Listen, Close, Shutdown, Remove, Over
<1>5. \A x \in docker' : x \in docker \/ x[1] = s
  BY DEF Create, DiscoverPort, Listen, Close, Shutdown, Remove, Over
<1>6. phase'[s] \in {"guacd", "guacamole", "port", "listen", "up", "shutdown", "close", "over"}
  BY <1>1 DEF Create, After, DiscoverPort, Listen, Close, Shutdown, Remove, Over
<1>7. Progress(s)'
  BY <1>6 DEF Progress
<1>8. orphans' \in [Sessions -> SUBSET (Sessions \X Kinds)] /\ orphans'[s] \subseteq orphans[s]
      /\ \A r \in Sessions \ {s} : orphans'[r] = orphans[r]
  BY <1>1, <1>3
<1> QED BY <1>2, <1>4, <1>5, <1>7, <1>8, OneSession

\* To ask a session to end touches no orphan.
LEMMA OrphanAsk ==
    ASSUME SessionInv, OrphanInv, NEW s \in Sessions, NEW why, Ask(s, why) PROVE OrphanInv'
BY DEF Ask, fixed, docks, OrphanInv, OrphansAreDead, Orphaned, Progress

\* A process that ends makes no orphan of another session, but of its own.
LEMMA OrphanCrash ==
    ASSUME SessionInv, OrphanInv, NEW p \in Pids, Crash(p) PROVE OrphanInv'
<1> DEFINE mine == {s \in Sessions : owner[s] = p /\ phase[s] \notin {"over", "lost"}}
<1>1. /\ phase \in [Sessions -> Phases] /\ orphans \in [Sessions -> SUBSET (Sessions \X Kinds)]
      /\ alive' = alive \ {p} /\ owner' = owner
  BY DEF OrphanInv, SessionInv, SessionTypeOK, Crash
<1>2. /\ \A s \in mine : phase'[s] = "lost" /\ orphans'[s] = {}
      /\ \A s \in Sessions \ mine : /\ phase'[s] = phase[s] /\ orphans'[s] = orphans[s] /\ todo'[s] = todo[s]
                                    /\ victim'[s] = victim[s] /\ faulty'[s] = faulty[s]
      /\ orphans' \in [Sessions -> SUBSET (Sessions \X Kinds)]
  BY <1>1 DEF Crash
<1>3. \A x \in docker' : x \in docker \/ x[1] \in mine
  BY DEF Crash
<1> HIDE DEF mine
<1>4. ASSUME NEW s \in Sessions, NEW x \in orphans'[s]
      PROVE  /\ s \notin mine /\ x \in orphans[s] /\ x \in Sessions \X Kinds
             /\ phase[x[1]] \in {"over", "lost"} /\ Orphaned(x)
  BY <1>2 DEF OrphanInv, OrphansAreDead
<1>5. \A s \in Sessions : phase[s] \in {"over", "lost"} => s \notin mine
  BY DEF mine
<1>6. OrphansAreDead'
  <2> SUFFICES ASSUME NEW s \in Sessions, NEW x \in orphans'[s]
               PROVE  x \in Sessions \X Kinds /\ phase'[x[1]] \in {"over", "lost"} /\ Orphaned(x)'
    BY DEF OrphansAreDead
  <2>1. x[1] \in Sessions /\ x[1] \notin mine
    BY <1>4, <1>5
  <2> QED BY <1>1, <1>2, <1>4, <2>1 DEF Orphaned
<1>7. ASSUME NEW s \in Sessions PROVE Progress(s)'
  <2>1. \A x \in orphans'[s] \cap docker' : x \in orphans[s] \cap docker /\ s \notin mine
    BY <1>3, <1>4, <1>5
  <2> QED BY <1>2, <2>1 DEF OrphanInv, Progress
<1> QED BY <1>2, <1>6, <1>7 DEF OrphanInv

\* When a process id is used again its orphans are none any more.
LEMMA OrphanReuse ==
    ASSUME SessionInv, OrphanInv, NEW p \in Pids, Reuse(p) PROVE OrphanInv'
<1>1. /\ orphans \in [Sessions -> SUBSET (Sessions \X Kinds)]
      /\ orphans' = [s \in Sessions |-> {x \in orphans[s] : owner[x[1]] # p}]
      /\ alive' = alive \cup {p} /\ UNCHANGED <<phase, owner, todo, victim, docker, faulty>>
  BY DEF OrphanInv, Reuse, docks
<1>2. \A s \in Sessions : \A x \in orphans'[s] : x \in orphans[s] /\ owner[x[1]] # p
  BY <1>1
<1>3. orphans' \in [Sessions -> SUBSET (Sessions \X Kinds)]
  BY <1>1
<1>4. OrphansAreDead'
  BY <1>1, <1>2 DEF OrphanInv, OrphansAreDead, Orphaned
<1>5. \A s \in Sessions : Progress(s)'
  BY <1>1, <1>2 DEF OrphanInv, Progress
<1> QED BY <1>3, <1>4, <1>5 DEF OrphanInv

\* No step of any session or process takes an orphan out of sight.
LEMMA OrphanNext == SessionInv /\ OrphanInv /\ [Next]_vars => OrphanInv'
<1> SUFFICES ASSUME SessionInv, OrphanInv, [Next]_vars PROVE OrphanInv'
  OBVIOUS
<1>1. ASSUME NEW s \in Sessions, Begin(s) \/ Work(s) \/ CloseByOwner(s) \/ \E why : Ask(s, why) PROVE OrphanInv'
  BY <1>1, OrphanBegin, OrphanList, OrphanInspect, OrphanReap, OrphanReaped, OrphanOwn, OrphanAsk
     DEF Work, CloseByOwner, Watch
<1>2. ASSUME NEW p \in Pids, Crash(p) \/ Reuse(p) PROVE OrphanInv'
  BY <1>2, OrphanCrash, OrphanReuse
<1>3. CASE UNCHANGED vars
  BY <1>3 DEF vars, OrphanInv, OrphansAreDead, Orphaned, Progress, docks
<1> QED BY <1>1, <1>2, <1>3 DEF Next

\* A start that Docker did not fail has removed, when it comes to its own network,
\* all that dead processes had when it began, however many sessions look for orphans
\* and end meanwhile.
THEOREM DeadAreReaped == Spec => []OrphansAreReaped
<1>1. Init => SessionInv /\ OrphanInv
  BY InitInv, OrphanInitInv
<1>2. SessionInv /\ OrphanInv /\ [Next]_vars => (SessionInv /\ OrphanInv)'
  BY NextInv, OrphanNext
<1>3. SessionInv /\ OrphanInv => OrphansAreReaped
  BY DEF OrphanInv, Progress, OrphansAreReaped
<1> QED BY <1>1, <1>2, <1>3, PTL DEF Spec
=============================================================================

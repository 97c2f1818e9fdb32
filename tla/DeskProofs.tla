----------------------------- MODULE DeskProofs -----------------------------
(* Theorems about the Wake Desk for any number of machines, of commands in *)
(* flight and of keys, whatever order the answers arrive in.               *)
EXTENDS WakeDesk, FiniteSetTheorems, WellFoundedInduction, TLAPS

-----------------------------------------------------------------------------
(* The inductive invariant: the types, and for each thing the desk waits    *)
(* for what the commands in flight have to do with it.                      *)

InFlight == [kind: Kinds \cup {"idle"}, id: Nat, target: Machines \cup {NoMachine},
             live: BOOLEAN, left: SUBSET Machines]

Statuses == {"sent", "failed", "online", "offline", "cancelled"}

DeskTypeOK ==
    /\ phase \in {"boot", "ready", "error"} /\ loading \in BOOLEAN /\ checking \in BOOLEAN
    /\ requestID \in Nat /\ devices \subseteq Machines
    /\ waking \in BOOLEAN /\ opening \in BOOLEAN /\ shuttingDown \in BOOLEAN
    /\ actionID \in Nat /\ actionTarget \in Machines \cup {NoMachine}
    /\ form \in [kind: {"none", "edit", "power"}, target: Machines \cup {NoMachine}, saving: BOOLEAN]
    /\ lanPreparing \in BOOLEAN /\ lanPrepareID \in Nat /\ lanID \in Nat
    /\ batchKind \in {"none", "wake", "check"} /\ lastBatchKind \in {"none", "wake", "check"}
    /\ batchTargets \subseteq Machines /\ batchRunning \in BOOLEAN /\ batchID \in Nat
    /\ batchResults \in Seq([device: Machines, status: Statuses])
    /\ cmds \in [Slots -> InFlight]

\* Loads and checks: the spinners are backed, and only the current one lives.
LoadInv ==
    /\ phase = "boot" => loading
    /\ loading => \E i \in Slots : cmds[i].kind = "load" /\ cmds[i].id = requestID
    /\ checking => \E i \in Slots : cmds[i].kind \in {"scan", "probe"} /\ cmds[i].id = requestID
    /\ \A i \in Slots : cmds[i].kind \in LoadKinds /\ cmds[i].live =>
                           cmds[i].id = loadCancel /\ loadCancel = requestID

\* An action has one command in flight: an identifier is never used again, and
\* the command that follows a wake takes the place of its packet's.
OneCommandEach ==
    \A i \in Slots : cmds[i].kind \in ActionKinds =>
        /\ cmds[i].id <= actionID
        /\ \A j \in Slots \ {i} : cmds[j].kind \in ActionKinds => cmds[j].id # cmds[i].id

ActionInv ==
    /\ OneCommandEach
    /\ ~ (waking /\ opening)
    /\ actionTarget # NoMachine =>
          \E i \in Slots : /\ cmds[i].kind \in ActionKinds
                           /\ cmds[i].id = actionID /\ cmds[i].target = actionTarget
    /\ shuttingDown =>
          \E i \in Slots : /\ cmds[i].kind = "verifyShutdown"
                           /\ cmds[i].id = actionID /\ cmds[i].target = actionTarget

FormInv ==
    /\ lanPreparing => \E i \in Slots : cmds[i].kind = "prepare" /\ cmds[i].id = lanPrepareID
    /\ form.saving => \E i \in Slots : cmds[i].kind \in SaveKinds

\* A batch has one reader while it runs, and none afterwards.
OneReader ==
    \A i \in Slots : cmds[i].kind = "batch" =>
        /\ cmds[i].id <= batchID
        /\ cmds[i].id = batchID => batchRunning
        /\ cmds[i].live => cmds[i].id = batchCancel /\ batchRunning
        /\ \A j \in Slots \ {i} : cmds[j].kind = "batch" => cmds[j].id # cmds[i].id

\* A machine whose packet was said to be sent is in no other batch, of any kind,
\* and what the results say of it is that.
SentIsSettled ==
    /\ batchKind # "none" => \A d \in batchTargets \cap saidSent : batchRunning /\ d \in Reported
    /\ \A k \in DOMAIN batchResults : batchResults[k].device \in saidSent => batchResults[k].status = "sent"

BatchInv ==
    /\ OneReader
    /\ batchRunning => batchKind # "none" /\ lastBatchKind = batchKind
    /\ BatchAccounts
    /\ IsFiniteSet(Reported)
    /\ SentIsSettled

DeskInv == DeskTypeOK /\ LoadInv /\ ActionInv /\ FormInv /\ BatchInv

-----------------------------------------------------------------------------
(* What the model's operators on the commands in flight do.                *)

\* Of the free slots one is the first.
LEMMA FirstIdle ==
    ASSUME NEW f \in [Slots -> InFlight], \E i \in Slots : f[i] = Idle
    PROVE  \E i \in Slots : f[i] = Idle /\ \A j \in 1 .. i - 1 : f[j] # Idle
<1> DEFINE T == {i \in Slots : f[i] = Idle}
<1>1. T \subseteq Nat /\ T # {}
  BY DEF Slots
<1>2. PICK i \in T : \A j \in T : ~ (<<j, i>> \in OpToRel(<, Nat))
  BY <1>1, WFMin, NatLessThanWellFounded, Zenon
<1>3. ASSUME NEW j \in T PROVE ~ (j < i)
  BY <1>1, <1>2 DEF OpToRel
<1>4. \A j \in 1 .. i - 1 : j \in Slots /\ j < i
  BY WakeDeskAssumption DEF Slots, WakeDeskAssumption
<1> QED BY <1>3, <1>4

\* A command is launched into one slot, which was free.
LEMMA LaunchLemma ==
    ASSUME NEW f \in [Slots -> InFlight], NEW c, \E i \in Slots : f[i] = Idle
    PROVE  \E i \in Slots : f[i] = Idle /\ Launch(f, c) = [f EXCEPT ![i] = c]
BY FirstIdle, Zenon DEF Launch

\* A cancellation takes the life of what it is meant for, and nothing else.
LEMMA CutLemma ==
    ASSUME NEW f \in [Slots -> InFlight], NEW kinds, NEW id
    PROVE  /\ Cut(f, kinds, id) \in [Slots -> InFlight]
           /\ \A i \in Slots :
                 /\ Cut(f, kinds, id)[i].kind = f[i].kind
                 /\ Cut(f, kinds, id)[i].id = f[i].id
                 /\ Cut(f, kinds, id)[i].target = f[i].target
                 /\ Cut(f, kinds, id)[i].left = f[i].left
                 /\ f[i].kind \notin kinds => Cut(f, kinds, id)[i] = f[i]
                 /\ Cut(f, kinds, id)[i].live =>
                       f[i].live /\ (f[i].kind \in kinds => f[i].id # id)
BY DEF Cut, InFlight

\* The slot of a command that has answered is free, the others are as they were.
LEMMA WithoutLemma ==
    ASSUME DeskTypeOK, NEW i \in Slots
    PROVE  /\ Without(i) \in [Slots -> InFlight]
           /\ Without(i)[i] = Idle
           /\ \A j \in Slots \ {i} : Without(i)[j] = cmds[j]
BY DEF Without, DeskTypeOK, InFlight, Idle, Kinds

\* A new command takes a free slot and leaves the others as they are.
LEMMA LaunchCommand ==
    ASSUME NEW f \in [Slots -> InFlight], \E i \in Slots : f[i] = Idle,
           NEW kind \in Kinds, NEW id \in Nat, NEW target \in Machines \cup {NoMachine},
           NEW left \in SUBSET Machines, NEW g, g = Launch(f, Command(kind, id, target, left))
    PROVE  /\ g \in [Slots -> InFlight]
           /\ \E i \in Slots :
                 /\ f[i] = Idle
                 /\ g[i] = [kind |-> kind, id |-> id, target |-> target, live |-> TRUE, left |-> left]
                 /\ \A j \in Slots \ {i} : g[j] = f[j]
<1>1. PICK i \in Slots : f[i] = Idle /\ g = [f EXCEPT ![i] = Command(kind, id, target, left)]
  BY LaunchLemma
<1>2. Command(kind, id, target, left) \in InFlight
  BY DEF Command, InFlight
<1> QED BY <1>1, <1>2 DEF Command

\* Cancelling what is not idle leaves the free slots free.
LEMMA CutKeepsIdle ==
    ASSUME NEW f \in [Slots -> InFlight], \E i \in Slots : f[i] = Idle,
           NEW kinds \in SUBSET Kinds, NEW id
    PROVE  \E i \in Slots : Cut(f, kinds, id)[i] = Idle
<1>1. PICK i \in Slots : f[i] = Idle
  OBVIOUS
<1>2. f[i].kind \notin kinds
  BY <1>1 DEF Idle, Kinds, LoadKinds, ActionKinds, SaveKinds
<1> QED BY <1>1, <1>2, CutLemma

-----------------------------------------------------------------------------
(* The parts of the invariant hold on as long as what they speak of does.   *)

\* The commands of these kinds are those in flight, but for answers that
\* nobody waits for.
Agrees(f, kinds) ==
    \A i \in Slots :
        f[i].kind \in kinds \/ (cmds[i].kind \in kinds /\ ~Stale(cmds[i])) => f[i] = cmds[i]

Kept(kinds) == Agrees(cmds', kinds)

\* What is in flight agrees with itself.
LEMMA AgreesSelf == ASSUME NEW kinds PROVE Agrees(cmds, kinds)
BY DEF Agrees

\* The answer of another kind of command, or a refused one, is not missed.
LEMMA AgreesWithout ==
    ASSUME DeskTypeOK, NEW i \in Slots, NEW kinds \in SUBSET Kinds,
           cmds[i].kind \notin kinds \/ Stale(cmds[i])
    PROVE  Agrees(Without(i), kinds)
BY WithoutLemma DEF Agrees, Idle, Kinds, LoadKinds, ActionKinds, SaveKinds

\* Cancelling other kinds of commands does not matter.
LEMMA AgreesCut ==
    ASSUME NEW f \in [Slots -> InFlight], NEW kinds \in SUBSET Kinds, Agrees(f, kinds),
           NEW others \in SUBSET Kinds, others \cap kinds = {}, NEW id
    PROVE  Agrees(Cut(f, others, id), kinds)
BY CutLemma DEF Agrees

\* Launching another kind of command does not matter.
LEMMA AgreesLaunch ==
    ASSUME NEW f \in [Slots -> InFlight], NEW kinds \in SUBSET Kinds, Agrees(f, kinds),
           \E i \in Slots : f[i] = Idle, NEW c, c.kind \notin kinds
    PROVE  Agrees(Launch(f, c), kinds)
<1>1. PICK i \in Slots : f[i] = Idle /\ Launch(f, c) = [f EXCEPT ![i] = c]
  BY LaunchLemma
<1> QED BY <1>1 DEF Agrees, Idle, Kinds, LoadKinds, ActionKinds, SaveKinds

\* What a launch leaves as it was.
LEMMA Launching ==
    ASSUME NEW f \in [Slots -> InFlight], \E i \in Slots : f[i] = Idle,
           NEW kind \in Kinds, NEW id \in Nat, NEW target \in Machines \cup {NoMachine},
           NEW left \in SUBSET Machines, cmds' = Launch(f, Command(kind, id, target, left))
    PROVE  /\ cmds' \in [Slots -> InFlight]
           /\ \E i \in Slots :
                 /\ f[i] = Idle
                 /\ cmds'[i] = [kind |-> kind, id |-> id, target |-> target, live |-> TRUE, left |-> left]
                 /\ \A j \in Slots \ {i} : cmds'[j] = f[j]
           /\ \A kinds \in SUBSET Kinds : kind \notin kinds /\ Agrees(f, kinds) => Kept(kinds)
BY LaunchCommand, AgreesLaunch DEF Kept, Command

\* The types of what a load or a check changes, the rest being as it was.
LEMMA LoadTypes ==
    ASSUME DeskTypeOK, cmds' \in [Slots -> InFlight],
           UNCHANGED <<actionVars, form, lanVars, batchVars>>,
           phase' \in {"boot", "ready", "error"}, loading' \in BOOLEAN, checking' \in BOOLEAN,
           requestID' \in Nat, devices' \subseteq Machines
    PROVE  DeskTypeOK'
BY DEF DeskTypeOK, actionVars, lanVars, batchVars

\* The types of what a machine action changes, the rest being as it was.
LEMMA ActionTypes ==
    ASSUME DeskTypeOK, cmds' \in [Slots -> InFlight],
           UNCHANGED <<loadVars, form, lanVars, batchVars>>,
           waking' \in BOOLEAN, opening' \in BOOLEAN, shuttingDown' \in BOOLEAN,
           actionID' \in Nat, actionTarget' \in Machines \cup {NoMachine}
    PROVE  DeskTypeOK'
BY DEF DeskTypeOK, loadVars, lanVars, batchVars

\* The types of what a batch changes, the rest being as it was.
LEMMA BatchTypes ==
    ASSUME DeskTypeOK, cmds' \in [Slots -> InFlight],
           UNCHANGED <<loadVars, actionVars, modeVars, lanVars>>,
           batchKind' \in {"none", "wake", "check"}, lastBatchKind' \in {"none", "wake", "check"},
           batchTargets' \subseteq Machines, batchRunning' \in BOOLEAN, batchID' \in Nat,
           batchResults' \in Seq([device: Machines, status: Statuses])
    PROVE  DeskTypeOK'
BY DEF DeskTypeOK, loadVars, actionVars, modeVars, lanVars

\* Loads and checks go on.
LEMMA LoadFrame ==
    ASSUME DeskTypeOK, LoadInv, Kept(LoadKinds),
           UNCHANGED <<phase, loading, checking, requestID, loadCancel>>
    PROVE  LoadInv'
BY DEF DeskTypeOK, LoadInv, Kept, Agrees, Stale, LoadKinds, ActionKinds

\* The machine action goes on.
LEMMA ActionFrame ==
    ASSUME DeskTypeOK, ActionInv, Kept(ActionKinds),
           UNCHANGED <<waking, opening, shuttingDown, actionID, actionTarget>>
    PROVE  ActionInv'
<1>1. OneCommandEach'
  BY DEF DeskTypeOK, ActionInv, OneCommandEach, Kept, Agrees, InFlight
<1>2. ASSUME NEW i \in Slots, cmds[i].kind \in ActionKinds, cmds[i].id = actionID,
             cmds[i].target = actionTarget
      PROVE  cmds'[i] = cmds[i]
  BY <1>2 DEF Kept, Agrees, Stale, LoadKinds, ActionKinds
<1> QED BY <1>1, <1>2 DEF ActionInv, ActionKinds

\* What is being prepared or saved still is, or the desk waits for less.
LEMMA FormFrame ==
    ASSUME DeskTypeOK, FormInv, Kept(SaveKinds \cup {"prepare"}),
           form'.saving => form.saving,
           lanPreparing' => lanPreparing /\ lanPrepareID' = lanPrepareID
    PROVE  FormInv'
BY DEF DeskTypeOK, FormInv, Kept, Agrees, Stale, LoadKinds, ActionKinds, SaveKinds

\* The batch goes on.
LEMMA BatchFrame ==
    ASSUME DeskTypeOK, BatchInv, Kept({"batch"}), UNCHANGED batchVars
    PROVE  BatchInv'
<1> USE DEF batchVars
<1>1. OneReader'
  BY DEF DeskTypeOK, BatchInv, OneReader, Kept, Agrees, InFlight
<1>2. BatchAccounts'
  BY DEF BatchInv, BatchAccounts, Kept, Agrees, Stale, LoadKinds, ActionKinds, Reported
<1> QED BY <1>1, <1>2 DEF BatchInv, SentIsSettled, Reported

-----------------------------------------------------------------------------
(* One lemma for each part that several handlers share.                    *)

\* When the load context is cancelled nothing of the loads in flight lives on.
LEMMA CutsLoads ==
    ASSUME LoadInv, NEW running \in [Slots -> InFlight],
           \A i \in Slots : running[i].kind \in LoadKinds => running[i] = cmds[i]
    PROVE  /\ CutLoad(running) \in [Slots -> InFlight]
           /\ \A i \in Slots : CutLoad(running)[i].kind \in LoadKinds => ~ CutLoad(running)[i].live
           /\ (\E i \in Slots : running[i] = Idle) => \E i \in Slots : CutLoad(running)[i] = Idle
           /\ \A kinds \in SUBSET Kinds :
                 kinds \cap LoadKinds = {} /\ Agrees(running, kinds) => Agrees(CutLoad(running), kinds)
<1> LoadKinds \in SUBSET Kinds
  BY DEF LoadKinds, Kinds
<1>1. CutLoad(running) \in [Slots -> InFlight]
  BY CutLemma DEF CutLoad
<1>2. \A i \in Slots : CutLoad(running)[i].kind \in LoadKinds => ~ CutLoad(running)[i].live
  BY CutLemma DEF CutLoad, LoadInv
<1>3. (\E i \in Slots : running[i] = Idle) => \E i \in Slots : CutLoad(running)[i] = Idle
  BY CutKeepsIdle DEF CutLoad
<1>4. \A kinds \in SUBSET Kinds :
         kinds \cap LoadKinds = {} /\ Agrees(running, kinds) => Agrees(CutLoad(running), kinds)
  BY AgreesCut DEF CutLoad
<1> QED BY <1>1, <1>2, <1>3, <1>4

\* A refresh replaces what is loaded or checked, and disturbs nothing else.
LEMMA RefreshLoads ==
    ASSUME DeskTypeOK, LoadInv, NEW running \in [Slots -> InFlight], \E i \in Slots : running[i] = Idle,
           \A i \in Slots : running[i].kind \in LoadKinds => running[i] = cmds[i],
           NEW toPhase \in {"boot", "ready"}, BeginRefresh(running, toPhase)
    PROVE  /\ cmds' \in [Slots -> InFlight] /\ requestID' \in Nat
           /\ LoadInv'
           /\ \A kinds \in SUBSET Kinds :
                 kinds \cap LoadKinds = {} /\ Agrees(running, kinds) => Kept(kinds)
<1> DEFINE cut == CutLoad(running)
<1>1. /\ cut \in [Slots -> InFlight] /\ \E i \in Slots : cut[i] = Idle
      /\ \A i \in Slots : cut[i].kind \in LoadKinds => ~ cut[i].live
      /\ \A kinds \in SUBSET Kinds :
            kinds \cap LoadKinds = {} /\ Agrees(running, kinds) => Agrees(cut, kinds)
  BY CutsLoads
<1>2. /\ requestID + 1 \in Nat /\ cmds' = Launch(cut, Command("load", requestID + 1, NoMachine, {}))
      /\ requestID' = requestID + 1 /\ loadCancel' = requestID + 1
      /\ loading' = TRUE /\ checking' = FALSE
  BY DEF BeginRefresh, DeskTypeOK
<1> HIDE DEF cut
<1>3. /\ cmds' \in [Slots -> InFlight]
      /\ \E i \in Slots :
            /\ cut[i] = Idle
            /\ cmds'[i] = [kind |-> "load", id |-> requestID + 1, target |-> NoMachine,
                           live |-> TRUE, left |-> {}]
            /\ \A j \in Slots \ {i} : cmds'[j] = cut[j]
      /\ \A kinds \in SUBSET Kinds : "load" \notin kinds /\ Agrees(cut, kinds) => Kept(kinds)
  <2>1. "load" \in Kinds /\ NoMachine \in Machines \cup {NoMachine} /\ {} \in SUBSET Machines
    BY DEF Kinds, LoadKinds
  <2> QED BY <1>1, <1>2, <2>1, Launching
<1>4. LoadInv'
  BY <1>1, <1>2, <1>3 DEF LoadInv
<1>5. "load" \in LoadKinds
  BY DEF LoadKinds
<1> QED BY <1>1, <1>2, <1>3, <1>4, <1>5

\* The next new host is prepared in place of the one before.
LEMMA PreparesNext ==
    ASSUME DeskTypeOK, NEW running \in [Slots -> InFlight], \E i \in Slots : running[i] = Idle,
           BeginAddFromLAN(running)
    PROVE  /\ cmds' \in [Slots -> InFlight] /\ lanPrepareID' \in Nat /\ lanPreparing' = TRUE
           /\ \E i \in Slots : cmds'[i].kind = "prepare" /\ cmds'[i].id = lanPrepareID'
           /\ \A kinds \in SUBSET Kinds : "prepare" \notin kinds /\ Agrees(running, kinds) => Kept(kinds)
           /\ \A i \in Slots : running[i].kind \in SaveKinds => cmds'[i] = running[i]
<1>1. "prepare" \in Kinds /\ NoMachine \in Machines \cup {NoMachine} /\ {} \in SUBSET Machines
  BY DEF Kinds
<1>2. /\ lanPrepareID + 1 \in Nat /\ lanPrepareID' = lanPrepareID + 1 /\ lanPreparing' = TRUE
      /\ cmds' = Launch(running, Command("prepare", lanPrepareID + 1, NoMachine, {}))
  BY DEF BeginAddFromLAN, DeskTypeOK
<1>3. /\ cmds' \in [Slots -> InFlight]
      /\ \E i \in Slots :
            /\ running[i] = Idle
            /\ cmds'[i] = [kind |-> "prepare", id |-> lanPrepareID + 1, target |-> NoMachine,
                           live |-> TRUE, left |-> {}]
            /\ \A j \in Slots \ {i} : cmds'[j] = running[j]
      /\ \A kinds \in SUBSET Kinds : "prepare" \notin kinds /\ Agrees(running, kinds) => Kept(kinds)
  BY <1>1, <1>2, Launching
<1>4. Idle.kind \notin SaveKinds
  BY DEF Idle, SaveKinds
<1> QED BY <1>2, <1>3, <1>4

-----------------------------------------------------------------------------
(* One lemma for each key.                                                 *)

\* Keys that only open or close something on the screen.
LEMMA ScreenKeysInv ==
    ASSUME DeskInv,
           \/ OpenPicker \/ ClosePicker \/ BeginEditForm \/ LeaveForm
           \/ BeginDelete \/ DeleteCancelled
           \/ CloseLAN \/ ShowKnownHost \/ CancelPreparation
           \/ \E d \in devices : BeginShutdownForm(d)
    PROVE  DeskInv'
<1> USE DEF DeskInv
<1> DEFINE screen == <<picker, form, confirm, lanOpen, lanID, lanFound, lanPreparing, lanPrepareID, lanQueue>>
<1>1. /\ UNCHANGED <<loadVars, actionVars, batchVars, cmds>>
      /\ form' \in [kind: {"none", "edit", "power"}, target: Machines \cup {NoMachine}, saving: BOOLEAN]
      /\ form'.saving => form.saving
      /\ lanPreparing' \in BOOLEAN /\ lanPrepareID' \in Nat /\ lanID' \in Nat
      /\ lanPreparing' => lanPreparing /\ lanPrepareID' = lanPrepareID
  <2>1. CASE OpenPicker
    BY <2>1 DEF DeskTypeOK, lanVars, modeVars, OpenPicker
  <2>2. CASE ClosePicker
    BY <2>2 DEF DeskTypeOK, lanVars, modeVars, ClosePicker
  <2>3. CASE BeginEditForm
    BY <2>3 DEF DeskTypeOK, lanVars, modeVars, BeginEditForm, Form
  <2>4. CASE LeaveForm
    BY <2>4 DEF DeskTypeOK, lanVars, modeVars, LeaveForm, NoForm
  <2>5. CASE BeginDelete
    BY <2>5 DEF DeskTypeOK, lanVars, modeVars, BeginDelete
  <2>6. CASE DeleteCancelled
    BY <2>6 DEF DeskTypeOK, lanVars, modeVars, DeleteCancelled
  <2>7. CASE CloseLAN
    BY <2>7 DEF DeskTypeOK, lanVars, modeVars, CloseLAN
  <2>8. CASE ShowKnownHost
    BY <2>8 DEF DeskTypeOK, lanVars, modeVars, ShowKnownHost
  <2>9. CASE CancelPreparation
    <3>1. lanPreparing' = FALSE /\ lanPrepareID' \in Nat
      BY <2>9 DEF DeskTypeOK, CancelPreparation
    <3> QED BY <2>9, <3>1 DEF DeskTypeOK, modeVars, CancelPreparation
  <2>10. CASE \E d \in devices : BeginShutdownForm(d)
    BY <2>10 DEF DeskTypeOK, lanVars, modeVars, BeginShutdownForm, Form
  <2> QED BY <2>1, <2>2, <2>3, <2>4, <2>5, <2>6, <2>7, <2>8, <2>9, <2>10
<1>2. ASSUME NEW kinds PROVE Kept(kinds)
  BY <1>1, AgreesSelf DEF Kept, Agrees
<1>3. DeskTypeOK'
  BY <1>1 DEF DeskTypeOK, loadVars, actionVars, batchVars
<1>4. LoadInv'
  BY <1>1, <1>2, LoadFrame DEF loadVars
<1>5. ActionInv'
  BY <1>1, <1>2, ActionFrame DEF actionVars
<1>6. FormInv'
  BY <1>1, <1>2, FormFrame
<1>7. BatchInv'
  BY <1>1, <1>2, BatchFrame
<1> QED BY <1>3, <1>4, <1>5, <1>6, <1>7

\* A deletion is in flight, and nothing else changes.
LEMMA DeleteConfirmedInv ==
    ASSUME DeskInv, DeleteConfirmed
    PROVE  DeskInv'
<1> USE DEF DeskInv, DeleteConfirmed, Within
<1>1. /\ "delete" \in Kinds /\ cmds \in [Slots -> InFlight]
      /\ NoMachine \in Machines \cup {NoMachine} /\ {} \in SUBSET Machines
  BY DEF Kinds, SaveKinds, DeskTypeOK
<1>2. /\ cmds' \in [Slots -> InFlight]
      /\ \E i \in Slots : /\ cmds[i] = Idle /\ cmds'[i].kind = "delete"
                          /\ \A j \in Slots \ {i} : cmds'[j] = cmds[j]
      /\ \A kinds \in SUBSET Kinds : "delete" \notin kinds => Kept(kinds)
  <2>1. cmds' = Launch(cmds, Command("delete", 0, NoMachine, {})) /\ \E i \in Slots : cmds[i] = Idle
    OBVIOUS
  <2>2. /\ cmds' \in [Slots -> InFlight]
        /\ \E i \in Slots :
              /\ cmds[i] = Idle
              /\ cmds'[i] = [kind |-> "delete", id |-> 0, target |-> NoMachine, live |-> TRUE, left |-> {}]
              /\ \A j \in Slots \ {i} : cmds'[j] = cmds[j]
        /\ \A kinds \in SUBSET Kinds : "delete" \notin kinds /\ Agrees(cmds, kinds) => Kept(kinds)
    <3> HIDE DEF DeleteConfirmed
    <3> QED BY <1>1, <2>1, Launching
  <2> QED BY <2>2, AgreesSelf
<1>3. DeskTypeOK'
  BY <1>2 DEF DeskTypeOK, loadVars, actionVars, lanVars, batchVars
<1>4. LoadInv'
  BY <1>2, LoadFrame DEF loadVars, LoadKinds, Kinds
<1>5. ActionInv'
  BY <1>2, ActionFrame DEF actionVars, ActionKinds, Kinds
<1>6. FormInv'
  BY <1>2 DEF FormInv, lanVars, Idle, SaveKinds
<1>7. BatchInv'
  BY <1>2, BatchFrame DEF Kinds
<1> QED BY <1>3, <1>4, <1>5, <1>6, <1>7

\* A discovery is in flight, and nothing else changes.
LEMMA BeginLANDiscoverInv ==
    ASSUME DeskInv, BeginLANDiscover
    PROVE  DeskInv'
<1> USE DEF DeskInv, BeginLANDiscover, Within
<1>1. /\ "discover" \in Kinds /\ cmds \in [Slots -> InFlight] /\ lanID + 1 \in Nat
      /\ NoMachine \in Machines \cup {NoMachine} /\ {} \in SUBSET Machines
  BY DEF Kinds, DeskTypeOK
<1>2. /\ cmds' \in [Slots -> InFlight]
      /\ \A kinds \in SUBSET Kinds : "discover" \notin kinds => Kept(kinds)
  BY <1>1, Launching, AgreesSelf
<1>3. DeskTypeOK'
  BY <1>1, <1>2 DEF DeskTypeOK, loadVars, actionVars, modeVars, batchVars
<1>4. LoadInv'
  BY <1>2, LoadFrame DEF loadVars, LoadKinds, Kinds
<1>5. ActionInv'
  BY <1>2, ActionFrame DEF actionVars, ActionKinds, Kinds
<1>6. FormInv'
  BY <1>2, FormFrame DEF modeVars, SaveKinds, Kinds
<1>7. BatchInv'
  BY <1>2, BatchFrame DEF Kinds
<1> QED BY <1>3, <1>4, <1>5, <1>6, <1>7

\* The form is saved by a command that is in flight.
LEMMA SaveFormInv ==
    ASSUME DeskInv, SaveForm
    PROVE  DeskInv'
<1> USE DEF DeskInv, SaveForm, Within
<1> DEFINE kind == IF form.kind = "power" THEN "savePower" ELSE "saveEdit"
<1>1. /\ kind \in SaveKinds /\ kind \in Kinds /\ cmds \in [Slots -> InFlight]
      /\ form.target \in Machines \cup {NoMachine} /\ {} \in SUBSET Machines
      /\ form' \in [kind: {"none", "edit", "power"}, target: Machines \cup {NoMachine}, saving: BOOLEAN]
  BY DEF Kinds, SaveKinds, DeskTypeOK
<1> HIDE DEF kind
<1>2. /\ cmds' \in [Slots -> InFlight]
      /\ \E i \in Slots : /\ cmds[i] = Idle /\ cmds'[i].kind = kind
                          /\ \A j \in Slots \ {i} : cmds'[j] = cmds[j]
      /\ \A kinds \in SUBSET Kinds : kind \notin kinds => Kept(kinds)
  <2>1. cmds' = Launch(cmds, Command(kind, 0, form.target, {}))
    BY DEF kind
  <2>2. /\ cmds' \in [Slots -> InFlight]
        /\ \E i \in Slots :
              /\ cmds[i] = Idle
              /\ cmds'[i] = [kind |-> kind, id |-> 0, target |-> form.target, live |-> TRUE, left |-> {}]
              /\ \A j \in Slots \ {i} : cmds'[j] = cmds[j]
        /\ \A kinds \in SUBSET Kinds : kind \notin kinds /\ Agrees(cmds, kinds) => Kept(kinds)
    <3>1. \E i \in Slots : cmds[i] = Idle
      OBVIOUS
    <3> HIDE DEF SaveForm
    <3> QED BY <1>1, <2>1, <3>1, Launching
  <2> QED BY <2>2, AgreesSelf
<1>3. DeskTypeOK'
  BY <1>1, <1>2 DEF DeskTypeOK, loadVars, actionVars, lanVars, batchVars
<1>4. LoadInv'
  BY <1>1, <1>2, LoadFrame DEF loadVars, LoadKinds, SaveKinds, Kinds
<1>5. ActionInv'
  BY <1>1, <1>2, ActionFrame DEF actionVars, ActionKinds, SaveKinds, Kinds
<1>6. FormInv'
  BY <1>1, <1>2 DEF FormInv, lanVars, Idle, SaveKinds
<1>7. BatchInv'
  BY <1>1, <1>2, BatchFrame DEF SaveKinds, Kinds
<1> QED BY <1>3, <1>4, <1>5, <1>6, <1>7

\* A refresh replaces the check that is under way, if there is one.
LEMMA RefreshInv ==
    ASSUME DeskInv, Refresh
    PROVE  DeskInv'
<1> USE DEF DeskInv
<1>1. /\ \E i \in Slots : cmds[i] = Idle
      /\ \E toPhase \in {"boot", "ready"} : BeginRefresh(cmds, toPhase)
      /\ UNCHANGED <<actionVars, modeVars, lanVars, batchVars>>
  BY DEF Refresh, Within
<1>2. PICK toPhase \in {"boot", "ready"} : BeginRefresh(cmds, toPhase)
  BY <1>1
<1>3. /\ cmds' \in [Slots -> InFlight] /\ requestID' \in Nat /\ LoadInv'
      /\ \A kinds \in SUBSET Kinds : kinds \cap LoadKinds = {} => Kept(kinds)
  <2>1. cmds \in [Slots -> InFlight]
    BY DEF DeskTypeOK
  <2> QED BY <1>1, <1>2, <2>1, RefreshLoads, AgreesSelf
<1>4. DeskTypeOK'
  <2>1. /\ phase' \in {"boot", "ready", "error"} /\ loading' \in BOOLEAN /\ checking' \in BOOLEAN
        /\ devices' \subseteq Machines
    BY <1>2 DEF BeginRefresh, DeskTypeOK
  <2> QED BY <1>1, <1>3, <2>1, LoadTypes DEF modeVars
<1>5. ActionInv'
  BY <1>1, <1>3, ActionFrame DEF actionVars, ActionKinds, LoadKinds, Kinds
<1>6. FormInv'
  BY <1>1, <1>3, FormFrame DEF modeVars, lanVars, SaveKinds, LoadKinds, Kinds
<1>7. BatchInv'
  BY <1>1, <1>3, BatchFrame DEF LoadKinds, Kinds
<1> QED BY <1>3, <1>4, <1>5, <1>6, <1>7

\* A probe takes the place of what is being loaded.
LEMMA ProbeInv ==
    ASSUME DeskInv, NEW d \in devices, Probe(d)
    PROVE  DeskInv'
<1> USE DEF DeskInv
<1> DEFINE cut == CutLoad(cmds)
<1>1. /\ cut \in [Slots -> InFlight] /\ \E i \in Slots : cut[i] = Idle
      /\ \A i \in Slots : cut[i].kind \in LoadKinds => ~ cut[i].live
      /\ \A kinds \in SUBSET Kinds : kinds \cap LoadKinds = {} => Agrees(cut, kinds)
  <2>1. cmds \in [Slots -> InFlight] /\ \E i \in Slots : cmds[i] = Idle
    BY DEF DeskTypeOK, Probe, Within
  <2> QED BY <2>1, CutsLoads, AgreesSelf
<1>2. /\ cmds' = Launch(cut, Command("probe", requestID + 1, d, {}))
      /\ UNCHANGED <<devices, actionVars, form, confirm, lanVars, batchVars>>
      /\ phase' = "ready" /\ loading' = FALSE /\ checking' = TRUE
      /\ requestID' = requestID + 1 /\ loadCancel' = requestID + 1
  BY DEF Probe
<1> HIDE DEF cut
<1>3. /\ cmds' \in [Slots -> InFlight]
      /\ \E i \in Slots :
            /\ cut[i] = Idle
            /\ cmds'[i] = [kind |-> "probe", id |-> requestID + 1, target |-> d, live |-> TRUE, left |-> {}]
            /\ \A j \in Slots \ {i} : cmds'[j] = cut[j]
      /\ \A kinds \in SUBSET Kinds : "probe" \notin kinds /\ Agrees(cut, kinds) => Kept(kinds)
  <2>1. /\ "probe" \in Kinds /\ requestID + 1 \in Nat
        /\ d \in Machines \cup {NoMachine} /\ {} \in SUBSET Machines
    BY DEF Kinds, LoadKinds, DeskTypeOK
  <2> QED BY <1>1, <1>2, <2>1, Launching
<1>4. \A kinds \in SUBSET Kinds : kinds \cap LoadKinds = {} => Kept(kinds)
  BY <1>1, <1>3 DEF LoadKinds
<1>5. DeskTypeOK'
  <2>1. requestID' \in Nat /\ devices' \subseteq Machines
    BY <1>2 DEF DeskTypeOK
  <2> QED BY <1>2, <1>3, <2>1, LoadTypes
<1>6. LoadInv'
  BY <1>1, <1>2, <1>3 DEF LoadInv
<1>7. ActionInv'
  BY <1>2, <1>4, ActionFrame DEF actionVars, ActionKinds, LoadKinds, Kinds
<1>8. FormInv'
  BY <1>2, <1>4, FormFrame DEF lanVars, SaveKinds, LoadKinds, Kinds
<1>9. BatchInv'
  BY <1>2, <1>4, BatchFrame DEF LoadKinds, Kinds
<1> QED BY <1>5, <1>6, <1>7, <1>8, <1>9

\* Nothing is loaded or checked any more, and what was is cancelled.
LEMMA CancelCheckInv ==
    ASSUME DeskInv, CancelCheck
    PROVE  DeskInv'
<1> USE DEF DeskInv
<1>1. /\ cmds' = CutLoad(cmds)
      /\ UNCHANGED <<devices, actionVars, modeVars, lanVars, batchVars>>
      /\ phase' = "ready" /\ loading' = FALSE /\ checking' = FALSE /\ requestID' = requestID + 1
  BY DEF CancelCheck, CancelLoading
<1>2. /\ cmds' \in [Slots -> InFlight]
      /\ \A i \in Slots : cmds'[i].kind \in LoadKinds => ~ cmds'[i].live
      /\ \A kinds \in SUBSET Kinds : kinds \cap LoadKinds = {} => Kept(kinds)
  <2>1. cmds \in [Slots -> InFlight]
    BY DEF DeskTypeOK
  <2> QED BY <1>1, <2>1, CutsLoads, AgreesSelf DEF Kept
<1>3. DeskTypeOK'
  <2>1. requestID' \in Nat /\ devices' \subseteq Machines
    BY <1>1 DEF DeskTypeOK
  <2> QED BY <1>1, <1>2, <2>1, LoadTypes DEF modeVars
<1>4. LoadInv'
  BY <1>1, <1>2 DEF LoadInv
<1>5. ActionInv'
  BY <1>1, <1>2, ActionFrame DEF actionVars, ActionKinds, LoadKinds, Kinds
<1>6. FormInv'
  BY <1>1, <1>2, FormFrame DEF modeVars, lanVars, SaveKinds, LoadKinds, Kinds
<1>7. BatchInv'
  BY <1>1, <1>2, BatchFrame DEF LoadKinds, Kinds
<1> QED BY <1>3, <1>4, <1>5, <1>6, <1>7

\* The form of the first chosen host is being prepared.
LEMMA AddSelectedLANHostInv ==
    ASSUME DeskInv, AddSelectedLANHost
    PROVE  DeskInv'
<1> USE DEF DeskInv
<1>1. /\ \E i \in Slots : cmds[i] = Idle
      /\ BeginAddFromLAN(cmds)
      /\ UNCHANGED <<loadVars, actionVars, modeVars, batchVars>>
  BY DEF AddSelectedLANHost, Within
<1>2. /\ cmds' \in [Slots -> InFlight] /\ lanPrepareID' \in Nat /\ lanPreparing' = TRUE
      /\ \E i \in Slots : cmds'[i].kind = "prepare" /\ cmds'[i].id = lanPrepareID'
      /\ \A kinds \in SUBSET Kinds : "prepare" \notin kinds => Kept(kinds)
      /\ \A i \in Slots : cmds[i].kind \in SaveKinds => cmds'[i] = cmds[i]
  <2>1. cmds \in [Slots -> InFlight]
    BY DEF DeskTypeOK
  <2> QED BY <1>1, <2>1, PreparesNext, AgreesSelf
<1>3. DeskTypeOK'
  BY <1>1, <1>2 DEF DeskTypeOK, BeginAddFromLAN, loadVars, actionVars, modeVars, batchVars
<1>4. LoadInv'
  BY <1>1, <1>2, LoadFrame DEF loadVars, LoadKinds, Kinds
<1>5. ActionInv'
  BY <1>1, <1>2, ActionFrame DEF actionVars, ActionKinds, Kinds
<1>6. FormInv'
  BY <1>1, <1>2 DEF FormInv, modeVars
<1>7. BatchInv'
  BY <1>1, <1>2, BatchFrame DEF Kinds
<1> QED BY <1>3, <1>4, <1>5, <1>6, <1>7

\* A machine action begins only where none is in progress, with a new identifier.
LEMMA BeginActionStarts ==
    ASSUME DeskInv, NEW kind \in ActionKinds, NEW d \in devices, BeginAction(kind, d)
    PROVE  /\ cmds' \in [Slots -> InFlight] /\ actionID' \in Nat /\ actionTarget' \in Machines
           /\ OneCommandEach'
           /\ ~ waking /\ ~ opening /\ ~ shuttingDown'
           /\ \E i \in Slots : /\ cmds'[i].kind \in ActionKinds
                               /\ cmds'[i].id = actionID' /\ cmds'[i].target = actionTarget'
           /\ \A kinds \in SUBSET Kinds : kinds \cap ActionKinds = {} => Kept(kinds)
<1> USE DEF DeskInv
<1>1. /\ \E i \in Slots : cmds[i] = Idle
      /\ ~ waking /\ ~ opening /\ ~ shuttingDown /\ shuttingDown' = shuttingDown
      /\ actionID' = actionID + 1 /\ actionTarget' = d
      /\ cmds' = Launch(cmds, Command(kind, actionID + 1, d, {}))
  BY DEF BeginAction, Within, Acting
<1>2. /\ kind \in Kinds /\ actionID + 1 \in Nat /\ d \in Machines /\ d \in Machines \cup {NoMachine}
      /\ {} \in SUBSET Machines /\ cmds \in [Slots -> InFlight]
  BY DEF Kinds, DeskTypeOK
<1>3. /\ cmds' \in [Slots -> InFlight]
      /\ \E i \in Slots :
            /\ cmds[i] = Idle
            /\ cmds'[i] = [kind |-> kind, id |-> actionID + 1, target |-> d, live |-> TRUE, left |-> {}]
            /\ \A j \in Slots \ {i} : cmds'[j] = cmds[j]
      /\ \A kinds \in SUBSET Kinds : kind \notin kinds /\ Agrees(cmds, kinds) => Kept(kinds)
  BY <1>1, <1>2, Launching
<1>4. OneCommandEach'
  <2>1. PICK k \in Slots :
          /\ cmds'[k].id = actionID + 1
          /\ \A j \in Slots \ {k} : cmds'[j] = cmds[j]
    BY <1>3
  <2>2. \A i \in Slots : cmds[i].kind \in ActionKinds => cmds[i].id \in Nat /\ cmds[i].id <= actionID
    BY <1>2 DEF ActionInv, OneCommandEach, InFlight
  <2>3. actionID \in Nat
    BY DEF DeskTypeOK
  <2> QED BY <1>1, <2>1, <2>2, <2>3 DEF ActionInv, OneCommandEach
<1> QED BY <1>1, <1>2, <1>3, <1>4, AgreesSelf

\* A wake begins.
LEMMA BeginWakeInv ==
    ASSUME DeskInv, NEW d \in devices, BeginWake(d)
    PROVE  DeskInv'
<1> USE DEF DeskInv
<1>1. /\ BeginAction("wake", d) /\ "wake" \in ActionKinds
      /\ waking' = TRUE /\ opening' = opening
      /\ UNCHANGED <<loadVars, form, confirm, lanVars, batchVars>>
  BY DEF BeginWake, BeginAction, ActionKinds
<1>2. /\ cmds' \in [Slots -> InFlight] /\ actionID' \in Nat /\ actionTarget' \in Machines
      /\ OneCommandEach'
      /\ ~ waking /\ ~ opening /\ ~ shuttingDown'
      /\ \E i \in Slots : /\ cmds'[i].kind \in ActionKinds
                          /\ cmds'[i].id = actionID' /\ cmds'[i].target = actionTarget'
      /\ \A kinds \in SUBSET Kinds : kinds \cap ActionKinds = {} => Kept(kinds)
  BY <1>1, BeginActionStarts
<1>3. DeskTypeOK'
  <2>1. /\ shuttingDown' \in BOOLEAN /\ waking' \in BOOLEAN /\ opening' \in BOOLEAN
        /\ actionTarget' \in Machines \cup {NoMachine}
    BY <1>1, <1>2 DEF BeginAction, DeskTypeOK
  <2> QED BY <1>1, <1>2, <2>1, ActionTypes
<1>4. LoadInv'
  BY <1>1, <1>2, LoadFrame DEF loadVars, LoadKinds, ActionKinds, Kinds
<1>5. ActionInv'
  BY <1>1, <1>2 DEF ActionInv
<1>6. FormInv'
  BY <1>1, <1>2, FormFrame DEF lanVars, SaveKinds, ActionKinds, Kinds
<1>7. BatchInv'
  BY <1>1, <1>2, BatchFrame DEF ActionKinds, Kinds
<1> QED BY <1>3, <1>4, <1>5, <1>6, <1>7

\* The opening of a remote begins.
LEMMA BeginWakeAndRemoteInv ==
    ASSUME DeskInv, NEW d \in devices, BeginWakeAndRemote(d)
    PROVE  DeskInv'
<1> USE DEF DeskInv
<1>1. /\ BeginAction("open", d) /\ "open" \in ActionKinds
      /\ opening' = TRUE /\ waking' = waking
      /\ UNCHANGED <<loadVars, form, confirm, lanVars, batchVars>>
  BY DEF BeginWakeAndRemote, BeginAction, ActionKinds
<1>2. /\ cmds' \in [Slots -> InFlight] /\ actionID' \in Nat /\ actionTarget' \in Machines
      /\ OneCommandEach'
      /\ ~ waking /\ ~ opening /\ ~ shuttingDown'
      /\ \E i \in Slots : /\ cmds'[i].kind \in ActionKinds
                          /\ cmds'[i].id = actionID' /\ cmds'[i].target = actionTarget'
      /\ \A kinds \in SUBSET Kinds : kinds \cap ActionKinds = {} => Kept(kinds)
  BY <1>1, BeginActionStarts
<1>3. DeskTypeOK'
  <2>1. /\ shuttingDown' \in BOOLEAN /\ waking' \in BOOLEAN /\ opening' \in BOOLEAN
        /\ actionTarget' \in Machines \cup {NoMachine}
    BY <1>1, <1>2 DEF BeginAction, DeskTypeOK
  <2> QED BY <1>1, <1>2, <2>1, ActionTypes
<1>4. LoadInv'
  BY <1>1, <1>2, LoadFrame DEF loadVars, LoadKinds, ActionKinds, Kinds
<1>5. ActionInv'
  BY <1>1, <1>2 DEF ActionInv
<1>6. FormInv'
  BY <1>1, <1>2, FormFrame DEF lanVars, SaveKinds, ActionKinds, Kinds
<1>7. BatchInv'
  BY <1>1, <1>2, BatchFrame DEF ActionKinds, Kinds
<1> QED BY <1>3, <1>4, <1>5, <1>6, <1>7

\* No action is awaited any more, and what was is cancelled.
LEMMA CancelActionInv ==
    ASSUME DeskInv, CancelAction
    PROVE  DeskInv'
<1> USE DEF DeskInv
<1>1. /\ cmds' = Cut(cmds, ActionKinds, actionCancel) /\ cmds \in [Slots -> InFlight]
      /\ UNCHANGED <<loadVars, modeVars, lanVars, batchVars>>
      /\ waking' = FALSE /\ opening' = FALSE /\ shuttingDown' = FALSE
      /\ actionID' = actionID + 1 /\ actionTarget' = NoMachine
  BY DEF CancelAction, CutAction, FinishAction, DeskTypeOK
<1>2. /\ cmds' \in [Slots -> InFlight]
      /\ \A i \in Slots : cmds'[i].kind = cmds[i].kind /\ cmds'[i].id = cmds[i].id
  BY <1>1, CutLemma
<1>3. ASSUME NEW kinds \in SUBSET Kinds, kinds \cap ActionKinds = {}
      PROVE  Kept(kinds)
  <2>1. ActionKinds \in SUBSET Kinds
    BY DEF Kinds
  <2> QED BY <1>1, <1>3, <2>1, AgreesCut, AgreesSelf DEF Kept
<1>4. DeskTypeOK'
  <2>1. /\ shuttingDown' \in BOOLEAN /\ waking' \in BOOLEAN /\ opening' \in BOOLEAN
        /\ actionTarget' \in Machines \cup {NoMachine} /\ form' = form
    BY <1>1 DEF modeVars
  <2>2. actionID' \in Nat
    BY <1>1 DEF DeskTypeOK
  <2> QED BY <1>1, <1>2, <2>1, <2>2, ActionTypes
<1>5. LoadInv'
  BY <1>1, <1>3, LoadFrame DEF loadVars, LoadKinds, ActionKinds, Kinds
<1>6. ActionInv'
  <2>1. OneCommandEach'
    BY <1>1, <1>2 DEF ActionInv, OneCommandEach, DeskTypeOK, InFlight
  <2> QED BY <1>1, <2>1 DEF ActionInv
<1>7. FormInv'
  BY <1>1, <1>3, FormFrame DEF modeVars, lanVars, SaveKinds, ActionKinds, Kinds
<1>8. BatchInv'
  BY <1>1, <1>3, BatchFrame DEF ActionKinds, Kinds
<1> QED BY <1>4, <1>5, <1>6, <1>7, <1>8

\* What no batch key changes, when nothing new is in flight.
LEMMA BatchKeysKeep ==
    ASSUME DeskInv, UNCHANGED <<loadVars, actionVars, modeVars, lanVars, cmds>>
    PROVE  LoadInv' /\ ActionInv' /\ FormInv'
<1> USE DEF DeskInv
<1>1. ASSUME NEW kinds PROVE Kept(kinds)
  BY AgreesSelf DEF Kept, Agrees
<1>2. LoadInv'
  BY <1>1, LoadFrame DEF loadVars
<1>3. ActionInv'
  BY <1>1, ActionFrame DEF actionVars
<1>4. FormInv'
  BY <1>1, FormFrame DEF modeVars, lanVars
<1> QED BY <1>2, <1>3, <1>4

\* Of the machines marked by hand nothing was said since.
LEMMA PrepareBatchInv ==
    ASSUME DeskInv, NEW kind \in {"wake", "check"}, NEW targets \in SUBSET devices,
           PrepareBatch(kind, targets)
    PROVE  DeskInv'
<1> USE DEF DeskInv
<1>1. /\ UNCHANGED <<loadVars, actionVars, modeVars, lanVars, batchRunning, batchID, batchCancel,
                     batchResults, lastBatchKind, cmds>>
      /\ ~ batchRunning /\ saidSent' = saidSent \ targets /\ batchKind' = kind /\ batchTargets' = targets
  BY DEF PrepareBatch
<1>2. DeskTypeOK'
  <2>1. batchTargets' \subseteq Machines /\ batchKind' \in {"none", "wake", "check"}
    BY <1>1 DEF DeskTypeOK
  <2> QED BY <1>1, <2>1, BatchTypes DEF DeskTypeOK
<1>3. LoadInv' /\ ActionInv' /\ FormInv'
  BY <1>1, BatchKeysKeep
<1>4. BatchInv'
  <2>1. OneReader'
    BY <1>1 DEF BatchInv, OneReader
  <2>2. (batchRunning => batchKind # "none" /\ lastBatchKind = batchKind)' /\ BatchAccounts'
    BY <1>1 DEF BatchAccounts
  <2>3. IsFiniteSet(Reported)' /\ SentIsSettled'
    BY <1>1 DEF BatchInv, Reported, SentIsSettled
  <2> QED BY <2>1, <2>2, <2>3 DEF BatchInv
<1> QED BY <1>2, <1>3, <1>4

\* Whatever a retry marks was not said to be sent its packet: its result tells.
LEMMA RetryBatchInv ==
    ASSUME DeskInv, RetryBatch
    PROVE  DeskInv'
<1> USE DEF DeskInv
<1> DEFINE marked == {batchResults[i].device : i \in
                        {j \in DOMAIN batchResults : batchResults[j].status \notin {"sent", "online"}}}
<1>1. /\ UNCHANGED <<loadVars, actionVars, modeVars, lanVars, batchRunning, batchID, batchCancel,
                     batchResults, lastBatchKind, saidSent, cmds>>
      /\ ~ batchRunning /\ batchTargets' = marked \cap devices
  BY DEF RetryBatch
<1>2. DeskTypeOK'
  <2>1. batchTargets' \subseteq Machines
    BY <1>1 DEF DeskTypeOK
  <2>2. batchKind' \in {"none", "wake", "check"}
    BY DEF RetryBatch, DeskTypeOK
  <2> QED BY <1>1, <2>1, <2>2, BatchTypes DEF DeskTypeOK
<1>3. LoadInv' /\ ActionInv' /\ FormInv'
  BY <1>1, BatchKeysKeep
<1>4. BatchInv'
  <2>1. OneReader'
    BY <1>1 DEF BatchInv, OneReader
  <2>2. (batchRunning => batchKind # "none" /\ lastBatchKind = batchKind)' /\ BatchAccounts'
    BY <1>1 DEF BatchAccounts
  <2>3. marked \cap saidSent = {}
    BY DEF BatchInv, SentIsSettled
  <2>4. IsFiniteSet(Reported)' /\ SentIsSettled'
    BY <1>1, <2>3 DEF BatchInv, Reported, SentIsSettled
  <2> QED BY <2>1, <2>2, <2>4 DEF BatchInv
<1> QED BY <1>2, <1>3, <1>4

\* Nothing is reviewed any more.
LEMMA DropBatchInv ==
    ASSUME DeskInv, DropBatch
    PROVE  DeskInv'
<1> USE DEF DeskInv
<1>1. /\ UNCHANGED <<loadVars, actionVars, modeVars, lanVars, batchRunning, batchID, batchCancel,
                     batchResults, lastBatchKind, saidSent, cmds>>
      /\ ~ batchRunning /\ batchKind' = "none" /\ batchTargets' = {}
  BY DEF DropBatch, Reviewing
<1>2. DeskTypeOK'
  BY <1>1, BatchTypes DEF DeskTypeOK
<1>3. LoadInv' /\ ActionInv' /\ FormInv'
  BY <1>1, BatchKeysKeep
<1>4. BatchInv'
  <2>1. OneReader'
    BY <1>1 DEF BatchInv, OneReader
  <2>2. (batchRunning => batchKind # "none" /\ lastBatchKind = batchKind)' /\ BatchAccounts'
    BY <1>1 DEF BatchAccounts
  <2>3. IsFiniteSet(Reported)' /\ SentIsSettled'
    BY <1>1 DEF BatchInv, Reported, SentIsSettled
  <2> QED BY <2>1, <2>2, <2>3 DEF BatchInv
<1> QED BY <1>2, <1>3, <1>4

\* A batch begins with all its machines still to be reported, and its reader.
LEMMA StartBatchInv ==
    ASSUME DeskInv, StartBatch
    PROVE  DeskInv'
<1> USE DEF DeskInv
<1> DEFINE cut == CutLoad(cmds)
<1>1. /\ cut \in [Slots -> InFlight] /\ \E i \in Slots : cut[i] = Idle
      /\ \A i \in Slots : cut[i].kind \in LoadKinds => ~ cut[i].live
      /\ \A kinds \in SUBSET Kinds : kinds \cap LoadKinds = {} => Agrees(cut, kinds)
  <2>1. cmds \in [Slots -> InFlight] /\ \E i \in Slots : cmds[i] = Idle
    BY DEF DeskTypeOK, StartBatch, Within
  <2> QED BY <2>1, CutsLoads, AgreesSelf
<1>2. /\ cmds' = Launch(cut, Command("batch", batchID + 1, NoMachine, batchTargets))
      /\ UNCHANGED <<devices, actionVars, modeVars, lanVars, batchKind, batchTargets, saidSent>>
      /\ phase' = "ready" /\ loading' = FALSE /\ checking' = FALSE /\ requestID' = requestID + 1
      /\ ~ batchRunning /\ batchKind # "none"
      /\ batchRunning' = TRUE /\ lastBatchKind' = batchKind
      /\ batchID' = batchID + 1 /\ batchCancel' = batchID + 1 /\ batchResults' = <<>>
  BY DEF StartBatch, CancelLoading, Reviewing
<1> HIDE DEF cut
<1>3. /\ "batch" \in Kinds /\ batchID \in Nat /\ batchID + 1 \in Nat
      /\ NoMachine \in Machines \cup {NoMachine} /\ batchTargets \in SUBSET Machines
  BY DEF Kinds, LoadKinds, DeskTypeOK
<1>4. /\ cmds' \in [Slots -> InFlight]
      /\ \E i \in Slots :
            /\ cut[i] = Idle
            /\ cmds'[i] = [kind |-> "batch", id |-> batchID + 1, target |-> NoMachine, live |-> TRUE,
                           left |-> batchTargets]
            /\ \A j \in Slots \ {i} : cmds'[j] = cut[j]
      /\ \A kinds \in SUBSET Kinds : "batch" \notin kinds /\ Agrees(cut, kinds) => Kept(kinds)
  BY <1>1, <1>2, <1>3, Launching
<1>5. \A kinds \in SUBSET Kinds : "batch" \notin kinds /\ kinds \cap LoadKinds = {} => Kept(kinds)
  BY <1>1, <1>4
<1>6. DeskTypeOK'
  <2>1. requestID' \in Nat /\ devices' \subseteq Machines
    BY <1>2 DEF DeskTypeOK
  <2>2. batchResults' \in Seq([device: Machines, status: Statuses])
    BY <1>2
  <2>3. phase' \in {"boot", "ready", "error"} /\ loading' \in BOOLEAN /\ checking' \in BOOLEAN
        /\ batchRunning' \in BOOLEAN
    BY <1>2
  <2> QED BY <1>2, <1>3, <1>4, <2>1, <2>2, <2>3 DEF DeskTypeOK, actionVars, modeVars, lanVars
<1>7. LoadInv'
  <2>1. "batch" \notin LoadKinds
    BY DEF LoadKinds
  <2> QED BY <1>1, <1>2, <1>4, <2>1 DEF LoadInv
<1>8. ActionInv'
  BY <1>2, <1>5, ActionFrame DEF actionVars, ActionKinds, LoadKinds, Kinds
<1>9. FormInv'
  BY <1>2, <1>5, FormFrame DEF modeVars, lanVars, SaveKinds, LoadKinds, Kinds
<1>10. BatchInv'
  <2>1. PICK k \in Slots :
           /\ cmds'[k] = [kind |-> "batch", id |-> batchID + 1, target |-> NoMachine, live |-> TRUE,
                          left |-> batchTargets]
           /\ \A j \in Slots \ {k} : cmds'[j] = cut[j]
    BY <1>4
  <2>2. \A j \in Slots \ {k} : cmds'[j].kind = "batch" => cmds'[j] = cmds[j]
    BY <1>1, <2>1 DEF Agrees, LoadKinds, Kinds
  <2>3. \A j \in Slots : cmds[j].kind = "batch" => ~ cmds[j].live /\ cmds[j].id \in Nat /\ cmds[j].id <= batchID
    BY <1>2 DEF BatchInv, OneReader, DeskTypeOK, InFlight
  <2>4. OneReader'
    <3>1. ASSUME NEW j \in Slots \ {k}, cmds'[j].kind = "batch"
          PROVE  ~ cmds'[j].live /\ cmds'[j].id \in Nat /\ cmds'[j].id <= batchID
                 /\ \A l \in Slots \ {j, k} : cmds'[l].kind = "batch" => cmds'[l].id # cmds'[j].id
      BY <2>2, <2>3, <3>1 DEF BatchInv, OneReader
    <3> QED BY <1>2, <1>3, <2>1, <3>1 DEF OneReader
  <2>5. Reported' = {}
    BY <1>2 DEF Reported
  <2>6. BatchAccounts'
    BY <1>2, <2>1, <2>5, FS_EmptySet DEF BatchAccounts
  <2>7. SentIsSettled'
    BY <1>2 DEF BatchInv, SentIsSettled
  <2> QED BY <1>2, <2>4, <2>5, <2>6, <2>7, FS_EmptySet DEF BatchInv
<1> QED BY <1>6, <1>7, <1>8, <1>9, <1>10

\* A cancelled batch is read on to its end.
LEMMA CancelBatchInv ==
    ASSUME DeskInv, CancelBatch
    PROVE  DeskInv'
<1> USE DEF DeskInv
<1>1. /\ cmds' = Cut(cmds, {"batch"}, batchCancel) /\ cmds \in [Slots -> InFlight]
      /\ UNCHANGED <<loadVars, actionVars, modeVars, lanVars, batchVars>>
      /\ {"batch"} \in SUBSET Kinds
  BY DEF CancelBatch, DeskTypeOK, Kinds
<1>2. /\ cmds' \in [Slots -> InFlight]
      /\ \A i \in Slots : /\ cmds'[i].kind = cmds[i].kind /\ cmds'[i].id = cmds[i].id
                          /\ cmds'[i].left = cmds[i].left
                          /\ cmds'[i].live => cmds[i].live
  BY <1>1, CutLemma
<1>3. ASSUME NEW kinds \in SUBSET Kinds, kinds \cap {"batch"} = {}
      PROVE  Kept(kinds)
  BY <1>1, <1>3, AgreesCut, AgreesSelf DEF Kept
<1>4. DeskTypeOK'
  BY <1>1, <1>2, BatchTypes DEF DeskTypeOK, batchVars
<1>5. LoadInv'
  BY <1>1, <1>3, LoadFrame DEF loadVars, LoadKinds, Kinds
<1>6. ActionInv'
  BY <1>1, <1>3, ActionFrame DEF actionVars, ActionKinds, Kinds
<1>7. FormInv'
  BY <1>1, <1>3, FormFrame DEF modeVars, lanVars, SaveKinds, Kinds
<1>8. BatchInv'
  <2>1. UNCHANGED <<batchRunning, batchTargets, batchID, batchCancel, batchResults>>
    BY <1>1 DEF batchVars
  <2>2. OneReader'
    <3>1. ASSUME NEW i \in Slots, cmds'[i].kind = "batch"
          PROVE  /\ cmds'[i].id <= batchID
                 /\ cmds'[i].id = batchID => batchRunning
                 /\ cmds'[i].live => cmds'[i].id = batchCancel /\ batchRunning
                 /\ \A j \in Slots \ {i} : cmds'[j].kind = "batch" => cmds'[j].id # cmds'[i].id
      BY <1>2, <3>1 DEF BatchInv, OneReader
    <3> QED BY <2>1, <3>1 DEF OneReader
  <2>3. BatchAccounts'
    <3>1. ASSUME batchRunning
          PROVE  \E i \in Slots :
                    /\ cmds'[i].kind = "batch" /\ cmds'[i].id = batchID
                    /\ cmds'[i].left \cap Reported = {} /\ cmds'[i].left \cup Reported = batchTargets
                    /\ Len(batchResults) = Cardinality(Reported)
      <4>1. PICK i \in Slots :
                    /\ cmds[i].kind = "batch" /\ cmds[i].id = batchID
                    /\ cmds[i].left \cap Reported = {} /\ cmds[i].left \cup Reported = batchTargets
                    /\ Len(batchResults) = Cardinality(Reported)
        BY <3>1 DEF BatchInv, BatchAccounts
      <4>2. cmds'[i].kind = cmds[i].kind /\ cmds'[i].id = cmds[i].id /\ cmds'[i].left = cmds[i].left
        BY <1>2
      <4> QED BY <4>1, <4>2
    <3> QED BY <2>1, <3>1 DEF BatchAccounts, Reported
  <2> QED BY <1>1, <2>2, <2>3 DEF BatchInv, SentIsSettled, Reported, batchVars
<1> QED BY <1>4, <1>5, <1>6, <1>7, <1>8

-----------------------------------------------------------------------------
(* One lemma for each kind of message.                                     *)

\* An answer that nobody waits for, or that changes nothing that is waited for.
LEMMA QuietAnswersInv ==
    ASSUME DeskInv, NEW i \in Slots, Ignore(i) \/ Discovered(i) \/ DiscoveryFailed(i)
    PROVE  DeskInv'
<1> USE DEF DeskInv
<1>1. /\ cmds' = Without(i)
      /\ cmds[i].kind = "discover" \/ Stale(cmds[i])
      /\ UNCHANGED <<phase, loading, checking, requestID, loadCancel, actionVars, modeVars, lanID,
                     lanPreparing, lanPrepareID, batchVars>>
  BY DEF Ignore, Discovered, DiscoveryFailed, loadVars, lanVars
<1>2. devices' \subseteq Machines
  BY DEF Ignore, Discovered, DiscoveryFailed, loadVars, DeskTypeOK
<1>3. ASSUME NEW kinds \in SUBSET Kinds, "discover" \notin kinds
      PROVE  Kept(kinds)
  BY <1>1, <1>3, AgreesWithout DEF Kept
<1>4. cmds' \in [Slots -> InFlight]
  BY <1>1, WithoutLemma
<1>5. DeskTypeOK'
  BY <1>1, <1>2, <1>4 DEF DeskTypeOK, actionVars, modeVars, batchVars
<1>6. LoadInv'
  BY <1>1, <1>3, LoadFrame DEF LoadKinds, Kinds
<1>7. ActionInv'
  BY <1>1, <1>3, ActionFrame DEF actionVars, ActionKinds, Kinds
<1>8. FormInv'
  BY <1>1, <1>3, FormFrame DEF modeVars, SaveKinds, Kinds
<1>9. BatchInv'
  BY <1>1, <1>3, BatchFrame DEF Kinds
<1> QED BY <1>5, <1>6, <1>7, <1>8, <1>9

\* The inventory is shown, and its machines are probed by one command.
LEMMA DataLoadedInv ==
    ASSUME DeskInv, NEW i \in Slots, DataLoaded(i)
    PROVE  DeskInv'
<1> USE DEF DeskInv
<1> DEFINE cut == CutLoad(Without(i))
<1>1. /\ cmds[i].kind = "load"
      /\ devices' \subseteq Machines /\ phase' = "ready" /\ loading' = FALSE
      /\ UNCHANGED <<requestID, actionVars, modeVars, lanVars, batchVars>>
      /\ \/ checking' = FALSE /\ cmds' = cut
         \/ /\ checking' = TRUE /\ loadCancel' = requestID
            /\ cmds' = Launch(cut, Command("scan", requestID, NoMachine, devices'))
  BY DEF DataLoaded
<1>2. /\ cut \in [Slots -> InFlight] /\ \E j \in Slots : cut[j] = Idle
      /\ \A j \in Slots : cut[j].kind \in LoadKinds => ~ cut[j].live
      /\ \A kinds \in SUBSET Kinds : kinds \cap LoadKinds = {} => Agrees(cut, kinds)
  <2>1. /\ Without(i) \in [Slots -> InFlight]
        /\ \E j \in Slots : Without(i)[j] = Idle
        /\ \A j \in Slots : Without(i)[j].kind \in LoadKinds => Without(i)[j] = cmds[j]
    <3>1. Idle.kind \notin LoadKinds
      BY DEF Idle, LoadKinds
    <3> QED BY <3>1, WithoutLemma
  <2>2. \A kinds \in SUBSET Kinds : kinds \cap LoadKinds = {} => Agrees(Without(i), kinds)
    BY <1>1, AgreesWithout DEF LoadKinds
  <2> QED BY <2>1, <2>2, CutsLoads
<1> HIDE DEF cut
<1>3. /\ cmds' \in [Slots -> InFlight] /\ LoadInv'
      /\ \A kinds \in SUBSET Kinds : kinds \cap LoadKinds = {} => Kept(kinds)
  <2>1. CASE checking' = FALSE /\ cmds' = cut
    BY <1>1, <1>2, <2>1 DEF LoadInv, Kept
  <2>2. CASE /\ checking' = TRUE /\ loadCancel' = requestID
             /\ cmds' = Launch(cut, Command("scan", requestID, NoMachine, devices'))
    <3>1. /\ "scan" \in Kinds /\ "scan" \in LoadKinds /\ requestID \in Nat
          /\ NoMachine \in Machines \cup {NoMachine} /\ devices' \in SUBSET Machines
      BY <1>1 DEF Kinds, LoadKinds, DeskTypeOK
    <3>2. /\ cmds' \in [Slots -> InFlight]
          /\ \E j \in Slots :
                /\ cut[j] = Idle
                /\ cmds'[j] = [kind |-> "scan", id |-> requestID, target |-> NoMachine, live |-> TRUE,
                               left |-> devices']
                /\ \A k \in Slots \ {j} : cmds'[k] = cut[k]
          /\ \A kinds \in SUBSET Kinds : "scan" \notin kinds /\ Agrees(cut, kinds) => Kept(kinds)
      BY <1>2, <2>2, <3>1, Launching
    <3>3. LoadInv'
      BY <1>1, <1>2, <2>2, <3>2 DEF LoadInv
    <3> QED BY <1>2, <3>1, <3>2, <3>3
  <2> QED BY <1>1, <2>1, <2>2
<1>4. DeskTypeOK'
  <2>1. requestID' \in Nat /\ phase' \in {"boot", "ready", "error"} /\ loading' \in BOOLEAN
        /\ checking' \in BOOLEAN
    BY <1>1 DEF DeskTypeOK
  <2> QED BY <1>1, <1>3, <2>1, LoadTypes DEF modeVars
<1>5. ActionInv'
  BY <1>1, <1>3, ActionFrame DEF actionVars, ActionKinds, LoadKinds, Kinds
<1>6. FormInv'
  BY <1>1, <1>3, FormFrame DEF modeVars, lanVars, SaveKinds, LoadKinds, Kinds
<1>7. BatchInv'
  BY <1>1, <1>3, BatchFrame DEF LoadKinds, Kinds
<1> QED BY <1>3, <1>4, <1>5, <1>6, <1>7

\* A load or a check ends: no other of them lives, and the rest goes on.
LEMMA LoadEnds ==
    ASSUME DeskInv, NEW i \in Slots, cmds[i].kind \in LoadKinds, cmds' = CutLoad(Without(i)),
           UNCHANGED <<requestID, devices, actionVars, modeVars, lanVars, batchVars>>,
           phase' \in {"boot", "ready", "error"}, loading' \in BOOLEAN, checking' = FALSE,
           phase' = "boot" => loading',
           loading' => loading /\ cmds[i].kind # "load"
    PROVE  DeskInv'
<1> USE DEF DeskInv
<1>1. /\ Without(i) \in [Slots -> InFlight]
      /\ \A j \in Slots : Without(i)[j].kind \in LoadKinds => Without(i)[j] = cmds[j]
      /\ \A j \in Slots \ {i} : Without(i)[j] = cmds[j]
  BY WithoutLemma DEF Idle, LoadKinds
<1>2. /\ cmds' \in [Slots -> InFlight]
      /\ \A j \in Slots : cmds'[j].kind \in LoadKinds => ~ cmds'[j].live
      /\ \A kinds \in SUBSET Kinds : kinds \cap LoadKinds = {} => Kept(kinds)
  <2>1. \A kinds \in SUBSET Kinds : kinds \cap LoadKinds = {} => Agrees(Without(i), kinds)
    BY AgreesWithout
  <2> QED BY <1>1, <2>1, CutsLoads DEF Kept
<1>3. \A j \in Slots \ {i} : cmds'[j].kind = cmds[j].kind /\ cmds'[j].id = cmds[j].id
  BY <1>1, CutLemma DEF CutLoad
<1>4. DeskTypeOK'
  <2>1. requestID' \in Nat /\ devices' \subseteq Machines /\ checking' \in BOOLEAN
    BY DEF DeskTypeOK
  <2> QED BY <1>2, <2>1, LoadTypes DEF modeVars
<1>5. LoadInv'
  BY <1>2, <1>3 DEF LoadInv
<1>6. ActionInv'
  BY <1>2, ActionFrame DEF actionVars, ActionKinds, LoadKinds, Kinds
<1>7. FormInv'
  BY <1>2, FormFrame DEF modeVars, lanVars, SaveKinds, LoadKinds, Kinds
<1>8. BatchInv'
  BY <1>2, BatchFrame DEF LoadKinds, Kinds
<1> QED BY <1>4, <1>5, <1>6, <1>7, <1>8

\* The inventory could not be read, the probe has answered, or the scan is over.
LEMMA LoadEndsInv ==
    ASSUME DeskInv, NEW i \in Slots, LoadFailed(i) \/ ProbeDone(i) \/ ScanDone(i)
    PROVE  DeskInv'
<1> USE DEF DeskInv
<1>1. CASE LoadFailed(i)
  <2>1. /\ cmds[i].kind \in LoadKinds /\ cmds' = CutLoad(Without(i))
        /\ UNCHANGED <<requestID, devices, actionVars, modeVars, lanVars, batchVars>>
        /\ phase' \in {"ready", "error"} /\ loading' = FALSE /\ checking' = FALSE
    BY <1>1 DEF LoadFailed, EndLoading, LoadKinds
  <2> QED BY <2>1, LoadEnds
<1>2. CASE ProbeDone(i)
  <2>1. /\ cmds[i].kind \in LoadKinds /\ cmds' = CutLoad(Without(i))
        /\ UNCHANGED <<requestID, devices, actionVars, modeVars, lanVars, batchVars>>
        /\ phase' = "ready" /\ loading' = FALSE /\ checking' = FALSE
    BY <1>2 DEF ProbeDone, EndLoading, LoadKinds
  <2> QED BY <2>1, LoadEnds
<1>3. CASE ScanDone(i)
  <2>1. /\ cmds[i].kind \in LoadKinds /\ cmds[i].kind = "scan" /\ cmds' = CutLoad(Without(i))
        /\ UNCHANGED <<phase, loading, requestID, devices, actionVars, modeVars, lanVars, batchVars>>
        /\ checking' = FALSE
    BY <1>3 DEF ScanDone, LoadKinds
  <2>2. /\ phase' \in {"boot", "ready", "error"} /\ loading' \in BOOLEAN
        /\ phase' = "boot" => loading'
    BY <2>1 DEF DeskTypeOK, LoadInv
  <2> QED BY <2>1, <2>2, LoadEnds
<1> QED BY <1>1, <1>2, <1>3

\* A scan has one machine less to report.
LEMMA ScanResultInv ==
    ASSUME DeskInv, NEW i \in Slots, ScanResult(i)
    PROVE  DeskInv'
<1> USE DEF DeskInv
<1>1. PICK d \in cmds[i].left : cmds' = [cmds EXCEPT ![i].left = @ \ {d}]
  BY DEF ScanResult
<1>2. /\ UNCHANGED <<loadVars, actionVars, modeVars, lanVars, batchVars>>
      /\ cmds[i].kind = "scan" /\ cmds \in [Slots -> InFlight]
  BY DEF ScanResult, DeskTypeOK
<1>3. /\ cmds' \in [Slots -> InFlight]
      /\ cmds'[i].kind = cmds[i].kind /\ cmds'[i].id = cmds[i].id /\ cmds'[i].live = cmds[i].live
      /\ \A j \in Slots \ {i} : cmds'[j] = cmds[j]
  BY <1>1, <1>2 DEF InFlight
<1>4. ASSUME NEW kinds \in SUBSET Kinds, "scan" \notin kinds
      PROVE  Kept(kinds)
  BY <1>2, <1>3, <1>4 DEF Kept, Agrees
<1>5. DeskTypeOK'
  BY <1>2, <1>3 DEF DeskTypeOK, loadVars, actionVars, modeVars, lanVars, batchVars
<1>6. LoadInv'
  BY <1>2, <1>3 DEF LoadInv, loadVars
<1>7. ActionInv'
  BY <1>2, <1>4, ActionFrame DEF actionVars, ActionKinds, Kinds
<1>8. FormInv'
  BY <1>2, <1>4, FormFrame DEF modeVars, lanVars, SaveKinds, Kinds
<1>9. BatchInv'
  BY <1>2, <1>4, BatchFrame DEF Kinds
<1> QED BY <1>5, <1>6, <1>7, <1>8, <1>9

\* A packet was sent: the watch of its machine takes the place of the command.
LEMMA PacketSentInv ==
    ASSUME DeskInv, NEW i \in Slots, PacketSent(i)
    PROVE  DeskInv'
<1> USE DEF DeskInv
<1>1. /\ UNCHANGED <<loadVars, actionVars, modeVars, lanVars, batchVars>>
      /\ cmds[i].kind = "wake" /\ cmds[i].id = actionID /\ cmds[i].target = actionTarget
      /\ cmds' = Launch(Without(i), Command("verifyWake", actionID, cmds[i].target, {}))
  BY DEF PacketSent, Stale, ActionKinds
<1>2. /\ cmds \in [Slots -> InFlight] /\ "verifyWake" \in Kinds /\ "verifyWake" \in ActionKinds
      /\ "wake" \in ActionKinds /\ actionID \in Nat /\ {} \in SUBSET Machines
  BY DEF DeskTypeOK, Kinds, ActionKinds
<1>3. cmds[i].target \in Machines \cup {NoMachine}
  BY <1>2 DEF InFlight
<1>4. /\ Without(i) \in [Slots -> InFlight]
      /\ Without(i)[i] = Idle
      /\ \A j \in Slots \ {i} : Without(i)[j] = cmds[j]
  BY WithoutLemma
<1>5. PICK k \in Slots :
        /\ Without(i)[k] = Idle
        /\ cmds'[k] = [kind |-> "verifyWake", id |-> actionID, target |-> cmds[i].target,
                       live |-> TRUE, left |-> {}]
        /\ \A j \in Slots \ {k} : cmds'[j] = Without(i)[j]
  BY <1>1, <1>2, <1>3, <1>4, Launching
<1>6. cmds' \in [Slots -> InFlight]
  BY <1>1, <1>2, <1>3, <1>4, Launching
<1>7. ASSUME NEW kinds \in SUBSET Kinds, kinds \cap ActionKinds = {}
      PROVE  Kept(kinds)
  <2>1. Agrees(Without(i), kinds)
    BY <1>1, <1>2, <1>7, AgreesWithout
  <2> QED BY <1>1, <1>2, <1>3, <1>4, <1>7, <2>1, Launching
<1>8. DeskTypeOK'
  BY <1>1, <1>6 DEF DeskTypeOK, loadVars, actionVars, modeVars, lanVars, batchVars
<1>9. LoadInv'
  BY <1>1, <1>7, LoadFrame DEF loadVars, LoadKinds, ActionKinds, Kinds
<1>10. ActionInv'
  <2>1. \A j \in Slots \ {k} : cmds'[j].kind \in ActionKinds => j # i /\ cmds'[j] = cmds[j]
    BY <1>4, <1>5 DEF Idle, ActionKinds
  <2>2. UNCHANGED <<waking, opening, shuttingDown, actionID, actionTarget>>
    BY <1>1 DEF actionVars
  <2>3. OneCommandEach'
    BY <1>1, <1>2, <1>5, <2>1, <2>2 DEF ActionInv, OneCommandEach, InFlight
  <2>4. ~ shuttingDown
    BY <1>1, <1>2 DEF ActionInv, OneCommandEach, ActionKinds
  <2> QED BY <1>1, <1>2, <1>5, <2>2, <2>3, <2>4 DEF ActionInv
<1>11. FormInv'
  BY <1>1, <1>7, FormFrame DEF modeVars, lanVars, SaveKinds, ActionKinds, Kinds
<1>12. BatchInv'
  BY <1>1, <1>7, BatchFrame DEF ActionKinds, Kinds
<1> QED BY <1>8, <1>9, <1>10, <1>11, <1>12

\* The action ends with its only command, so that nobody waits for another.
LEMMA ActionEnds ==
    ASSUME DeskInv, NEW i \in Slots, cmds[i].kind \in ActionKinds, ~ Stale(cmds[i]),
           cmds' = CutAction(Without(i)), FinishAction,
           UNCHANGED <<loadVars, actionID, modeVars, lanVars, batchVars>>,
           waking' \in BOOLEAN, opening' \in BOOLEAN, shuttingDown' \in BOOLEAN,
           waking' => waking, opening' => opening,
           shuttingDown' => shuttingDown /\ cmds[i].kind # "verifyShutdown"
    PROVE  DeskInv'
<1> USE DEF DeskInv
<1>1. /\ cmds' = Cut(Without(i), ActionKinds, actionCancel) /\ actionTarget' = NoMachine
      /\ cmds[i].id = actionID /\ ActionKinds \in SUBSET Kinds
  BY DEF CutAction, FinishAction, Stale, Kinds
<1>2. /\ Without(i) \in [Slots -> InFlight]
      /\ Without(i)[i] = Idle
      /\ \A j \in Slots \ {i} : Without(i)[j] = cmds[j]
  BY WithoutLemma
<1>3. /\ cmds' \in [Slots -> InFlight]
      /\ cmds'[i].kind = Idle.kind
      /\ \A j \in Slots \ {i} : cmds'[j].kind = cmds[j].kind /\ cmds'[j].id = cmds[j].id
  BY <1>1, <1>2, CutLemma
<1>4. ASSUME NEW kinds \in SUBSET Kinds, kinds \cap ActionKinds = {}
      PROVE  Kept(kinds)
  <2>1. Agrees(Without(i), kinds)
    BY <1>4, AgreesWithout
  <2> QED BY <1>1, <1>2, <1>4, <2>1, AgreesCut DEF Kept
<1>5. DeskTypeOK'
  <2>1. actionID' \in Nat /\ actionTarget' \in Machines \cup {NoMachine}
    BY <1>1 DEF DeskTypeOK
  <2> QED BY <1>3, <2>1, ActionTypes DEF modeVars
<1>6. LoadInv'
  BY <1>4, LoadFrame DEF loadVars, LoadKinds, ActionKinds, Kinds
<1>7. ActionInv'
  <2>1. Idle.kind \notin ActionKinds
    BY DEF Idle, ActionKinds
  <2>2. OneCommandEach'
    BY <1>3, <2>1 DEF ActionInv, OneCommandEach
  <2>3. ~ shuttingDown'
    <3>1. shuttingDown => cmds[i].kind = "verifyShutdown"
      BY <1>1 DEF ActionInv, OneCommandEach, ActionKinds
    <3> QED BY <3>1
  <2> QED BY <1>1, <2>2, <2>3 DEF ActionInv
<1>8. FormInv'
  BY <1>4, FormFrame DEF modeVars, lanVars, SaveKinds, ActionKinds, Kinds
<1>9. BatchInv'
  BY <1>4, BatchFrame DEF ActionKinds, Kinds
<1> QED BY <1>5, <1>6, <1>7, <1>8, <1>9

\* A wake failed or was watched to its end, a remote is open, a machine is down.
LEMMA ActionEndsInv ==
    ASSUME DeskInv, NEW i \in Slots,
           WakeFailed(i) \/ WakeVerified(i) \/ RemoteOpened(i) \/ ShutdownVerified(i)
    PROVE  DeskInv'
<1>1. waking \in BOOLEAN /\ opening \in BOOLEAN /\ shuttingDown \in BOOLEAN
  BY DEF DeskInv, DeskTypeOK
<1>2. CASE WakeFailed(i)
  <2>1. /\ cmds[i].kind = "wake" /\ cmds[i].kind \in ActionKinds /\ ~ Stale(cmds[i])
        /\ cmds' = CutAction(Without(i)) /\ FinishAction
        /\ UNCHANGED <<loadVars, actionID, modeVars, lanVars, batchVars>>
        /\ waking' = FALSE /\ UNCHANGED <<opening, shuttingDown>>
    BY <1>2 DEF WakeFailed, ActionKinds
  <2> QED BY <1>1, <2>1, ActionEnds
<1>3. CASE WakeVerified(i)
  <2>1. /\ cmds[i].kind = "verifyWake" /\ cmds[i].kind \in ActionKinds /\ ~ Stale(cmds[i])
        /\ cmds' = CutAction(Without(i)) /\ FinishAction
        /\ UNCHANGED <<loadVars, actionID, modeVars, lanVars, batchVars>>
        /\ waking' = FALSE /\ UNCHANGED <<opening, shuttingDown>>
    BY <1>3 DEF WakeVerified, ActionKinds
  <2> QED BY <1>1, <2>1, ActionEnds
<1>4. CASE RemoteOpened(i)
  <2>1. /\ cmds[i].kind = "open" /\ cmds[i].kind \in ActionKinds /\ ~ Stale(cmds[i])
        /\ cmds' = CutAction(Without(i)) /\ FinishAction
        /\ UNCHANGED <<loadVars, actionID, modeVars, lanVars, batchVars>>
        /\ opening' = FALSE /\ UNCHANGED <<waking, shuttingDown>>
    BY <1>4 DEF RemoteOpened, ActionKinds
  <2> QED BY <1>1, <2>1, ActionEnds
<1>5. CASE ShutdownVerified(i)
  <2>1. /\ cmds[i].kind = "verifyShutdown" /\ cmds[i].kind \in ActionKinds /\ ~ Stale(cmds[i])
        /\ cmds' = CutAction(Without(i)) /\ FinishAction
        /\ UNCHANGED <<loadVars, actionID, modeVars, lanVars, batchVars>>
        /\ shuttingDown' = FALSE /\ UNCHANGED <<waking, opening>>
    BY <1>5 DEF ShutdownVerified, ActionKinds
  <2> QED BY <1>1, <2>1, ActionEnds
<1> QED BY <1>2, <1>3, <1>4, <1>5

\* A shutdown is watched under a new identifier, whatever else was in progress.
LEMMA ShutdownInitiatedInv ==
    ASSUME DeskInv, NEW i \in Slots, ShutdownInitiated(i)
    PROVE  DeskInv'
<1> USE DEF DeskInv
<1>1. /\ cmds[i].kind = "savePower"
      /\ form' = NoForm /\ actionID' = actionID + 1
      /\ UNCHANGED <<loadVars, waking, opening, picker, confirm, lanVars, batchVars>>
      /\ cmds \in [Slots -> InFlight] /\ actionID \in Nat /\ actionID + 1 \in Nat
      /\ ActionKinds \in SUBSET Kinds /\ waking \in BOOLEAN /\ opening \in BOOLEAN
  BY DEF ShutdownInitiated, DeskTypeOK, Kinds
<1>2. /\ Without(i) \in [Slots -> InFlight]
      /\ Without(i)[i] = Idle /\ Idle.kind \notin ActionKinds
      /\ \A j \in Slots \ {i} : Without(i)[j] = cmds[j]
      /\ \A kinds \in SUBSET Kinds : "savePower" \notin kinds => Agrees(Without(i), kinds)
  BY <1>1, WithoutLemma, AgreesWithout DEF Idle, ActionKinds
<1>3. /\ cmds' \in [Slots -> InFlight] /\ ActionInv'
      /\ shuttingDown' \in BOOLEAN /\ actionTarget' \in Machines \cup {NoMachine}
      /\ \A kinds \in SUBSET Kinds :
            kinds \cap ActionKinds = {} /\ "savePower" \notin kinds => Kept(kinds)
  <2>1. CASE cmds[i].target \in devices
    <3>1. /\ shuttingDown' = TRUE /\ actionTarget' = cmds[i].target
          /\ cmds' = Launch(Without(i), Command("verifyShutdown", actionID + 1, cmds[i].target, {}))
      BY <2>1 DEF ShutdownInitiated
    <3>2. /\ "verifyShutdown" \in Kinds /\ "verifyShutdown" \in ActionKinds /\ {} \in SUBSET Machines
          /\ cmds[i].target \in Machines /\ cmds[i].target \in Machines \cup {NoMachine}
      BY <2>1 DEF Kinds, ActionKinds, DeskTypeOK
    <3>3. /\ cmds' \in [Slots -> InFlight]
          /\ \E j \in Slots :
                /\ Without(i)[j] = Idle
                /\ cmds'[j] = [kind |-> "verifyShutdown", id |-> actionID + 1, target |-> cmds[i].target,
                               live |-> TRUE, left |-> {}]
                /\ \A k \in Slots \ {j} : cmds'[k] = Without(i)[k]
          /\ \A kinds \in SUBSET Kinds :
                "verifyShutdown" \notin kinds /\ Agrees(Without(i), kinds) => Kept(kinds)
      BY <1>1, <1>2, <3>1, <3>2, Launching
    <3>4. PICK k \in Slots :
            /\ cmds'[k] = [kind |-> "verifyShutdown", id |-> actionID + 1, target |-> cmds[i].target,
                           live |-> TRUE, left |-> {}]
            /\ \A j \in Slots \ {k} : cmds'[j] = Without(i)[j]
      BY <3>3
    <3>5. \A j \in Slots \ {k} : cmds'[j].kind \in ActionKinds => j # i /\ cmds'[j] = cmds[j]
      BY <1>2, <3>4
    <3>6. OneCommandEach'
      <4>1. ASSUME NEW j \in Slots \ {k}, cmds'[j].kind \in ActionKinds
            PROVE  /\ cmds'[j].id \in Nat /\ cmds'[j].id <= actionID
                   /\ \A l \in Slots \ {j, k} : cmds'[l].kind \in ActionKinds => cmds'[l].id # cmds'[j].id
        BY <1>1, <3>5, <4>1 DEF ActionInv, OneCommandEach, InFlight
      <4> QED BY <1>1, <3>4, <4>1 DEF OneCommandEach
    <3>7. ActionInv'
      BY <1>1, <3>1, <3>2, <3>4, <3>6 DEF ActionInv
    <3> QED BY <1>2, <3>1, <3>2, <3>3, <3>7
  <2>2. CASE cmds[i].target \notin devices
    <3>1. /\ shuttingDown' = FALSE /\ actionTarget' = NoMachine
          /\ cmds' = Cut(Without(i), ActionKinds, actionCancel)
      BY <2>2 DEF ShutdownInitiated, FinishAction, CutAction
    <3>2. /\ cmds' \in [Slots -> InFlight]
          /\ cmds'[i].kind = Idle.kind
          /\ \A j \in Slots \ {i} : cmds'[j].kind = cmds[j].kind /\ cmds'[j].id = cmds[j].id
      BY <1>2, <3>1, CutLemma
    <3>3. OneCommandEach'
      BY <1>1, <1>2, <3>2 DEF ActionInv, OneCommandEach, InFlight
    <3>4. \A kinds \in SUBSET Kinds :
            kinds \cap ActionKinds = {} /\ "savePower" \notin kinds => Kept(kinds)
      BY <1>1, <1>2, <3>1, AgreesCut DEF Kept
    <3> QED BY <1>1, <3>1, <3>2, <3>3, <3>4 DEF ActionInv
  <2> QED BY <2>1, <2>2
<1>4. DeskTypeOK'
  <2>1. form' \in [kind: {"none", "edit", "power"}, target: Machines \cup {NoMachine}, saving: BOOLEAN]
    BY <1>1 DEF NoForm
  <2>2. UNCHANGED <<loadVars, lanVars, batchVars>>
    BY <1>1
  <2>3. waking' \in BOOLEAN /\ opening' \in BOOLEAN /\ actionID' \in Nat
    BY <1>1
  <2> HIDE DEF DeskInv
  <2>4. DeskTypeOK
    BY DEF DeskInv
  <2> QED BY <1>3, <2>1, <2>2, <2>3, <2>4 DEF DeskTypeOK, loadVars, lanVars, batchVars
<1>5. LoadInv'
  BY <1>1, <1>3, LoadFrame DEF loadVars, LoadKinds, ActionKinds, Kinds
<1>6. FormInv'
  <2>1. ~ form'.saving
    BY <1>1 DEF NoForm
  <2>2. lanPreparing => \E j \in Slots : cmds'[j].kind = "prepare" /\ cmds'[j].id = lanPrepareID
    <3>1. Kept({"prepare"})
      BY <1>3 DEF Kinds, ActionKinds
    <3> QED BY <3>1 DEF FormInv, Kept, Agrees, Stale, LoadKinds, ActionKinds
  <2> QED BY <1>1, <2>1, <2>2 DEF FormInv, lanVars
<1>7. BatchInv'
  BY <1>1, <1>3, BatchFrame DEF ActionKinds, Kinds
<1> QED BY <1>3, <1>4, <1>5, <1>6, <1>7

\* A form that could not be saved is not being saved any more.
LEMMA FormKeptInv ==
    ASSUME DeskInv, NEW i \in Slots, FormKept(i)
    PROVE  DeskInv'
<1> USE DEF DeskInv
<1>1. /\ cmds[i].kind \in SaveKinds /\ cmds' = Without(i)
      /\ form' = [form EXCEPT !.saving = FALSE]
      /\ UNCHANGED <<loadVars, actionVars, picker, confirm, lanVars, batchVars>>
  BY DEF FormKept
<1>2. ASSUME NEW kinds \in SUBSET Kinds, kinds \cap SaveKinds = {}
      PROVE  Kept(kinds)
  BY <1>1, <1>2, AgreesWithout DEF Kept
<1>3. DeskTypeOK'
  <2>1. form' \in [kind: {"none", "edit", "power"}, target: Machines \cup {NoMachine}, saving: BOOLEAN]
    BY <1>1 DEF DeskTypeOK
  <2>2. cmds' \in [Slots -> InFlight]
    BY <1>1, WithoutLemma
  <2> QED BY <1>1, <2>1, <2>2 DEF DeskTypeOK, loadVars, actionVars, lanVars, batchVars
<1>4. LoadInv'
  BY <1>1, <1>2, LoadFrame DEF loadVars, LoadKinds, SaveKinds, Kinds
<1>5. ActionInv'
  BY <1>1, <1>2, ActionFrame DEF actionVars, ActionKinds, SaveKinds, Kinds
<1>6. FormInv'
  <2>1. ~ form'.saving
    BY <1>1 DEF DeskTypeOK
  <2>2. Kept({"prepare"})
    BY <1>2 DEF Kinds, SaveKinds
  <2>3. lanPreparing => \E j \in Slots : cmds'[j].kind = "prepare" /\ cmds'[j].id = lanPrepareID
    BY <2>2 DEF FormInv, Kept, Agrees, Stale, LoadKinds, ActionKinds
  <2> QED BY <1>1, <2>1, <2>3 DEF FormInv, lanVars
<1>7. BatchInv'
  BY <1>1, <1>2, BatchFrame DEF SaveKinds, Kinds
<1> QED BY <1>3, <1>4, <1>5, <1>6, <1>7

\* A saved form is closed; the next one is prepared, or the inventory read again.
LEMMA FormSavedInv ==
    ASSUME DeskInv, NEW i \in Slots, FormSaved(i)
    PROVE  DeskInv'
<1> USE DEF DeskInv
<1>1. /\ cmds[i].kind \in SaveKinds /\ form' = NoForm
      /\ UNCHANGED <<actionVars, picker, confirm, batchVars>>
      /\ form' \in [kind: {"none", "edit", "power"}, target: Machines \cup {NoMachine}, saving: BOOLEAN]
      /\ ~ form'.saving
  BY DEF FormSaved, NoForm
<1>2. /\ Without(i) \in [Slots -> InFlight]
      /\ \E j \in Slots : Without(i)[j] = Idle
      /\ \A j \in Slots : Without(i)[j].kind \in LoadKinds => Without(i)[j] = cmds[j]
  <2>1. Idle.kind \notin LoadKinds
    BY DEF Idle, LoadKinds
  <2> QED BY <2>1, WithoutLemma
<1>3. \A kinds \in SUBSET Kinds : kinds \cap SaveKinds = {} => Agrees(Without(i), kinds)
  BY <1>1, AgreesWithout
<1>4. CASE BeginAddFromLAN(Without(i)) /\ UNCHANGED <<loadVars, lanOpen>>
  <2>1. /\ cmds' \in [Slots -> InFlight] /\ lanPrepareID' \in Nat /\ lanPreparing' = TRUE
        /\ \E j \in Slots : cmds'[j].kind = "prepare" /\ cmds'[j].id = lanPrepareID'
        /\ \A kinds \in SUBSET Kinds : "prepare" \notin kinds /\ Agrees(Without(i), kinds) => Kept(kinds)
    BY <1>2, <1>4, PreparesNext
  <2>2. \A kinds \in SUBSET Kinds :
           "prepare" \notin kinds /\ kinds \cap SaveKinds = {} => Kept(kinds)
    BY <1>3, <2>1
  <2>3. DeskTypeOK'
    <3>1. lanID' = lanID /\ lanPreparing' \in BOOLEAN
      BY <1>4, <2>1 DEF BeginAddFromLAN
    <3> QED BY <1>1, <1>4, <2>1, <3>1 DEF DeskTypeOK, loadVars, actionVars, batchVars
  <2>4. LoadInv'
    BY <1>4, <2>2, LoadFrame DEF loadVars, LoadKinds, SaveKinds, Kinds
  <2>5. ActionInv'
    BY <1>1, <2>2, ActionFrame DEF actionVars, ActionKinds, SaveKinds, Kinds
  <2>6. FormInv'
    BY <1>1, <2>1 DEF FormInv
  <2>7. BatchInv'
    BY <1>1, <2>2, BatchFrame DEF SaveKinds, Kinds
  <2> QED BY <2>3, <2>4, <2>5, <2>6, <2>7
<1>5. CASE BeginRefresh(Without(i), "ready") /\ UNCHANGED lanVars
  <2>1. /\ cmds' \in [Slots -> InFlight] /\ requestID' \in Nat /\ LoadInv'
        /\ \A kinds \in SUBSET Kinds :
              kinds \cap LoadKinds = {} /\ Agrees(Without(i), kinds) => Kept(kinds)
    BY <1>2, <1>5, RefreshLoads
  <2>2. \A kinds \in SUBSET Kinds :
           kinds \cap LoadKinds = {} /\ kinds \cap SaveKinds = {} => Kept(kinds)
    BY <1>3, <2>1
  <2>3. DeskTypeOK'
    <3>1. /\ phase' \in {"boot", "ready", "error"} /\ loading' \in BOOLEAN /\ checking' \in BOOLEAN
          /\ devices' = devices
      BY <1>5 DEF BeginRefresh
    <3> QED BY <1>1, <1>5, <2>1, <3>1 DEF DeskTypeOK, actionVars, lanVars, batchVars
  <2>4. ActionInv'
    BY <1>1, <2>2, ActionFrame DEF actionVars, ActionKinds, SaveKinds, LoadKinds, Kinds
  <2>5. FormInv'
    <3>1. Kept({"prepare"})
      BY <2>2 DEF Kinds, SaveKinds, LoadKinds
    <3>2. lanPreparing => \E j \in Slots : cmds'[j].kind = "prepare" /\ cmds'[j].id = lanPrepareID
      BY <3>1 DEF FormInv, Kept, Agrees, Stale, LoadKinds, ActionKinds
    <3> QED BY <1>1, <1>5, <3>2 DEF FormInv, lanVars
  <2>6. BatchInv'
    BY <1>1, <2>2, BatchFrame DEF SaveKinds, LoadKinds, Kinds
  <2> QED BY <2>1, <2>3, <2>4, <2>5, <2>6
<1> QED BY <1>4, <1>5 DEF FormSaved

\* The prepared form takes the place of the one that is open.
LEMMA FormPreparedInv ==
    ASSUME DeskInv, NEW i \in Slots, FormPrepared(i)
    PROVE  DeskInv'
<1> USE DEF DeskInv
<1>1. /\ cmds[i].kind = "prepare" /\ cmds' = Without(i) /\ lanPreparing' = FALSE
      /\ form' \in [kind: {"none", "edit", "power"}, target: Machines \cup {NoMachine}, saving: BOOLEAN]
      /\ ~ form'.saving
      /\ UNCHANGED <<loadVars, actionVars, lanID, lanPrepareID, batchVars>>
  BY DEF FormPrepared, Form
<1>2. \A kinds \in SUBSET Kinds : "prepare" \notin kinds => Kept(kinds)
  BY <1>1, AgreesWithout DEF Kept
<1>3. DeskTypeOK'
  <2>1. cmds' \in [Slots -> InFlight] /\ lanPreparing' \in BOOLEAN
    BY <1>1, WithoutLemma
  <2> QED BY <1>1, <2>1 DEF DeskTypeOK, loadVars, actionVars, batchVars
<1>4. LoadInv'
  BY <1>1, <1>2, LoadFrame DEF loadVars, LoadKinds, Kinds
<1>5. ActionInv'
  BY <1>1, <1>2, ActionFrame DEF actionVars, ActionKinds, Kinds
<1>6. FormInv'
  BY <1>1 DEF FormInv
<1>7. BatchInv'
  BY <1>1, <1>2, BatchFrame DEF Kinds
<1> QED BY <1>3, <1>4, <1>5, <1>6, <1>7

\* One more machine is reported, which was not before.
LEMMA ReportedGrows ==
    ASSUME DeskTypeOK, NEW d \in Machines, NEW s \in Statuses,
           batchResults' = Append(batchResults, [device |-> d, status |-> s])
    PROVE  /\ batchResults' \in Seq([device: Machines, status: Statuses])
           /\ Len(batchResults') = Len(batchResults) + 1 /\ Len(batchResults) \in Nat
           /\ DOMAIN batchResults = 1 .. Len(batchResults)
           /\ DOMAIN batchResults' = 1 .. Len(batchResults) + 1
           /\ \A k \in 1 .. Len(batchResults) : batchResults'[k] = batchResults[k]
           /\ batchResults'[Len(batchResults) + 1] = [device |-> d, status |-> s]
           /\ Reported' = Reported \cup {d}
<1>1. /\ batchResults \in Seq([device: Machines, status: Statuses])
      /\ [device |-> d, status |-> s] \in [device: Machines, status: Statuses]
  BY DEF DeskTypeOK
<1>2. /\ batchResults' \in Seq([device: Machines, status: Statuses])
      /\ Len(batchResults') = Len(batchResults) + 1 /\ Len(batchResults) \in Nat
      /\ DOMAIN batchResults = 1 .. Len(batchResults)
      /\ DOMAIN batchResults' = 1 .. Len(batchResults) + 1
  BY <1>1
<1>3. /\ \A k \in 1 .. Len(batchResults) : batchResults'[k] = batchResults[k]
      /\ batchResults'[Len(batchResults) + 1] = [device |-> d, status |-> s]
  BY <1>1
<1>4. Reported' = Reported \cup {d}
  <2>1. Reported' = {batchResults'[k].device : k \in 1 .. Len(batchResults) + 1}
    BY <1>2 DEF Reported
  <2>2. Reported = {batchResults[k].device : k \in 1 .. Len(batchResults)}
    BY <1>2 DEF Reported
  <2>3. 1 .. Len(batchResults) + 1 = (1 .. Len(batchResults)) \cup {Len(batchResults) + 1}
    BY <1>2
  <2> QED BY <1>3, <2>1, <2>2, <2>3
<1> QED BY <1>2, <1>3, <1>4

\* A result of the batch: its machine was awaited, and is reported.
LEMMA BatchResultInv ==
    ASSUME DeskInv, NEW i \in Slots, BatchResult(i)
    PROVE  DeskInv'
<1> USE DEF DeskInv
<1>1. PICK d \in cmds[i].left, s \in StatusOf(lastBatchKind) \cup (IF cmds[i].live THEN {} ELSE {"cancelled"}) :
        /\ batchResults' = Append(batchResults, [device |-> d, status |-> s])
        /\ cmds' = [cmds EXCEPT ![i].left = @ \ {d}]
        /\ saidSent' = IF s = "sent" THEN saidSent \cup {d} ELSE saidSent
  BY DEF BatchResult
<1>2. /\ UNCHANGED <<loadVars, actionVars, modeVars, lanVars, batchKind, batchTargets, batchRunning,
                     batchID, batchCancel, lastBatchKind>>
      /\ cmds[i].kind = "batch" /\ cmds[i].id = batchID /\ cmds \in [Slots -> InFlight]
  BY DEF BatchResult, Stale, DeskTypeOK
<1>3. d \in Machines /\ s \in Statuses
  BY <1>1, <1>2 DEF InFlight, StatusOf, Statuses
<1>4. /\ cmds' \in [Slots -> InFlight]
      /\ cmds'[i].kind = "batch" /\ cmds'[i].id = batchID /\ cmds'[i].live = cmds[i].live
      /\ cmds'[i].left = cmds[i].left \ {d}
      /\ \A j \in Slots \ {i} : cmds'[j] = cmds[j]
  BY <1>1, <1>2 DEF InFlight
<1>5. ASSUME NEW kinds \in SUBSET Kinds, "batch" \notin kinds
      PROVE  Kept(kinds)
  BY <1>2, <1>4, <1>5 DEF Kept, Agrees
<1>6. /\ batchResults' \in Seq([device: Machines, status: Statuses])
      /\ Len(batchResults') = Len(batchResults) + 1 /\ Len(batchResults) \in Nat
      /\ DOMAIN batchResults = 1 .. Len(batchResults)
      /\ DOMAIN batchResults' = 1 .. Len(batchResults) + 1
      /\ \A k \in 1 .. Len(batchResults) : batchResults'[k] = batchResults[k]
      /\ batchResults'[Len(batchResults) + 1] = [device |-> d, status |-> s]
      /\ Reported' = Reported \cup {d}
  BY <1>1, <1>3, ReportedGrows
<1>7. /\ batchRunning /\ batchKind # "none"
      /\ cmds[i].left \cap Reported = {} /\ cmds[i].left \cup Reported = batchTargets
      /\ Len(batchResults) = Cardinality(Reported) /\ IsFiniteSet(Reported)
  <2>1. batchRunning
    BY <1>2 DEF BatchInv, OneReader
  <2>2. PICK j \in Slots :
          /\ cmds[j].kind = "batch" /\ cmds[j].id = batchID
          /\ cmds[j].left \cap Reported = {} /\ cmds[j].left \cup Reported = batchTargets
          /\ Len(batchResults) = Cardinality(Reported)
    BY <2>1 DEF BatchInv, BatchAccounts
  <2>3. j = i
    BY <1>2, <2>2 DEF BatchInv, OneReader
  <2> QED BY <2>1, <2>2, <2>3 DEF BatchInv
<1>8. d \notin Reported /\ d \in batchTargets /\ d \notin saidSent
  <2>1. d \notin Reported /\ d \in batchTargets
    BY <1>1, <1>7
  <2> QED BY <1>7, <2>1 DEF BatchInv, SentIsSettled
<1>9. DeskTypeOK'
  BY <1>2, <1>4, <1>6 DEF DeskTypeOK, loadVars, actionVars, modeVars, lanVars
<1>10. LoadInv'
  BY <1>2, <1>5, LoadFrame DEF loadVars, LoadKinds, Kinds
<1>11. ActionInv'
  BY <1>2, <1>5, ActionFrame DEF actionVars, ActionKinds, Kinds
<1>12. FormInv'
  BY <1>2, <1>5, FormFrame DEF modeVars, lanVars, SaveKinds, Kinds
<1>13. BatchInv'
  <2>1. OneReader'
    BY <1>2, <1>4 DEF BatchInv, OneReader
  <2>2. (batchRunning => batchKind # "none" /\ lastBatchKind = batchKind)'
    BY <1>2 DEF BatchInv
  <2>3. IsFiniteSet(Reported') /\ Cardinality(Reported') = Cardinality(Reported) + 1
    BY <1>6, <1>7, <1>8, FS_AddElement
  <2>4. BatchAccounts'
    <3>1. /\ cmds'[i].left \cap Reported' = {} /\ cmds'[i].left \cup Reported' = batchTargets
          /\ Len(batchResults') = Cardinality(Reported')
      BY <1>1, <1>4, <1>6, <1>7, <2>3
    <3> QED BY <1>2, <1>4, <3>1 DEF BatchAccounts
  <2>5. SentIsSettled'
    <3>1. saidSent' \subseteq saidSent \cup {d} /\ (d \in saidSent' => s = "sent")
      BY <1>1, <1>8
    <3>2. \A x \in batchTargets \cap saidSent' : x \in Reported'
      BY <1>6, <1>7, <3>1 DEF BatchInv, SentIsSettled
    <3>3. ASSUME NEW k \in DOMAIN batchResults', batchResults'[k].device \in saidSent'
          PROVE  batchResults'[k].status = "sent"
      <4>1. CASE k = Len(batchResults) + 1
        BY <1>6, <3>1, <3>3, <4>1
      <4>2. CASE k \in 1 .. Len(batchResults)
        <5>1. batchResults'[k] = batchResults[k] /\ batchResults[k].device \in Reported
          BY <1>6, <4>2 DEF Reported
        <5>2. batchResults[k].device \in saidSent
          BY <1>8, <3>1, <3>3, <5>1
        <5> QED BY <1>6, <4>2, <5>1, <5>2 DEF BatchInv, SentIsSettled
      <4> QED BY <1>6, <3>3, <4>1, <4>2
    <3> QED BY <1>2, <1>7, <3>2, <3>3 DEF SentIsSettled
  <2> QED BY <2>1, <2>2, <2>3, <2>4, <2>5 DEF BatchInv
<1> QED BY <1>9, <1>10, <1>11, <1>12, <1>13

\* The batch ends, and no reader of it is left.
LEMMA BatchDoneInv ==
    ASSUME DeskInv, NEW i \in Slots, BatchDone(i)
    PROVE  DeskInv'
<1> USE DEF DeskInv
<1>1. /\ cmds' = Cut(Without(i), {"batch"}, batchCancel) /\ {"batch"} \in SUBSET Kinds
      /\ cmds[i].kind = "batch" /\ cmds[i].id = batchID
      /\ batchRunning' = FALSE /\ batchKind' = "none"
      /\ UNCHANGED <<loadVars, actionVars, modeVars, lanVars, batchTargets, batchID, batchCancel,
                     batchResults, lastBatchKind, saidSent>>
  BY DEF BatchDone, Stale, Kinds
<1>2. /\ Without(i) \in [Slots -> InFlight]
      /\ Without(i)[i] = Idle /\ Idle.kind # "batch"
      /\ \A j \in Slots \ {i} : Without(i)[j] = cmds[j]
      /\ \A kinds \in SUBSET Kinds : "batch" \notin kinds => Agrees(Without(i), kinds)
  BY <1>1, WithoutLemma, AgreesWithout DEF Idle
<1>3. /\ cmds' \in [Slots -> InFlight]
      /\ cmds'[i].kind # "batch"
      /\ \A j \in Slots \ {i} : /\ cmds'[j].kind = cmds[j].kind /\ cmds'[j].id = cmds[j].id
                                /\ cmds'[j].live /\ cmds[j].kind = "batch" =>
                                      cmds[j].live /\ cmds[j].id # batchCancel
  BY <1>1, <1>2, CutLemma
<1>4. \A kinds \in SUBSET Kinds : "batch" \notin kinds => Kept(kinds)
  BY <1>1, <1>2, AgreesCut DEF Kept
<1>5. DeskTypeOK'
  <2>1. batchRunning' \in BOOLEAN /\ batchKind' \in {"none", "wake", "check"}
    BY <1>1
  <2> QED BY <1>1, <1>3, <2>1 DEF DeskTypeOK, loadVars, actionVars, modeVars, lanVars
<1>6. LoadInv'
  BY <1>1, <1>4, LoadFrame DEF loadVars, LoadKinds, Kinds
<1>7. ActionInv'
  BY <1>1, <1>4, ActionFrame DEF actionVars, ActionKinds, Kinds
<1>8. FormInv'
  BY <1>1, <1>4, FormFrame DEF modeVars, lanVars, SaveKinds, Kinds
<1>9. BatchInv'
  <2>1. OneReader'
    BY <1>1, <1>3 DEF BatchInv, OneReader
  <2>2. (batchRunning => batchKind # "none" /\ lastBatchKind = batchKind)' /\ BatchAccounts'
    BY <1>1 DEF BatchAccounts
  <2>3. IsFiniteSet(Reported)' /\ SentIsSettled'
    BY <1>1 DEF BatchInv, Reported, SentIsSettled
  <2> QED BY <2>1, <2>2, <2>3 DEF BatchInv
<1> QED BY <1>5, <1>6, <1>7, <1>8, <1>9

-----------------------------------------------------------------------------
(* The invariant, and the properties that follow from it.                  *)

\* The inventory is being read by the only command there is.
LEMMA InitInv == Init => DeskInv
<1> SUFFICES ASSUME Init PROVE DeskInv
  OBVIOUS
<1> DEFINE none == [i \in Slots |-> Idle]
<1>1. /\ none \in [Slots -> InFlight] /\ \E i \in Slots : none[i] = Idle
      /\ "load" \in Kinds /\ NoMachine \in Machines \cup {NoMachine} /\ {} \in SUBSET Machines
  BY WakeDeskAssumption DEF WakeDeskAssumption, Slots, Idle, InFlight, Kinds, LoadKinds
<1>2. cmds = Launch(none, Command("load", 1, NoMachine, {}))
  BY DEF Init
<1>3. \A i \in Slots : none[i] = Idle
  OBVIOUS
<1> HIDE DEF none
<1>4. /\ cmds \in [Slots -> InFlight]
      /\ \E i \in Slots :
            /\ cmds[i] = [kind |-> "load", id |-> 1, target |-> NoMachine, live |-> TRUE, left |-> {}]
            /\ \A j \in Slots \ {i} : cmds[j] = Idle
  BY <1>1, <1>2, <1>3, LaunchCommand
<1>5. DeskTypeOK
  <2>1. NoForm \in [kind: {"none", "edit", "power"}, target: Machines \cup {NoMachine}, saving: BOOLEAN]
    BY DEF NoForm
  <2>2. <<>> \in Seq([device: Machines, status: Statuses])
    OBVIOUS
  <2> QED BY <1>4, <2>1, <2>2 DEF Init, DeskTypeOK
<1>6. LoadInv
  <2>1. PICK i \in Slots :
          /\ cmds[i] = [kind |-> "load", id |-> 1, target |-> NoMachine, live |-> TRUE, left |-> {}]
          /\ \A j \in Slots \ {i} : cmds[j] = Idle
    BY <1>4
  <2>2. \A j \in Slots \ {i} : cmds[j].kind \notin LoadKinds
    BY <2>1 DEF Idle, LoadKinds
  <2> QED BY <2>1, <2>2 DEF Init, LoadInv
<1>7. \A i \in Slots : cmds[i].kind \in {"load", "idle"}
  BY <1>4 DEF Idle
<1>8. ActionInv
  BY <1>7 DEF Init, ActionInv, OneCommandEach, ActionKinds
<1>9. FormInv
  BY DEF Init, FormInv, NoForm
<1>10. BatchInv
  <2>1. OneReader
    BY <1>7 DEF OneReader
  <2>2. Reported = {}
    BY DEF Init, Reported
  <2> QED BY <2>1, <2>2, FS_EmptySet DEF Init, BatchInv, BatchAccounts, SentIsSettled
<1> QED BY <1>5, <1>6, <1>8, <1>9, <1>10 DEF DeskInv

\* A stuttering step changes nothing.
LEMMA StutterInv == DeskInv /\ UNCHANGED vars => DeskInv'
<1> SUFFICES ASSUME DeskInv, UNCHANGED vars PROVE DeskInv'
  OBVIOUS
<1>1. UNCHANGED <<loadVars, actionVars, modeVars, lanVars, batchVars, cmds>>
  BY DEF vars
<1>2. LoadInv' /\ ActionInv' /\ FormInv'
  BY <1>1, BatchKeysKeep
<1>3. DeskTypeOK'
  BY <1>1 DEF DeskInv, DeskTypeOK, loadVars, actionVars, modeVars, lanVars, batchVars
<1>4. BatchInv'
  <2>1. Kept({"batch"})
    BY <1>1, AgreesSelf DEF Kept, Agrees
  <2> QED BY <1>1, <2>1, BatchFrame DEF DeskInv
<1> QED BY <1>2, <1>3, <1>4 DEF DeskInv

\* Every key keeps the invariant.
LEMMA PressInv == DeskInv /\ Press => DeskInv'
<1> SUFFICES ASSUME DeskInv, Press PROVE DeskInv'
  OBVIOUS
<1>1. CASE \/ OpenPicker \/ ClosePicker \/ BeginEditForm \/ LeaveForm
           \/ BeginDelete \/ DeleteCancelled
           \/ CloseLAN \/ ShowKnownHost \/ CancelPreparation
           \/ \E d \in devices : BeginShutdownForm(d)
  BY <1>1, ScreenKeysInv
<1>2. CASE Refresh
  BY <1>2, RefreshInv
<1>3. CASE CancelCheck
  BY <1>3, CancelCheckInv
<1>4. CASE CancelAction
  BY <1>4, CancelActionInv
<1>5. CASE SaveForm
  BY <1>5, SaveFormInv
<1>6. CASE DeleteConfirmed
  BY <1>6, DeleteConfirmedInv
<1>7. CASE BeginLANDiscover
  BY <1>7, BeginLANDiscoverInv
<1>8. CASE AddSelectedLANHost
  BY <1>8, AddSelectedLANHostInv
<1>9. CASE RetryBatch
  BY <1>9, RetryBatchInv
<1>10. CASE StartBatch
  BY <1>10, StartBatchInv
<1>11. CASE DropBatch
  BY <1>11, DropBatchInv
<1>12. CASE CancelBatch
  BY <1>12, CancelBatchInv
<1>13. CASE \E d \in devices : Probe(d)
  BY <1>13, ProbeInv
<1>14. CASE \E d \in devices : BeginWake(d)
  BY <1>14, BeginWakeInv
<1>15. CASE \E d \in devices : BeginWakeAndRemote(d)
  BY <1>15, BeginWakeAndRemoteInv
<1>16. CASE \E kind \in {"wake", "check"}, targets \in SUBSET devices : PrepareBatch(kind, targets)
  BY <1>16, PrepareBatchInv
<1> QED BY <1>1, <1>2, <1>3, <1>4, <1>5, <1>6, <1>7, <1>8, <1>9, <1>10, <1>11, <1>12, <1>13,
      <1>14, <1>15, <1>16 DEF Press

\* Every message keeps the invariant, whenever it arrives.
LEMMA ArriveInv == ASSUME DeskInv, NEW i \in Slots, Arrive(i) PROVE DeskInv'
<1>1. CASE Ignore(i) \/ Discovered(i) \/ DiscoveryFailed(i)
  BY <1>1, QuietAnswersInv
<1>2. CASE DataLoaded(i)
  BY <1>2, DataLoadedInv
<1>3. CASE LoadFailed(i) \/ ProbeDone(i) \/ ScanDone(i)
  BY <1>3, LoadEndsInv
<1>4. CASE ScanResult(i)
  BY <1>4, ScanResultInv
<1>5. CASE PacketSent(i)
  BY <1>5, PacketSentInv
<1>6. CASE WakeFailed(i) \/ WakeVerified(i) \/ RemoteOpened(i) \/ ShutdownVerified(i)
  BY <1>6, ActionEndsInv
<1>7. CASE ShutdownInitiated(i)
  BY <1>7, ShutdownInitiatedInv
<1>8. CASE FormKept(i)
  BY <1>8, FormKeptInv
<1>9. CASE FormSaved(i)
  BY <1>9, FormSavedInv
<1>10. CASE FormPrepared(i)
  BY <1>10, FormPreparedInv
<1>11. CASE BatchResult(i)
  BY <1>11, BatchResultInv
<1>12. CASE BatchDone(i)
  BY <1>12, BatchDoneInv
<1> QED BY <1>1, <1>2, <1>3, <1>4, <1>5, <1>6, <1>7, <1>8, <1>9, <1>10, <1>11, <1>12 DEF Arrive

\* Whatever the user presses and whichever answer comes next, the invariant holds.
THEOREM Invariance == Spec => []DeskInv
<1>1. DeskInv /\ [Next]_vars => DeskInv'
  BY PressInv, ArriveInv, StutterInv DEF Next
<1> QED BY <1>1, InitInv, PTL DEF Spec

\* For any machines and keys: whatever the screen shows as under way is awaited
\* from a command in flight, with the identifier that will be accepted.
THEOREM SpinnersAreAwaited == Spec => []SpinnersAreBacked
<1>1. DeskInv => SpinnersAreBacked
  <2> SUFFICES ASSUME DeskInv PROVE SpinnersAreBacked
    OBVIOUS
  <2> USE DEF DeskInv
  <2>1. phase = "boot" => loading
    BY DEF LoadInv
  <2>2. loading => Awaited({"load"}, requestID)
    BY DEF LoadInv, Awaited, Stale, LoadKinds, ActionKinds
  <2>3. checking => Awaited({"scan", "probe"}, requestID)
    BY DEF LoadInv, Awaited, Stale, LoadKinds, ActionKinds
  <2>4. actionTarget # NoMachine => Awaited(ActionKinds, actionID)
    BY DEF ActionInv, Awaited, Stale, LoadKinds, ActionKinds
  <2>5. shuttingDown => Awaited({"verifyShutdown"}, actionID)
    BY DEF ActionInv, Awaited, Stale, LoadKinds, ActionKinds
  <2>6. batchRunning => Awaited({"batch"}, batchID)
    BY DEF BatchInv, BatchAccounts, Awaited, Stale, LoadKinds, ActionKinds
  <2>7. lanPreparing => Awaited({"prepare"}, lanPrepareID)
    BY DEF FormInv, Awaited, Stale, LoadKinds, ActionKinds
  <2>8. form.saving => \E i \in Slots : cmds[i].kind \in SaveKinds
    BY DEF FormInv
  <2> QED BY <2>1, <2>2, <2>3, <2>4, <2>5, <2>6, <2>7, <2>8 DEF SpinnersAreBacked
<1> QED BY <1>1, Invariance, PTL

\* A load, a check or a batch that is not the current one has been cancelled.
THEOREM ReplacedAreCancelled == Spec => []ReplacedIsCancelled
<1>1. DeskInv => ReplacedIsCancelled
  BY DEF DeskInv, LoadInv, BatchInv, OneReader, ReplacedIsCancelled
<1> QED BY <1>1, Invariance, PTL

\* A wake and the opening of a remote are never both in progress.
THEOREM WakeOrRemote == Spec => []WakeAndRemoteDoNotOverlap
<1>1. DeskInv => WakeAndRemoteDoNotOverlap
  BY DEF DeskInv, ActionInv, WakeAndRemoteDoNotOverlap
<1> QED BY <1>1, Invariance, PTL

\* A batch of any size loses no machine between the reader and the results.
THEOREM BatchesAccount == Spec => []BatchAccounts
<1>1. DeskInv => BatchAccounts
  BY DEF DeskInv, BatchInv
<1> QED BY <1>1, Invariance, PTL

\* However many batches are retried, cut short, dropped and begun, a retry wakes no
\* machine again whose result said that its packet was sent (retryBatch).
THEOREM RetriesSpareCompletedTargets == Spec => []RetriesSpareTheCompleted
<1>1. DeskInv => RetriesSpareTheCompleted
  <2> SUFFICES ASSUME DeskInv, batchKind = "wake", NEW d \in batchTargets \cap saidSent
               PROVE  batchRunning /\ \E i \in DOMAIN batchResults :
                                         batchResults[i] = [device |-> d, status |-> "sent"]
    BY DEF RetriesSpareTheCompleted
  <2>1. batchRunning /\ d \in Reported
    BY DEF DeskInv, BatchInv, SentIsSettled
  <2>2. PICK i \in DOMAIN batchResults : batchResults[i].device = d
    BY <2>1 DEF Reported
  <2>3. batchResults[i].status = "sent"
    BY <2>2 DEF DeskInv, BatchInv, SentIsSettled
  <2>4. batchResults[i] \in [device: Machines, status: Statuses]
    <3> DEFINE R == [device: Machines, status: Statuses]
    <3>1. batchResults \in Seq(R)
      BY DEF DeskInv, DeskTypeOK
    <3> HIDE DEF R
    <3>2. \A k \in DOMAIN batchResults : batchResults[k] \in R
      BY <3>1
    <3> QED BY <2>2, <3>2 DEF R
  <2> QED BY <2>1, <2>2, <2>3, <2>4
<1> QED BY <1>1, Invariance, PTL

\* What a step may do to the results of the batch: nothing, add one, or begin
\* another batch.
LEMMA ResultsStep ==
    ASSUME [Next]_vars
    PROVE  \/ batchResults' = batchResults
           \/ batchID' = batchID + 1
           \/ \E r : batchResults' = Append(batchResults, r)
<1>1. CASE UNCHANGED vars
  BY <1>1 DEF vars, batchVars
<1>2. CASE Press
  <2>1. CASE \/ Refresh \/ CancelCheck \/ OpenPicker \/ ClosePicker \/ CancelAction
             \/ BeginEditForm \/ SaveForm \/ LeaveForm
             \/ BeginDelete \/ DeleteConfirmed \/ DeleteCancelled
    BY <2>1 DEF batchVars, Refresh, CancelCheck, OpenPicker, ClosePicker, CancelAction, BeginEditForm,
       SaveForm, LeaveForm, BeginDelete, DeleteConfirmed, DeleteCancelled
  <2>2. CASE \/ BeginLANDiscover \/ CloseLAN \/ AddSelectedLANHost \/ ShowKnownHost \/ CancelPreparation
    BY <2>2 DEF batchVars, BeginLANDiscover, CloseLAN, AddSelectedLANHost, ShowKnownHost, CancelPreparation
  <2>3. CASE \E d \in devices : Probe(d) \/ BeginWake(d) \/ BeginWakeAndRemote(d) \/ BeginShutdownForm(d)
    BY <2>3 DEF batchVars, Probe, BeginWake, BeginWakeAndRemote, BeginAction, BeginShutdownForm
  <2>4. CASE \/ \E kind \in {"wake", "check"}, targets \in SUBSET devices : PrepareBatch(kind, targets)
             \/ RetryBatch \/ DropBatch \/ CancelBatch
    BY <2>4 DEF batchVars, PrepareBatch, RetryBatch, DropBatch, CancelBatch
  <2>5. CASE StartBatch
    BY <2>5 DEF StartBatch
  <2> QED BY <1>2, <2>1, <2>2, <2>3, <2>4, <2>5 DEF Press
<1>3. CASE \E i \in Slots : Arrive(i)
  <2>1. PICK i \in Slots : Arrive(i)
    BY <1>3
  <2>2. CASE BatchResult(i)
    BY <2>2 DEF BatchResult
  <2>3. CASE ~ BatchResult(i)
    <3>1. CASE Ignore(i) \/ DataLoaded(i) \/ LoadFailed(i) \/ ScanResult(i) \/ ScanDone(i) \/ ProbeDone(i)
      BY <3>1 DEF batchVars, Ignore, DataLoaded, LoadFailed, ScanResult, ScanDone, ProbeDone
    <3>2. CASE PacketSent(i) \/ WakeFailed(i) \/ WakeVerified(i) \/ RemoteOpened(i) \/ ShutdownVerified(i)
      BY <3>2 DEF batchVars, PacketSent, WakeFailed, WakeVerified, RemoteOpened, ShutdownVerified
    <3>3. CASE ShutdownInitiated(i) \/ FormKept(i) \/ FormSaved(i) \/ FormPrepared(i)
      BY <3>3 DEF batchVars, ShutdownInitiated, FormKept, FormSaved, FormPrepared
    <3>4. CASE Discovered(i) \/ DiscoveryFailed(i) \/ BatchDone(i)
      BY <3>4 DEF batchVars, Discovered, DiscoveryFailed, BatchDone
    <3> QED BY <2>1, <2>3, <3>1, <3>2, <3>3, <3>4 DEF Arrive
  <2> QED BY <2>2, <2>3
<1> QED BY <1>1, <1>2, <1>3 DEF Next

\* "Completed results are retained": until another batch is begun no step, of the
\* user or of an answer, takes back a result.
THEOREM ResultsAreRetained == Spec => ResultsRetained
<1>1. DeskInv /\ DeskInv' /\ [Next]_vars =>
        [batchID' = batchID =>
           /\ Len(batchResults') >= Len(batchResults)
           /\ SubSeq(batchResults', 1, Len(batchResults)) = batchResults]_vars
  <2> SUFFICES ASSUME DeskInv, DeskInv', [Next]_vars, batchID' = batchID
               PROVE  /\ Len(batchResults') >= Len(batchResults)
                      /\ SubSeq(batchResults', 1, Len(batchResults)) = batchResults
    OBVIOUS
  <2> DEFINE R == [device: Machines, status: Statuses]
  <2>1. batchID \in Nat /\ batchResults \in Seq(R) /\ batchResults' \in Seq(R)
    BY DEF DeskInv, DeskTypeOK
  <2>2. PICK r : batchResults' = batchResults \/ batchResults' = Append(batchResults, r)
    BY <2>1, ResultsStep
  <2> HIDE DEF R
  <2>3. /\ Len(batchResults) \in Nat
        /\ \/ Len(batchResults') = Len(batchResults)
           \/ Len(batchResults') = Len(batchResults) + 1
        /\ \A k \in 1 .. Len(batchResults) : batchResults'[k] = batchResults[k]
    BY <2>1, <2>2
  <2>4. SubSeq(batchResults', 1, Len(batchResults)) = batchResults
    BY <2>1, <2>3
  <2> QED BY <2>3, <2>4
<1> QED BY <1>1, Invariance, PTL DEF Spec, ResultsRetained

=============================================================================

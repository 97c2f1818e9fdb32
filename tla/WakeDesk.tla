------------------------------ MODULE WakeDesk ------------------------------
(***************************************************************************)
(* The Wake Desk (internal/tui): one model that only Update changes, one    *)
(* message at a time, and the commands it has launched. A command runs in   *)
(* a goroutine of its own and its message may arrive at any later time, in  *)
(* any order; by then the user may have cancelled, replaced or forgotten    *)
(* what it was for. Identifiers in the messages (requestID, actionID,       *)
(* batchID, lanID, lanPrepareID) let Update tell; forms and power commands  *)
(* carry none.                                                             *)
(*                                                                         *)
(* Abstracted: tabs, filters and the cursor (the user may choose any        *)
(* machine that is displayed, and a load or a discovery displays any set);  *)
(* modes that only hold other keys back (help, filter input, batch results, *)
(* refused keys); the power states shown; status lines, motion and layout;  *)
(* quitting, which ends the process.                                       *)
(***************************************************************************)
EXTENDS Integers, Sequences, FiniteSets

CONSTANTS
    Machines,     \* the machines the inventory may list
    NoMachine,
    MaxInFlight,  \* bound: commands in flight at a time
    MaxBegun,     \* bound: the identifiers the user's keys may use up
    MaxFound,     \* bound: new hosts of a discovery
    Doing         \* bound: what the user of an instance does, out of Uses

Uses == {"check", "act", "power", "edit", "delete", "lan", "batch"}

ASSUME WakeDeskAssumption ==
    /\ NoMachine \notin Machines
    /\ MaxInFlight \in Nat \ {0} /\ MaxBegun \in Nat /\ MaxFound \in Nat
    /\ Doing \subseteq Uses

VARIABLES
    phase,         \* "boot" (nothing is shown yet), "ready" or "error"
    loading,       \* the inventory is being read
    checking,      \* machines are being probed
    requestID,     \* the current load, scan or probe
    loadCancel,    \* the request whose context can be cancelled, 0 if none
    devices,       \* the machines displayed
    waking, opening, shuttingDown,
    actionID,      \* the current machine action
    actionTarget,  \* its machine
    actionCancel,  \* the action whose context can be cancelled, 0 if none
    picker,        \* the action picker is open
    form,          \* the open form, or NoForm
    confirm,       \* a deletion awaits its confirmation
    lanOpen,       \* the list of LAN neighbours is open
    lanID,         \* the current discovery
    lanFound,      \* new hosts in that list
    lanPreparing,  \* the form of a new host is being prepared
    lanPrepareID,  \* the current preparation
    lanQueue,      \* new hosts whose forms are still to come
    batchKind,     \* "wake" or "check" while a batch is reviewed or runs, else "none"
    batchTargets, batchRunning, batchID,
    batchCancel,   \* the batch whose context can be cancelled, 0 if none yet
    batchResults,  \* of the last batch
    lastBatchKind,
    saidSent,      \* history: machines whose packet was said to be sent since they were last marked
    cmds           \* cmds[i]: the command in flight in slot i, or Idle

loadVars == <<phase, loading, checking, requestID, loadCancel, devices>>
actionVars == <<waking, opening, shuttingDown, actionID, actionTarget, actionCancel>>
modeVars == <<picker, form, confirm>>
lanVars == <<lanOpen, lanID, lanFound, lanPreparing, lanPrepareID, lanQueue>>
batchVars == <<batchKind, batchTargets, batchRunning, batchID, batchCancel, batchResults,
               lastBatchKind, saidSent>>
vars == <<loadVars, actionVars, modeVars, lanVars, batchVars, cmds>>

-----------------------------------------------------------------------------
(* Commands in flight.                                                     *)

Slots == 1 .. MaxInFlight

LoadKinds == {"load", "scan", "probe"}
ActionKinds == {"wake", "verifyWake", "open", "verifyShutdown"}
SaveKinds == {"saveEdit", "savePower", "delete"}
Kinds == LoadKinds \cup ActionKinds \cup SaveKinds \cup {"batch", "discover", "prepare"}

\* live: its context is not cancelled; left: the machines whose results a
\* reader of fleet.Run still has to see (Run reports each once, FleetContract).
Command(kind, id, target, left) ==
    [kind |-> kind, id |-> id, target |-> target, live |-> TRUE, left |-> left]

Idle == [kind |-> "idle", id |-> 0, target |-> NoMachine, live |-> FALSE, left |-> {}]

NoForm == [kind |-> "none", target |-> NoMachine, saving |-> FALSE]
Form(kind, target) == [kind |-> kind, target |-> target, saving |-> FALSE]

Without(i) == [cmds EXCEPT ![i] = Idle]

Launch(running, c) ==
    LET i == CHOOSE i \in Slots : running[i] = Idle /\ \A j \in 1 .. i - 1 : running[j] # Idle
    IN  [running EXCEPT ![i] = c]

\* The cancel function of the context that commands of these kinds share.
Cut(running, kinds, id) ==
    [i \in Slots |-> IF running[i].kind \in kinds /\ running[i].id = id
                     THEN [running[i] EXCEPT !.live = FALSE] ELSE running[i]]

CutLoad(running) == Cut(running, LoadKinds, loadCancel)
CutAction(running) == Cut(running, ActionKinds, actionCancel)

\* What bounds the user in an instance: a free slot, and unused identifiers.
Within ==
    /\ \E i \in Slots : cmds[i] = Idle
    /\ requestID + actionID + batchID + lanID + lanPrepareID < MaxBegun

-----------------------------------------------------------------------------
(* Where a key goes: handleKey asks in this order.                         *)

\* Variant: an action that opens a remote locks nothing.
ActingUnlessOpening == waking \/ shuttingDown

Acting == waking \/ opening \/ shuttingDown

Reviewing == batchKind # "none" /\ ~batchRunning
Attending == phase = "ready" /\ ~Reviewing
AtForm == Attending /\ form # NoForm
AtPicker == Attending /\ form = NoForm /\ picker
AtLAN == Attending /\ form = NoForm /\ ~picker /\ lanOpen
AtDesk == Attending /\ form = NoForm /\ ~picker /\ ~lanOpen
AtConfirm == AtDesk /\ confirm
Free == AtDesk /\ ~confirm /\ ~Acting

\* Esc cancels a batch, a preparation or a check before it means anything else.
EscIsPlain == ~batchRunning /\ ~lanPreparing /\ ~checking

\* A machine action is reached by its key, which a batch locks, or by the picker.
Chosen == (Free /\ ~batchRunning) \/ AtPicker

-----------------------------------------------------------------------------
Init ==
    /\ phase = "boot" /\ loading = TRUE /\ checking = FALSE
    /\ requestID = 1 /\ loadCancel = 1 /\ devices = {}
    /\ waking = FALSE /\ opening = FALSE /\ shuttingDown = FALSE
    /\ actionID = 0 /\ actionTarget = NoMachine /\ actionCancel = 0
    /\ picker = FALSE /\ form = NoForm /\ confirm = FALSE
    /\ lanOpen = FALSE /\ lanID = 0 /\ lanFound = 0
    /\ lanPreparing = FALSE /\ lanPrepareID = 0 /\ lanQueue = 0
    /\ batchKind = "none" /\ batchTargets = {} /\ batchRunning = FALSE
    /\ batchID = 0 /\ batchCancel = 0 /\ batchResults = <<>> /\ lastBatchKind = "none"
    /\ saidSent = {}
    /\ cmds = Launch([i \in Slots |-> Idle], Command("load", 1, NoMachine, {}))

-----------------------------------------------------------------------------
(* Parts that several handlers share.                                      *)

(***************************************************************************)
(* Variants, here and below: plausible mistakes, which no specification     *)
(* uses. Each breaks a property when it takes the place of the definition   *)
(* that follows it, as PROJECT.json records.                               *)
(***************************************************************************)

\* A refresh that leaves a check on the screen whose results it will refuse.
BeginRefreshKeepingCheck(running, toPhase) ==
    /\ requestID' = requestID + 1
    /\ loading' = TRUE /\ phase' = toPhase
    /\ loadCancel' = requestID + 1
    /\ cmds' = Launch(CutLoad(running), Command("load", requestID + 1, NoMachine, {}))
    /\ UNCHANGED <<checking, devices>>

\* A refresh that forgets the cancel function of what it replaces.
BeginRefreshUncancelled(running, toPhase) ==
    /\ requestID' = requestID + 1
    /\ loading' = TRUE /\ checking' = FALSE /\ phase' = toPhase
    /\ loadCancel' = requestID + 1
    /\ cmds' = Launch(running, Command("load", requestID + 1, NoMachine, {}))
    /\ UNCHANGED devices

\* beginRefresh, with the commands that are in flight otherwise.
BeginRefresh(running, toPhase) ==
    /\ requestID' = requestID + 1
    /\ loading' = TRUE /\ checking' = FALSE /\ phase' = toPhase
    /\ loadCancel' = requestID + 1
    /\ cmds' = Launch(CutLoad(running), Command("load", requestID + 1, NoMachine, {}))
    /\ UNCHANGED devices

\* finishLoadContext, and no load or check is waited for any more.
EndLoading(running) ==
    /\ loading' = FALSE /\ checking' = FALSE /\ loadCancel' = 0
    /\ cmds' = CutLoad(running)

\* cancelLoading
CancelLoading ==
    /\ requestID' = requestID + 1
    /\ phase' = "ready" /\ loading' = FALSE /\ checking' = FALSE /\ loadCancel' = 0
    /\ UNCHANGED devices

\* finishAction
FinishAction == actionTarget' = NoMachine /\ actionCancel' = 0

\* beginAddFromLAN
BeginAddFromLAN(running) ==
    /\ lanPrepareID' = lanPrepareID + 1
    /\ lanPreparing' = TRUE
    /\ cmds' = Launch(running, Command("prepare", lanPrepareID + 1, NoMachine, {}))
    /\ UNCHANGED <<lanID, lanFound>>

Reported == {batchResults[i].device : i \in DOMAIN batchResults}

-----------------------------------------------------------------------------
(* The user's keys: checks and machine actions.                            *)

\* r, or r on the screen that says the inventory could not be read.
Refresh ==
    /\ "check" \in Doing /\ Within
    /\ \/ phase = "ready" /\ Free /\ ~batchRunning /\ BeginRefresh(cmds, "ready")
       \/ phase = "error" /\ BeginRefresh(cmds, "boot")
    /\ UNCHANGED <<actionVars, modeVars, lanVars, batchVars>>

\* s, or the picker: probe one machine, in place of what is being loaded.
Probe(d) ==
    /\ "check" \in Doing /\ Within
    /\ Chosen /\ ~checking
    /\ requestID' = requestID + 1
    /\ phase' = "ready" /\ loading' = FALSE /\ checking' = TRUE
    /\ loadCancel' = requestID + 1
    /\ cmds' = Launch(CutLoad(cmds), Command("probe", requestID + 1, d, {}))
    /\ picker' = FALSE
    /\ UNCHANGED <<devices, actionVars, form, confirm, lanVars, batchVars>>

\* Esc while machines are being probed.
CancelCheck ==
    /\ phase = "ready" /\ ~Reviewing /\ ~batchRunning /\ ~lanPreparing /\ checking
    /\ CancelLoading
    /\ cmds' = CutLoad(cmds)
    /\ UNCHANGED <<actionVars, modeVars, lanVars, batchVars>>

\* Enter on a machine. A batch does not lock this key.
OpenPicker ==
    /\ Doing \cap {"check", "act", "power"} # {}
    /\ Free /\ devices # {} /\ ~checking
    /\ picker' = TRUE
    /\ UNCHANGED <<loadVars, actionVars, form, confirm, lanVars, batchVars, cmds>>

\* q, 5, or an action that is refused.
ClosePicker ==
    /\ AtPicker
    /\ picker' = FALSE
    /\ UNCHANGED <<loadVars, actionVars, form, confirm, lanVars, batchVars, cmds>>

BeginAction(kind, d) ==
    /\ "act" \in Doing /\ Within
    /\ Chosen /\ ~Acting
    /\ actionID' = actionID + 1
    /\ actionTarget' = d
    /\ actionCancel' = actionID + 1
    /\ cmds' = Launch(cmds, Command(kind, actionID + 1, d, {}))
    /\ picker' = FALSE
    /\ UNCHANGED <<loadVars, shuttingDown, form, confirm, lanVars, batchVars>>

\* w, f or the picker
BeginWake(d) ==
    /\ BeginAction("wake", d)
    /\ waking' = TRUE
    /\ UNCHANGED opening

\* c or the picker, for a machine with a usable remote profile
BeginWakeAndRemote(d) ==
    /\ BeginAction("open", d)
    /\ opening' = TRUE
    /\ UNCHANGED waking

\* Esc during a machine action
CancelAction ==
    /\ AtDesk /\ EscIsPlain /\ Acting
    /\ actionID' = actionID + 1
    /\ waking' = FALSE /\ opening' = FALSE /\ shuttingDown' = FALSE
    /\ FinishAction
    /\ cmds' = CutAction(cmds)
    /\ UNCHANGED <<loadVars, modeVars, lanVars, batchVars>>

-----------------------------------------------------------------------------
(* Forms and deletions.                                                    *)

\* P or the picker
BeginShutdownForm(d) ==
    /\ "power" \in Doing
    /\ Chosen
    /\ form' = Form("power", d)
    /\ picker' = FALSE
    /\ UNCHANGED <<loadVars, actionVars, confirm, lanVars, batchVars, cmds>>

\* p, and without a batch a, e, i and E.
BeginEditForm ==
    /\ "edit" \in Doing
    /\ Free
    /\ form' = Form("edit", NoMachine)
    /\ UNCHANGED <<loadVars, actionVars, picker, confirm, lanVars, batchVars, cmds>>

\* Ctrl+S, or Enter on the last field
SaveForm ==
    /\ Within
    /\ AtForm /\ ~form.saving
    /\ form' = [form EXCEPT !.saving = TRUE]
    /\ cmds' = Launch(cmds, Command(IF form.kind = "power" THEN "savePower" ELSE "saveEdit",
                                    0, form.target, {}))
    /\ UNCHANGED <<loadVars, actionVars, picker, confirm, lanVars, batchVars>>

\* Esc in a form, even while it is being saved
LeaveForm ==
    /\ AtForm /\ EscIsPlain
    /\ form' = NoForm
    /\ lanQueue' = 0
    /\ UNCHANGED <<loadVars, actionVars, picker, confirm, lanOpen, lanID, lanFound, lanPreparing,
                   lanPrepareID, batchVars, cmds>>

BeginDelete ==
    /\ "delete" \in Doing
    /\ Free /\ ~batchRunning
    /\ confirm' = TRUE
    /\ UNCHANGED <<loadVars, actionVars, picker, form, lanVars, batchVars, cmds>>

DeleteConfirmed ==
    /\ Within
    /\ AtConfirm
    /\ confirm' = FALSE
    /\ cmds' = Launch(cmds, Command("delete", 0, NoMachine, {}))
    /\ UNCHANGED <<loadVars, actionVars, picker, form, lanVars, batchVars>>

DeleteCancelled ==
    /\ AtConfirm
    /\ confirm' = FALSE
    /\ UNCHANGED <<loadVars, actionVars, picker, form, lanVars, batchVars, cmds>>

-----------------------------------------------------------------------------
(* LAN discovery.                                                          *)

\* n at the desk; n, r or f in the list
BeginLANDiscover ==
    /\ "lan" \in Doing /\ Within
    /\ (Free /\ ~batchRunning) \/ AtLAN
    /\ lanID' = lanID + 1
    /\ lanOpen' = TRUE
    /\ cmds' = Launch(cmds, Command("discover", lanID + 1, NoMachine, {}))
    /\ UNCHANGED <<loadVars, actionVars, modeVars, lanFound, lanPreparing, lanPrepareID, lanQueue,
                   batchVars>>

CloseLAN ==
    /\ AtLAN
    /\ lanOpen' = FALSE
    /\ lanID' = lanID + 1
    /\ UNCHANGED <<loadVars, actionVars, modeVars, lanFound, lanPreparing, lanPrepareID, lanQueue,
                   batchVars, cmds>>

\* Enter: the marked new hosts one after the other, or the one under the cursor.
AddSelectedLANHost ==
    /\ Within
    /\ AtLAN /\ lanFound > 0
    /\ lanQueue' \in {k - 1 : k \in 1 .. lanFound} \cup {lanQueue}
    /\ lanOpen' = FALSE
    /\ BeginAddFromLAN(cmds)
    /\ UNCHANGED <<loadVars, actionVars, modeVars, batchVars>>

\* Enter on a host that is in the inventory
ShowKnownHost ==
    /\ AtLAN
    /\ lanOpen' = FALSE
    /\ UNCHANGED <<loadVars, actionVars, modeVars, lanID, lanFound, lanPreparing, lanPrepareID,
                   lanQueue, batchVars, cmds>>

\* Esc while a form is being prepared
CancelPreparation ==
    /\ Attending /\ ~batchRunning /\ lanPreparing
    /\ lanPrepareID' = lanPrepareID + 1
    /\ lanPreparing' = FALSE
    /\ lanQueue' = 0
    /\ UNCHANGED <<loadVars, actionVars, modeVars, lanOpen, lanID, lanFound, batchVars, cmds>>

-----------------------------------------------------------------------------
(* Batches.                                                                *)

\* W or S, over the machines marked with Space
PrepareBatch(kind, targets) ==
    /\ "batch" \in Doing
    /\ Free /\ ~batchRunning
    /\ targets # {}
    /\ batchKind' = kind /\ batchTargets' = targets
    /\ saidSent' = saidSent \ targets
    /\ UNCHANGED <<loadVars, actionVars, modeVars, lanVars, batchRunning, batchID, batchCancel,
                   batchResults, lastBatchKind, cmds>>

\* A retry of every machine that was not found online.
RetryUnlessOnline ==
    LET marked == {batchResults[i].device : i \in
                     {j \in DOMAIN batchResults : batchResults[j].status # "online"}}
    IN  /\ "batch" \in Doing
        /\ Free /\ ~batchRunning
        /\ batchTargets' = marked \cap devices
        /\ batchKind' = IF batchTargets' = {} THEN batchKind ELSE lastBatchKind
        /\ UNCHANGED <<loadVars, actionVars, modeVars, lanVars, batchRunning, batchID, batchCancel,
                       batchResults, lastBatchKind, saidSent, cmds>>

\* R: mark the machines of the last batch that neither answered nor were sent
\* a packet, and review a batch of those still displayed.
RetryBatch ==
    LET statuses == {batchResults[i].status : i \in DOMAIN batchResults}
        kind == IF statuses \cap {"sent", "failed"} # {} THEN "wake"
                ELSE IF lastBatchKind = "none" THEN "check" ELSE lastBatchKind
        marked == {batchResults[i].device : i \in
                     {j \in DOMAIN batchResults : batchResults[j].status \notin {"sent", "online"}}}
    IN  /\ "batch" \in Doing
        /\ Free /\ ~batchRunning
        /\ batchTargets' = marked \cap devices
        /\ batchKind' = IF batchTargets' = {} THEN batchKind ELSE kind
        /\ UNCHANGED <<loadVars, actionVars, modeVars, lanVars, batchRunning, batchID, batchCancel,
                       batchResults, lastBatchKind, saidSent, cmds>>

\* The results of the batch before are still there.
StartBatchAppending ==
    /\ Within
    /\ phase = "ready" /\ Reviewing
    /\ CancelLoading
    /\ batchRunning' = TRUE
    /\ lastBatchKind' = batchKind
    /\ batchID' = batchID + 1
    /\ batchCancel' = batchID + 1
    /\ cmds' = Launch(CutLoad(cmds), Command("batch", batchID + 1, NoMachine, batchTargets))
    /\ UNCHANGED <<actionVars, modeVars, lanVars, batchKind, batchTargets, batchResults, saidSent>>

\* Enter in the review; a load or a check makes way.
StartBatch ==
    /\ Within
    /\ phase = "ready" /\ Reviewing
    /\ CancelLoading
    /\ batchRunning' = TRUE
    /\ lastBatchKind' = batchKind
    /\ batchID' = batchID + 1
    /\ batchCancel' = batchID + 1
    /\ batchResults' = <<>>
    /\ cmds' = Launch(CutLoad(cmds), Command("batch", batchID + 1, NoMachine, batchTargets))
    /\ UNCHANGED <<actionVars, modeVars, lanVars, batchKind, batchTargets, saidSent>>

DropBatch ==
    /\ phase = "ready" /\ Reviewing
    /\ batchKind' = "none" /\ batchTargets' = {}
    /\ UNCHANGED <<loadVars, actionVars, modeVars, lanVars, batchRunning, batchID, batchCancel,
                   batchResults, lastBatchKind, saidSent, cmds>>

\* A cancelled batch starts from nothing again.
CancelBatchForgetting ==
    /\ phase = "ready" /\ batchRunning
    /\ batchResults' = <<>>
    /\ cmds' = Cut(cmds, {"batch"}, batchCancel)
    /\ UNCHANGED <<loadVars, actionVars, modeVars, lanVars, batchKind, batchTargets, batchRunning,
                   batchID, batchCancel, lastBatchKind, saidSent>>

\* Esc during a batch: its reader goes on to the end of the results.
CancelBatch ==
    /\ phase = "ready" /\ batchRunning
    /\ cmds' = Cut(cmds, {"batch"}, batchCancel)
    /\ UNCHANGED <<loadVars, actionVars, modeVars, lanVars, batchVars>>

-----------------------------------------------------------------------------
(* Messages: what Update does with the answer of the command in slot i.     *)

\* The answer is not for what the desk is waiting for: it changes nothing.
Stale(c) ==
    \/ c.kind \in LoadKinds /\ c.id # requestID
    \/ c.kind \in ActionKinds /\ (c.id # actionID \/ c.target # actionTarget)
    \/ c.kind = "batch" /\ c.id # batchID
    \/ c.kind = "discover" /\ c.id # lanID
    \/ c.kind = "prepare" /\ c.id # lanPrepareID

Ignore(i) ==
    /\ Stale(cmds[i])
    /\ cmds' = Without(i)
    /\ UNCHANGED <<loadVars, actionVars, modeVars, lanVars, batchVars>>

\* wakeDataMsg: show the inventory, then probe its machines.
DataLoaded(i) ==
    /\ cmds[i].kind = "load" /\ ~Stale(cmds[i])
    /\ \E found \in SUBSET Machines :
          /\ devices' = found
          /\ phase' = "ready" /\ loading' = FALSE
          /\ IF found = {}
             THEN checking' = FALSE /\ loadCancel' = 0 /\ cmds' = CutLoad(Without(i))
             ELSE /\ checking' = TRUE /\ loadCancel' = requestID
                  /\ cmds' = Launch(CutLoad(Without(i)), Command("scan", requestID, NoMachine, found))
    /\ UNCHANGED <<requestID, actionVars, modeVars, lanVars, batchVars>>

\* wakeDataMsg with an error
LoadFailed(i) ==
    /\ cmds[i].kind = "load" /\ ~Stale(cmds[i])
    /\ EndLoading(Without(i))
    /\ phase' = IF phase = "boot" /\ devices = {} THEN "error" ELSE "ready"
    /\ UNCHANGED <<requestID, devices, actionVars, modeVars, lanVars, batchVars>>

\* fleetMsg of a scan: another result, or the end of the results.
ScanResult(i) ==
    /\ cmds[i].kind = "scan" /\ ~Stale(cmds[i])
    /\ \E d \in cmds[i].left : cmds' = [cmds EXCEPT ![i].left = @ \ {d}]
    /\ UNCHANGED <<loadVars, actionVars, modeVars, lanVars, batchVars>>

\* The scan of an inventory ends without being marked as ended.
ScanDoneQuietly(i) ==
    /\ cmds[i].kind = "scan" /\ ~Stale(cmds[i]) /\ cmds[i].left = {}
    /\ loadCancel' = 0
    /\ cmds' = CutLoad(Without(i))
    /\ UNCHANGED <<phase, loading, checking, requestID, devices, actionVars, modeVars, lanVars, batchVars>>

ScanDone(i) ==
    /\ cmds[i].kind = "scan" /\ ~Stale(cmds[i]) /\ cmds[i].left = {}
    /\ checking' = FALSE /\ loadCancel' = 0
    /\ cmds' = CutLoad(Without(i))
    /\ UNCHANGED <<phase, loading, requestID, devices, actionVars, modeVars, lanVars, batchVars>>

\* probeResultMsg
ProbeDone(i) ==
    /\ cmds[i].kind = "probe" /\ ~Stale(cmds[i])
    /\ phase' = "ready"
    /\ EndLoading(Without(i))
    /\ UNCHANGED <<requestID, devices, actionVars, modeVars, lanVars, batchVars>>

\* wakeResultMsg: the packet is sent and the machine watched, or the wake failed.
PacketSent(i) ==
    /\ cmds[i].kind = "wake" /\ ~Stale(cmds[i])
    /\ cmds' = Launch(Without(i), Command("verifyWake", actionID, cmds[i].target, {}))
    /\ UNCHANGED <<loadVars, actionVars, modeVars, lanVars, batchVars>>

WakeFailed(i) ==
    /\ cmds[i].kind = "wake" /\ ~Stale(cmds[i])
    /\ waking' = FALSE
    /\ FinishAction
    /\ cmds' = CutAction(Without(i))
    /\ UNCHANGED <<loadVars, opening, shuttingDown, actionID, modeVars, lanVars, batchVars>>

\* wakeVerifyMsg
WakeVerified(i) ==
    /\ cmds[i].kind = "verifyWake" /\ ~Stale(cmds[i])
    /\ waking' = FALSE
    /\ FinishAction
    /\ cmds' = CutAction(Without(i))
    /\ UNCHANGED <<loadVars, opening, shuttingDown, actionID, modeVars, lanVars, batchVars>>

\* remoteResultMsg
RemoteOpened(i) ==
    /\ cmds[i].kind = "open" /\ ~Stale(cmds[i])
    /\ opening' = FALSE
    /\ FinishAction
    /\ cmds' = CutAction(Without(i))
    /\ UNCHANGED <<loadVars, waking, shuttingDown, actionID, modeVars, lanVars, batchVars>>

\* shutdownInitiatedMsg: carries the machine only, and asks nobody. The cancel
\* function of an action in progress is overwritten, or used if the machine is
\* not displayed any more.
ShutdownInitiated(i) ==
    /\ cmds[i].kind = "savePower"
    /\ form' = NoForm
    /\ actionID' = actionID + 1
    /\ IF cmds[i].target \in devices
       THEN /\ shuttingDown' = TRUE
            /\ actionTarget' = cmds[i].target
            /\ actionCancel' = actionID + 1
            /\ cmds' = Launch(Without(i), Command("verifyShutdown", actionID + 1, cmds[i].target, {}))
       ELSE /\ shuttingDown' = FALSE
            /\ FinishAction
            /\ cmds' = CutAction(Without(i))
    /\ UNCHANGED <<loadVars, waking, opening, picker, confirm, lanVars, batchVars>>

\* shutdownVerifyMsg
ShutdownVerified(i) ==
    /\ cmds[i].kind = "verifyShutdown" /\ ~Stale(cmds[i])
    /\ shuttingDown' = FALSE
    /\ FinishAction
    /\ cmds' = CutAction(Without(i))
    /\ UNCHANGED <<loadVars, waking, opening, actionID, modeVars, lanVars, batchVars>>

\* formSavedMsg that keeps the form, with an error: no deletion answers so.
FormKept(i) ==
    /\ cmds[i].kind \in SaveKinds \ {"delete"}
    /\ form' = [form EXCEPT !.saving = FALSE]
    /\ cmds' = Without(i)
    /\ UNCHANGED <<loadVars, actionVars, picker, confirm, lanVars, batchVars>>

\* formSavedMsg: close the form that is open, go on with the next new host or
\* read the inventory again.
FormSaved(i) ==
    /\ cmds[i].kind \in SaveKinds
    /\ form' = NoForm
    /\ IF lanQueue > 0
       THEN /\ lanQueue' = lanQueue - 1
            /\ BeginAddFromLAN(Without(i))
            /\ UNCHANGED <<loadVars, lanOpen>>
       ELSE /\ BeginRefresh(Without(i), "ready")
            /\ UNCHANGED lanVars
    /\ UNCHANGED <<actionVars, picker, confirm, batchVars>>

\* lanDiscoverMsg: the list, and the machines of the inventory with it.
Discovered(i) ==
    /\ cmds[i].kind = "discover" /\ ~Stale(cmds[i])
    /\ \E found \in SUBSET Machines : devices' = found
    /\ lanFound' \in 0 .. MaxFound
    /\ lanOpen' = TRUE
    /\ cmds' = Without(i)
    /\ UNCHANGED <<phase, loading, checking, requestID, loadCancel, actionVars, modeVars, lanID,
                   lanPreparing, lanPrepareID, lanQueue, batchVars>>

DiscoveryFailed(i) ==
    /\ cmds[i].kind = "discover" /\ ~Stale(cmds[i])
    /\ cmds' = Without(i)
    /\ UNCHANGED <<loadVars, actionVars, modeVars, lanVars, batchVars>>

\* lanPrepareMsg: the form of the new host takes the place of any other.
FormPrepared(i) ==
    /\ cmds[i].kind = "prepare" /\ ~Stale(cmds[i])
    /\ lanPreparing' = FALSE
    /\ form' = Form("edit", NoMachine)
    /\ cmds' = Without(i)
    /\ UNCHANGED <<loadVars, actionVars, picker, confirm, lanOpen, lanID, lanFound, lanPrepareID,
                   lanQueue, batchVars>>

\* What an operation of the batch can end with; offline and unknown are alike here.
StatusOf(kind) == IF kind = "wake" THEN {"sent", "failed"} ELSE {"online", "offline"}

\* fleetMsg of a batch. "cancelled" is reported only after a cancellation (Fleet).
\* "failed" does not say that no packet went out: fleet.Wake answers so too when
\* only some did, or when the attempt could not be recorded (WakeService).
BatchResult(i) ==
    /\ cmds[i].kind = "batch" /\ ~Stale(cmds[i])
    /\ \E d \in cmds[i].left,
          s \in StatusOf(lastBatchKind) \cup (IF cmds[i].live THEN {} ELSE {"cancelled"}) :
          /\ batchResults' = Append(batchResults, [device |-> d, status |-> s])
          /\ cmds' = [cmds EXCEPT ![i].left = @ \ {d}]
          /\ saidSent' = IF s = "sent" THEN saidSent \cup {d} ELSE saidSent
    /\ UNCHANGED <<loadVars, actionVars, modeVars, lanVars, batchKind, batchTargets, batchRunning,
                   batchID, batchCancel, lastBatchKind>>

BatchDone(i) ==
    /\ cmds[i].kind = "batch" /\ ~Stale(cmds[i]) /\ cmds[i].left = {}
    /\ batchRunning' = FALSE
    /\ batchKind' = "none"
    /\ cmds' = Cut(Without(i), {"batch"}, batchCancel)
    /\ UNCHANGED <<loadVars, actionVars, modeVars, lanVars, batchTargets, batchID, batchCancel,
                   batchResults, lastBatchKind, saidSent>>

Arrive(i) ==
    \/ Ignore(i)
    \/ DataLoaded(i) \/ LoadFailed(i) \/ ScanResult(i) \/ ScanDone(i) \/ ProbeDone(i)
    \/ PacketSent(i) \/ WakeFailed(i) \/ WakeVerified(i) \/ RemoteOpened(i)
    \/ ShutdownInitiated(i) \/ ShutdownVerified(i) \/ FormKept(i) \/ FormSaved(i)
    \/ Discovered(i) \/ DiscoveryFailed(i) \/ FormPrepared(i)
    \/ BatchResult(i) \/ BatchDone(i)

-----------------------------------------------------------------------------
Press ==
    \/ Refresh \/ CancelCheck \/ OpenPicker \/ ClosePicker \/ CancelAction
    \/ \E d \in devices : Probe(d) \/ BeginWake(d) \/ BeginWakeAndRemote(d) \/ BeginShutdownForm(d)
    \/ BeginEditForm \/ SaveForm \/ LeaveForm
    \/ BeginDelete \/ DeleteConfirmed \/ DeleteCancelled
    \/ BeginLANDiscover \/ CloseLAN \/ AddSelectedLANHost \/ ShowKnownHost \/ CancelPreparation
    \/ \E kind \in {"wake", "check"}, targets \in SUBSET devices : PrepareBatch(kind, targets)
    \/ RetryBatch \/ StartBatch \/ DropBatch \/ CancelBatch

Next == Press \/ \E i \in Slots : Arrive(i)

Spec == Init /\ [][Next]_vars

(***************************************************************************)
(* Loads, checks, wakes, watches, saves and discoveries have timeouts, and a *)
(* scan or a batch reads a channel that fleet.Run closes. Opening a remote   *)
(* has none: it waits for the opener of the desktop until that returns or   *)
(* Esc cancels its context.                                                *)
(***************************************************************************)
Bounded(i) == cmds[i].kind = "open" => ~cmds[i].live

FairSpec == Spec /\ \A i \in Slots : WF_vars(Bounded(i) /\ Arrive(i))

-----------------------------------------------------------------------------
(* Properties.                                                             *)

\* An answer that Update will accept is on its way.
Awaited(kinds, id) ==
    \E i \in Slots : cmds[i].kind \in kinds /\ cmds[i].id = id /\ ~Stale(cmds[i])

\* Nothing on the screen waits for an answer that will not come or will not be
\* accepted: for every load, check, machine action, batch, form in preparation
\* or being saved there is a command in flight with the current identifier.
SpinnersAreBacked ==
    /\ phase = "boot" => loading
    /\ loading => Awaited({"load"}, requestID)
    /\ checking => Awaited({"scan", "probe"}, requestID)
    /\ actionTarget # NoMachine => Awaited(ActionKinds, actionID)
    /\ shuttingDown => Awaited({"verifyShutdown"}, actionID)
    /\ batchRunning => Awaited({"batch"}, batchID)
    /\ lanPreparing => Awaited({"prepare"}, lanPrepareID)
    /\ form.saving => \E i \in Slots : cmds[i].kind \in SaveKinds

\* What has been replaced or given up has been cancelled: a load, a check or a
\* batch that still runs is the one whose cancel function the desk holds.
ReplacedIsCancelled ==
    \A i \in Slots : cmds[i].live =>
        /\ cmds[i].kind \in LoadKinds => cmds[i].id = loadCancel /\ loadCancel = requestID
        /\ cmds[i].kind = "batch" => cmds[i].id = batchCancel /\ batchRunning

\* A wake and the opening of a remote never overlap
\* (TestWakeAndRemoteActionsCannotOverlap), whatever arrives in between.
WakeAndRemoteDoNotOverlap == ~ (waking /\ opening)

\* While a batch runs, each of its machines is either reported, once, or still
\* awaited: the chain of messages that reads the results never breaks.
BatchAccounts ==
    batchRunning =>
        \E i \in Slots :
            /\ cmds[i].kind = "batch" /\ cmds[i].id = batchID
            /\ cmds[i].left \cap Reported = {}
            /\ cmds[i].left \cup Reported = batchTargets
            /\ Len(batchResults) = Cardinality(Reported)

\* "Completed results are retained": the results of a batch only grow until
\* another batch is started.
ResultsRetained ==
    [][batchID' = batchID =>
           /\ Len(batchResults') >= Len(batchResults)
           /\ SubSeq(batchResults', 1, Len(batchResults)) = batchResults]_vars

\* "Review retries for unsuccessful targets" (docs/homelab.md): however often R is
\* pressed, batches are cut short, dropped and mixed with checks, no machine whose
\* result said that its packet was sent is put into a wake batch again until the user
\* marks it. (One whose result said "failed" is, even if a packet had gone out.)
RetriesSpareTheCompleted ==
    batchKind = "wake" =>
        \A d \in batchTargets \cap saidSent :
            /\ batchRunning
            /\ \E i \in DOMAIN batchResults : batchResults[i] = [device |-> d, status |-> "sent"]

\* An opening whose answer is awaited and that nobody has cancelled.
Opening ==
    \E i \in Slots : cmds[i].kind = "open" /\ cmds[i].live /\ ~Stale(cmds[i])

\* Every load, check, batch, preparation, save and machine action comes to an end
\* without another key, but for the opening of a remote: that may wait for the
\* desktop until Esc.
SpinnersStop ==
    /\ loading ~> ~loading
    /\ checking ~> ~checking
    /\ actionTarget # NoMachine ~> actionTarget = NoMachine \/ Opening
    /\ shuttingDown ~> ~shuttingDown
    /\ batchRunning ~> ~batchRunning
    /\ lanPreparing ~> ~lanPreparing
    /\ form.saving ~> ~form.saving

\* "Finish the current action before starting another" (wake_actions.go): one
\* machine action at a time.
ActionsDoNotOverlap ==
    \A a, b \in {"waking", "opening", "shuttingDown"} :
        LET on == [waking |-> waking, opening |-> opening, shuttingDown |-> shuttingDown]
        IN  on[a] /\ on[b] => a = b

=============================================================================

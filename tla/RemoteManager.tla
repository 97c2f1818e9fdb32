--------------------------- MODULE RemoteManager ---------------------------
(***************************************************************************)
(* remoteflow.Manager (internal/remoteflow/flow.go): who owns the browser  *)
(* sessions (broker and containers) and the Moonlight processes that Open  *)
(* starts, while Open, Stop and Close run in goroutines of their own.      *)
(*                                                                         *)
(* A session or a process is named by the call of Open that started it.    *)
(* ensureReachable is one step that succeeds or fails. The several         *)
(* sessions one call closes are closed in any order. Native desktop        *)
(* clients, which nobody owns, and unsupported modes, which only return an *)
(* error, are left out. So is a process that cannot be killed.             *)
(***************************************************************************)
EXTENDS Integers, FiniteSets

CONSTANTS
    Opens,     \* the calls of Open
    Stops,     \* the calls of Stop
    Devices,
    DeviceOf,  \* DeviceOf[x]: the machine that call x of Open or Stop names
    Streams,   \* the calls of Open that start Moonlight; the rest a browser session
    Shutdown,  \* the call of Close
    None

Calls == Opens \cup Stops \cup {Shutdown}

ASSUME ManagerAssumption ==
    /\ Streams \subseteq Opens
    /\ DeviceOf \in [Opens \cup Stops -> Devices]
    /\ None \notin Opens
    /\ Shutdown \notin Opens \cup Stops /\ Opens \cap Stops = {}

VARIABLES
    pc,          \* pc[x]: where call x is
    result,      \* result[o]: what Open returned, "ok" or "error", or None
    life,        \* life[o]: "none", "starting", "up", "closing" or "down"
    sessions,    \* sessions[d]: the registered browser session of machine d
    streams,     \* streams[d]: the registered Moonlight process of machine d
    todo,        \* todo[x]: what call x has taken to close and not yet closed
    actionDone,  \* the calls of Open whose own context is done
    afterFunc,   \* afterFunc[o]: "off", "armed" or, once its goroutine exists, "spawned"
    cut,         \* the calls of Open whose session context was cancelled by the action
    closed,      \* Manager.closed
    mgrDone      \* the manager's context is done

vars == <<pc, result, life, sessions, streams, todo, actionDone, afterFunc, cut, closed, mgrDone>>

Browsers == Opens \ Streams

\* The context handed to localremote.Start.
SessionDone(o) == o \in cut \/ mgrDone

Init ==
    /\ pc = [x \in Calls |-> "call"]
    /\ result = [o \in Opens |-> None]
    /\ life = [o \in Opens |-> "none"]
    /\ sessions = [d \in Devices |-> None]
    /\ streams = [d \in Devices |-> None]
    /\ todo = [x \in Calls |-> {}]
    /\ actionDone = {}
    /\ afterFunc = [o \in Opens |-> "off"]
    /\ cut = {}
    /\ closed = FALSE
    /\ mgrDone = FALSE

Goto(x, from, to) == pc[x] = from /\ pc' = [pc EXCEPT ![x] = to]

Returns(o, r) == result' = [result EXCEPT ![o] = r]

-----------------------------------------------------------------------------
(* Open.                                                                   *)

\* ensureReachable: it fails, too, when the action's context ends before it.
Reachable(o) ==
    /\ Goto(o, "call", "start")
    /\ UNCHANGED <<result, life, sessions, streams, todo, actionDone, afterFunc, cut, closed, mgrDone>>

Unreachable(o) ==
    /\ Goto(o, "call", "returned")
    /\ Returns(o, "error")
    /\ UNCHANGED <<life, sessions, streams, todo, actionDone, afterFunc, cut, closed, mgrDone>>

\* startMoonlight: the process is not bound to the action's context.
LaunchStream(o) ==
    /\ o \in Streams
    /\ \/ /\ Goto(o, "start", "register")
          /\ life' = [life EXCEPT ![o] = "up"]
          /\ UNCHANGED result
       \/ /\ Goto(o, "start", "returned")
          /\ Returns(o, "error")
          /\ UNCHANGED life
    /\ UNCHANGED <<sessions, streams, todo, actionDone, afterFunc, cut, closed, mgrDone>>

\* The session's context, cancelled with the action's for now, and the start.
BeginSession(o) ==
    /\ o \in Browsers
    /\ Goto(o, "start", "starting")
    /\ life' = [life EXCEPT ![o] = "starting"]
    /\ afterFunc' = [afterFunc EXCEPT ![o] = IF o \in actionDone THEN "spawned" ELSE "armed"]
    /\ UNCHANGED <<result, sessions, streams, todo, actionDone, cut, closed, mgrDone>>

\* localremote.Start returns a session, whose watcher follows its context. The
\* context may have been cancelled after the last command that looks at it.
SessionStarts(o) ==
    /\ Goto(o, "starting", "started")
    /\ life' = [life EXCEPT ![o] = "up"]
    /\ UNCHANGED <<result, sessions, streams, todo, actionDone, afterFunc, cut, closed, mgrDone>>

\* stopActionCancel(): a function that has not been spawned never will be.
Disarm(o) == afterFunc' = [afterFunc EXCEPT ![o] = IF @ = "armed" THEN "off" ELSE @]

\* localremote.Start fails, after removing what it had created.
SessionFails(o) ==
    /\ Goto(o, "starting", "returned")
    /\ life' = [life EXCEPT ![o] = "down"]
    /\ Returns(o, "error")
    /\ Disarm(o)
    /\ cut' = cut \cup {o}
    /\ UNCHANGED <<sessions, streams, todo, actionDone, closed, mgrDone>>

OwnLifetime(o) ==
    /\ Goto(o, "started", "register")
    /\ Disarm(o)
    /\ UNCHANGED <<result, life, sessions, streams, todo, actionDone, cut, closed, mgrDone>>

\* Variants of registering: the previous session forgotten; Close not looked at.
RegisterForgetting(o) ==
    /\ Goto(o, "register", IF closed THEN "reject" ELSE "replace")
    /\ LET d == DeviceOf[o]
       IN  /\ todo' = [todo EXCEPT ![o] = IF closed THEN {o} ELSE {}]
           /\ streams' = IF closed \/ o \in Browsers THEN streams ELSE [streams EXCEPT ![d] = o]
           /\ sessions' = IF closed \/ o \in Streams THEN sessions ELSE [sessions EXCEPT ![d] = o]
    /\ UNCHANGED <<result, life, actionDone, afterFunc, cut, closed, mgrDone>>

RegisterRegardless(o) ==
    /\ Goto(o, "register", "replace")
    /\ LET d == DeviceOf[o]
           previous == IF o \in Streams THEN streams[d] ELSE sessions[d]
       IN  /\ todo' = [todo EXCEPT ![o] = {previous} \ {None}]
           /\ streams' = IF o \in Browsers THEN streams ELSE [streams EXCEPT ![d] = o]
           /\ sessions' = IF o \in Streams THEN sessions ELSE [sessions EXCEPT ![d] = o]
    /\ UNCHANGED <<result, life, actionDone, afterFunc, cut, closed, mgrDone>>

\* Under the lock: refuse after Close, else replace what the machine had.
Register(o) ==
    /\ Goto(o, "register", IF closed THEN "reject" ELSE "replace")
    /\ LET d == DeviceOf[o]
           previous == IF o \in Streams THEN streams[d] ELSE sessions[d]
       IN  /\ todo' = [todo EXCEPT ![o] = IF closed THEN {o} ELSE {previous} \ {None}]
           /\ streams' = IF closed \/ o \in Browsers THEN streams ELSE [streams EXCEPT ![d] = o]
           /\ sessions' = IF closed \/ o \in Streams THEN sessions ELSE [sessions EXCEPT ![d] = o]
    /\ UNCHANGED <<result, life, actionDone, afterFunc, cut, closed, mgrDone>>

\* The refused one, or the one replaced, has been closed.
ReturnFromOpen(o) ==
    /\ todo[o] = {}
    /\ \/ Goto(o, "reject", "returned") /\ Returns(o, "error")
       \/ Goto(o, "replace", "returned") /\ Returns(o, "ok")
    /\ UNCHANGED <<life, sessions, streams, todo, actionDone, afterFunc, cut, closed, mgrDone>>

-----------------------------------------------------------------------------
(* Stop and Close.                                                         *)

StopTakes(s) ==
    /\ Goto(s, "call", "closing")
    /\ LET d == DeviceOf[s]
       IN  /\ todo' = [todo EXCEPT ![s] = {streams[d], sessions[d]} \ {None}]
           /\ streams' = [streams EXCEPT ![d] = None]
           /\ sessions' = [sessions EXCEPT ![d] = None]
    /\ UNCHANGED <<result, life, actionDone, afterFunc, cut, closed, mgrDone>>

CloseMarks ==
    /\ Goto(Shutdown, "call", "marked")
    /\ closed' = TRUE
    /\ UNCHANGED <<result, life, sessions, streams, todo, actionDone, afterFunc, cut, mgrDone>>

CloseCancels ==
    /\ Goto(Shutdown, "marked", "cancelled")
    /\ mgrDone' = TRUE
    /\ UNCHANGED <<result, life, sessions, streams, todo, actionDone, afterFunc, cut, closed>>

CloseTakes ==
    /\ Goto(Shutdown, "cancelled", "closing")
    /\ todo' = [todo EXCEPT ![Shutdown] =
                   ({sessions[d] : d \in Devices} \cup {streams[d] : d \in Devices}) \ {None}]
    /\ sessions' = [d \in Devices |-> None]
    /\ streams' = [d \in Devices |-> None]
    /\ UNCHANGED <<result, life, actionDone, afterFunc, cut, closed, mgrDone>>

ReturnFromClosing(x) ==
    /\ x \notin Opens
    /\ todo[x] = {}
    /\ Goto(x, "closing", "returned")
    /\ UNCHANGED <<result, life, sessions, streams, todo, actionDone, afterFunc, cut, closed, mgrDone>>

\* Session.Close or Session.Stop: the first call does the work, and each call
\* returns when it is done.
CloseOne(x) ==
    \E o \in todo[x] :
        \/ /\ life[o] = "up"
           /\ life' = [life EXCEPT ![o] = "closing"]
           /\ UNCHANGED todo
        \/ /\ life[o] = "down"
           /\ todo' = [todo EXCEPT ![x] = @ \ {o}]
           /\ UNCHANGED life

Closing(x) ==
    /\ CloseOne(x)
    /\ UNCHANGED <<pc, result, sessions, streams, actionDone, afterFunc, cut, closed, mgrDone>>

-----------------------------------------------------------------------------
(* What happens on its own.                                                *)

\* Variant: closing waits for the watcher, which waits for the context.
DownAfterWatcher(o) ==
    /\ life[o] = "closing" /\ SessionDone(o)
    /\ life' = [life EXCEPT ![o] = "down"]
    /\ UNCHANGED <<pc, result, sessions, streams, todo, actionDone, afterFunc, cut, closed, mgrDone>>

\* The broker has shut down and the containers are removed, or the killed
\* process has been waited for.
Down(o) ==
    /\ life[o] = "closing"
    /\ life' = [life EXCEPT ![o] = "down"]
    /\ UNCHANGED <<pc, result, sessions, streams, todo, actionDone, afterFunc, cut, closed, mgrDone>>

\* The session's watcher sees its context done and closes it.
Watch(o) ==
    /\ o \in Browsers
    /\ SessionDone(o)
    /\ life[o] = "up"
    /\ life' = [life EXCEPT ![o] = "closing"]
    /\ UNCHANGED <<pc, result, sessions, streams, todo, actionDone, afterFunc, cut, closed, mgrDone>>

\* The user disconnects in the browser, or quits Moonlight.
EndsItself(o) ==
    /\ life[o] = "up"
    /\ life' = [life EXCEPT ![o] = IF o \in Streams THEN "down" ELSE "closing"]
    /\ UNCHANGED <<pc, result, sessions, streams, todo, actionDone, afterFunc, cut, closed, mgrDone>>

\* The action's context is done: Esc, or the command that called Open returned.
\* Its end is seen by ensureReachable, which then fails like any other time, and
\* by the session's context; at any other time nothing looks at it.
ActionEnds(o) ==
    /\ o \in Browsers \ actionDone
    /\ pc[o] = "start" \/ afterFunc[o] = "armed"
    /\ actionDone' = actionDone \cup {o}
    /\ afterFunc' = [afterFunc EXCEPT ![o] = IF @ = "armed" THEN "spawned" ELSE @]
    /\ UNCHANGED <<pc, result, life, sessions, streams, todo, cut, closed, mgrDone>>

\* The goroutine of context.AfterFunc calls sessionCancel.
AfterFuncRuns(o) ==
    /\ afterFunc[o] = "spawned"
    /\ afterFunc' = [afterFunc EXCEPT ![o] = "off"]
    /\ cut' = cut \cup {o}
    /\ UNCHANGED <<pc, result, life, sessions, streams, todo, actionDone, closed, mgrDone>>

OpenStep(o) ==
    \/ Reachable(o) \/ Unreachable(o) \/ LaunchStream(o) \/ BeginSession(o) \/ SessionStarts(o)
    \/ SessionFails(o) \/ OwnLifetime(o) \/ Register(o) \/ ReturnFromOpen(o) \/ Closing(o)

StopStep(s) == StopTakes(s) \/ Closing(s) \/ ReturnFromClosing(s)

CloseStep ==
    CloseMarks \/ CloseCancels \/ CloseTakes \/ Closing(Shutdown) \/ ReturnFromClosing(Shutdown)

Next ==
    \/ \E o \in Opens : OpenStep(o)
    \/ \E s \in Stops : StopStep(s)
    \/ CloseStep
    \/ \E o \in Opens : Down(o) \/ Watch(o) \/ EndsItself(o) \/ ActionEnds(o) \/ AfterFuncRuns(o)

Spec == Init /\ [][Next]_vars

(***************************************************************************)
(* Goroutines run, closing is bounded by timeouts and a killed process ends.*)
(* localremote.Start has no deadline: it returns for certain only when the  *)
(* context of its session is done, which kills its Docker commands. Nobody  *)
(* has to call Stop or Close, to press Esc or to end a session.            *)
(***************************************************************************)
Bounded(o) == pc[o] = "starting" => SessionDone(o)

Fairness ==
    /\ \A o \in Opens :
          /\ WF_vars(Bounded(o) /\ OpenStep(o))
          /\ WF_vars(AfterFuncRuns(o))
          /\ WF_vars(Down(o) \/ Watch(o))
    /\ \A s \in Stops : WF_vars(pc[s] # "call" /\ StopStep(s))
    /\ WF_vars(pc[Shutdown] # "call" /\ CloseStep)

FairSpec == Spec /\ Fairness

-----------------------------------------------------------------------------
TypeOK ==
    /\ pc \in [Calls -> {"call", "start", "starting", "started", "register", "reject", "replace",
                         "marked", "cancelled", "closing", "returned"}]
    /\ result \in [Opens -> {"ok", "error", None}]
    /\ life \in [Opens -> {"none", "starting", "up", "closing", "down"}]
    /\ sessions \in [Devices -> Browsers \cup {None}]
    /\ streams \in [Devices -> Streams \cup {None}]
    /\ todo \in [Calls -> SUBSET Opens]
    /\ actionDone \subseteq Opens /\ cut \subseteq Opens
    /\ afterFunc \in [Opens -> {"off", "armed", "spawned"}]
    /\ closed \in BOOLEAN /\ mgrDone \in BOOLEAN

Registered(o) == sessions[DeviceOf[o]] = o \/ streams[DeviceOf[o]] = o

Quiet == \A x \in Calls : pc[x] = "returned" \/ (pc[x] = "call" /\ x # Shutdown)

\* Nothing that Open starts is ever lost: what is up is registered for its
\* machine, still in the hands of its Open, or taken by a call that will close
\* it. So a machine has at most one session and one stream that nobody closes.
AlwaysOwned ==
    \A o \in Opens :
        life[o] = "up" =>
            \/ Registered(o)
            \/ pc[o] \in {"started", "register"}
            \/ \E x \in Calls : o \in todo[x]

\* Once Close and the calls of Open that it overlapped have returned, nothing
\* is registered and nothing is left running.
NothingOutlivesClose ==
    pc[Shutdown] = "returned" /\ Quiet =>
        \A o \in Opens : ~Registered(o) /\ life[o] \in {"none", "down"}

\* Open is in localremote.Start, and neither Esc nor Close has cut it.
WaitsForDocker(o) == pc[o] = "starting" /\ o \notin actionDone /\ ~mgrDone

\* Replacing, stopping and closing wait for one another without deadlock, and for
\* no Open that hangs in Docker: every Stop and Close that is called returns, and
\* every Open but one that waits for Docker with its own and the manager's context
\* alive.
CallsReturn ==
    <>[](\A x \in Calls : pc[x] \in {"call", "returned"} \/ (x \in Browsers /\ WaitsForDocker(x)))

\* The comment of Close, "tears down every broker, container, stream": when it
\* returns (and the program exits), nothing is left.
CloseTearsDownAll ==
    pc[Shutdown] = "returned" => \A o \in Opens : life[o] \in {"none", "down"}

=============================================================================

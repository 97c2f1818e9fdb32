----------------------------- MODULE ManagerProofs -----------------------------
(* Theorems about remoteflow.Manager for any number of calls and machines. *)
EXTENDS RemoteManager, TLAPS

-----------------------------------------------------------------------------
(* The inductive invariant. A session that closes by itself is still       *)
(* somebody's: only so does a call that takes it wait until it is down.    *)

\* What is up or closing is registered, with its Open, or taken to be closed.
Owned ==
    \A o \in Opens :
        life[o] \in {"up", "closing"} =>
            \/ Registered(o)
            \/ pc[o] \in {"started", "register"}
            \/ \E x \in Calls : o \in todo[x]

\* What is starting is in the hands of its Open.
StartingIsHeld == \A o \in Opens : life[o] = "starting" => pc[o] = "starting"

\* A call has something to close only where it closes it.
TodoIsHeld == \A x \in Calls : todo[x] # {} => pc[x] \in {"reject", "replace", "closing"}

\* From Close on nothing is registered that Close does not take.
ClosedStays ==
    /\ closed <=> pc[Shutdown] # "call"
    /\ pc[Shutdown] \in {"closing", "returned"} =>
          \A d \in Devices : sessions[d] = None /\ streams[d] = None

ManagerInv == TypeOK /\ Owned /\ StartingIsHeld /\ TodoIsHeld /\ ClosedStays

\* Before any call nothing has been started.
LEMMA InitInv == Init => ManagerInv
BY ManagerAssumption DEF Init, ManagerAssumption, ManagerInv, TypeOK, Owned, StartingIsHeld,
   TodoIsHeld, ClosedStays, Calls, Browsers

-----------------------------------------------------------------------------
(* One lemma for each action.                                              *)

\* The machine answers: nothing is started yet.
LEMMA ReachableInv ==
    ASSUME ManagerInv, NEW o \in Opens, Reachable(o)
    PROVE  ManagerInv'
<1> USE ManagerAssumption DEF ManagerAssumption, ManagerInv, TypeOK, Calls, Browsers, Reachable, Goto
<1>1. TypeOK'
  OBVIOUS
<1>2. Owned'
  BY DEF Owned, Registered, TodoIsHeld
<1>3. StartingIsHeld'
  BY DEF StartingIsHeld
<1>4. TodoIsHeld'
  BY DEF TodoIsHeld
<1>5. ClosedStays'
  BY DEF ClosedStays
<1> QED BY <1>1, <1>2, <1>3, <1>4, <1>5

\* Open gives up before it has anything to close.
LEMMA UnreachableInv ==
    ASSUME ManagerInv, NEW o \in Opens, Unreachable(o)
    PROVE  ManagerInv'
<1> USE ManagerAssumption DEF ManagerAssumption, ManagerInv, TypeOK, Calls, Browsers, Unreachable, Goto, Returns
<1>1. TypeOK'
  OBVIOUS
<1>2. Owned'
  BY DEF Owned, Registered, TodoIsHeld
<1>3. StartingIsHeld'
  BY DEF StartingIsHeld
<1>4. TodoIsHeld'
  BY DEF TodoIsHeld
<1>5. ClosedStays'
  BY DEF ClosedStays
<1> QED BY <1>1, <1>2, <1>3, <1>4, <1>5

\* A process is in the hands of its Open from its first moment.
LEMMA LaunchStreamInv ==
    ASSUME ManagerInv, NEW o \in Opens, LaunchStream(o)
    PROVE  ManagerInv'
<1> USE ManagerAssumption DEF ManagerAssumption, ManagerInv, TypeOK, Calls, Browsers, LaunchStream, Goto, Returns
<1>1. TypeOK'
  OBVIOUS
<1>2. Owned'
  BY DEF Owned, Registered, TodoIsHeld
<1>3. StartingIsHeld'
  BY DEF StartingIsHeld
<1>4. TodoIsHeld'
  BY DEF TodoIsHeld
<1>5. ClosedStays'
  BY DEF ClosedStays
<1> QED BY <1>1, <1>2, <1>3, <1>4, <1>5

\* The session begins in the hands of its Open.
LEMMA BeginSessionInv ==
    ASSUME ManagerInv, NEW o \in Opens, BeginSession(o)
    PROVE  ManagerInv'
<1> USE ManagerAssumption DEF ManagerAssumption, ManagerInv, TypeOK, Calls, Browsers, BeginSession, Goto
<1>1. TypeOK'
  OBVIOUS
<1>2. Owned'
  BY DEF Owned, Registered, TodoIsHeld
<1>3. StartingIsHeld'
  BY DEF StartingIsHeld
<1>4. TodoIsHeld'
  BY DEF TodoIsHeld
<1>5. ClosedStays'
  BY DEF ClosedStays
<1> QED BY <1>1, <1>2, <1>3, <1>4, <1>5

\* It is up, and its Open has yet to register it.
LEMMA SessionStartsInv ==
    ASSUME ManagerInv, NEW o \in Opens, SessionStarts(o)
    PROVE  ManagerInv'
<1> USE ManagerAssumption DEF ManagerAssumption, ManagerInv, TypeOK, Calls, Browsers, SessionStarts, Goto
<1>1. TypeOK'
  OBVIOUS
<1>2. Owned'
  BY DEF Owned, Registered, TodoIsHeld
<1>3. StartingIsHeld'
  BY DEF StartingIsHeld
<1>4. TodoIsHeld'
  BY DEF TodoIsHeld
<1>5. ClosedStays'
  BY DEF ClosedStays
<1> QED BY <1>1, <1>2, <1>3, <1>4, <1>5

\* It has removed what it had created.
LEMMA SessionFailsInv ==
    ASSUME ManagerInv, NEW o \in Opens, SessionFails(o)
    PROVE  ManagerInv'
<1> USE ManagerAssumption DEF ManagerAssumption, ManagerInv, TypeOK, Calls, Browsers, SessionFails, Goto, Returns, Disarm
<1>1. TypeOK'
  OBVIOUS
<1>2. Owned'
  BY DEF Owned, Registered, TodoIsHeld
<1>3. StartingIsHeld'
  BY DEF StartingIsHeld
<1>4. TodoIsHeld'
  BY DEF TodoIsHeld
<1>5. ClosedStays'
  BY DEF ClosedStays
<1> QED BY <1>1, <1>2, <1>3, <1>4, <1>5

\* The session goes on without its action.
LEMMA OwnLifetimeInv ==
    ASSUME ManagerInv, NEW o \in Opens, OwnLifetime(o)
    PROVE  ManagerInv'
<1> USE ManagerAssumption DEF ManagerAssumption, ManagerInv, TypeOK, Calls, Browsers, OwnLifetime, Goto, Disarm
<1>1. TypeOK'
  OBVIOUS
<1>2. Owned'
  BY DEF Owned, Registered, TodoIsHeld
<1>3. StartingIsHeld'
  BY DEF StartingIsHeld
<1>4. TodoIsHeld'
  BY DEF TodoIsHeld
<1>5. ClosedStays'
  BY DEF ClosedStays
<1> QED BY <1>1, <1>2, <1>3, <1>4, <1>5

\* Under the lock the session finds its place, and the one replaced its closer.
LEMMA RegisterInv ==
    ASSUME ManagerInv, NEW o \in Opens, Register(o)
    PROVE  ManagerInv'
<1> USE ManagerAssumption DEF ManagerAssumption, ManagerInv, TypeOK, Calls, Browsers, Register, Goto
<1>1. TypeOK'
  OBVIOUS
<1>2. Owned'
  BY DEF Owned, Registered, TodoIsHeld
<1>3. StartingIsHeld'
  BY DEF StartingIsHeld
<1>4. TodoIsHeld'
  BY DEF TodoIsHeld
<1>5. ClosedStays'
  BY DEF ClosedStays
<1> QED BY <1>1, <1>2, <1>3, <1>4, <1>5

\* Open returns with nothing left to close.
LEMMA ReturnFromOpenInv ==
    ASSUME ManagerInv, NEW o \in Opens, ReturnFromOpen(o)
    PROVE  ManagerInv'
<1> USE ManagerAssumption DEF ManagerAssumption, ManagerInv, TypeOK, Calls, Browsers, ReturnFromOpen, Goto, Returns
<1>1. TypeOK'
  OBVIOUS
<1>2. Owned'
  BY DEF Owned, Registered, TodoIsHeld
<1>3. StartingIsHeld'
  BY DEF StartingIsHeld
<1>4. TodoIsHeld'
  BY DEF TodoIsHeld
<1>5. ClosedStays'
  BY DEF ClosedStays
<1> QED BY <1>1, <1>2, <1>3, <1>4, <1>5

\* What is registered passes to Stop.
LEMMA StopTakesInv ==
    ASSUME ManagerInv, NEW s \in Stops, StopTakes(s)
    PROVE  ManagerInv'
<1> USE ManagerAssumption DEF ManagerAssumption, ManagerInv, TypeOK, Calls, Browsers, StopTakes, Goto
<1>1. TypeOK'
  OBVIOUS
<1>2. Owned'
  BY DEF Owned, Registered, TodoIsHeld
<1>3. StartingIsHeld'
  BY DEF StartingIsHeld
<1>4. TodoIsHeld'
  BY DEF TodoIsHeld
<1>5. ClosedStays'
  BY DEF ClosedStays
<1> QED BY <1>1, <1>2, <1>3, <1>4, <1>5

\* No later Open will register.
LEMMA CloseMarksInv ==
    ASSUME ManagerInv, CloseMarks
    PROVE  ManagerInv'
<1> USE ManagerAssumption DEF ManagerAssumption, ManagerInv, TypeOK, Calls, Browsers, CloseMarks, Goto
<1>1. TypeOK'
  OBVIOUS
<1>2. Owned'
  BY DEF Owned, Registered, TodoIsHeld
<1>3. StartingIsHeld'
  BY DEF StartingIsHeld
<1>4. TodoIsHeld'
  BY DEF TodoIsHeld
<1>5. ClosedStays'
  BY DEF ClosedStays
<1> QED BY <1>1, <1>2, <1>3, <1>4, <1>5

\* The contexts of all sessions end.
LEMMA CloseCancelsInv ==
    ASSUME ManagerInv, CloseCancels
    PROVE  ManagerInv'
<1> USE ManagerAssumption DEF ManagerAssumption, ManagerInv, TypeOK, Calls, Browsers, CloseCancels, Goto
<1>1. TypeOK'
  OBVIOUS
<1>2. Owned'
  BY DEF Owned, Registered, TodoIsHeld
<1>3. StartingIsHeld'
  BY DEF StartingIsHeld
<1>4. TodoIsHeld'
  BY DEF TodoIsHeld
<1>5. ClosedStays'
  BY DEF ClosedStays
<1> QED BY <1>1, <1>2, <1>3, <1>4, <1>5

\* What is registered passes to Close.
LEMMA CloseTakesInv ==
    ASSUME ManagerInv, CloseTakes
    PROVE  ManagerInv'
<1> USE ManagerAssumption DEF ManagerAssumption, ManagerInv, TypeOK, Calls, Browsers, CloseTakes, Goto
<1>1. TypeOK'
  OBVIOUS
<1>2. Owned'
  BY DEF Owned, Registered, TodoIsHeld
<1>3. StartingIsHeld'
  BY DEF StartingIsHeld
<1>4. TodoIsHeld'
  BY DEF TodoIsHeld
<1>5. ClosedStays'
  BY DEF ClosedStays
<1> QED BY <1>1, <1>2, <1>3, <1>4, <1>5

\* Stop and Close return with nothing left to close.
LEMMA ReturnFromClosingInv ==
    ASSUME ManagerInv, NEW x \in Calls, ReturnFromClosing(x)
    PROVE  ManagerInv'
<1> USE ManagerAssumption DEF ManagerAssumption, ManagerInv, TypeOK, Calls, Browsers, ReturnFromClosing, Goto
<1>1. TypeOK'
  OBVIOUS
<1>2. Owned'
  BY DEF Owned, Registered, TodoIsHeld
<1>3. StartingIsHeld'
  BY DEF StartingIsHeld
<1>4. TodoIsHeld'
  BY DEF TodoIsHeld
<1>5. ClosedStays'
  BY DEF ClosedStays
<1> QED BY <1>1, <1>2, <1>3, <1>4, <1>5

\* Only what is down is let go.
LEMMA ClosingInv ==
    ASSUME ManagerInv, NEW x \in Calls, Closing(x)
    PROVE  ManagerInv'
<1> USE ManagerAssumption DEF ManagerAssumption, ManagerInv, TypeOK, Calls, Browsers, Closing, CloseOne
<1>1. TypeOK'
  OBVIOUS
<1>2. Owned'
  BY DEF Owned, Registered, TodoIsHeld
<1>3. StartingIsHeld'
  BY DEF StartingIsHeld
<1>4. TodoIsHeld'
  BY DEF TodoIsHeld
<1>5. ClosedStays'
  BY DEF ClosedStays
<1> QED BY <1>1, <1>2, <1>3, <1>4, <1>5

\* What is down is nobody's any more.
LEMMA DownInv ==
    ASSUME ManagerInv, NEW o \in Opens, Down(o)
    PROVE  ManagerInv'
<1> USE ManagerAssumption DEF ManagerAssumption, ManagerInv, TypeOK, Calls, Browsers, Down
<1>1. TypeOK'
  OBVIOUS
<1>2. Owned'
  BY DEF Owned, Registered, TodoIsHeld
<1>3. StartingIsHeld'
  BY DEF StartingIsHeld
<1>4. TodoIsHeld'
  BY DEF TodoIsHeld
<1>5. ClosedStays'
  BY DEF ClosedStays
<1> QED BY <1>1, <1>2, <1>3, <1>4, <1>5

\* A session that follows its context is still somebody's.
LEMMA WatchInv ==
    ASSUME ManagerInv, NEW o \in Opens, Watch(o)
    PROVE  ManagerInv'
<1> USE ManagerAssumption DEF ManagerAssumption, ManagerInv, TypeOK, Calls, Browsers, Watch
<1>1. TypeOK'
  OBVIOUS
<1>2. Owned'
  BY DEF Owned, Registered, TodoIsHeld
<1>3. StartingIsHeld'
  BY DEF StartingIsHeld
<1>4. TodoIsHeld'
  BY DEF TodoIsHeld
<1>5. ClosedStays'
  BY DEF ClosedStays
<1> QED BY <1>1, <1>2, <1>3, <1>4, <1>5

\* So is one that its user ends.
LEMMA EndsItselfInv ==
    ASSUME ManagerInv, NEW o \in Opens, EndsItself(o)
    PROVE  ManagerInv'
<1> USE ManagerAssumption DEF ManagerAssumption, ManagerInv, TypeOK, Calls, Browsers, EndsItself
<1>1. TypeOK'
  OBVIOUS
<1>2. Owned'
  BY DEF Owned, Registered, TodoIsHeld
<1>3. StartingIsHeld'
  BY DEF StartingIsHeld
<1>4. TodoIsHeld'
  BY DEF TodoIsHeld
<1>5. ClosedStays'
  BY DEF ClosedStays
<1> QED BY <1>1, <1>2, <1>3, <1>4, <1>5

\* The action tells the session, at most.
LEMMA ActionEndsInv ==
    ASSUME ManagerInv, NEW o \in Opens, ActionEnds(o)
    PROVE  ManagerInv'
<1> USE ManagerAssumption DEF ManagerAssumption, ManagerInv, TypeOK, Calls, Browsers, ActionEnds
<1>1. TypeOK'
  OBVIOUS
<1>2. Owned'
  BY DEF Owned, Registered, TodoIsHeld
<1>3. StartingIsHeld'
  BY DEF StartingIsHeld
<1>4. TodoIsHeld'
  BY DEF TodoIsHeld
<1>5. ClosedStays'
  BY DEF ClosedStays
<1> QED BY <1>1, <1>2, <1>3, <1>4, <1>5

\* The session will follow.
LEMMA AfterFuncRunsInv ==
    ASSUME ManagerInv, NEW o \in Opens, AfterFuncRuns(o)
    PROVE  ManagerInv'
<1> USE ManagerAssumption DEF ManagerAssumption, ManagerInv, TypeOK, Calls, Browsers, AfterFuncRuns
<1>1. TypeOK'
  OBVIOUS
<1>2. Owned'
  BY DEF Owned, Registered, TodoIsHeld
<1>3. StartingIsHeld'
  BY DEF StartingIsHeld
<1>4. TodoIsHeld'
  BY DEF TodoIsHeld
<1>5. ClosedStays'
  BY DEF ClosedStays
<1> QED BY <1>1, <1>2, <1>3, <1>4, <1>5

-----------------------------------------------------------------------------
\* No step of any call, session or context breaks the invariant.
LEMMA NextInv == ManagerInv /\ [Next]_vars => ManagerInv'
<1> SUFFICES ASSUME ManagerInv, [Next]_vars PROVE ManagerInv'
  OBVIOUS
<1>1. Opens \subseteq Calls /\ Stops \subseteq Calls /\ Shutdown \in Calls
  BY DEF Calls
<1>2. ASSUME NEW o \in Opens, OpenStep(o) PROVE ManagerInv'
  BY <1>1, <1>2, ReachableInv, UnreachableInv, LaunchStreamInv, BeginSessionInv, SessionStartsInv,
     SessionFailsInv, OwnLifetimeInv, RegisterInv, ReturnFromOpenInv, ClosingInv DEF OpenStep
<1>3. ASSUME NEW s \in Stops, StopStep(s) PROVE ManagerInv'
  BY <1>1, <1>3, StopTakesInv, ClosingInv, ReturnFromClosingInv DEF StopStep
<1>4. ASSUME CloseStep PROVE ManagerInv'
  BY <1>1, <1>4, CloseMarksInv, CloseCancelsInv, CloseTakesInv, ClosingInv, ReturnFromClosingInv
     DEF CloseStep
<1>5. ASSUME NEW o \in Opens, Down(o) \/ Watch(o) \/ EndsItself(o) \/ ActionEnds(o) \/ AfterFuncRuns(o)
      PROVE  ManagerInv'
  BY <1>5, DownInv, WatchInv, EndsItselfInv, ActionEndsInv, AfterFuncRunsInv
<1>6. CASE UNCHANGED vars
  BY <1>6 DEF vars, ManagerInv, TypeOK, Owned, Registered, StartingIsHeld, TodoIsHeld, ClosedStays
<1> QED BY <1>2, <1>3, <1>4, <1>5, <1>6 DEF Next

\* The invariant holds in every state of every behaviour.
THEOREM ManagerInvariance == Spec => []ManagerInv
BY InitInv, NextInv, PTL DEF Spec

\* However many calls of Open, Stop and Close race, nothing that was started is
\* ever without somebody who will close it.
THEOREM NothingIsLost == Spec => []AlwaysOwned
<1>1. ManagerInv => AlwaysOwned
  BY DEF ManagerInv, Owned, AlwaysOwned
<1> QED BY <1>1, ManagerInvariance, PTL

\* When Close and the calls it overlapped have returned, nothing is left, however
\* many they were.
THEOREM CloseLeavesNothing == Spec => []NothingOutlivesClose
<1>1. ManagerInv => NothingOutlivesClose
  <2> SUFFICES ASSUME ManagerInv, pc[Shutdown] = "returned", Quiet, NEW o \in Opens
               PROVE  ~Registered(o) /\ life[o] \in {"none", "down"}
    BY DEF NothingOutlivesClose
  <2>1. ~Registered(o)
    BY ManagerAssumption DEF ManagerInv, ClosedStays, Registered, ManagerAssumption
  <2>2. \A x \in Calls : todo[x] = {}
    BY DEF ManagerInv, TodoIsHeld, Quiet
  <2>3. pc[o] \notin {"starting", "started", "register"}
    BY DEF Quiet, Calls
  <2>4. life[o] \in {"none", "starting", "up", "closing", "down"}
    BY DEF ManagerInv, TypeOK
  <2> QED BY <2>1, <2>2, <2>3, <2>4 DEF ManagerInv, Owned, StartingIsHeld
<1> QED BY <1>1, ManagerInvariance, PTL
=============================================================================

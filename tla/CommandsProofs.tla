----------------------------- MODULE CommandsProofs -----------------------------
(* Theorems about what one command promises, for any number of relays,     *)
(* packets, ports, tabs, updates, releases and openings of an inventory.   *)
EXTENDS Commands, Integers, Sequences, FiniteSetTheorems, SequenceTheorems, WellFoundedInduction, TLAPS

-----------------------------------------------------------------------------
(* wol wake.                                                               *)

WakeTypeOK ==
    /\ step \in {"get", "resolve", "relay", "broadcast", "verify", "record", "end"}
    /\ wire \in [relay : Nat, broadcast : Nat]
    /\ attempt \in Wake!Attempt
    /\ answered \in BOOLEAN

\* Nothing is sent before a route is found, and nothing recorded before the end.
Unsent ==
    /\ step \in {"get", "resolve"} =>
        wire.relay = 0 /\ wire.broadcast = 0 /\ attempt = Wake!NoAttempt /\ ~answered
    /\ step # "end" => recorded = None /\ result = "pending"

\* While packets go out, it is by the route of the machine.
OnRoute ==
    /\ step \in {"relay", "broadcast"} =>
        /\ attempt.kind = step /\ attempt.status = "sending" /\ ~answered
        /\ attempt.verification = "not_requested"
        /\ attempt.packets = wire[step]
        /\ step = "relay" <=> Wake!BehindRelay
    /\ step = "relay" => wire.broadcast = 0 /\ wire.relay = 0
    /\ wire.broadcast > 0 => ~Wake!BehindRelay
    /\ wire.relay > 0 => Wake!BehindRelay

\* The attempt agrees with the wire.
Counted ==
    /\ attempt.packets <= wire.relay + wire.broadcast
    /\ attempt.verification = "reachable" <=> answered
    /\ attempt.status = "sent" =>
        /\ attempt.kind \in {"relay", "broadcast"}
        /\ wire[attempt.kind] = attempt.packets
        /\ attempt.kind = "broadcast" => wire.broadcast = Repeat
    /\ step = "verify" => attempt.status = "sent" /\ attempt.verification = "not_requested"

\* What is recorded is the attempt.
RecordedOnce ==
    /\ recorded # None => recorded = attempt /\ (attempt.status = "sent" <=> result = "ok")
    /\ result = "ok" => recorded # None

WakeInv == WakeTypeOK /\ Unsent /\ OnRoute /\ Counted /\ RecordedOnce

\* The route found for a machine is the relay's if and only if it has one.
LEMMA RouteIsTheMachines ==
    Wake!ResolveRoute(machine, site, enabled) # "error" =>
        (Wake!ResolveRoute(machine, site, enabled) = "relay" <=> Wake!BehindRelay)
BY DEF Wake!ResolveRoute, Wake!BehindRelay, Wake!Inherit, Wake!HasSite

\* Nothing is no word and no attempt.
LEMMA NoneIsNothing ==
    /\ None \notin Wake!Attempt /\ None \notin Update!Programs
    /\ None # "sent" /\ None # "answered"
BY CommandsAssumption DEF CommandsAssumption, Status!Answers

\* A wake begins with nothing sent and nothing recorded.
LEMMA WakeInitInv == Wake!WakeInit => WakeInv
<1> SUFFICES ASSUME Wake!WakeInit PROVE WakeInv
  OBVIOUS
<1> USE NoneIsNothing DEF Wake!WakeInit
<1>1. WakeTypeOK /\ Unsent
  BY DEF WakeTypeOK, Unsent, Wake!Attempt, Wake!NoAttempt
<1>2. OnRoute
  BY DEF OnRoute
<1>3. Counted /\ RecordedOnce
  BY DEF Counted, RecordedOnce, Wake!NoAttempt
<1> QED BY <1>1, <1>2, <1>3 DEF WakeInv

\* Every step of WakeDevice keeps the packets, the attempt and the history in agreement.
LEMMA WakeStepInv == WakeInv /\ Wake!WakeNext => WakeInv'
<1> SUFFICES ASSUME WakeInv, Wake!WakeNext PROVE WakeInv'
  OBVIOUS
<1> USE NoneIsNothing, CommandsAssumption
        DEF CommandsAssumption, WakeInv, WakeTypeOK, Wake!wakeInput, Wake!BehindRelay, Wake!HasSite
<1>1. CASE Wake!Get
  <2> USE <1>1 DEF Wake!Get
  <2>1. WakeTypeOK'
    BY DEF Unsent, Wake!Attempt, Wake!NoAttempt
  <2>2. Unsent'
    BY DEF Unsent
  <2>3. OnRoute'
    BY DEF OnRoute, Unsent, Wake!Attempt, Wake!NoAttempt
  <2>4. Counted'
    BY DEF Counted, OnRoute, Unsent, Wake!Attempt, Wake!NoAttempt
  <2>5. RecordedOnce'
    BY DEF RecordedOnce, Unsent, Wake!Attempt
  <2> QED BY <2>1, <2>2, <2>3, <2>4, <2>5
<1>2. CASE Wake!NotFound
  <2> USE <1>2 DEF Wake!NotFound
  <2>1. WakeTypeOK'
    BY DEF Unsent, Wake!Attempt, Wake!NoAttempt
  <2>2. Unsent'
    BY DEF Unsent
  <2>3. OnRoute'
    BY DEF OnRoute, Unsent, Wake!Attempt, Wake!NoAttempt
  <2>4. Counted'
    BY DEF Counted, OnRoute, Unsent, Wake!Attempt, Wake!NoAttempt
  <2>5. RecordedOnce'
    BY DEF RecordedOnce, Unsent, Wake!Attempt
  <2> QED BY <2>1, <2>2, <2>3, <2>4, <2>5
<1>3. CASE Wake!Resolve
  <2> USE <1>3 DEF Wake!Resolve
  <2>0. Wake!ResolveRoute(machine, site, enabled) \in {"relay", "broadcast", "error"}
    BY DEF Wake!ResolveRoute
  <2>1. WakeTypeOK'
    BY <2>0 DEF Unsent, Wake!Attempt, Wake!NoAttempt
  <2>2. Unsent'
    BY <2>0 DEF Unsent
  <2>3. OnRoute'
    BY <2>0, RouteIsTheMachines DEF OnRoute, Unsent, Wake!Attempt, Wake!NoAttempt
  <2>4. Counted'
    BY <2>0 DEF Counted, OnRoute, Unsent, Wake!Attempt, Wake!NoAttempt
  <2>5. RecordedOnce'
    BY DEF RecordedOnce, Unsent, Wake!Attempt
  <2> QED BY <2>1, <2>2, <2>3, <2>4, <2>5
<1>4. CASE Wake!SendPacket
  <2> USE <1>4 DEF Wake!SendPacket
  <2>1. WakeTypeOK'
    BY DEF Unsent, Wake!Attempt, Wake!NoAttempt
  <2>2. Unsent'
    BY DEF Unsent
  <2>3. OnRoute'
    BY DEF OnRoute, Unsent, Wake!Attempt, Wake!NoAttempt
  <2>4. Counted'
    BY DEF Counted, OnRoute, Unsent, Wake!Attempt, Wake!NoAttempt
  <2>5. RecordedOnce'
    BY DEF RecordedOnce, Unsent, Wake!Attempt
  <2> QED BY <2>1, <2>2, <2>3, <2>4, <2>5
<1>5. CASE Wake!SendEnds
  <2> USE <1>5 DEF Wake!SendEnds
  <2>1. WakeTypeOK'
    BY DEF Unsent, Wake!Attempt, Wake!NoAttempt
  <2>2. Unsent'
    BY DEF Unsent
  <2>3. OnRoute'
    BY DEF OnRoute, Unsent, Wake!Attempt, Wake!NoAttempt
  <2>4. Counted'
    BY DEF Counted, OnRoute, Unsent, Wake!Attempt, Wake!NoAttempt
  <2>5. RecordedOnce'
    BY DEF RecordedOnce, Unsent, Wake!Attempt
  <2> QED BY <2>1, <2>2, <2>3, <2>4, <2>5
<1>6. CASE Wake!RelayWakes
  <2> USE <1>6 DEF Wake!RelayWakes
  <2> DEFINE Heard == [wire EXCEPT !.relay = 1]
  <2>1. Heard \in [relay : Nat, broadcast : Nat] /\ Heard.relay = 1 /\ Heard.broadcast = 0
    BY DEF OnRoute
  <2>2. wire.relay = 0 /\ wire.broadcast = 0 /\ wire \in [relay : Nat, broadcast : Nat]
    BY DEF OnRoute
  <2>3. /\ attempt.packets = 0 /\ attempt.kind = "relay" /\ attempt.verification = "not_requested" /\ ~answered
        /\ answered' = answered /\ recorded' = None /\ result' = "pending" /\ Wake!BehindRelay
    BY <2>2 DEF OnRoute, Unsent
  <2>4. Wake!BehindRelay'
    BY <2>3
  <2> HIDE DEF Heard
  <2>5. CASE wire' = Heard /\ attempt' = [attempt EXCEPT !.status = "sent", !.packets = 1]
             /\ step' \in {"verify", "record"}
    <3>1. attempt' \in Wake!Attempt /\ attempt'.packets = 1 /\ attempt'.kind = "relay"
          /\ attempt'.verification = "not_requested"
      BY <2>3, <2>5 DEF Wake!Attempt
    <3> QED BY <2>1, <2>3, <2>4, <2>5, <3>1 DEF Unsent, OnRoute, Counted, RecordedOnce
  <2>6. CASE wire' \in {wire, Heard} /\ attempt' = [attempt EXCEPT !.status = "failed"] /\ step' = "record"
    <3>1. attempt' \in Wake!Attempt /\ attempt'.packets = 0 /\ attempt'.status = "failed"
          /\ attempt'.verification = "not_requested"
      BY <2>3, <2>6 DEF Wake!Attempt
    <3> QED BY <2>1, <2>2, <2>3, <2>4, <2>6, <3>1 DEF Unsent, OnRoute, Counted, RecordedOnce
  <2> QED BY <2>5, <2>6 DEF Heard
<1>7. CASE Wake!Verify
  <2> USE <1>7 DEF Wake!Verify
  <2>1. WakeTypeOK'
    BY DEF Unsent, Wake!Attempt, Wake!NoAttempt
  <2>2. Unsent'
    BY DEF Unsent
  <2>3. OnRoute'
    BY DEF OnRoute, Unsent, Wake!Attempt, Wake!NoAttempt
  <2>4. Counted'
    BY DEF Counted, OnRoute, Unsent, Wake!Attempt, Wake!NoAttempt
  <2>5. RecordedOnce'
    BY DEF RecordedOnce, Unsent, Wake!Attempt
  <2> QED BY <2>1, <2>2, <2>3, <2>4, <2>5
<1>8. CASE Wake!Record
  <2> USE <1>8 DEF Wake!Record
  <2>1. WakeTypeOK'
    BY DEF Unsent, Wake!Attempt, Wake!NoAttempt
  <2>2. Unsent'
    BY DEF Unsent
  <2>3. OnRoute'
    BY DEF OnRoute, Unsent, Wake!Attempt, Wake!NoAttempt
  <2>4. Counted'
    BY DEF Counted, OnRoute, Unsent, Wake!Attempt, Wake!NoAttempt
  <2>5. RecordedOnce'
    BY DEF RecordedOnce, Unsent, Wake!Attempt
  <2> QED BY <2>1, <2>2, <2>3, <2>4, <2>5
<1>9. CASE Wake!StopWaiting
  <2> USE <1>9 DEF Wake!StopWaiting
  <2>1. WakeTypeOK'
    BY DEF Unsent, Wake!Attempt, Wake!NoAttempt
  <2>2. Unsent'
    BY DEF Unsent
  <2>3. OnRoute'
    BY DEF OnRoute, Unsent, Wake!Attempt, Wake!NoAttempt
  <2>4. Counted'
    BY DEF Counted, OnRoute, Unsent, Wake!Attempt, Wake!NoAttempt
  <2>5. RecordedOnce'
    BY DEF RecordedOnce, Unsent, Wake!Attempt
  <2> QED BY <2>1, <2>2, <2>3, <2>4, <2>5
<1> QED BY <1>1, <1>2, <1>3, <1>4, <1>5, <1>6, <1>7, <1>8, <1>9 DEF Wake!WakeNext

\* A command that is no wake leaves it alone.
LEMMA WakeIdle == WakeInv /\ UNCHANGED wake => WakeInv'
BY DEF wake, WakeInv, WakeTypeOK, Unsent, OnRoute, Counted, RecordedOnce, Wake!Attempt, Wake!NoAttempt,
   Wake!BehindRelay, Wake!HasSite

-----------------------------------------------------------------------------
(* wol status.                                                             *)

StatusTypeOK ==
    /\ port \in [Ports -> {"new", "dial", "send", "gone"}]
    /\ answer \in [Ports -> Status!Answers \cup {None}]
    /\ results \subseteq Ports
    /\ heard \in BOOLEAN

\* Before the sweep, and after one that ended without a hit, nothing was heard.
UnheardOutside == stage \in {"begin", "verify", "ping", "verdict"} => ~heard

\* During it, what was heard is on its way to the channel, or in it.
HeardIsKept ==
    /\ stage \in {"begin", "verify"} => \A p \in Ports : port[p] = "new"
    /\ \A p \in Ports :
        /\ port[p] \in {"new", "dial"} => answer[p] = None
        /\ port[p] = "gone" /\ answer[p] = "answered" => p \in results
    /\ stage = "sweep" => (heard <=> \E p \in Ports : answer[p] = "answered")

StatusInv == StatusTypeOK /\ UnheardOutside /\ HeardIsKept /\ Status!VerdictIsEvidence

\* A probe begins with nothing heard.
LEMMA StatusInitInv == Status!DetectorInit => StatusInv
BY NoneIsNothing DEF Status!DetectorInit, StatusInv, StatusTypeOK, UnheardOutside, HeardIsKept,
   Status!VerdictIsEvidence

\* Every answer, cut and verdict of a probe keeps what was heard and what is known in agreement.
LEMMA StatusStepInv == StatusInv /\ Status!DetectorNext => StatusInv'
<1> SUFFICES ASSUME StatusInv, Status!DetectorNext PROVE StatusInv'
  OBVIOUS
<1> USE NoneIsNothing DEF StatusInv, StatusTypeOK, UnheardOutside, HeardIsKept, Status!VerdictIsEvidence,
        Status!Decide, Status!goroutines, Status!counts, Status!Answers
<1>1. CASE Status!Begin
  BY <1>1 DEF Status!Begin
<1>2. CASE Status!VerifyDial
  <2> USE <1>2 DEF Status!VerifyDial
  <2>1. PICK a \in Status!Answers :
          /\ heard' = (heard \/ a = "answered")
          /\ IF a = "answered" THEN Status!Decide("online", "tcp_verify") ELSE stage' = "sweep" /\ UNCHANGED verdict
    OBVIOUS
  <2>2. heard' <=> a = "answered"
    BY <2>1
  <2>3. StatusTypeOK'
    BY <2>1
  <2> QED BY <2>1, <2>2, <2>3
<1>3. CASE Status!Swept
  BY <1>3 DEF Status!Swept
<1>4. CASE Status!SkipSweep
  BY <1>4 DEF Status!SkipSweep
<1>5. CASE Status!Ping
  <2>1. CASE heard' = TRUE /\ Status!Decide("online", "icmp")
    BY <1>5, <2>1 DEF Status!Ping
  <2>2. CASE stage' = "verdict" /\ UNCHANGED <<verdict, heard>>
    BY <1>5, <2>2 DEF Status!Ping
  <2> QED BY <1>5, <2>1, <2>2 DEF Status!Ping
<1>6. CASE Status!Verdict
  BY <1>6 DEF Status!Verdict, Status!Unreachable
<1>7. CASE Status!TimeOut
  BY <1>7 DEF Status!TimeOut
<1>8. CASE Status!StopWaiting
  BY <1>8 DEF Status!StopWaiting
<1>9. ASSUME NEW p \in Ports, Status!Start(p) PROVE StatusInv'
  BY <1>9 DEF Status!Start, Status!SweepOver
<1>10. ASSUME NEW p \in Ports, Status!Dial(p) PROVE StatusInv'
  BY <1>10 DEF Status!Dial
<1>11. ASSUME NEW p \in Ports, Status!Send(p) PROVE StatusInv'
  BY <1>11 DEF Status!Send, Status!SweepOver
<1> QED BY <1>1, <1>2, <1>3, <1>4, <1>5, <1>6, <1>7, <1>8, <1>9, <1>10, <1>11 DEF Status!DetectorNext

\* Another command leaves the probe as it is.
LEMMA StatusIdle == StatusInv /\ UNCHANGED status => StatusInv'
BY DEF status, StatusInv, StatusTypeOK, UnheardOutside, HeardIsKept, Status!VerdictIsEvidence

-----------------------------------------------------------------------------
(* The broker of a local remote session.                                   *)

\* The cookie goes to the browser that followed the link first.
OneBrowser == IF consumed THEN \E t \in Tabs : cookies = {Browser[t]} ELSE cookies = {}

\* Tokens are numbered as they are built; those shown are in order, and one that
\* waits for its page is the last that was built.
TokensInOrder ==
    /\ launch \in Nat /\ built \in Nat /\ shown \in Seq(Nat)
    /\ \A i, j \in DOMAIN shown : i < j => shown[i] < shown[j]
    /\ \A i \in DOMAIN shown : shown[i] <= built
    /\ launch # 0 => launch = built /\ \A i \in DOMAIN shown : shown[i] < launch

RemoteInv == consumed \in BOOLEAN /\ OneBrowser /\ TokensInOrder

\* A session begins with no browser let in and no page shown.
LEMMA RemoteInitInv == Remote!BrokerInit => RemoteInv
<1> SUFFICES ASSUME Remote!BrokerInit PROVE RemoteInv
  OBVIOUS
<1> USE DEF Remote!BrokerInit
<1>1. shown \in Seq(Nat) /\ DOMAIN shown = {}
  OBVIOUS
<1> QED BY <1>1 DEF RemoteInv, OneBrowser, TokensInOrder

\* A page that takes the waiting token shows one after all the others.
LEMMA ShownInOrder ==
    ASSUME RemoteInv, NEW t \in Tabs, Remote!Remote(t)
    PROVE  TokensInOrder'
<1> USE DEF RemoteInv, TokensInOrder, Remote!Remote
<1>1. CASE launch = 0
  BY <1>1
<1>2. CASE launch # 0
  <2>1. shown' = Append(shown, launch) /\ launch' = 0 /\ built' = built
    BY <1>2
  <2>2. /\ shown' \in Seq(Nat) /\ Len(shown') = Len(shown) + 1
        /\ \A i \in 1 .. Len(shown) : shown'[i] = shown[i]
        /\ shown'[Len(shown) + 1] = launch
        /\ DOMAIN shown = 1 .. Len(shown) /\ DOMAIN shown' = 1 .. Len(shown')
        /\ Len(shown) \in Nat
    BY <2>1
  <2>3. \A i \in DOMAIN shown : shown[i] \in Nat /\ shown[i] < launch
    BY <1>2
  <2>4. \A i, j \in DOMAIN shown' : i < j => shown'[i] < shown'[j]
    BY <2>2, <2>3
  <2>5. \A i \in DOMAIN shown' : shown'[i] <= built'
    BY <1>2, <2>1, <2>2, <2>3
  <2> QED BY <2>1, <2>2, <2>4, <2>5
<1> QED BY <1>1, <1>2

\* Every request of a tab keeps the tokens built, launched and shown in order.
LEMMA RemoteStepInv == RemoteInv /\ Remote!BrokerNext => RemoteInv'
<1> SUFFICES ASSUME RemoteInv, NEW t \in Tabs,
                    \/ Remote!Consume(t) \/ Remote!ServeSession(t) \/ Remote!Connect(t) \/ Remote!Keep(t)
                    \/ Remote!Forget(t) \/ Remote!BeginRemote(t) \/ Remote!Remote(t) \/ Remote!CloseFromBrowser(t)
             PROVE  RemoteInv'
  BY DEF Remote!BrokerNext
<1> USE DEF RemoteInv, OneBrowser, Remote!tokens
<1>1. CASE Remote!Consume(t)
  BY <1>1 DEF Remote!Consume, TokensInOrder
<1>2. CASE \/ Remote!ServeSession(t) \/ Remote!Connect(t) \/ Remote!Keep(t) \/ Remote!Forget(t)
           \/ Remote!CloseFromBrowser(t)
  BY <1>2 DEF Remote!ServeSession, Remote!Connect, Remote!Keep, Remote!Forget, Remote!CloseFromBrowser,
     TokensInOrder
<1>3. CASE Remote!BeginRemote(t)
  BY <1>3 DEF Remote!BeginRemote, TokensInOrder
<1>4. CASE Remote!Remote(t)
  BY <1>4, ShownInOrder DEF Remote!Remote
<1> QED BY <1>1, <1>2, <1>3, <1>4

\* Another command leaves the session as it is.
LEMMA RemoteIdle == RemoteInv /\ UNCHANGED remote => RemoteInv'
BY DEF remote, RemoteInv, OneBrowser, TokensInOrder

\* The invariant says what the run checks.
LEMMA RemoteInvImplies == RemoteInv => Remote!SignInLaunchesOnce
BY DEF RemoteInv, OneBrowser, TokensInOrder, Remote!SignInLaunchesOnce

-----------------------------------------------------------------------------
(* wol update.                                                             *)

Steps == Update!Ended \cup {"source", "sums", "signature", "archive", "extract", "create", "sync",
                            "clear", "aside", "rename", "discard"}

Assets == (UNION Releases) \cup {None}

Plan == [running : Update!Programs \cup {None}, version : Versions \cup {None}, forced : BOOLEAN,
         asset : Assets, sums : Nat, signature : Nat, archive : Nat]

UpdateTypeOK ==
    /\ system \in [windows : BOOLEAN, key : BOOLEAN]
    /\ at \in [Updaters -> Steps]
    /\ has \in [Updaters -> Plan]
    /\ build \in Nat
    /\ path \in Update!Programs \cup {None} /\ old \in Update!Programs \cup {None}
    /\ temp \in [Updaters -> Update!Programs \cup {None}]

Active(u) == at[u] \notin Update!Ended

\* An update that is about to replace wol has written and flushed what it puts
\* there; only on Windows is anything moved aside.
WrittenFirst ==
    \A u \in Updaters :
        /\ at[u] \in {"clear", "aside", "rename"} => temp[u] # None /\ temp[u].flushed
        /\ at[u] \in {"clear", "aside", "discard"} => system.windows

\* On Windows the program an update runs from is at its path or the one aside,
\* which is what keeps the others from removing it.
RunsFrom ==
    \A u \in Updaters :
        system.windows /\ Active(u) => has[u].running # None /\ has[u].running \in {path, old}

\* Only one has moved the program aside and not put another there.
OneMoves ==
    \A u \in Updaters :
        system.windows /\ at[u] = "rename" =>
            /\ path = None /\ has[u].running = old
            /\ \A v \in Updaters : at[v] = "rename" => v = u

UpdateInv == UpdateTypeOK /\ WrittenFirst /\ RunsFrom /\ OneMoves /\ Update!ProgramSurvives

\* An update begins with the program that is installed.
LEMMA UpdateInitInv == Update!UpdateInit => UpdateInv
<1> SUFFICES ASSUME Update!UpdateInit PROVE UpdateInv
  OBVIOUS
<1> USE NoneIsNothing DEF Update!UpdateInit
<1>1. path \in Update!Programs /\ path.flushed
  BY DEF Update!Program, Update!Programs
<1>2. Update!Nothing \in Plan
  <2>1. None \in Assets
    BY DEF Assets
  <2> QED BY <2>1 DEF Update!Nothing, Plan
<1>3. UpdateTypeOK
  BY <1>1, <1>2 DEF UpdateTypeOK, Steps, Update!Ended
<1> QED BY <1>1, <1>3 DEF UpdateInv, WrittenFirst, RunsFrom, OneMoves, Active, Update!Ended, Update!ProgramSurvives

\* Removing what is aside takes nothing an update runs from.
LEMMA RemovingIsSafe ==
    ASSUME UpdateInv, Update!RemoveOld, path' = path, system' = system
    PROVE  /\ old' \in Update!Programs \cup {None}
           /\ old' # None => old' = old
           /\ \A u \in Updaters : system.windows /\ Active(u) /\ has[u].running = old => old' = old
BY DEF UpdateInv, UpdateTypeOK, RunsFrom, Active, Update!RemoveOld, Update!Locked

\* The decision whether to update touches no file.
LEMMA DecideInv == ASSUME UpdateInv, NEW u \in Updaters, Update!Decide(u) PROVE UpdateInv'
<1> USE NoneIsNothing DEF UpdateInv, UpdateTypeOK, Update!Go, Update!files
<1>1. \/ at' = [at EXCEPT ![u] = "done"] /\ has' = has
      \/ \E h \in Plan, s \in {"source", "sums"} :
            h.running = path /\ has' = [has EXCEPT ![u] = h] /\ at' = [at EXCEPT ![u] = s]
  <2>1. PICK force \in BOOLEAN, target \in BOOLEAN, r \in Update!FetchLatestRelease :
            \/ at' = [at EXCEPT ![u] = "done"] /\ has' = has
            \/ \E asset \in IF Update!MatchAsset(r.assets) = {} THEN {None} ELSE Update!MatchAsset(r.assets) :
                /\ has' = [has EXCEPT ![u] = [Update!Nothing EXCEPT !.running = path, !.version = r.version,
                                                    !.asset = asset, !.forced = force \/ target]]
                /\ at' = [at EXCEPT ![u] = IF asset = None THEN "source" ELSE "sums"]
    BY DEF Update!Decide, Update!FetchLatestRelease
  <2>2. r.version \in Versions /\ Update!MatchAsset(r.assets) \subseteq Assets /\ None \in Assets
    BY DEF Assets, Update!FetchReleaseByTag, Update!FetchLatestRelease, Update!Redirected, Update!MatchAsset
  <2>3. ASSUME NEW asset \in Assets
        PROVE  LET h == [Update!Nothing EXCEPT !.running = path, !.version = r.version,
                                               !.asset = asset, !.forced = force \/ target]
               IN  h \in Plan /\ h.running = path
    BY <2>2, <2>3 DEF Update!Nothing, Plan
  <2> QED BY <2>1, <2>2, <2>3
<1>2. UNCHANGED <<system, build, path, old, temp>> /\ path # None /\ at[u] = "idle"
  BY DEF Update!Decide
<1>3. UpdateTypeOK'
  BY <1>1, <1>2 DEF Steps, Update!Ended
<1>4. WrittenFirst'
  BY <1>1, <1>2 DEF WrittenFirst
<1>5. RunsFrom'
  BY <1>1, <1>2 DEF RunsFrom, Active, Update!Ended
<1>6. OneMoves'
  BY <1>1, <1>2 DEF OneMoves
<1>7. Update!ProgramSurvives'
  BY <1>1, <1>2 DEF Update!ProgramSurvives
<1> QED BY <1>3, <1>4, <1>5, <1>6, <1>7

\* What is kept of a download leaves the program it runs from as it was.
LEMMA KeepRunning ==
    ASSUME UpdateInv, NEW u \in Updaters,
           Update!Keep(u, "sums", build) \/ Update!Keep(u, "signature", build) \/ Update!Keep(u, "archive", build)
    PROVE  has' \in [Updaters -> Plan] /\ \A v \in Updaters : has'[v].running = has[v].running
<1> USE DEF UpdateInv, UpdateTypeOK, Plan
<1>1. CASE Update!Keep(u, "sums", build)
  BY <1>1 DEF Update!Keep
<1>2. CASE Update!Keep(u, "signature", build)
  BY <1>2 DEF Update!Keep
<1>3. CASE Update!Keep(u, "archive", build)
  BY <1>3 DEF Update!Keep
<1> QED BY <1>1, <1>2, <1>3

\* A step that touches no file and is not about to.
LEMMA ProceedInv ==
    ASSUME UpdateInv, NEW u \in Updaters, Active(u), at[u] # "rename",
           NEW s \in Steps \ {"clear", "aside", "rename", "discard", "idle"}, at' = [at EXCEPT ![u] = s],
           has' \in [Updaters -> Plan], \A v \in Updaters : has'[v].running = has[v].running,
           build' \in Nat, UNCHANGED <<system, path, old, temp>>
    PROVE  UpdateInv'
<1> USE DEF UpdateInv, UpdateTypeOK, Active
<1>1. UpdateTypeOK'
  OBVIOUS
<1>2. WrittenFirst'
  BY DEF WrittenFirst
<1>3. RunsFrom'
  BY DEF RunsFrom
<1>4. OneMoves'
  BY DEF OneMoves
<1>5. Update!ProgramSurvives'
  BY DEF Update!ProgramSurvives, Update!Ended
<1> QED BY <1>1, <1>2, <1>3, <1>4, <1>5

\* The downloads and the build.
LEMMA FetchInv ==
    ASSUME UpdateInv, NEW u \in Updaters,
           \/ Update!DownloadSums(u) \/ Update!DownloadSignature(u) \/ Update!DownloadArchive(u)
           \/ Update!Extract(u) \/ Update!BuildFromSource(u)
    PROVE  UpdateInv'
<1>1. /\ has' \in [Updaters -> Plan] /\ \A v \in Updaters : has'[v].running = has[v].running
      /\ build' \in Nat /\ UNCHANGED <<system, path, old, temp>>
  BY KeepRunning DEF Update!DownloadSums, Update!DownloadSignature, Update!DownloadArchive, Update!Extract,
     Update!BuildFromSource, Update!files, UpdateInv, UpdateTypeOK
<1>2. at[u] \in {"sums", "signature", "archive", "extract", "source"}
  BY DEF Update!DownloadSums, Update!DownloadSignature, Update!DownloadArchive, Update!Extract,
     Update!BuildFromSource
<1>3. \E s \in {"signature", "archive", "extract", "create", "failed"} : at' = [at EXCEPT ![u] = s]
  BY DEF Update!DownloadSums, Update!DownloadSignature, Update!DownloadArchive, Update!Extract,
     Update!BuildFromSource, Update!Go
<1> QED BY <1>1, <1>2, <1>3, ProceedInv DEF Steps, Active, Update!Ended

\* What it writes is a program.
LEMMA WrittenIsProgram ==
    ASSUME UpdateInv, NEW u \in Updaters
    PROVE  /\ Update!Written(u) \in Update!Programs /\ Update!Written(u).flushed
           /\ [Update!Written(u) EXCEPT !.flushed = FALSE] \in Update!Programs
BY DEF UpdateInv, UpdateTypeOK, Plan, Update!Written, Update!Program, Update!Programs

\* A temporary file is written.
LEMMA CreateInv ==
    ASSUME UpdateInv, NEW u \in Updaters, Update!Create(u)
    PROVE  UpdateInv'
<1> USE NoneIsNothing DEF UpdateInv, UpdateTypeOK, Update!Go, Update!Create
<1>1. UpdateTypeOK'
  BY WrittenIsProgram DEF Steps, Update!Ended
<1>2. WrittenFirst'
  BY WrittenIsProgram DEF WrittenFirst
<1>3. RunsFrom'
  BY WrittenIsProgram DEF RunsFrom, OneMoves, Active, Update!Ended
<1>4. OneMoves'
  BY WrittenIsProgram DEF OneMoves, RunsFrom, Active, Update!Ended
<1>5. Update!ProgramSurvives'
  BY WrittenIsProgram DEF Update!ProgramSurvives, WrittenFirst, RunsFrom, OneMoves, Active, Update!Ended
<1> QED BY <1>1, <1>2, <1>3, <1>4, <1>5

\* It is flushed before it can take the place of wol.
LEMMA SyncInv ==
    ASSUME UpdateInv, NEW u \in Updaters, Update!Sync(u)
    PROVE  UpdateInv'
<1> USE NoneIsNothing DEF UpdateInv, UpdateTypeOK, Update!Go, Update!Sync
<1>1. UpdateTypeOK'
  BY WrittenIsProgram DEF Steps, Update!Ended
<1>2. WrittenFirst'
  BY WrittenIsProgram DEF WrittenFirst
<1>3. RunsFrom'
  BY WrittenIsProgram DEF RunsFrom, OneMoves, Active, Update!Ended
<1>4. OneMoves'
  BY WrittenIsProgram DEF OneMoves, RunsFrom, Active, Update!Ended
<1>5. Update!ProgramSurvives'
  BY WrittenIsProgram DEF Update!ProgramSurvives, WrittenFirst, RunsFrom, OneMoves, Active, Update!Ended
<1> QED BY <1>1, <1>2, <1>3, <1>4, <1>5

\* It takes it.
LEMMA RenameInv ==
    ASSUME UpdateInv, NEW u \in Updaters, Update!Rename(u)
    PROVE  UpdateInv'
<1> USE NoneIsNothing DEF UpdateInv, UpdateTypeOK, Update!Go, Update!Rename
<1>1. UpdateTypeOK'
  BY DEF Steps, Update!Ended
<1>2. WrittenFirst'
  BY DEF WrittenFirst
<1>3. RunsFrom'
  BY DEF RunsFrom, OneMoves, Active, Update!Ended
<1>4. OneMoves'
  BY DEF OneMoves, RunsFrom, Active, Update!Ended
<1>5. Update!ProgramSurvives'
  BY DEF Update!ProgramSurvives, WrittenFirst, RunsFrom, OneMoves, Active, Update!Ended
<1> QED BY <1>1, <1>2, <1>3, <1>4, <1>5

\* What was aside may be removed, unless an update runs from it.
LEMMA ClearInv ==
    ASSUME UpdateInv, NEW u \in Updaters, Update!Clear(u)
    PROVE  UpdateInv'
<1> USE NoneIsNothing DEF UpdateInv, UpdateTypeOK, Update!Go, Update!Clear
<1>1. UpdateTypeOK'
  BY RemovingIsSafe DEF Steps, Update!Ended
<1>2. WrittenFirst'
  BY RemovingIsSafe DEF WrittenFirst
<1>3. RunsFrom'
  BY RemovingIsSafe DEF RunsFrom, OneMoves, Active, Update!Ended
<1>4. OneMoves'
  BY RemovingIsSafe DEF OneMoves, RunsFrom, Active, Update!Ended
<1>5. Update!ProgramSurvives'
  BY RemovingIsSafe DEF Update!ProgramSurvives, WrittenFirst, RunsFrom, OneMoves, Active, Update!Ended
<1> QED BY <1>1, <1>2, <1>3, <1>4, <1>5

\* Nobody runs from what was aside: all run from the path.
LEMMA MoveAsideInv ==
    ASSUME UpdateInv, NEW u \in Updaters, Update!MoveAside(u)
    PROVE  UpdateInv'
<1> USE NoneIsNothing DEF UpdateInv, UpdateTypeOK, Update!Go, Update!MoveAside, Update!Locked
<1>1. UpdateTypeOK'
  BY DEF Steps, Update!Ended
<1>2. WrittenFirst'
  BY DEF WrittenFirst
<1>3. RunsFrom'
  BY DEF RunsFrom, OneMoves, Active, Update!Ended
<1>4. OneMoves'
  BY DEF OneMoves, RunsFrom, Active, Update!Ended
<1>5. Update!ProgramSurvives'
  BY DEF Update!ProgramSurvives, WrittenFirst, RunsFrom, OneMoves, Active, Update!Ended
<1> QED BY <1>1, <1>2, <1>3, <1>4, <1>5

\* What was aside is moved back, or stays there.
LEMMA RenameFailsInv ==
    ASSUME UpdateInv, NEW u \in Updaters, Update!RenameFails(u)
    PROVE  UpdateInv'
<1> USE NoneIsNothing DEF UpdateInv, UpdateTypeOK, Update!Go, Update!RenameFails
<1>1. UpdateTypeOK'
  BY DEF Steps, Update!Ended
<1>2. WrittenFirst'
  BY DEF WrittenFirst
<1>3. RunsFrom'
  BY DEF RunsFrom, OneMoves, Active, Update!Ended
<1>4. OneMoves'
  BY DEF OneMoves, RunsFrom, Active, Update!Ended
<1>5. Update!ProgramSurvives'
  BY DEF Update!ProgramSurvives, WrittenFirst, RunsFrom, OneMoves, Active, Update!Ended
<1> QED BY <1>1, <1>2, <1>3, <1>4, <1>5

\* What was aside may be removed, unless an update runs from it.
LEMMA DiscardInv ==
    ASSUME UpdateInv, NEW u \in Updaters, Update!Discard(u)
    PROVE  UpdateInv'
<1> USE NoneIsNothing DEF UpdateInv, UpdateTypeOK, Update!Go, Update!Discard
<1>1. UpdateTypeOK'
  BY RemovingIsSafe DEF Steps, Update!Ended
<1>2. WrittenFirst'
  BY RemovingIsSafe DEF WrittenFirst
<1>3. RunsFrom'
  BY RemovingIsSafe DEF RunsFrom, OneMoves, Active, Update!Ended
<1>4. OneMoves'
  BY RemovingIsSafe DEF OneMoves, RunsFrom, Active, Update!Ended
<1>5. Update!ProgramSurvives'
  BY RemovingIsSafe DEF Update!ProgramSurvives, WrittenFirst, RunsFrom, OneMoves, Active, Update!Ended
<1> QED BY <1>1, <1>2, <1>3, <1>4, <1>5

\* A temporary file is removed.
LEMMA GiveUpInv ==
    ASSUME UpdateInv, NEW u \in Updaters, Update!GiveUp(u)
    PROVE  UpdateInv'
<1> USE NoneIsNothing DEF UpdateInv, UpdateTypeOK, Update!Go, Update!GiveUp
<1>1. UpdateTypeOK'
  BY DEF Steps, Update!Ended
<1>2. WrittenFirst'
  BY DEF WrittenFirst
<1>3. RunsFrom'
  BY DEF RunsFrom, OneMoves, Active, Update!Ended
<1>4. OneMoves'
  BY DEF OneMoves, RunsFrom, Active, Update!Ended
<1>5. Update!ProgramSurvives'
  BY DEF Update!ProgramSurvives, WrittenFirst, RunsFrom, OneMoves, Active, Update!Ended
<1> QED BY <1>1, <1>2, <1>3, <1>4, <1>5

\* The machine crashes, the release is published anew, or wol starts and removes
\* what is aside.
LEMMA AroundInv == UpdateInv /\ (Update!Publish \/ Update!RemoveStale \/ Update!Crash) => UpdateInv'
<1> SUFFICES ASSUME UpdateInv, Update!Publish \/ Update!RemoveStale \/ Update!Crash PROVE UpdateInv'
  OBVIOUS
<1> USE NoneIsNothing DEF UpdateInv, UpdateTypeOK, Update!files, WrittenFirst, RunsFrom, OneMoves, Active, Update!Ended,
        Update!ProgramSurvives
<1>1. CASE Update!Publish
  BY <1>1 DEF Update!Publish
<1>2. CASE Update!RemoveStale
  BY <1>2 DEF Update!RemoveStale, Update!Locked
<1>3. CASE Update!Crash
  <2> USE <1>3 DEF Update!Crash
  <2>1. UpdateTypeOK'
    BY DEF Steps
  <2>2. WrittenFirst' /\ RunsFrom' /\ OneMoves'
    OBVIOUS
  <2>3. Update!ProgramSurvives'
    OBVIOUS
  <2> QED BY <2>1, <2>2, <2>3
<1> QED BY <1>1, <1>2, <1>3

\* Every step of an update, its failures and a crash included, keeps a program on the disk.
LEMMA UpdateStepInv == UpdateInv /\ Update!UpdateNext => UpdateInv'
<1> SUFFICES ASSUME UpdateInv, Update!UpdateNext PROVE UpdateInv'
  OBVIOUS
<1>1. ASSUME NEW u \in Updaters, Update!UpdateStep(u) PROVE UpdateInv'
  BY <1>1, DecideInv, FetchInv, CreateInv, SyncInv, RenameInv, ClearInv, MoveAsideInv, RenameFailsInv,
     DiscardInv, GiveUpInv DEF Update!UpdateStep
<1> QED BY <1>1, AroundInv DEF Update!UpdateNext

\* Another command leaves the executable as it is.
LEMMA UpdateIdle == UpdateInv /\ UNCHANGED update => UpdateInv'
BY DEF update, UpdateInv, UpdateTypeOK, WrittenFirst, RunsFrom, OneMoves, Active, Update!ProgramSurvives

-----------------------------------------------------------------------------
(* The order of versions.                                                  *)

\* If a number is not 0 somewhere, there is a first place where it is not.
LEMMA FirstDifference ==
    ASSUME NEW n \in Nat, NEW f, NEW k \in 1 .. n, f[k] # 0
    PROVE  \E i \in 1 .. n : f[i] # 0 /\ \A j \in 1 .. i - 1 : f[j] = 0
<1> DEFINE T == {i \in 1 .. n : f[i] # 0}
<1>1. T \subseteq Nat /\ T # {}
  OBVIOUS
<1>2. PICK i \in T : \A j \in T : ~ (<<j, i>> \in OpToRel(<, Nat))
  BY <1>1, WFMin, NatLessThanWellFounded, Zenon
<1>3. ASSUME NEW j \in T PROVE ~ (j < i)
  BY <1>1, <1>2 DEF OpToRel
<1>4. \A j \in 1 .. i - 1 : j \in 1 .. n /\ j < i
  OBVIOUS
<1> QED BY <1>3, <1>4

\* The order of two numbers says which is before.
LEMMA OrderOf ==
    ASSUME NEW i \in Int, NEW j \in Int
    PROVE  /\ Update!Order(i, j) \in {-1, 0, 1}
           /\ Update!Order(i, j) = 0 <=> i = j
           /\ Update!Order(i, j) < 0 <=> i < j
BY DEF Update!Order

\* A number that a version leaves out is 0.
LEMMA PartOf ==
    ASSUME NEW v \in Update!SemVer, NEW i \in Int
    PROVE  Update!Part(v.base, i) \in Int /\ (i > Len(v.base) => Update!Part(v.base, i) = 0)
BY DEF Update!SemVer, Update!Part

Rank(x) == IF x.word THEN <<2, x.value>> ELSE <<1, x.value>>

\* The places of a sequence put behind another.
LEMMA PlacesOfConcat ==
    ASSUME NEW S, NEW s \in Seq(S), NEW t \in Seq(S)
    PROVE  /\ s \o t \in Seq(S) /\ DOMAIN (s \o t) = 1 .. Len(s) + Len(t)
           /\ Len(s \o t) = Len(s) + Len(t) /\ Len(s) \in Nat /\ Len(t) \in Nat
           /\ \A i \in 1 .. Len(s) : (s \o t)[i] = s[i]
           /\ \A i \in 1 .. Len(t) : (s \o t)[Len(s) + i] = t[i]
OBVIOUS

\* The places of what a version is ordered by.
LEMMA PlacesOf ==
    ASSUME NEW v \in Update!SemVer
    PROVE  LET p == Update!Precedence(v)
           IN  /\ DOMAIN p = 1 .. Len(p)
               /\ Len(p) = IF v.pre = <<>> THEN 4 ELSE 3 + Len(v.pre)
               /\ \A i \in 1 .. 3 : p[i] = <<0, Update!Part(v.base, i)>>
               /\ v.pre = <<>> => p[4] = <<3, 0>>
               /\ v.pre # <<>> => \A i \in 1 .. Len(v.pre) : p[3 + i] = Rank(v.pre[i])
<1> DEFINE head == [i \in 1 .. 3 |-> <<0, Update!Part(v.base, i)>>]
           tail == IF v.pre = <<>> THEN << <<3, 0>> >> ELSE [i \in DOMAIN v.pre |-> Rank(v.pre[i])]
           Any == Int \X Int
<1>1. head \in Seq(Any) /\ Len(head) = 3 /\ \A i \in 1 .. 3 : head[i] = <<0, Update!Part(v.base, i)>>
  BY PartOf
<1>2. v.pre \in Seq(Update!Identifiers)
  BY DEF Update!SemVer
<1>3. /\ tail \in Seq(Any)
      /\ Len(tail) = IF v.pre = <<>> THEN 1 ELSE Len(v.pre)
      /\ v.pre = <<>> => tail[1] = <<3, 0>>
      /\ v.pre # <<>> => \A i \in 1 .. Len(v.pre) : tail[i] = Rank(v.pre[i])
  <2>1. CASE v.pre = <<>>
    BY <2>1
  <2>2. CASE v.pre # <<>>
    <3>1. tail = [i \in 1 .. Len(v.pre) |-> Rank(v.pre[i])]
      BY <1>2, <2>2
    <3>2. \A i \in 1 .. Len(v.pre) : Rank(v.pre[i]) \in Any
      <4> SUFFICES ASSUME NEW i \in 1 .. Len(v.pre) PROVE Rank(v.pre[i]) \in Any
        OBVIOUS
      <4>1. v.pre[i] \in Update!Identifiers
        BY <1>2
      <4>2. v.pre[i].value \in Int
        BY <4>1 DEF Update!Identifiers
      <4> QED BY <4>2 DEF Rank
    <3>3. Len(v.pre) \in Nat
      BY <1>2
    <3> HIDE DEF tail, Any
    <3> QED BY <2>2, <3>1, <3>2, <3>3
  <2> QED BY <2>1, <2>2
<1>4. Update!Precedence(v) = head \o tail
  BY DEF Update!Precedence, Rank
<1> HIDE DEF head, tail, Any
<1>6. head \in Seq(Any) /\ tail \in Seq(Any)
  BY <1>1, <1>3
<1>7. /\ head \o tail \in Seq(Any) /\ DOMAIN (head \o tail) = 1 .. Len(head) + Len(tail)
      /\ Len(head \o tail) = Len(head) + Len(tail) /\ Len(head) \in Nat /\ Len(tail) \in Nat
      /\ \A i \in 1 .. Len(head) : (head \o tail)[i] = head[i]
      /\ \A i \in 1 .. Len(tail) : (head \o tail)[Len(head) + i] = tail[i]
  BY <1>6, PlacesOfConcat
<1>8. v.pre # <<>> => Len(v.pre) \in Nat
  BY <1>2
<1> QED BY <1>1, <1>3, <1>4, <1>7, <1>8

\* The identifiers of a pre-release, as CompareIdentifiers and as ranks.
LEMMA IdentifiersOf ==
    ASSUME NEW x \in Update!Identifiers, NEW y \in Update!Identifiers
    PROVE  LET o == Update!CompareIdentifiers(x, y)
           IN  /\ o \in Int
               /\ o = 0 => Rank(x) = Rank(y)
               /\ o < 0 => (Rank(x)[1] < Rank(y)[1] \/ (Rank(x)[1] = Rank(y)[1] /\ Rank(x)[2] < Rank(y)[2]))
<1>1. x.word \in BOOLEAN /\ y.word \in BOOLEAN /\ x.value \in Int /\ y.value \in Int
      /\ x = [word |-> x.word, value |-> x.value] /\ y = [word |-> y.word, value |-> y.value]
  BY DEF Update!Identifiers
<1>2. CASE x.word /\ y.word
  BY <1>1, <1>2, OrderOf DEF Update!CompareIdentifiers, Rank
<1>3. CASE x.word /\ ~y.word
  <2>1. Update!CompareIdentifiers(x, y) = 1
    BY <1>3 DEF Update!CompareIdentifiers
  <2> QED BY <2>1
<1>4. CASE ~x.word /\ y.word
  <2>1. Update!CompareIdentifiers(x, y) = -1
    BY <1>4 DEF Update!CompareIdentifiers
  <2>2. Rank(x) = <<1, x.value>> /\ Rank(y) = <<2, y.value>>
    BY <1>4 DEF Rank
  <2>3. Rank(x)[1] < Rank(y)[1]
    BY <2>2
  <2> QED BY <2>1, <2>3
<1>5. CASE ~x.word /\ ~y.word
  BY <1>1, <1>5, OrderOf DEF Update!CompareIdentifiers, Rank
<1> QED BY <1>1, <1>2, <1>3, <1>4, <1>5

\* FirstOrder is what its name says.
LEMMA FirstOrderOf ==
    ASSUME NEW n \in Nat, NEW f, DOMAIN f = 1 .. n, NEW r
    PROVE  \/ (\A i \in 1 .. n : f[i] = 0) /\ Update!FirstOrder(f, r) = r
           \/ \E i \in 1 .. n : /\ f[i] # 0 /\ Update!FirstOrder(f, r) = f[i]
                                /\ \A j \in 1 .. i - 1 : f[j] = 0
<1>1. CASE \A i \in 1 .. n : f[i] = 0
  BY <1>1 DEF Update!FirstOrder
<1>2. CASE \E i \in 1 .. n : f[i] # 0
  <2> DEFINE P(i) == f[i] # 0 /\ \A j \in 1 .. i - 1 : f[j] = 0
             c == CHOOSE i \in 1 .. n : P(i)
  <2>1. \E i \in 1 .. n : P(i)
    BY <1>2, FirstDifference
  <2>2. c \in 1 .. n /\ P(c)
    BY <2>1, Zenon
  <2>3. Update!FirstOrder(f, r) = f[c]
    BY <1>2, Zenon DEF Update!FirstOrder
  <2> QED BY <2>2, <2>3
<1> QED BY <1>1, <1>2

\* CompareVersions calls a version older only if SemVer does.
LEMMA OlderIsBefore ==
    ASSUME NEW v \in Update!SemVer, NEW w \in Update!SemVer, Update!CompareVersions(v, w) < 0
    PROVE  Update!Before(Update!Precedence(v), Update!Precedence(w))
<1> DEFINE p == Update!Precedence(v)
           q == Update!Precedence(w)
           n == Update!Longer(v.base, w.base)
           D == Update!CompareNumbers(v, w)
           suffix == CASE v.pre # <<>> /\ w.pre = <<>> -> -1
                       [] v.pre = <<>> /\ w.pre # <<>> -> 1
                       [] OTHER -> Update!ComparePreRelease(v.pre, w.pre)
<1>1. /\ v.base \in Seq(Int) /\ Len(v.base) \in Nat /\ Len(v.base) <= 3
      /\ w.base \in Seq(Int) /\ Len(w.base) \in Nat /\ Len(w.base) <= 3
      /\ v.pre \in Seq(Update!Identifiers) /\ Len(v.pre) \in Nat /\ w.pre \in Seq(Update!Identifiers) /\ Len(w.pre) \in Nat
  BY DEF Update!SemVer
<1>2. n \in Nat /\ n <= 3 /\ \A i \in Int : i > n => i > Len(v.base) /\ i > Len(w.base)
  BY <1>1 DEF Update!Longer
<1>3. /\ DOMAIN p = 1 .. Len(p)
      /\ Len(p) = IF v.pre = <<>> THEN 4 ELSE 3 + Len(v.pre)
      /\ \A i \in 1 .. 3 : p[i] = <<0, Update!Part(v.base, i)>>
      /\ v.pre = <<>> => p[4] = <<3, 0>>
      /\ v.pre # <<>> => \A i \in 1 .. Len(v.pre) : p[3 + i] = Rank(v.pre[i])
  BY PlacesOf
<1>4. /\ DOMAIN q = 1 .. Len(q)
      /\ Len(q) = IF w.pre = <<>> THEN 4 ELSE 3 + Len(w.pre)
      /\ \A i \in 1 .. 3 : q[i] = <<0, Update!Part(w.base, i)>>
      /\ w.pre = <<>> => q[4] = <<3, 0>>
      /\ w.pre # <<>> => \A i \in 1 .. Len(w.pre) : q[3 + i] = Rank(w.pre[i])
  BY PlacesOf
<1>5. /\ v.pre # <<>> => Len(v.pre) >= 1
      /\ w.pre # <<>> => Len(w.pre) >= 1
  BY <1>1
<1>6. Len(p) \in Nat /\ Len(q) \in Nat /\ Len(p) >= 4 /\ Len(q) >= 4
  BY <1>1, <1>3, <1>4, <1>5
<1>7. \A i \in Int : Update!Part(v.base, i) \in Int /\ Update!Part(w.base, i) \in Int
  BY PartOf
<1>8. DOMAIN D = 1 .. n /\ \A i \in 1 .. n : D[i] = Update!Order(Update!Part(v.base, i), Update!Part(w.base, i))
  BY DEF Update!CompareNumbers
<1>9. Update!CompareVersions(v, w) = Update!FirstOrder(D, suffix)
  BY DEF Update!CompareVersions
<1> HIDE DEF p, q, n, D, suffix
<1>10. ASSUME NEW i \in 1 .. n, D[i] = 0 PROVE p[i] = q[i]
  <2>1. i \in 1 .. 3 /\ Update!Order(Update!Part(v.base, i), Update!Part(w.base, i)) = 0
    BY <1>2, <1>8, <1>10
  <2>2. Update!Part(v.base, i) = Update!Part(w.base, i)
    BY <2>1, <1>7, OrderOf
  <2> QED BY <2>1, <2>2, <1>3, <1>4
<1>11. CASE \E i \in 1 .. n : D[i] < 0 /\ \A j \in 1 .. i - 1 : D[j] = 0
  <2>1. PICK i \in 1 .. n : D[i] < 0 /\ \A j \in 1 .. i - 1 : D[j] = 0
    BY <1>11
  <2>2. i \in 1 .. 3 /\ i \in DOMAIN p \cap DOMAIN q
    BY <1>2, <1>3, <1>4, <1>6
  <2>3. p[i][1] = q[i][1] /\ p[i][2] < q[i][2]
    <3>1. Update!Order(Update!Part(v.base, i), Update!Part(w.base, i)) < 0
      BY <2>1, <1>8
    <3>2. Update!Part(v.base, i) < Update!Part(w.base, i)
      BY <2>2, <3>1, <1>7, OrderOf
    <3>3. p[i] = <<0, Update!Part(v.base, i)>> /\ q[i] = <<0, Update!Part(w.base, i)>>
      BY <2>2, <1>3, <1>4
    <3> QED BY <3>2, <3>3
  <2>4. \A j \in 1 .. i - 1 : p[j] = q[j]
    BY <2>1, <1>2, <1>10
  <2> QED BY <2>2, <2>3, <2>4 DEF Update!Before, p, q
<1>12. CASE (\A i \in 1 .. n : D[i] = 0) /\ suffix < 0
  <2>1. \A j \in 1 .. 3 : p[j] = q[j]
    <3> SUFFICES ASSUME NEW j \in 1 .. 3 PROVE p[j] = q[j]
      OBVIOUS
    <3>1. CASE j \in 1 .. n
      BY <3>1, <1>10, <1>12
    <3>2. CASE j > n
      <4>1. j > Len(v.base) /\ j > Len(w.base)
        BY <3>2, <1>2
      <4>2. Update!Part(v.base, j) = 0 /\ Update!Part(w.base, j) = 0
        BY <4>1, PartOf, j \in Int
      <4> QED BY <4>2, <1>3, <1>4
    <3> QED BY <3>1, <3>2, <1>2
  <2>2. \A j \in 1 .. 4 : j \in DOMAIN p /\ j \in DOMAIN q
    BY <1>3, <1>4, <1>6
  <2>3. CASE v.pre # <<>> /\ w.pre = <<>>
    <3>1. p[4] = Rank(v.pre[1]) /\ q[4] = <<3, 0>>
      BY <2>3, <1>1, <1>3, <1>4, <1>5
    <3>2. p[4][1] < q[4][1]
      BY <3>1 DEF Rank
    <3> QED BY <2>1, <2>2, <3>2 DEF Update!Before, p, q
  <2>4. CASE v.pre = <<>> /\ w.pre # <<>>
    BY <1>12, <2>4 DEF suffix
  <2>5. CASE v.pre = <<>> <=> w.pre = <<>>
    <3> DEFINE a == v.pre
               b == w.pre
               m == IF Len(a) < Len(b) THEN Len(a) ELSE Len(b)
               E == [i \in DOMAIN a \cap DOMAIN b |-> Update!CompareIdentifiers(a[i], b[i])]
    <3>1. Update!FirstOrder(E, Update!Order(Len(a), Len(b))) < 0
      BY <1>12, <2>5 DEF suffix, Update!ComparePreRelease
    <3>2. DOMAIN E = 1 .. m /\ m \in Nat /\ m <= Len(a) /\ m <= Len(b)
      BY <1>1
    <3>3. \A i \in 1 .. m : /\ E[i] = Update!CompareIdentifiers(a[i], b[i])
                            /\ a[i] \in Update!Identifiers /\ b[i] \in Update!Identifiers
      BY <1>1, <3>2
    <3>4. \A i \in 1 .. m : p[3 + i] = Rank(a[i]) /\ q[3 + i] = Rank(b[i])
      BY <1>1, <1>3, <1>4, <2>5, <3>2
    <3> HIDE DEF a, b, m, E
    <3>5. ASSUME NEW i \in 1 .. m, \A j \in 1 .. i - 1 : E[j] = 0
          PROVE  \A j \in 1 .. 3 + i - 1 : p[j] = q[j]
      <4> SUFFICES ASSUME NEW j \in 1 .. 3 + i - 1 PROVE p[j] = q[j]
        OBVIOUS
      <4>1. CASE j \in 1 .. 3
        BY <4>1, <2>1
      <4>2. CASE j > 3
        <5>1. j - 3 \in 1 .. m /\ j - 3 \in 1 .. i - 1 /\ 3 + (j - 3) = j
          BY <4>2, <3>2
        <5>2. Rank(a[j - 3]) = Rank(b[j - 3])
          BY <5>1, <3>3, <3>5, IdentifiersOf
        <5> QED BY <5>1, <5>2, <3>4
      <4> QED BY <4>1, <4>2
    <3>6. CASE \E i \in 1 .. m : E[i] < 0 /\ \A j \in 1 .. i - 1 : E[j] = 0
      <4>1. PICK i \in 1 .. m : E[i] < 0 /\ \A j \in 1 .. i - 1 : E[j] = 0
        BY <3>6
      <4>2. \A j \in 1 .. 3 + i - 1 : p[j] = q[j]
        BY <4>1, <3>5
      <4>3. \/ p[3 + i][1] < q[3 + i][1]
            \/ p[3 + i][1] = q[3 + i][1] /\ p[3 + i][2] < q[3 + i][2]
        BY <4>1, <3>3, <3>4, IdentifiersOf
      <4>4. 3 + i \in DOMAIN p \cap DOMAIN q
        BY <1>1, <1>3, <1>4, <1>6, <3>2 DEF a, b
      <4> QED BY <4>2, <4>3, <4>4 DEF Update!Before, p, q
    <3>7. CASE (\A i \in 1 .. m : E[i] = 0) /\ Update!Order(Len(a), Len(b)) < 0
      <4>1. Len(a) < Len(b) /\ m = Len(a)
        BY <3>7, <1>1, OrderOf DEF a, b, m
      <4>2. v.pre # <<>>
        BY <4>1, <2>5, <1>1 DEF a, b
      <4>3. Len(p) = 3 + m /\ Len(p) < Len(q) /\ m >= 1
        BY <4>1, <4>2, <2>5, <1>1, <1>3, <1>4, <1>5 DEF a, b
      <4>4. \A j \in 1 .. 3 + m - 1 : p[j] = q[j]
        BY <4>3, <3>2, <3>5, <3>7
      <4>5. p[3 + m] = q[3 + m]
        <5>1. m \in 1 .. m
          BY <4>3, <3>2
        <5>2. Rank(a[m]) = Rank(b[m])
          BY <5>1, <3>3, <3>7, IdentifiersOf
        <5> QED BY <5>1, <5>2, <3>4
      <4>6. \A j \in DOMAIN p : p[j] = q[j]
        BY <4>3, <4>4, <4>5, <1>3, <3>2
      <4> QED BY <4>3, <4>6 DEF Update!Before, p, q
    <3>8. \/ (\A i \in 1 .. m : E[i] = 0) /\ Update!Order(Len(a), Len(b)) < 0
          \/ \E i \in 1 .. m : E[i] < 0 /\ \A j \in 1 .. i - 1 : E[j] = 0
      BY <3>1, <3>2, FirstOrderOf
    <3> QED BY <3>6, <3>7, <3>8
  <2> QED BY <2>3, <2>4, <2>5
<1>13. \/ (\A i \in 1 .. n : D[i] = 0) /\ suffix < 0
       \/ \E i \in 1 .. n : D[i] < 0 /\ \A j \in 1 .. i - 1 : D[j] = 0
  BY <1>2, <1>8, <1>9, FirstOrderOf
<1> QED BY <1>11, <1>12, <1>13

-----------------------------------------------------------------------------
(* The release that is installed.                                          *)

\* What was decided: a version after the one that runs, unless it was asked for, and
\* an archive for this platform.
Decided(h) ==
    /\ h.version \in Versions /\ h.running.version \in Versions \cup {Installed}
    /\ h.asset # None => h.asset.runs = <<Update!Os, Update!Arch>>
    /\ ~h.forced => Update!CompareVersions(h.running.version, h.version) < 0

\* What was checked of it.
Checked(h) ==
    /\ h.asset # None => h.archive = h.sums
    /\ system.key => h.asset # None /\ h.signature = h.archive

\* How far an update has got with the checks.
CheckedSoFar(u) ==
    /\ at[u] \in {"sums", "signature", "archive"} => has[u].asset # None
    /\ at[u] = "signature" => system.key
    /\ at[u] = "archive" /\ system.key => has[u].signature = has[u].sums
    /\ at[u] = "source" => has[u].asset = None
    /\ at[u] \in {"extract", "create", "sync", "clear", "aside", "rename"} => Checked(has[u])

\* A program that is somewhere on the disk has a version.
Versioned(f) == f # None => f.version \in Versions \cup {Installed}

ReleaseInv ==
    /\ Versioned(path) /\ Versioned(old)
    /\ \A u \in Updaters :
        /\ Versioned(temp[u])
        /\ temp[u] # None => at[u] \in {"sync", "clear", "aside", "rename", "crashed"}
        /\ Active(u) \/ temp[u] # None => has[u].running # None
        /\ has[u].running # None => Decided(has[u])
        /\ CheckedSoFar(u)
        /\ temp[u] # None => Checked(has[u])

\* Nothing is decided at first.
LEMMA ReleaseInitInv == Update!UpdateInit => ReleaseInv
BY NoneIsNothing DEF Update!UpdateInit, ReleaseInv, Versioned, Active, Update!Ended, CheckedSoFar, Update!Nothing,
   Update!Program

\* The archive that matches is for this platform.
LEMMA MatchIsForPlatform ==
    ASSUME UpdateInv, NEW assets \in Releases \cup {{}}, NEW a \in Update!MatchAsset(assets)
    PROVE  a.runs = <<Update!Os, Update!Arch>>
<1>1. Update!Os \in {"windows", "linux"}
  BY DEF Update!Os
<1>2. a \in assets /\ assets \in Releases /\ ~a.companion
      /\ Update!NamesOnly(a, Update!Os, Update!OsTerms) /\ Update!NamesOnly(a, Update!Arch, Update!ArchTerms)
  BY DEF Update!MatchAsset
<1> QED BY <1>1, <1>2, ReleasesAssumption

\* The decision is for a later version, or one that was asked for.
LEMMA DecideReleaseInv ==
    ASSUME UpdateInv, ReleaseInv, NEW u \in Updaters, Update!Decide(u) PROVE ReleaseInv'
<1> USE NoneIsNothing DEF UpdateInv, UpdateTypeOK, Update!Go, Update!files
<1>1. UNCHANGED <<system, build, path, old, temp>> /\ path # None /\ at[u] = "idle"
  BY DEF Update!Decide
<1>2. /\ at \in [Updaters -> Steps] /\ has \in [Updaters -> Plan] /\ path.version \in Versions \cup {Installed}
  BY <1>1 DEF ReleaseInv, Versioned
<1>3. \/ at' = [at EXCEPT ![u] = "done"] /\ has' = has
      \/ \E h \in Plan, s \in {"source", "sums"} :
            /\ h.running = path /\ Decided(h) /\ (s = "source" <=> h.asset = None)
            /\ has' = [has EXCEPT ![u] = h] /\ at' = [at EXCEPT ![u] = s]
  <2>1. CASE at' = [at EXCEPT ![u] = "done"] /\ has' = has
    BY <2>1
  <2>2. CASE ~ (at' = [at EXCEPT ![u] = "done"] /\ has' = has)
    <3>1. PICK force \in BOOLEAN, target \in BOOLEAN :
            \E r \in IF target THEN Update!FetchReleaseByTag ELSE Update!FetchLatestRelease :
                /\ force \/ (IF target THEN Update!CompareVersions(path.version, r.version) # 0
                                       ELSE Update!CompareVersions(path.version, r.version) < 0)
                /\ \E asset \in IF Update!MatchAsset(r.assets) = {} THEN {None} ELSE Update!MatchAsset(r.assets) :
                    /\ has' = [has EXCEPT ![u] = [Update!Nothing EXCEPT !.running = path, !.version = r.version,
                                                        !.asset = asset, !.forced = force \/ target]]
                    /\ at' = [at EXCEPT ![u] = IF asset = None THEN "source" ELSE "sums"]
      BY <2>2 DEF Update!Decide
    <3>2. PICK r \in IF target THEN Update!FetchReleaseByTag ELSE Update!FetchLatestRelease :
                /\ force \/ (IF target THEN Update!CompareVersions(path.version, r.version) # 0
                                       ELSE Update!CompareVersions(path.version, r.version) < 0)
                /\ \E asset \in IF Update!MatchAsset(r.assets) = {} THEN {None} ELSE Update!MatchAsset(r.assets) :
                    /\ has' = [has EXCEPT ![u] = [Update!Nothing EXCEPT !.running = path, !.version = r.version,
                                                        !.asset = asset, !.forced = force \/ target]]
                    /\ at' = [at EXCEPT ![u] = IF asset = None THEN "source" ELSE "sums"]
      BY <3>1
    <3>3. PICK asset \in IF Update!MatchAsset(r.assets) = {} THEN {None} ELSE Update!MatchAsset(r.assets) :
                    /\ has' = [has EXCEPT ![u] = [Update!Nothing EXCEPT !.running = path, !.version = r.version,
                                                        !.asset = asset, !.forced = force \/ target]]
                    /\ at' = [at EXCEPT ![u] = IF asset = None THEN "source" ELSE "sums"]
      BY <3>2
    <3>4. r.version \in Versions /\ r.assets \in Releases \cup {{}}
      BY DEF Update!FetchReleaseByTag, Update!FetchLatestRelease, Update!Redirected
    <3>5. asset \in Assets /\ (asset # None => asset.runs = <<Update!Os, Update!Arch>>)
      <4>1. CASE Update!MatchAsset(r.assets) = {}
        BY <4>1 DEF Assets
      <4>2. CASE asset \in Update!MatchAsset(r.assets)
        BY <4>2, <3>4, MatchIsForPlatform DEF Assets, Update!MatchAsset
      <4> QED BY <4>1, <4>2
    <3>6. ~ (force \/ target) => Update!CompareVersions(path.version, r.version) < 0
      BY <3>2
    <3> DEFINE h == [Update!Nothing EXCEPT !.running = path, !.version = r.version,
                                           !.asset = asset, !.forced = force \/ target]
    <3>7. /\ h.running = path /\ h.version = r.version /\ h.asset = asset /\ h.forced = (force \/ target)
          /\ h \in Plan
      BY <3>4, <3>5 DEF Update!Nothing, Plan
    <3>8. Decided(h)
      BY <1>2, <3>4, <3>5, <3>6, <3>7 DEF Decided
    <3> QED BY <3>3, <3>7, <3>8
  <2> QED BY <2>1, <2>2
<1>4. CASE at' = [at EXCEPT ![u] = "done"] /\ has' = has
  BY <1>1, <1>2, <1>4 DEF ReleaseInv, Versioned, Active, Update!Ended, CheckedSoFar, Checked, Decided, Update!Os, Steps
<1>5. ASSUME NEW h \in Plan, NEW s \in {"source", "sums"},
             h.running = path, Decided(h), s = "source" <=> h.asset = None,
             has' = [has EXCEPT ![u] = h], at' = [at EXCEPT ![u] = s]
      PROVE  ReleaseInv'
  <2>1. ASSUME NEW v \in Updaters
        PROVE  /\ Active(v)' \/ temp'[v] # None => has'[v].running # None
               /\ has'[v].running # None => Decided(has[v])'
               /\ CheckedSoFar(v)'
               /\ temp'[v] # None => Checked(has[v])' /\ at'[v] \in {"sync", "clear", "aside", "rename", "crashed"}
    <3>1. CASE v = u
      <4>1. has'[v] = h /\ at'[v] = s /\ temp'[v] = None
        BY <1>1, <1>2, <1>5, <3>1 DEF ReleaseInv, CheckedSoFar, Checked, WrittenFirst
      <4> QED BY <1>1, <1>5, <4>1 DEF CheckedSoFar, Decided, Update!Os
    <3>2. CASE v # u
      BY <1>1, <1>2, <1>5, <3>2 DEF ReleaseInv, Active, CheckedSoFar, Checked, Decided, Update!Os
    <3> QED BY <3>1, <3>2
  <2> QED BY <2>1, <1>1 DEF ReleaseInv, Versioned
<1> QED BY <1>3, <1>4, <1>5

\* A download, the check of the archive, or a build: no file is written yet.
LEMMA FetchReleaseInv ==
    ASSUME UpdateInv, ReleaseInv, NEW u \in Updaters,
           \/ Update!DownloadSums(u) \/ Update!DownloadSignature(u) \/ Update!DownloadArchive(u)
           \/ Update!Extract(u) \/ Update!BuildFromSource(u)
    PROVE  ReleaseInv'
<1> USE NoneIsNothing
<1> DEFINE Fetched(s) ==
        \/ Update!DownloadSums(u) /\ s = IF system.key THEN "signature" ELSE "archive"
        \/ Update!DownloadSignature(u) /\ s = IF build = has[u].sums THEN "archive" ELSE "failed"
        \/ Update!DownloadArchive(u) /\ s = IF build = has[u].sums THEN "extract" ELSE "failed"
        \/ Update!Extract(u) /\ s \in {"create", "failed"}
        \/ Update!BuildFromSource(u) /\ s = "create"
<1>1. /\ at \in [Updaters -> Steps] /\ has \in [Updaters -> Plan] /\ build \in Nat
      /\ UNCHANGED <<system, path, old, temp>>
  BY DEF UpdateInv, UpdateTypeOK, Update!files, Update!DownloadSums, Update!DownloadSignature, Update!DownloadArchive,
         Update!Extract, Update!BuildFromSource
<1>2. at[u] \in {"sums", "signature", "archive", "extract", "source"}
  BY DEF Update!DownloadSums, Update!DownloadSignature, Update!DownloadArchive, Update!Extract, Update!BuildFromSource
<1>3. temp[u] = None /\ has[u].running # None /\ Decided(has[u])
  BY <1>1, <1>2 DEF ReleaseInv, Active, Update!Ended
<1>4. /\ has'[u].running = has[u].running /\ has'[u].version = has[u].version
      /\ has'[u].asset = has[u].asset /\ has'[u].forced = has[u].forced
      /\ \A v \in Updaters \ {u} : has'[v] = has[v] /\ at'[v] = at[v]
      /\ at'[u] \in {"signature", "archive", "extract", "create", "failed"}
  BY <1>1 DEF Plan, Update!DownloadSums, Update!DownloadSignature, Update!DownloadArchive, Update!Extract,
     Update!BuildFromSource, Update!Keep, Update!Go
<1>5. CheckedSoFar(u)'
  <2>1. CheckedSoFar(u)
    BY DEF ReleaseInv
  <2> USE <1>1, <2>1 DEF CheckedSoFar, Checked, Plan, Update!Keep, Update!Go
  <2>2. CASE Update!DownloadSums(u)
    BY <2>2 DEF Update!DownloadSums
  <2>3. CASE Update!DownloadSignature(u)
    BY <2>3 DEF Update!DownloadSignature
  <2>4. CASE Update!DownloadArchive(u)
    BY <2>4 DEF Update!DownloadArchive
  <2>5. CASE Update!Extract(u)
    BY <2>5 DEF Update!Extract
  <2>6. CASE Update!BuildFromSource(u)
    BY <2>6 DEF Update!BuildFromSource
  <2> QED BY <2>2, <2>3, <2>4, <2>5, <2>6
<1>6. Decided(has[u])'
  BY <1>1, <1>3, <1>4 DEF Decided, Update!Os
<1>7. ASSUME NEW v \in Updaters
      PROVE  /\ Active(v)' \/ temp'[v] # None => has'[v].running # None
             /\ has'[v].running # None => Decided(has[v])'
             /\ CheckedSoFar(v)'
             /\ temp'[v] # None => Checked(has[v])' /\ at'[v] \in {"sync", "clear", "aside", "rename", "crashed"}
  <2>1. CASE v = u
    BY <1>1, <1>3, <1>4, <1>5, <1>6, <2>1
  <2>2. CASE v # u
    BY <1>1, <1>4, <2>2 DEF ReleaseInv, Active, CheckedSoFar, Checked, Decided, Update!Os
  <2> QED BY <2>1, <2>2
<1> QED BY <1>1, <1>7 DEF ReleaseInv, Versioned

\* The steps after the checks: what is written is what was checked.
LEMMA ReplaceReleaseInv ==
    ASSUME UpdateInv, ReleaseInv, NEW u \in Updaters,
           \/ Update!Create(u) \/ Update!Sync(u) \/ Update!Clear(u) \/ Update!MoveAside(u) \/ Update!Rename(u)
           \/ Update!RenameFails(u) \/ Update!Discard(u) \/ Update!GiveUp(u)
    PROVE  ReleaseInv'
<1> USE NoneIsNothing
<1>1. /\ at \in [Updaters -> Steps] /\ has \in [Updaters -> Plan] /\ temp \in [Updaters -> Update!Programs \cup {None}]
      /\ UNCHANGED <<system, has, build>>
  BY DEF UpdateInv, UpdateTypeOK, Update!Create, Update!Sync, Update!Clear, Update!MoveAside, Update!Rename,
         Update!RenameFails, Update!Discard, Update!GiveUp
<1>2. /\ Active(u) /\ at[u] # "idle"
      /\ \A v \in Updaters \ {u} : at'[v] = at[v] /\ temp'[v] = temp[v]
      /\ at'[u] \in {"sync", "clear", "aside", "rename", "discard", "done", "failed", "stranded"}
  BY <1>1 DEF Active, Update!Ended, Update!Go, Update!Create, Update!Sync, Update!Clear, Update!MoveAside, Update!Rename,
         Update!RenameFails, Update!Discard, Update!GiveUp
<1>3. has[u].running # None /\ Decided(has[u]) /\ CheckedSoFar(u)
  BY <1>2 DEF ReleaseInv
<1>4. at'[u] \in {"sync", "clear", "aside", "rename"} => Checked(has[u])
  BY <1>1, <1>3 DEF CheckedSoFar, Update!Go, Update!Create, Update!Sync, Update!Clear, Update!MoveAside, Update!Rename,
         Update!RenameFails, Update!Discard, Update!GiveUp
<1>5. temp'[u] # None => at'[u] \in {"sync", "clear", "aside", "rename"}
  BY <1>1, <1>2 DEF ReleaseInv, Update!Go, Update!Create, Update!Sync, Update!Clear, Update!MoveAside, Update!Rename,
         Update!RenameFails, Update!Discard, Update!GiveUp
<1>6. temp'[u] = temp[u] \/ Versioned(temp'[u])
  BY <1>1, <1>3 DEF Versioned, Decided, Update!Written, Update!Program, Update!Create, Update!Sync, Update!Clear,
         Update!MoveAside, Update!Rename, Update!RenameFails, Update!Discard, Update!GiveUp
<1>7. path' \in {path, old, temp[u], None} /\ old' \in {path, old, None}
  BY DEF Update!Create, Update!Sync, Update!Clear, Update!MoveAside, Update!Rename, Update!RenameFails, Update!Discard,
         Update!GiveUp, Update!RemoveOld
<1>8. Versioned(path') /\ Versioned(old')
  BY <1>7 DEF ReleaseInv, Versioned
<1>9. ASSUME NEW v \in Updaters
      PROVE  /\ Versioned(temp'[v])
             /\ temp'[v] # None => at'[v] \in {"sync", "clear", "aside", "rename", "crashed"}
             /\ Active(v)' \/ temp'[v] # None => has'[v].running # None
             /\ has'[v].running # None => Decided(has[v])'
             /\ CheckedSoFar(v)'
             /\ temp'[v] # None => Checked(has[v])'
  <2>1. CASE v = u
    BY <1>1, <1>2, <1>3, <1>4, <1>5, <1>6, <2>1 DEF ReleaseInv, Versioned, CheckedSoFar, Checked, Decided, Update!Os
  <2>2. CASE v # u
    BY <1>1, <1>2, <2>2 DEF ReleaseInv, Active, CheckedSoFar, Checked, Decided, Update!Os
  <2> QED BY <2>1, <2>2
<1> QED BY <1>8, <1>9 DEF ReleaseInv, Versioned

\* A crash, another release and the start of wol.
LEMMA AroundReleaseInv ==
    UpdateInv /\ ReleaseInv /\ (Update!Publish \/ Update!RemoveStale \/ Update!Crash) => ReleaseInv'
<1> SUFFICES ASSUME UpdateInv, ReleaseInv, Update!Publish \/ Update!RemoveStale \/ Update!Crash PROVE ReleaseInv'
  OBVIOUS
<1> USE NoneIsNothing
<1>1. UNCHANGED <<system, has, path, temp>> /\ old' \in {old, None} /\ at \in [Updaters -> Steps]
  BY DEF UpdateInv, UpdateTypeOK, Update!Publish, Update!RemoveStale, Update!Crash, Update!files
<1>2. \A v \in Updaters : at'[v] = at[v] \/ at'[v] = "crashed"
  BY <1>1 DEF Update!Publish, Update!RemoveStale, Update!Crash
<1>3. ASSUME NEW v \in Updaters
      PROVE  /\ Versioned(temp'[v])
             /\ temp'[v] # None => at'[v] \in {"sync", "clear", "aside", "rename", "crashed"}
             /\ Active(v)' \/ temp'[v] # None => has'[v].running # None
             /\ has'[v].running # None => Decided(has[v])'
             /\ CheckedSoFar(v)'
             /\ temp'[v] # None => Checked(has[v])'
  BY <1>1, <1>2 DEF ReleaseInv, Active, Update!Ended, Versioned, CheckedSoFar, Checked, Decided, Update!Os
<1>4. Versioned(path') /\ Versioned(old')
  BY <1>1 DEF ReleaseInv, Versioned
<1> QED BY <1>3, <1>4 DEF ReleaseInv, Versioned

\* Every step of an update keeps to the release that was decided and checked.
LEMMA ReleaseStepInv == UpdateInv /\ ReleaseInv /\ Update!UpdateNext => ReleaseInv'
BY DecideReleaseInv, FetchReleaseInv, ReplaceReleaseInv, AroundReleaseInv DEF Update!UpdateNext, Update!UpdateStep

\* Another command leaves it as it is.
LEMMA ReleaseIdle == ReleaseInv /\ UNCHANGED update => ReleaseInv'
BY DEF update, ReleaseInv, Versioned, Active, CheckedSoFar, Checked, Decided, Update!Os

\* The invariant says what the run checks.
LEMMA ReleaseInvImplies == ReleaseInv => Update!OneReleaseIsInstalled
<1> SUFFICES ASSUME ReleaseInv, NEW u \in Updaters, temp[u] # None
             PROVE  /\ has[u].asset # None => /\ has[u].archive = has[u].sums
                                              /\ has[u].asset.runs = <<Update!Os, Update!Arch>>
                    /\ system.key => has[u].asset # None /\ has[u].signature = has[u].archive
                    /\ ~has[u].forced => Update!Before(Update!Precedence(has[u].running.version),
                                                      Update!Precedence(has[u].version))
  BY DEF Update!OneReleaseIsInstalled
<1>1. Decided(has[u]) /\ Checked(has[u])
  BY DEF ReleaseInv
<1>2. has[u].running.version \in Update!SemVer /\ has[u].version \in Update!SemVer
  BY <1>1, VersionsAssumption DEF Decided
<1> QED BY <1>1, <1>2, OlderIsBefore DEF Decided, Checked

-----------------------------------------------------------------------------
(* Opening an inventory of an earlier release.                             *)

Profiles == [device : Devices, row : 1 .. 2, domain : {"example"}, app : Apps \cup {None}]

\* A profile as the upgrade leaves it.
Plain(r) == [r EXCEPT !.app = None]

OpenSteps == {"idle", "columns", "add", "urls", "erase", "drop", "look", "copy", "open", "failed"}

SchemaTypeOK ==
    /\ columns \in SUBSET (Database!Current \cup Database!Legacy)
    /\ rows \in SUBSET Profiles
    /\ urls \in {"stored", "erased", "dropped"}
    /\ opening \in [Openers -> OpenSteps]
    /\ saved \in [Devices -> Apps \cup {None}]

\* A row is one profile, and where profiles have no names a machine has one.
RowsAreKeys ==
    \A q, r \in rows : q.device = r.device /\ (q.row = r.row \/ "name" \notin columns) => q = r

\* The newest profile is the newest there was, but for what is set in it since.
NewestIsKept ==
    \A d \in Devices :
        {Plain(r) : r \in Database!Newest(rows, d)} = Database!Newest(first, d)

\* The URLs are gone before the profiles are looked at.
UrlsGoFirst ==
    \A o \in Openers :
        /\ opening[o] = "drop" => urls # "stored"
        /\ opening[o] \in {"look", "copy", "open"} => urls = "dropped"

\* Once a database is open it stays of this release, and settings are only in an
\* open one; a copy that is still to be made undoes them, and they are raced.
OpenIsCurrent ==
    /\ \A o \in Openers : opening[o] = "open" => Database!UpToDate(columns)
    /\ \A d \in Devices : saved[d] # None =>
        /\ Database!UpToDate(columns)
        /\ \A r \in rows : r.device = d /\ d \notin raced => r.app = saved[d]
        /\ \A o \in Openers : opening[o] = "copy" => d \in raced

SchemaInv == SchemaTypeOK /\ RowsAreKeys /\ NewestIsKept /\ UrlsGoFirst /\ OpenIsCurrent

\* A database of this release has neither of the old columns.
LEMMA CurrentIsUpToDate ==
    /\ Database!UpToDate(Database!Current)
    /\ \A cols : Database!UpToDate(cols) => "name" \notin cols
    /\ \A cols, c : Database!UpToDate(cols) /\ c \in Database!Added => Database!UpToDate(cols \cup {c})
BY DEF Database!UpToDate, Database!Current, Database!Added, Database!Legacy

\* A profile keeps its machine and its row, whatever is set in it.
LEMMA PlainProfile ==
    ASSUME NEW r \in Profiles
    PROVE  /\ Plain(r) \in Profiles /\ Plain(r).device = r.device /\ Plain(r).row = r.row
           /\ r.app = None => Plain(r) = r
           /\ Plain(Plain(r)) = Plain(r)
BY DEF Profiles, Plain

\* A setting leaves the machine and the row, and the rest as the upgrade would.
LEMMA SetProfile ==
    ASSUME NEW r \in Profiles, NEW a \in Apps
    PROVE  LET s == [r EXCEPT !.app = a]
           IN  s \in Profiles /\ s.device = r.device /\ s.row = r.row /\ s.app = a /\ Plain(s) = Plain(r)
BY DEF Profiles, Plain

\* A set of profiles, some of them set, has the newest profiles it had.
LEMMA SameRowsSameNewest ==
    ASSUME NEW R \in SUBSET Profiles, NEW S \in SUBSET Profiles, NEW d \in Devices,
           {Plain(r) : r \in R} = {Plain(s) : s \in S}
    PROVE  {Plain(r) : r \in Database!Newest(R, d)} = {Plain(s) : s \in Database!Newest(S, d)}
<1>1. ASSUME NEW A \in SUBSET Profiles, NEW B \in SUBSET Profiles, {Plain(r) : r \in A} = {Plain(s) : s \in B},
             NEW r \in Database!Newest(A, d)
      PROVE  \E s \in Database!Newest(B, d) : Plain(s) = Plain(r)
  <2>1. r \in A /\ r.device = d /\ \A q \in A : q.device = d => q.row <= r.row
    BY <1>1 DEF Database!Newest
  <2>2. PICK s \in B : Plain(s) = Plain(r)
    BY <1>1, <2>1
  <2>3. s.device = d /\ s.row = r.row
    BY <2>1, <2>2, <1>1, PlainProfile
  <2>4. ASSUME NEW q \in B, q.device = d PROVE q.row <= s.row
    <3>1. PICK p \in A : Plain(p) = Plain(q)
      BY <1>1
    <3>2. p.device = d /\ p.row = q.row
      BY <3>1, <2>4, <1>1, PlainProfile
    <3> QED BY <3>2, <2>1, <2>3
  <2> QED BY <2>2, <2>3, <2>4 DEF Database!Newest
<1>2. ASSUME NEW r \in Database!Newest(R, d) PROVE \E s \in Database!Newest(S, d) : Plain(s) = Plain(r)
  BY <1>1
<1>3. ASSUME NEW s \in Database!Newest(S, d) PROVE \E r \in Database!Newest(R, d) : Plain(r) = Plain(s)
  BY <1>1
<1> HIDE DEF Plain
<1> QED BY <1>2, <1>3

\* The copy of the newest profiles of a table whose rows are keys.
Copied(R) == {Plain(r) : r \in UNION {Database!Newest(R, d) : d \in Devices}}

\* The copy has one profile for each machine, and the newest is the newest it had.
LEMMA CopyKeepsNewest ==
    ASSUME NEW R \in SUBSET Profiles, \A q, r \in R : q.device = r.device /\ q.row = r.row => q = r
    PROVE  /\ Copied(R) \in SUBSET Profiles
           /\ \A q, r \in Copied(R) : q.device = r.device => q = r
           /\ \A d \in Devices : {Plain(r) : r \in Database!Newest(Copied(R), d)}
                                    = {Plain(r) : r \in Database!Newest(R, d)}
<1>1. \A r \in R, d \in Devices : r \in Database!Newest(R, d) <=>
            r.device = d /\ \A q \in R : q.device = d => q.row <= r.row
  BY DEF Database!Newest
<1>2. \A x : x \in Copied(R) <=> \E d \in Devices : \E r \in Database!Newest(R, d) : x = Plain(r)
  BY DEF Copied
<1>3. \A d \in Devices : Database!Newest(R, d) \in SUBSET R
  BY DEF Database!Newest
<1>4. Copied(R) \in SUBSET Profiles
  BY <1>2, <1>3, PlainProfile
<1>5. ASSUME NEW q \in Copied(R), NEW r \in Copied(R), q.device = r.device PROVE q = r
  <2>1. PICK d \in Devices : \E s \in Database!Newest(R, d) : q = Plain(s)
    BY <1>2
  <2>2. PICK s \in Database!Newest(R, d) : q = Plain(s)
    BY <2>1
  <2>3. PICK e \in Devices : \E t \in Database!Newest(R, e) : r = Plain(t)
    BY <1>2
  <2>4. PICK t \in Database!Newest(R, e) : r = Plain(t)
    BY <2>3
  <2>5. s \in R /\ t \in R /\ s \in Profiles /\ t \in Profiles
    BY <1>3
  <2>6. s.device = d /\ t.device = e /\ d = e
    BY <2>2, <2>4, <2>5, <1>1, <1>5, PlainProfile
  <2>7. s.row <= t.row /\ t.row <= s.row
    BY <2>5, <2>6, <1>1
  <2>8. s.row \in Int /\ t.row \in Int
    BY <2>5 DEF Profiles
  <2>9. s.row = t.row
    BY <2>7, <2>8
  <2> QED BY <2>2, <2>4, <2>5, <2>6, <2>9
<1>6. ASSUME NEW d \in Devices, NEW x
      PROVE  x \in {Plain(r) : r \in Database!Newest(Copied(R), d)} <=> x \in {Plain(r) : r \in Database!Newest(R, d)}
  <2>1. ASSUME NEW r \in Database!Newest(R, d) PROVE Plain(r) \in Database!Newest(Copied(R), d) /\ Plain(Plain(r)) = Plain(r)
    <3>1. r \in R /\ r \in Profiles /\ r.device = d
      BY <1>3, <1>1
    <3>2. Plain(r) \in Copied(R) /\ Plain(r).device = d /\ Plain(r).row = r.row
      BY <1>2, <3>1, PlainProfile
    <3>3. \A q \in Copied(R) : q.device = d => q = Plain(r)
      BY <1>5, <3>2
    <3>4. Plain(r).row <= Plain(r).row
      BY <3>2, <3>1 DEF Profiles
    <3> QED BY <3>1, <3>2, <3>3, <3>4, PlainProfile DEF Database!Newest
  <2>2. ASSUME NEW r \in Database!Newest(Copied(R), d)
        PROVE  \E s \in Database!Newest(R, d) : Plain(s) = Plain(r)
    <3>1. r \in Copied(R) /\ r.device = d
      BY DEF Database!Newest
    <3>2. PICK e \in Devices : \E s \in Database!Newest(R, e) : r = Plain(s)
      BY <1>2, <3>1
    <3>3. PICK s \in Database!Newest(R, e) : r = Plain(s)
      BY <3>2
    <3>4. s \in Profiles /\ s.device = e
      BY <1>3, <1>1
    <3> QED BY <3>1, <3>3, <3>4, PlainProfile
  <2> QED BY <2>1, <2>2
<1> QED BY <1>4, <1>5, <1>6

\* The instance counts as this module does.
LEMMA SameCount == \A S : Database!Cardinality(S) = Cardinality(S)
BY DEF Database!Cardinality, Cardinality

\* An inventory is found with its profiles as they are.
LEMMA SchemaInitInv == Database!SchemaInit => SchemaInv
<1> SUFFICES ASSUME Database!SchemaInit PROVE SchemaInv
  OBVIOUS
<1>1. rows \in SUBSET [device : Devices, row : 1 .. 2, domain : {"example"}, app : {None}] /\ first = rows
  BY DEF Database!SchemaInit
<1>2. rows \in SUBSET Profiles /\ \A r \in rows : r.app = None
  BY <1>1 DEF Profiles
<1>3. SchemaTypeOK
  <2>1. columns \in SUBSET (Database!Current \cup Database!Legacy) /\ urls \in {"stored", "erased", "dropped"}
    BY DEF Database!SchemaInit, Database!Current, Database!Legacy, Database!Added
  <2>2. opening \in [Openers -> OpenSteps] /\ saved \in [Devices -> Apps \cup {None}]
    BY DEF Database!SchemaInit, OpenSteps
  <2> QED BY <1>2, <2>1, <2>2 DEF SchemaTypeOK
<1>4. RowsAreKeys
  <2>1. ASSUME NEW q \in rows, NEW r \in rows, q.device = r.device, q.row = r.row PROVE q = r
    BY <1>1, <2>1
  <2>2. ASSUME NEW q \in rows, NEW r \in rows, q.device = r.device, "name" \notin columns PROVE q = r
    <3> DEFINE d == q.device
               Of == {x \in rows : x.device = d}
               Row(i) == [device |-> d, row |-> i, domain |-> "example", app |-> None]
    <3>1. d \in Devices
      BY <1>1
    <3>2. Cardinality(Of) <= 1
      <4>1. \A e \in Devices : Cardinality({x \in rows : x.device = e}) <= 1
        BY <2>2, SameCount DEF Database!SchemaInit
      <4> QED BY <3>1, <4>1
    <3>3. Of \subseteq {Row(1), Row(2)}
      <4> SUFFICES ASSUME NEW x \in Of PROVE x = Row(1) \/ x = Row(2)
        OBVIOUS
      <4>1. x \in [device : Devices, row : 1 .. 2, domain : {"example"}, app : {None}] /\ x.device = d
        BY <1>1
      <4>2. x.row = 1 \/ x.row = 2
        BY <4>1
      <4> QED BY <4>1, <4>2
    <3>4. IsFiniteSet({Row(1), Row(2)})
      <4> HIDE DEF Row
      <4>1. IsFiniteSet({Row(1)})
        BY FS_Singleton
      <4>2. IsFiniteSet({Row(1)} \cup {Row(2)})
        BY <4>1, FS_AddElement
      <4>3. {Row(1)} \cup {Row(2)} = {Row(1), Row(2)}
        OBVIOUS
      <4> QED BY <4>2, <4>3
    <3>5. IsFiniteSet(Of)
      BY <3>3, <3>4, FS_Subset
    <3>6. q \in Of /\ r \in Of
      BY <2>2
    <3>7. SUFFICES ASSUME q # r PROVE FALSE
      OBVIOUS
    <3>8. IsFiniteSet({q}) /\ Cardinality({q}) = 1
      BY FS_Singleton
    <3>9. Cardinality({q} \cup {r}) = 2 /\ IsFiniteSet({q} \cup {r})
      BY <3>7, <3>8, FS_AddElement
    <3>10. Cardinality({q} \cup {r}) <= Cardinality(Of)
      BY <3>5, <3>6, FS_Subset
    <3>11. Cardinality(Of) \in Nat
      BY <3>5, FS_CardinalityType
    <3> QED BY <3>2, <3>9, <3>10, <3>11
  <2> QED BY <2>1, <2>2 DEF RowsAreKeys
<1>5. NewestIsKept
  <2> SUFFICES ASSUME NEW d \in Devices
               PROVE  {Plain(r) : r \in Database!Newest(rows, d)} = Database!Newest(first, d)
    BY DEF NewestIsKept
  <2>1. \A r \in Database!Newest(rows, d) : Plain(r) = r
    BY <1>2, PlainProfile DEF Database!Newest
  <2> QED BY <1>1, <2>1
<1>6. UrlsGoFirst /\ OpenIsCurrent
  BY DEF UrlsGoFirst, OpenIsCurrent, Database!SchemaInit
<1> QED BY <1>3, <1>4, <1>5, <1>6 DEF SchemaInv

\* The steps that leave the profiles alone.
LEMMA LookingInv ==
    ASSUME SchemaInv, NEW o \in Openers,
           \/ Database!Open(o) \/ Database!ReadColumns(o) \/ Database!FindUrls(o) \/ Database!EraseUrls(o)
           \/ Database!DropUrls(o) \/ Database!Look(o) \/ Database!Fail(o) \/ Database!Again(o)
    PROVE  SchemaInv'
<1> USE DEF SchemaInv, Database!Step, Database!history
<1>1. UNCHANGED <<columns, rows, first, saved, raced>>
  BY DEF Database!Open, Database!ReadColumns, Database!FindUrls, Database!EraseUrls, Database!DropUrls,
         Database!Look, Database!Fail, Database!Again
<1>2. SchemaTypeOK'
  BY <1>1 DEF SchemaTypeOK, OpenSteps, Database!Open, Database!ReadColumns, Database!FindUrls, Database!EraseUrls,
         Database!DropUrls, Database!Look, Database!Fail, Database!Again
<1>3. RowsAreKeys' /\ NewestIsKept'
  BY <1>1 DEF RowsAreKeys, NewestIsKept
<1>4. opening \in [Openers -> OpenSteps]
  BY DEF SchemaTypeOK
<1>5. UrlsGoFirst'
  BY <1>4 DEF UrlsGoFirst, Database!Open, Database!ReadColumns, Database!FindUrls, Database!EraseUrls,
         Database!DropUrls, Database!Look, Database!Fail, Database!Again
<1>6. OpenIsCurrent'
  <2>1. ASSUME NEW p \in Openers, opening'[p] = "open" PROVE Database!UpToDate(columns)
    BY <1>4, <2>1 DEF OpenIsCurrent, Database!Open, Database!ReadColumns, Database!FindUrls, Database!EraseUrls,
         Database!DropUrls, Database!Look, Database!Fail, Database!Again
  <2>2. ASSUME NEW p \in Openers, opening'[p] = "copy" PROVE opening[p] = "copy" \/ ~Database!UpToDate(columns)
    BY <1>4, <2>2 DEF Database!Open, Database!ReadColumns, Database!FindUrls, Database!EraseUrls,
         Database!DropUrls, Database!Look, Database!Fail, Database!Again
  <2> QED BY <1>1, <2>1, <2>2 DEF OpenIsCurrent
<1> QED BY <1>2, <1>3, <1>5, <1>6

\* A column more does not unmake an inventory of this release.
LEMMA AddColumnInv ==
    ASSUME SchemaInv, NEW o \in Openers, Database!AddColumn(o)
    PROVE  SchemaInv'
<1> USE DEF SchemaInv, Database!Step, Database!history, Database!AddColumn
<1>1. opening \in [Openers -> OpenSteps]
  BY DEF SchemaTypeOK
<1>2. PICK c \in Database!Added : columns' = columns \/ columns' = columns \cup {c}
  OBVIOUS
<1>3. SchemaTypeOK'
  BY <1>2 DEF SchemaTypeOK, OpenSteps, Database!Current
<1>4. RowsAreKeys' /\ NewestIsKept'
  BY <1>2 DEF RowsAreKeys, NewestIsKept, Database!Added
<1>5. UrlsGoFirst'
  BY <1>1 DEF UrlsGoFirst
<1>6. Database!UpToDate(columns) => Database!UpToDate(columns')
  BY <1>2, CurrentIsUpToDate
<1>7. \A p \in Openers : opening'[p] \in {"open", "copy"} => opening[p] = opening'[p]
  BY <1>1
<1>8. OpenIsCurrent'
  BY <1>6, <1>7 DEF OpenIsCurrent
<1> QED BY <1>3, <1>4, <1>5, <1>8

\* The copy makes the table of this release, with the newest profile of each machine.
LEMMA CopyInv ==
    ASSUME SchemaInv, NEW o \in Openers, Database!Copy(o)
    PROVE  SchemaInv'
<1> USE DEF SchemaInv, Database!Step, Database!history
<1>1. opening \in [Openers -> OpenSteps] /\ opening[o] = "copy" /\ rows \in SUBSET Profiles
  BY DEF SchemaTypeOK, Database!Copy
<1>2. UNCHANGED <<urls, first, saved, raced>>
  BY DEF Database!Copy
<1>3. CASE UNCHANGED <<columns, rows>> /\ opening' = [opening EXCEPT ![o] = "failed"]
  <2>1. SchemaTypeOK' /\ RowsAreKeys' /\ NewestIsKept'
    BY <1>2, <1>3 DEF SchemaTypeOK, RowsAreKeys, NewestIsKept, OpenSteps
  <2>2. UrlsGoFirst' /\ OpenIsCurrent'
    BY <1>1, <1>2, <1>3 DEF UrlsGoFirst, OpenIsCurrent
  <2> QED BY <2>1, <2>2
<1>4. CASE /\ columns' = Database!Current /\ rows' = Copied(rows)
           /\ opening' = [opening EXCEPT ![o] = "open"]
  <2>1. \A q, r \in rows : q.device = r.device /\ q.row = r.row => q = r
    BY DEF RowsAreKeys
  <2>2. /\ rows' \in SUBSET Profiles
        /\ \A q, r \in rows' : q.device = r.device => q = r
        /\ \A d \in Devices : {Plain(r) : r \in Database!Newest(rows', d)} = {Plain(r) : r \in Database!Newest(rows, d)}
    BY <1>1, <1>4, <2>1, CopyKeepsNewest
  <2>3. SchemaTypeOK'
    BY <1>2, <1>4, <2>2 DEF SchemaTypeOK, OpenSteps
  <2>4. RowsAreKeys' /\ NewestIsKept'
    BY <1>2, <2>2 DEF RowsAreKeys, NewestIsKept
  <2>5. UrlsGoFirst'
    BY <1>1, <1>2, <1>4 DEF UrlsGoFirst
  <2>6. Database!UpToDate(columns')
    BY <1>4, CurrentIsUpToDate
  <2>7. \A d \in Devices : saved[d] # None => d \in raced
    BY <1>1 DEF OpenIsCurrent
  <2>8. OpenIsCurrent'
    BY <1>2, <2>6, <2>7 DEF OpenIsCurrent
  <2> QED BY <2>3, <2>4, <2>5, <2>8
<1> QED BY <1>3, <1>4 DEF Database!Copy, Copied, Plain

\* A setting changes a profile of an open inventory, the only one of its machine.
LEMMA SaveInv ==
    ASSUME SchemaInv, NEW o \in Openers, NEW d \in Devices, Database!Save(o, d)
    PROVE  SchemaInv'
<1> USE DEF SchemaInv
<1>1. /\ opening \in [Openers -> OpenSteps] /\ opening[o] = "open" /\ rows \in SUBSET Profiles
      /\ saved \in [Devices -> Apps \cup {None}]
      /\ UNCHANGED <<columns, urls, opening, seen, first>>
  BY DEF SchemaTypeOK, Database!Save
<1>2. PICK r \in rows, a \in Apps :
          /\ r.device = d
          /\ rows' = (rows \ {r}) \cup {[r EXCEPT !.app = a]}
          /\ saved' = [saved EXCEPT ![d] = a]
  BY DEF Database!Save
<1> DEFINE s == [r EXCEPT !.app = a]
<1>3. s \in Profiles /\ s.device = d /\ s.row = r.row /\ s.app = a /\ Plain(s) = Plain(r)
  BY <1>1, <1>2, SetProfile
<1>4. rows' = (rows \ {r}) \cup {s}
  BY <1>2
<1> HIDE DEF s
<1>5. Database!UpToDate(columns) /\ "name" \notin columns
  BY <1>1, CurrentIsUpToDate DEF OpenIsCurrent
<1>6. \A q \in rows : q.device = d => q = r
  BY <1>2, <1>5 DEF RowsAreKeys
<1>7. \A q \in rows' : q.device = d => q = s
  BY <1>4, <1>6
<1>8. SchemaTypeOK'
  BY <1>1, <1>2, <1>3, <1>4 DEF SchemaTypeOK
<1>9. RowsAreKeys'
  BY <1>1, <1>3, <1>4, <1>7 DEF RowsAreKeys
<1>10. NewestIsKept'
  <2>1. {Plain(q) : q \in rows'} = {Plain(q) : q \in rows}
    BY <1>2, <1>3, <1>4
  <2>2. rows' \in SUBSET Profiles
    BY <1>1, <1>3, <1>4
  <2>3. \A e \in Devices : {Plain(q) : q \in Database!Newest(rows', e)} = {Plain(q) : q \in Database!Newest(rows, e)}
    BY <1>1, <2>1, <2>2, SameRowsSameNewest
  <2> QED BY <1>1, <2>3 DEF NewestIsKept
<1>11. UrlsGoFirst'
  BY <1>1 DEF UrlsGoFirst
<1>12. OpenIsCurrent'
  <2>1. raced' = IF \E p \in Openers : opening[p] = "copy" THEN raced \cup {d} ELSE raced \ {d}
    BY DEF Database!Save
  <2>2. ASSUME NEW e \in Devices, saved'[e] # None
        PROVE  /\ \A q \in rows' : q.device = e /\ e \notin raced' => q.app = saved'[e]
               /\ \A p \in Openers : opening'[p] = "copy" => e \in raced'
    <3>1. CASE e = d
      BY <1>1, <1>2, <1>3, <1>7, <2>1, <3>1
    <3>2. CASE e # d
      <4>1. saved'[e] = saved[e] /\ (e \in raced' <=> e \in raced)
        BY <1>1, <1>2, <2>1, <3>2
      <4>2. \A q \in rows' : q.device = e => q \in rows
        BY <1>3, <1>4, <3>2
      <4> QED BY <1>1, <2>2, <4>1, <4>2 DEF OpenIsCurrent
    <3> QED BY <3>1, <3>2
  <2>3. \A p \in Openers : opening'[p] = "open" => Database!UpToDate(columns')
    BY <1>1, <1>5
  <2>4. Database!UpToDate(columns')
    BY <1>1, <1>5
  <2> QED BY <2>2, <2>3, <2>4 DEF OpenIsCurrent
<1> QED BY <1>8, <1>9, <1>10, <1>11, <1>12

\* Every step of every process that opens the inventory.
LEMMA SchemaStepInv == SchemaInv /\ Database!SchemaNext => SchemaInv'
BY LookingInv, AddColumnInv, CopyInv, SaveInv DEF Database!SchemaNext

\* Another command leaves the inventory as it is.
LEMMA SchemaIdle == SchemaInv /\ UNCHANGED database => SchemaInv'
BY DEF database, SchemaInv, SchemaTypeOK, RowsAreKeys, NewestIsKept, UrlsGoFirst, OpenIsCurrent

\* The invariant says what the run checks.
LEMMA SchemaInvImplies == SchemaInv => Database!UpgradeLosesNothing
<1> SUFFICES ASSUME SchemaInv PROVE Database!UpgradeLosesNothing
  OBVIOUS
<1> USE DEF SchemaInv
<1>1. \A d \in Devices : {[r EXCEPT !.app = None] : r \in Database!Newest(rows, d)} = Database!Newest(first, d)
  BY DEF NewestIsKept, Plain
<1>2. \A d \in Devices : d \notin raced /\ saved[d] # None => \A r \in rows : r.device = d => r.app = saved[d]
  BY DEF OpenIsCurrent
<1>3. ASSUME NEW o \in Openers, opening[o] = "open", NEW d \in Devices
      PROVE  {r \in rows : r.device = d} = Database!Newest(rows, d)
  <2>1. "name" \notin columns
    BY <1>3, CurrentIsUpToDate DEF OpenIsCurrent
  <2>2. \A q, r \in rows : q.device = r.device => q = r
    BY <2>1 DEF RowsAreKeys
  <2>3. \A r \in rows : r.row <= r.row
    BY DEF SchemaTypeOK, Profiles
  <2> QED BY <2>2, <2>3 DEF Database!Newest
<1>4. \A o \in Openers : /\ opening[o] = "open" => Database!UpToDate(columns) /\ urls = "dropped"
                         /\ opening[o] = "drop" => urls # "stored"
  BY DEF OpenIsCurrent, UrlsGoFirst
<1> QED BY <1>1, <1>2, <1>3, <1>4 DEF Database!UpgradeLosesNothing

-----------------------------------------------------------------------------
(* wol shutdown.                                                           *)

\* The flags that matter are set alike in two lists of words.
Same(a, b) ==
    /\ \A w \in {"cancel", "force", "delay"} : Shutdown!Has(a, w) <=> Shutdown!Has(b, w)
    /\ Shutdown!LastDelay(a) = Shutdown!LastDelay(b)

NoTerminator(words) == \A i \in DOMAIN words : words[i].word # "--"

ShutdownTypeOK ==
    /\ line \in Seq(Shutdown!Words) /\ rest \in Seq(Shutdown!Words) /\ flags \in Seq(Shutdown!Words)
    /\ doing \in {"begin", "parse", "resolve", "execute", "sent", "failed", "end"}
    /\ platform \in {"windows", "linux", "darwin", ""}
    /\ told \in BOOLEAN

\* What has been read of the line has given its flags, and nothing in it was the end.
ReadSoFar ==
    /\ doing = "parse" =>
        \E read \in Seq(Shutdown!Words) : line = read \o rest /\ NoTerminator(read) /\ Same(flags, read)
    /\ doing \notin {"begin", "parse"} => Same(flags, Shutdown!Asked)

\* What is sent was accepted, and what is said came of it.
SentAsBuilt ==
    /\ doing \in {"begin", "parse", "resolve", "execute"} => command = None /\ history = None /\ exit = None
    /\ doing = "begin" => flags = <<>>
    /\ command # None => command = Shutdown!Build /\ ~Shutdown!Refused
    /\ doing \in {"sent", "failed"} => history = None /\ exit = None
    /\ doing = "sent" \/ exit = 0 => told
    /\ history # None => (history.status = "sent" <=> exit = 0)

ShutdownInv == ShutdownTypeOK /\ ReadSoFar /\ SentAsBuilt

\* A list of places has a last.
LEMMA MaxIs ==
    ASSUME NEW n \in Nat, NEW S \in SUBSET (1 .. n), S # {}
    PROVE  Shutdown!Max(S) \in S /\ \A x \in S : x <= Shutdown!Max(S)
<1> DEFINE T == {n - x : x \in S}
<1>1. T \subseteq Nat /\ T # {}
  <2>1. \A x \in S : n - x \in Nat
    OBVIOUS
  <2> QED BY <2>1
<1>2. PICK t \in T : \A u \in T : ~ (<<u, t>> \in OpToRel(<, Nat))
  BY <1>1, WFMin, NatLessThanWellFounded, Zenon
<1>3. \A u \in T : t <= u
  <2> SUFFICES ASSUME NEW u \in T PROVE t <= u
    OBVIOUS
  <2>1. u \in Nat /\ t \in Nat
    BY <1>1, <1>2
  <2>2. ~ (u < t)
    BY <1>2, <2>1 DEF OpToRel
  <2> QED BY <2>1, <2>2
<1>4. PICK x \in S : t = n - x
  OBVIOUS
<1>5. \A y \in S : x >= y
  <2> SUFFICES ASSUME NEW y \in S PROVE x >= y
    OBVIOUS
  <2>1. t <= n - y
    BY <1>3
  <2> QED BY <1>4, <2>1
<1>6. Shutdown!Max(S) \in S /\ \A y \in S : Shutdown!Max(S) >= y
  BY <1>5, Zenon DEF Shutdown!Max
<1> QED BY <1>6

\* ... and a first.
LEMMA MinIs ==
    ASSUME NEW n \in Nat, NEW S \in SUBSET (1 .. n), S # {}
    PROVE  Shutdown!Min(S) \in S /\ \A x \in S : Shutdown!Min(S) <= x
<1>1. S \subseteq Nat
  OBVIOUS
<1>2. PICK t \in S : \A u \in S : ~ (<<u, t>> \in OpToRel(<, Nat))
  BY <1>1, WFMin, NatLessThanWellFounded, Zenon
<1>3. \A u \in S : t <= u
  <2> SUFFICES ASSUME NEW u \in S PROVE t <= u
    OBVIOUS
  <2>1. u \in Nat /\ t \in Nat
    BY <1>1, <1>2
  <2>2. ~ (u < t)
    BY <1>2, <2>1 DEF OpToRel
  <2> QED BY <2>1, <2>2
<1> QED BY <1>3, Zenon DEF Shutdown!Min

\* The delay that counts is the last, if there is one.
LEMMA LastDelayIs ==
    ASSUME NEW a \in Seq(Shutdown!Words)
    PROVE  /\ ~Shutdown!Has(a, "delay") => Shutdown!LastDelay(a) = 0
           /\ Shutdown!Has(a, "delay") =>
                \E i \in DOMAIN a : /\ a[i].word = "delay" /\ Shutdown!LastDelay(a) = a[i].ms
                                    /\ \A j \in DOMAIN a : j > i => a[j].word # "delay"
<1> DEFINE D == {i \in DOMAIN a : a[i].word = "delay"}
<1>1. Shutdown!Has(a, "delay") <=> D # {}
  BY DEF Shutdown!Has
<1>2. D = {} => Shutdown!LastDelay(a) = 0
  BY DEF Shutdown!LastDelay
<1>3. ASSUME D # {}
      PROVE  \E i \in DOMAIN a : /\ a[i].word = "delay" /\ Shutdown!LastDelay(a) = a[i].ms
                                 /\ \A j \in DOMAIN a : j > i => a[j].word # "delay"
  <2>1. Len(a) \in Nat /\ D \in SUBSET (1 .. Len(a))
    OBVIOUS
  <2>2. Shutdown!Max(D) \in D /\ \A x \in D : x <= Shutdown!Max(D)
    BY <1>3, <2>1, MaxIs
  <2>3. Shutdown!LastDelay(a) = a[Shutdown!Max(D)].ms
    BY <1>3 DEF Shutdown!LastDelay
  <2>4. \A j \in DOMAIN a : j > Shutdown!Max(D) => a[j].word # "delay"
    <3> SUFFICES ASSUME NEW j \in DOMAIN a, j > Shutdown!Max(D), a[j].word = "delay" PROVE FALSE
      OBVIOUS
    <3>1. j \in Nat /\ Shutdown!Max(D) \in Nat
      BY <2>2
    <3>2. j <= Shutdown!Max(D)
      BY <2>2
    <3> QED BY <3>1, <3>2
  <2> QED BY <2>2, <2>3, <2>4
<1> QED BY <1>1, <1>2, <1>3

\* Of two lists in a row a delay in the second counts.
LEMMA DelayOfBoth ==
    ASSUME NEW a \in Seq(Shutdown!Words), NEW b \in Seq(Shutdown!Words)
    PROVE  /\ \A w : Shutdown!Has(a \o b, w) <=> Shutdown!Has(a, w) \/ Shutdown!Has(b, w)
           /\ Shutdown!LastDelay(a \o b)
                = IF Shutdown!Has(b, "delay") THEN Shutdown!LastDelay(b) ELSE Shutdown!LastDelay(a)
<1> DEFINE c == a \o b
<1>1. c \in Seq(Shutdown!Words) /\ Len(c) = Len(a) + Len(b)
      /\ (\A i \in 1 .. Len(a) : c[i] = a[i]) /\ (\A i \in 1 .. Len(b) : c[Len(a) + i] = b[i])
  OBVIOUS
<1>2. DOMAIN a = 1 .. Len(a) /\ DOMAIN b = 1 .. Len(b) /\ DOMAIN c = 1 .. Len(c) /\ Len(a) \in Nat /\ Len(b) \in Nat
  BY <1>1
<1>3. \A i \in DOMAIN c : i \in DOMAIN a \/ (i - Len(a) \in DOMAIN b /\ i = Len(a) + (i - Len(a)))
  BY <1>1, <1>2
<1>4. (\A i \in DOMAIN a : i \in DOMAIN c) /\ (\A i \in DOMAIN b : Len(a) + i \in DOMAIN c)
  BY <1>1, <1>2
<1> HIDE DEF c
<1>5. ASSUME NEW w PROVE Shutdown!Has(c, w) <=> Shutdown!Has(a, w) \/ Shutdown!Has(b, w)
  <2>1. ASSUME NEW i \in DOMAIN c, c[i].word = w PROVE Shutdown!Has(a, w) \/ Shutdown!Has(b, w)
    <3>1. CASE i \in DOMAIN a
      BY <1>1, <1>2, <2>1, <3>1 DEF Shutdown!Has
    <3>2. CASE i \notin DOMAIN a
      <4>1. i - Len(a) \in DOMAIN b /\ c[i] = b[i - Len(a)]
        BY <1>1, <1>2, <1>3, <3>2
      <4> QED BY <2>1, <4>1 DEF Shutdown!Has
    <3> QED BY <3>1, <3>2
  <2>2. ASSUME NEW i \in DOMAIN a, a[i].word = w PROVE Shutdown!Has(c, w)
    BY <1>1, <1>2, <1>4, <2>2 DEF Shutdown!Has
  <2>3. ASSUME NEW i \in DOMAIN b, b[i].word = w PROVE Shutdown!Has(c, w)
    <3>1. Len(a) + i \in DOMAIN c /\ c[Len(a) + i] = b[i]
      BY <1>1, <1>2, <1>4
    <3> QED BY <2>3, <3>1 DEF Shutdown!Has
  <2> QED BY <2>1, <2>2, <2>3 DEF Shutdown!Has
<1>6. CASE Shutdown!Has(b, "delay")
  <2>1. PICK k \in DOMAIN b : /\ b[k].word = "delay" /\ Shutdown!LastDelay(b) = b[k].ms
                              /\ \A j \in DOMAIN b : j > k => b[j].word # "delay"
    BY <1>6, LastDelayIs
  <2>2. PICK i \in DOMAIN c : /\ c[i].word = "delay" /\ Shutdown!LastDelay(c) = c[i].ms
                              /\ \A j \in DOMAIN c : j > i => c[j].word # "delay"
    BY <1>1, <1>5, <1>6, LastDelayIs
  <2>3. Len(a) + k \in DOMAIN c /\ c[Len(a) + k] = b[k]
    BY <1>1, <1>2, <1>4
  <2>4. i >= Len(a) + k
    BY <1>2, <2>1, <2>2, <2>3
  <2>5. i - Len(a) \in DOMAIN b /\ c[i] = b[i - Len(a)]
    BY <1>1, <1>2, <1>3, <2>4
  <2>6. i - Len(a) = k
    BY <1>2, <2>1, <2>2, <2>4, <2>5
  <2> QED BY <1>5, <1>6, <2>1, <2>2, <2>5, <2>6 DEF c
<1>7. CASE ~Shutdown!Has(b, "delay")
  <2>1. CASE Shutdown!Has(a, "delay")
    <3>1. PICK k \in DOMAIN a : /\ a[k].word = "delay" /\ Shutdown!LastDelay(a) = a[k].ms
                                /\ \A j \in DOMAIN a : j > k => a[j].word # "delay"
      BY <2>1, LastDelayIs
    <3>2. PICK i \in DOMAIN c : /\ c[i].word = "delay" /\ Shutdown!LastDelay(c) = c[i].ms
                                /\ \A j \in DOMAIN c : j > i => c[j].word # "delay"
      BY <1>1, <1>5, <2>1, LastDelayIs
    <3>3. i \in DOMAIN a
      <4> SUFFICES ASSUME i \notin DOMAIN a PROVE FALSE
        OBVIOUS
      <4>1. i - Len(a) \in DOMAIN b /\ c[i] = b[i - Len(a)]
        BY <1>1, <1>2, <1>3
      <4> QED BY <1>7, <3>2, <4>1 DEF Shutdown!Has
    <3>4. c[i] = a[i] /\ c[k] = a[k] /\ k \in DOMAIN c
      BY <1>1, <1>2, <1>4, <3>3
    <3>5. i = k
      BY <1>2, <3>1, <3>2, <3>3, <3>4
    <3> QED BY <1>5, <1>7, <3>1, <3>2, <3>4, <3>5 DEF c
  <2>2. CASE ~Shutdown!Has(a, "delay")
    BY <1>1, <1>5, <1>7, <2>2, LastDelayIs DEF c
  <2> QED BY <2>1, <2>2
<1> QED BY <1>5, <1>6, <1>7 DEF c

\* Flags that are set alike stay so when both lists go on, and a word that is no
\* flag changes nothing.
LEMMA SameGoesOn ==
    ASSUME NEW a \in Seq(Shutdown!Words), NEW b \in Seq(Shutdown!Words), Same(a, b)
    PROVE  /\ \A c \in Seq(Shutdown!Words) : Same(a \o c, b \o c)
           /\ \A h \in Shutdown!Words : ~Shutdown!IsFlag(h) => Same(a, b \o <<h>>)
<1>1. ASSUME NEW c \in Seq(Shutdown!Words) PROVE Same(a \o c, b \o c)
  BY DelayOfBoth DEF Same
<1>2. ASSUME NEW h \in Shutdown!Words, ~Shutdown!IsFlag(h) PROVE Same(a, b \o <<h>>)
  <2>1. <<h>> \in Seq(Shutdown!Words) /\ \A w \in {"cancel", "force", "delay"} : ~Shutdown!Has(<<h>>, w)
    BY <1>2 DEF Shutdown!IsFlag, Shutdown!Has
  <2> QED BY <2>1, DelayOfBoth DEF Same
<1> QED BY <1>1, <1>2

\* Up to the first word that is no flag all are.
LEMMA LeadingIs ==
    ASSUME NEW args \in Seq(Shutdown!Words), NEW left,
           left = SubSeq(args, Len(Shutdown!Leading(args)) + 1, Len(args))
    PROVE  /\ Shutdown!Leading(args) \in Seq(Shutdown!Words) /\ NoTerminator(Shutdown!Leading(args))
           /\ left \in Seq(Shutdown!Words) /\ args = Shutdown!Leading(args) \o left
           /\ left # <<>> => ~Shutdown!IsFlag(Head(left))
<1> DEFINE I == {i \in 1 .. Len(args) : ~Shutdown!IsFlag(args[i])}
<1>1. CASE I = {}
  <2>1. Shutdown!Taken(args) = 0
    BY <1>1 DEF Shutdown!Taken, Shutdown!SelectInSeq
  <2>2. Shutdown!Leading(args) = args /\ left = <<>>
    BY <2>1 DEF Shutdown!Leading
  <2>3. NoTerminator(args)
    BY <1>1 DEF NoTerminator, Shutdown!IsFlag
  <2> QED BY <2>2, <2>3
<1>2. CASE I # {}
  <2>1. Shutdown!Taken(args) = Shutdown!Min(I)
    BY <1>2 DEF Shutdown!Taken, Shutdown!SelectInSeq
  <2>4. Shutdown!Min(I) \in I /\ \A j \in I : Shutdown!Min(I) <= j
    <3>1. Len(args) \in Nat /\ I \in SUBSET (1 .. Len(args))
      OBVIOUS
    <3> QED BY <1>2, <3>1, MinIs
  <2> DEFINE m == Shutdown!Min(I)
  <2>5. m \in 1 .. Len(args) /\ ~Shutdown!IsFlag(args[m]) /\ \A j \in 1 .. m - 1 : Shutdown!IsFlag(args[j])
    <3>1. m \in I
      BY <2>4
    <3>2. ASSUME NEW j \in 1 .. m - 1 PROVE Shutdown!IsFlag(args[j])
      <4>1. j \in 1 .. Len(args) /\ ~ (m <= j)
        BY <3>1
      <4>2. j \notin I
        BY <2>4, <4>1
      <4> QED BY <4>1, <4>2
    <3> QED BY <3>1, <3>2
  <2>6. Shutdown!Leading(args) = SubSeq(args, 1, m - 1)
    <3>1. Shutdown!Taken(args) = m /\ m # 0
      BY <2>1, <2>5
    <3> HIDE DEF m
    <3> QED BY <3>1 DEF Shutdown!Leading
  <2> HIDE DEF m
  <2>7. Len(SubSeq(args, 1, m - 1)) = m - 1 /\ SubSeq(args, 1, m - 1) \in Seq(Shutdown!Words)
        /\ \A j \in 1 .. m - 1 : SubSeq(args, 1, m - 1)[j] = args[j]
    BY <2>5
  <2>8. left = SubSeq(args, m, Len(args))
    <3>1. Len(Shutdown!Leading(args)) + 1 = m
      BY <2>5, <2>6, <2>7
    <3> QED BY <3>1
  <2>9. /\ left \in Seq(Shutdown!Words) /\ Head(left) = args[m]
        /\ args = SubSeq(args, 1, m - 1) \o left
    <3>1. Len(args) \in Nat /\ m \in 1 .. Len(args) /\ m - 1 \in 0 .. Len(args) /\ (m - 1) + 1 = m
      BY <2>5
    <3>2. SubSeq(args, 1, m - 1) \o left = SubSeq(args, 1, Len(args))
      <4>1. SubSeq(args, 1, m - 1) \o SubSeq(args, (m - 1) + 1, Len(args)) = SubSeq(args, 1, Len(args))
        <5>1. m - 1 \in (1 - 1) .. Len(args) /\ Len(args) \in (m - 1) .. Len(args) /\ 1 \in 1 .. Len(args) + 1
          BY <3>1
        <5> QED BY <5>1, ConcatAdjacentSubSeq, Zenon
      <4> QED BY <2>8, <3>1, <4>1
    <3>3. SubSeq(args, 1, Len(args)) = args
      BY SubSeqFull
    <3>4. Head(left) = args[m]
      BY <2>8, <3>1, HeadTailOfSubSeq
    <3>5. left \in Seq(Shutdown!Words)
      BY <2>8, <3>1
    <3> QED BY <3>2, <3>3, <3>4, <3>5
  <2>10. NoTerminator(SubSeq(args, 1, m - 1))
    BY <2>5, <2>7 DEF NoTerminator, Shutdown!IsFlag
  <2> QED BY <2>5, <2>6, <2>7, <2>9, <2>10
<1> QED BY <1>1, <1>2

\* What is in neither of two lists is not in both.
LEMMA NoneInBoth ==
    ASSUME NEW a \in Seq(Shutdown!Words), NEW b \in Seq(Shutdown!Words), NoTerminator(a), NoTerminator(b)
    PROVE  NoTerminator(a \o b)
<1>1. a \o b \in Seq(Shutdown!Words) /\ (Shutdown!Has(a \o b, "--") <=> Shutdown!Has(a, "--") \/ Shutdown!Has(b, "--"))
  BY DelayOfBoth
<1> QED BY <1>1 DEF NoTerminator, Shutdown!Has

\* Without a terminator a line asks for what is anywhere on it.
LEMMA NoEnd ==
    ASSUME NEW words \in Seq(Shutdown!Words), NoTerminator(words) PROVE Shutdown!UpToEnd(words) = words
<1> DEFINE I == {i \in 1 .. Len(words) : words[i].word = "--"}
<1>1. I = {}
  BY DEF NoTerminator
<1> QED BY <1>1 DEF Shutdown!UpToEnd, Shutdown!SelectInSeq

\* What a line asks for ends at its first terminator.
LEMMA EndIs ==
    ASSUME NEW a \in Seq(Shutdown!Words), NEW h \in Shutdown!Words, NEW t \in Seq(Shutdown!Words),
           NEW words, words = (a \o <<h>>) \o t, NoTerminator(a), h.word = "--"
    PROVE  Shutdown!UpToEnd(words) = a \o <<h>>
<1> DEFINE I == {i \in 1 .. Len(words) : words[i].word = "--"}
           n == Len(a) + 1
<1>1. a \o <<h>> \in Seq(Shutdown!Words) /\ Len(a \o <<h>>) = n /\ (a \o <<h>>)[n] = h
      /\ \A i \in 1 .. Len(a) : (a \o <<h>>)[i] = a[i]
  OBVIOUS
<1>2. Len(words) \in Nat /\ n \in 1 .. Len(words) /\ \A i \in 1 .. n : words[i] = (a \o <<h>>)[i]
  BY <1>1
<1>3. n \in I /\ \A i \in I : n <= i
  BY <1>1, <1>2 DEF NoTerminator
<1>4. Shutdown!Min(I) = n
  <2>1. Shutdown!Min(I) \in I /\ \A j \in I : Shutdown!Min(I) <= j
    BY <1>3, Zenon DEF Shutdown!Min
  <2> DEFINE k == Shutdown!Min(I)
  <2>4. I \subseteq Nat
    BY <1>2
  <2> HIDE DEF I
  <2>2. k \in Nat /\ n \in Nat /\ k <= n /\ n <= k
    BY <1>3, <2>1, <2>4
  <2> HIDE DEF k
  <2>3. k = n
    BY <2>2
  <2> QED BY <2>3 DEF k
<1>5. Shutdown!UpToEnd(words) = SubSeq(words, 1, n)
  <2>1. Shutdown!UpToEnd(words) = IF (IF I # {} THEN Shutdown!Min(I) ELSE 0) = 0 THEN words
                                  ELSE SubSeq(words, 1, IF I # {} THEN Shutdown!Min(I) ELSE 0)
    BY DEF Shutdown!UpToEnd, Shutdown!SelectInSeq
  <2>2. I # {} /\ n # 0
    <3>1. n >= 1
      BY <1>2
    <3>2. n \in I
      BY <1>3
    <3> HIDE DEF I
    <3> QED BY <3>1, <3>2
  <2> HIDE DEF I, n
  <2> QED BY <1>4, <2>1, <2>2
<1>6. SubSeq(words, 1, n) = a \o <<h>>
  BY <1>1, <1>2
<1> QED BY <1>5, <1>6

\* Lines of words: none, one, and two in a row.
LEMMA LinesAreWords ==
    /\ <<>> \in Seq(Shutdown!Words) /\ NoTerminator(<<>>)
    /\ \A h \in Shutdown!Words : <<h>> \in Seq(Shutdown!Words)
    /\ \A a, b \in Seq(Shutdown!Words) : a \o b \in Seq(Shutdown!Words)
<1>1. DOMAIN <<>> = {}
  OBVIOUS
<1>2. \A h \in Shutdown!Words : <<h>> \in Seq(Shutdown!Words)
  OBVIOUS
<1>3. \A a, b \in Seq(Shutdown!Words) : a \o b \in Seq(Shutdown!Words)
  OBVIOUS
<1> QED BY <1>1, <1>2, <1>3, EmptySeq DEF NoTerminator

\* At first nothing has been read.
LEMMA ShutdownInitInv == Shutdown!PowerInit => ShutdownInv
<1> SUFFICES ASSUME Shutdown!PowerInit PROVE ShutdownInv
  OBVIOUS
<1> USE DEF Shutdown!PowerInit
<1>1. ShutdownTypeOK
  BY EmptySeq DEF ShutdownTypeOK
<1>2. ReadSoFar
  BY DEF ReadSoFar
<1>3. SentAsBuilt
  BY ShutdownAssumption DEF ShutdownAssumption, SentAsBuilt
<1> QED BY <1>1, <1>2, <1>3 DEF ShutdownInv

\* The words of the line, from the command line and from the form.
LEMMA LineInv ==
    ASSUME ShutdownInv, Shutdown!Arguments \/ Shutdown!PowerForm PROVE ShutdownInv'
<1> USE ShutdownAssumption DEF ShutdownAssumption, ShutdownInv, ShutdownTypeOK, SentAsBuilt
<1>1. CASE Shutdown!Arguments
  <2>1. PICK l \in Lines, given \in {<<>>, <<Shutdown!Word("cancel")>>} : line' = given \o l /\ rest' = given \o l
    BY <1>1 DEF Shutdown!Arguments
  <2>2. doing = "begin" /\ doing' = "parse" /\ flags = <<>>
        /\ UNCHANGED <<positionals, flags, platform, command, told, history, exit>>
    BY <1>1 DEF Shutdown!Arguments
  <2>3. l \in Seq(Shutdown!Words) /\ given \in Seq(Shutdown!Words)
    <3>1. Shutdown!Word("cancel") \in Shutdown!Words
      BY DEF Shutdown!Word, Shutdown!Words
    <3> QED BY <3>1, LinesAreWords, ShutdownAssumption DEF ShutdownAssumption
  <2>4. rest' \in Seq(Shutdown!Words) /\ line' = rest'
    <3> QED BY <2>1, <2>3, LinesAreWords, Zenon
  <2>5. line' = <<>> \o rest' /\ NoTerminator(<<>>) /\ Same(flags', <<>>) /\ <<>> \in Seq(Shutdown!Words)
    <3>2. <<>> \o rest' = rest'
      BY <2>4, ConcatEmptySeq
    <3> QED BY <2>2, <2>4, <3>2, LinesAreWords DEF Same
  <2>6. ReadSoFar'
    BY <2>2, <2>5 DEF ReadSoFar
  <2> QED BY <2>2, <2>4, <2>6
<1>2. CASE Shutdown!PowerForm
  <2>1. PICK l \in Lines : (\A i \in DOMAIN l : l[i].word \in {"cancel", "delay"}) /\ line' = l /\ flags' = l
    BY <1>2 DEF Shutdown!PowerForm
  <2>2. doing = "begin" /\ doing' = "execute" /\ platform' \in {"windows", "linux", "darwin", ""}
        /\ UNCHANGED <<rest, positionals, command, told, history, exit>>
    BY <1>2 DEF Shutdown!PowerForm
  <2>3. line' \in Seq(Shutdown!Words) /\ NoTerminator(line')
    BY <2>1 DEF NoTerminator
  <2>4. Shutdown!Asked' = line'
    BY <2>3, NoEnd DEF Shutdown!Asked
  <2>5. ReadSoFar'
    BY <2>1, <2>2, <2>4 DEF ReadSoFar, Same
  <2> QED BY <2>1, <2>2, <2>3, <2>5
<1> QED BY <1>1, <1>2

\* A pass of the parser takes the flags before a machine, and goes on behind it.
LEMMA ParseInv ==
    ASSUME ShutdownInv, Shutdown!Parse PROVE ShutdownInv'
<1> USE DEF ShutdownInv
<1> DEFINE lead == Shutdown!Leading(rest)
           left == SubSeq(rest, Len(lead) + 1, Len(rest))
<1>1. PICK read \in Seq(Shutdown!Words) : line = read \o rest /\ NoTerminator(read) /\ Same(flags, read)
  BY DEF Shutdown!Parse, ReadSoFar
<1>2. /\ line \in Seq(Shutdown!Words) /\ rest \in Seq(Shutdown!Words) /\ flags \in Seq(Shutdown!Words)
      /\ doing = "parse" /\ flags' = flags \o lead
      /\ UNCHANGED <<line, platform, command, told, history, exit>>
  BY DEF Shutdown!Parse, ShutdownTypeOK
<1>3. /\ lead \in Seq(Shutdown!Words) /\ NoTerminator(lead) /\ left \in Seq(Shutdown!Words) /\ rest = lead \o left
      /\ left # <<>> => ~Shutdown!IsFlag(Head(left))
  BY <1>2, LeadingIs
<1>4. \/ left = <<>> /\ doing' = "resolve" /\ rest' = <<>>
      \/ left # <<>> /\ Head(left).word = "--" /\ doing' = "resolve" /\ rest' = <<>>
      \/ left # <<>> /\ Head(left).word # "--" /\ rest' = Tail(left) /\ doing' = doing
  BY DEF Shutdown!Parse
<1> DEFINE done == read \o lead
<1> HIDE DEF lead, left
<1>5. done \in Seq(Shutdown!Words) /\ NoTerminator(done) /\ Same(flags', done) /\ flags' \in Seq(Shutdown!Words)
  <2>1. done \in Seq(Shutdown!Words) /\ flags' \in Seq(Shutdown!Words) /\ Same(flags', done)
    BY <1>1, <1>2, <1>3, SameGoesOn
  <2>2. NoTerminator(done)
    BY <1>1, <1>3, NoneInBoth
  <2> QED BY <2>1, <2>2
<1>6. line = done \o left
  BY <1>1, <1>3
<1> HIDE DEF done
<1>7. CASE left = <<>>
  <2>1. line = done
    BY <1>5, <1>6, <1>7
  <2>2. Shutdown!Asked' = line
    BY <1>2, <1>5, <2>1, NoEnd DEF Shutdown!Asked
  <2>3. doing' = "resolve" /\ rest' = <<>>
    BY <1>4, <1>7
  <2>5. ReadSoFar'
    BY <1>5, <2>1, <2>2, <2>3, <1>2 DEF ReadSoFar
  <2>6. ShutdownTypeOK'
    BY <1>2, <1>5, <2>3, EmptySeq DEF ShutdownTypeOK
  <2>4. SentAsBuilt'
    BY <1>2, <2>3 DEF SentAsBuilt
  <2> QED BY <2>4, <2>5, <2>6
<1>8. CASE left # <<>>
  <2> DEFINE h == Head(left)
             t == Tail(left)
  <2>1. h \in Shutdown!Words /\ t \in Seq(Shutdown!Words) /\ left = <<h>> \o t /\ ~Shutdown!IsFlag(h)
    BY <1>3, <1>8, HeadTailProperties
  <2> HIDE DEF h, t
  <2>2. line = (done \o <<h>>) \o t /\ done \o <<h>> \in Seq(Shutdown!Words) /\ Same(flags', done \o <<h>>)
    BY <1>5, <1>6, <2>1, SameGoesOn
  <2>3. CASE h.word = "--"
    <3>1. Shutdown!UpToEnd(line) = done \o <<h>>
      BY <1>2, <1>5, <2>1, <2>2, <2>3, EndIs
    <3>2. Shutdown!Asked' = done \o <<h>>
      BY <1>2, <3>1 DEF Shutdown!Asked
    <3>3. doing' = "resolve" /\ rest' = <<>>
      BY <1>4, <1>8, <2>3 DEF h
    <3>4. ReadSoFar'
      BY <2>2, <3>2, <3>3 DEF ReadSoFar
    <3>5. ShutdownTypeOK'
      BY <1>2, <1>5, <3>3, EmptySeq DEF ShutdownTypeOK
    <3>6. SentAsBuilt'
      BY <1>2, <3>3 DEF SentAsBuilt
    <3> QED BY <3>4, <3>5, <3>6
  <2>4. CASE h.word # "--"
    <3>1. NoTerminator(done \o <<h>>)
      <4>1. NoTerminator(<<h>>) /\ <<h>> \in Seq(Shutdown!Words)
        BY <2>1, <2>4 DEF NoTerminator
      <4> QED BY <1>5, <4>1, NoneInBoth
    <3>2. rest' = t /\ doing' = "parse" /\ line' = (done \o <<h>>) \o rest'
      BY <1>2, <1>4, <1>8, <2>2, <2>4 DEF h, t
    <3>3. ReadSoFar' /\ ShutdownTypeOK'
      BY <1>2, <1>5, <2>1, <2>2, <3>1, <3>2 DEF ReadSoFar, ShutdownTypeOK
    <3>4. SentAsBuilt'
      BY <1>2, <3>2 DEF SentAsBuilt
    <3> QED BY <3>3, <3>4
  <2> QED BY <2>3, <2>4
<1> QED BY <1>7, <1>8

\* What is built and what is refused depends on the flags and the platform.
LEMMA SamePower ==
    UNCHANGED <<flags, platform>> => Shutdown!Build' = Shutdown!Build /\ Shutdown!Refused' = Shutdown!Refused
BY DEF Shutdown!Build, Shutdown!Refused, Shutdown!Delay, Shutdown!Cancelling

\* The machine, what is refused, what is sent and what is said of it.
LEMMA TellInv ==
    ASSUME ShutdownInv, Shutdown!Resolve \/ Shutdown!Refuse \/ Shutdown!Execute \/ Shutdown!Report
    PROVE  ShutdownInv'
<1>1. UNCHANGED <<line, rest, flags>> /\ doing \notin {"begin", "parse"} /\ doing' \notin {"begin", "parse"}
  BY DEF Shutdown!Resolve, Shutdown!Refuse, Shutdown!Execute, Shutdown!Report, Shutdown!parsed, Shutdown!Exit
<1>2. ReadSoFar'
  BY <1>1 DEF ShutdownInv, ReadSoFar, Shutdown!Asked
<1>3. platform' = platform => Shutdown!Build' = Shutdown!Build /\ Shutdown!Refused' = Shutdown!Refused
  BY <1>1, SamePower
<1>4. ShutdownTypeOK'
  BY <1>1 DEF ShutdownInv, ShutdownTypeOK, Shutdown!Resolve, Shutdown!Refuse, Shutdown!Execute, Shutdown!Report, Shutdown!Exit
<1>5. CASE Shutdown!Resolve
  <2>1. /\ command = None /\ history = None /\ exit = None 
        /\ UNCHANGED <<command, history, told>>
        /\ \/ doing' = "end" /\ exit' \in {1, 2}
           \/ doing' = "execute" /\ exit' = exit
    BY <1>5 DEF ShutdownInv, ShutdownTypeOK, SentAsBuilt, Shutdown!Resolve, Shutdown!Exit
  <2>2. SentAsBuilt'
    BY <2>1, ShutdownAssumption DEF ShutdownAssumption, SentAsBuilt
  <2> QED BY <1>2, <1>4, <2>2 DEF ShutdownInv
<1>6. CASE Shutdown!Refuse
  <2>1. SentAsBuilt'
    BY <1>6, ShutdownAssumption DEF ShutdownAssumption, ShutdownInv, SentAsBuilt, Shutdown!Refuse
  <2> QED BY <1>2, <1>4, <2>1 DEF ShutdownInv
<1>7. CASE Shutdown!Execute
  <2>1. /\ doing = "execute" /\ ~Shutdown!Refused /\ command' = Shutdown!Build
        /\ (doing' = "sent" /\ told') \/ doing' = "failed"
        /\ UNCHANGED <<platform, history, exit>>
    BY <1>7 DEF Shutdown!Execute
  <2>2. SentAsBuilt'
    BY <1>3, <2>1, ShutdownAssumption DEF ShutdownAssumption, ShutdownInv, SentAsBuilt
  <2> QED BY <1>2, <1>4, <2>2 DEF ShutdownInv
<1>8. CASE Shutdown!Report
  <2>1. /\ doing \in {"sent", "failed"} /\ doing' = "end" /\ exit' = (IF doing = "sent" THEN 0 ELSE 3)
        /\ UNCHANGED <<platform, command, told>>
    BY <1>8 DEF Shutdown!Report, Shutdown!Exit
  <2>2. history' # None => history'.status = doing
    <3> DEFINE r == [action |-> IF command = None THEN "" ELSE command.kind, status |-> doing,
                     delay |-> Shutdown!Seconds(Shutdown!Delay)]
    <3>1. history' \in {None, r}
      BY <1>8 DEF Shutdown!Report
    <3>2. r.status = doing
      OBVIOUS
    <3> HIDE DEF r
    <3> QED BY <3>1, <3>2
  <2>3. SentAsBuilt'
    BY <1>3, <2>1, <2>2 DEF ShutdownInv, SentAsBuilt
  <2> QED BY <1>2, <1>4, <2>3 DEF ShutdownInv
<1> QED BY <1>5, <1>6, <1>7, <1>8

\* Every step of wol shutdown.
LEMMA ShutdownStepInv == ShutdownInv /\ Shutdown!PowerNext => ShutdownInv'
BY LineInv, ParseInv, TellInv DEF Shutdown!PowerNext

\* Another command leaves it as it is.
LEMMA ShutdownIdle == ShutdownInv /\ UNCHANGED shutdown => ShutdownInv'
<1> SUFFICES ASSUME ShutdownInv, UNCHANGED shutdown PROVE ShutdownInv'
  OBVIOUS
<1>1. UNCHANGED <<line, rest, flags, doing, platform, command, told, history, exit>>
  BY DEF shutdown
<1>2. Shutdown!Asked' = Shutdown!Asked /\ Shutdown!Build' = Shutdown!Build /\ Shutdown!Refused' = Shutdown!Refused
  BY <1>1, SamePower DEF Shutdown!Asked
<1> QED BY <1>1, <1>2 DEF ShutdownInv, ShutdownTypeOK, ReadSoFar, SentAsBuilt

\* The delay of a command that was accepted is the one asked for, but for a part of
\* a second.
LEMMA DelayIsKept ==
    ASSUME ShutdownInv, ~Shutdown!Refused, Shutdown!Build.kind # "cancel"
    PROVE  /\ Shutdown!Build.delay <= Shutdown!LastDelay(flags)
           /\ Shutdown!LastDelay(flags) - Shutdown!Build.delay < 1000
           /\ Shutdown!Build.kind = "now" <=> Shutdown!LastDelay(flags) = 0
<1> DEFINE d == Shutdown!LastDelay(flags)
<1>1. d \in Nat
  <2>1. flags \in Seq(Shutdown!Words)
    BY DEF ShutdownInv, ShutdownTypeOK
  <2>2. \A i \in DOMAIN flags : flags[i].ms \in Nat
    <3>1. \A i \in DOMAIN flags : flags[i] \in Shutdown!Words
      BY <2>1
    <3> QED BY <3>1 DEF Shutdown!Words
  <2> QED BY <2>1, <2>2, LastDelayIs
<1>2. /\ Shutdown!Delay = d
      /\ Shutdown!Build.kind = (IF d > 0 THEN "schedule" ELSE "now")
      /\ Shutdown!Build.delay = (IF platform = "windows" THEN Shutdown!Seconds(d) ELSE Shutdown!Minutes(d))
      /\ d > 0 /\ platform # "windows" => d % Shutdown!Minute = 0
  <2>1. ~Shutdown!Cancelling /\ Shutdown!Delay = d
    BY DEF Shutdown!Build, Shutdown!Delay
  <2>2. d > 0 /\ platform # "windows" => d % Shutdown!Minute = 0
    <3>1. Shutdown!Delay > 0 /\ platform # "windows" => Shutdown!Delay % Shutdown!Minute = 0
      BY Zenon DEF Shutdown!Refused
    <3> HIDE DEF d
    <3> QED BY <2>1, <3>1
  <2> HIDE DEF d
  <2> QED BY <2>1, <2>2 DEF Shutdown!Build
<1> HIDE DEF d
<1>3. Shutdown!Seconds(d) <= d /\ d - Shutdown!Seconds(d) < 1000
  BY <1>1 DEF Shutdown!Seconds
<1>4. d % Shutdown!Minute = 0 => Shutdown!Minutes(d) = d
  BY <1>1 DEF Shutdown!Minutes, Shutdown!Minute
<1>5. d = 0 => Shutdown!Minutes(d) = 0
  BY DEF Shutdown!Minutes, Shutdown!Minute
<1>6. Shutdown!Build.delay <= d /\ d - Shutdown!Build.delay < 1000
  BY <1>1, <1>2, <1>3, <1>4, <1>5
<1>7. Shutdown!Build.kind = "now" <=> d = 0
  BY <1>1, <1>2
<1> QED BY <1>6, <1>7 DEF d

\* The invariant says what the run checks.
LEMMA ShutdownInvImplies == ShutdownInv => Shutdown!MachineIsToldWhatWasAsked
<1> SUFFICES ASSUME ShutdownInv PROVE Shutdown!MachineIsToldWhatWasAsked
  OBVIOUS
<1>1. ASSUME command # None
      PROVE  /\ command.kind = "cancel" <=> Shutdown!Has(Shutdown!Asked, "cancel")
             /\ command.kind # "cancel" =>
                 /\ command.delay <= Shutdown!LastDelay(Shutdown!Asked)
                 /\ Shutdown!LastDelay(Shutdown!Asked) - command.delay < 1000
                 /\ command.kind = "now" <=> Shutdown!LastDelay(Shutdown!Asked) = 0
                 /\ command.force <=> Shutdown!Has(Shutdown!Asked, "force")
  <2>1. command = Shutdown!Build /\ ~Shutdown!Refused /\ Same(flags, Shutdown!Asked)
    BY <1>1 DEF ShutdownInv, SentAsBuilt, ReadSoFar
  <2>2. command.kind = "cancel" <=> Shutdown!Has(flags, "cancel")
    BY <2>1 DEF Shutdown!Build, Shutdown!Cancelling
  <2>3. command.kind # "cancel" => (command.force <=> Shutdown!Has(flags, "force"))
    BY <2>1 DEF Shutdown!Build, Shutdown!Cancelling, Shutdown!Has
  <2> QED BY <2>1, <2>2, <2>3, DelayIsKept DEF Same
<1>2. (exit = 0 => told) /\ (history # None => (history.status = "sent" <=> exit = 0))
  BY DEF ShutdownInv, SentAsBuilt
<1> QED BY <1>1, <1>2 DEF Shutdown!MachineIsToldWhatWasAsked

-----------------------------------------------------------------------------
(* The program.                                                            *)

CommandsInv == WakeInv /\ StatusInv /\ RemoteInv /\ UpdateInv /\ ReleaseInv /\ SchemaInv /\ ShutdownInv

\* Every command begins with the invariants of all.
LEMMA CommandsInitInv == Init => CommandsInv
BY WakeInitInv, StatusInitInv, RemoteInitInv, UpdateInitInv, ReleaseInitInv, SchemaInitInv, ShutdownInitInv DEF Init, CommandsInv

\* Each command touches what is its own.
LEMMA CommandsStepInv == CommandsInv /\ [Next]_vars => CommandsInv'
<1> SUFFICES ASSUME CommandsInv, [Next]_vars PROVE CommandsInv'
  OBVIOUS
<1>1. Wake!WakeNext \/ UNCHANGED wake
  BY DEF Next, vars, RunUpdate, RunWake, RunStatus, RunShutdown, RunOpen, RunRemote
<1>2. Status!DetectorNext \/ UNCHANGED status
  BY DEF Next, vars, RunUpdate, RunWake, RunStatus, RunShutdown, RunOpen, RunRemote
<1>3. Remote!BrokerNext \/ UNCHANGED remote
  BY DEF Next, vars, RunUpdate, RunWake, RunStatus, RunShutdown, RunOpen, RunRemote
<1>4. Update!UpdateNext \/ UNCHANGED update
  BY DEF Next, vars, RunUpdate, RunWake, RunStatus, RunShutdown, RunOpen, RunRemote
<1>5. WakeInv'
  BY <1>1, WakeStepInv, WakeIdle DEF CommandsInv
<1>6. StatusInv'
  BY <1>2, StatusStepInv, StatusIdle DEF CommandsInv
<1>7. RemoteInv'
  BY <1>3, RemoteStepInv, RemoteIdle DEF CommandsInv
<1>8. UpdateInv'
  BY <1>4, UpdateStepInv, UpdateIdle DEF CommandsInv
<1>9. ReleaseInv'
  BY <1>4, ReleaseStepInv, ReleaseIdle DEF CommandsInv
<1>10. Database!SchemaNext \/ UNCHANGED database
  BY DEF Next, vars, RunUpdate, RunWake, RunStatus, RunShutdown, RunOpen, RunRemote
<1>11. SchemaInv'
  BY <1>10, SchemaStepInv, SchemaIdle DEF CommandsInv
<1>12. Shutdown!PowerNext \/ UNCHANGED shutdown
  BY DEF Next, vars, RunUpdate, RunWake, RunStatus, RunShutdown, RunOpen, RunRemote
<1>13. ShutdownInv'
  BY <1>12, ShutdownStepInv, ShutdownIdle DEF CommandsInv
<1> QED BY <1>5, <1>6, <1>7, <1>8, <1>9, <1>11, <1>13 DEF CommandsInv

\* The invariant holds in every state of every behaviour.
THEOREM CommandsInvariance == Spec => []CommandsInv
BY CommandsInitInv, CommandsStepInv, PTL DEF Spec

\* For any number of packets, and wherever the context ends: WakeDevice reports
\* success only when the packets are out by the right route and recorded, and the
\* history has nothing that did not happen.
THEOREM WakesAreToldTruly == Spec => []WakeIsToldTruly
<1>1. CommandsInv => WakeIsToldTruly
  BY NoneIsNothing DEF CommandsInv, WakeInv, WakeTypeOK, Unsent, OnRoute, Counted, RecordedOnce,
     WakeIsToldTruly, Wake!WakeIsToldTruly, Wake!Attempt
<1> QED BY <1>1, CommandsInvariance, PTL

\* For any number of ports: whichever goroutine is cut short, a port that answered
\* makes the machine online, and nothing else but a ping does.
THEOREM VerdictsAreEvidence == Spec => []VerdictIsEvidence
<1>1. CommandsInv => VerdictIsEvidence
  BY DEF CommandsInv, StatusInv, VerdictIsEvidence
<1> QED BY <1>1, CommandsInvariance, PTL

\* For any number of updates, crashes and failures at once, wol is on the disk.
THEOREM ProgramAlwaysSurvives == Spec => []ProgramSurvives
<1>1. CommandsInv => ProgramSurvives
  BY DEF CommandsInv, UpdateInv, ProgramSurvives
<1> QED BY <1>1, CommandsInvariance, PTL

\* For any number of updates and any versions and releases: what is written is of one
\* published build, checked and for this platform, and by SemVer it is later than the
\* program that runs unless it was asked for.
THEOREM ReleasesAreChecked == Spec => []OneReleaseIsInstalled
<1>1. CommandsInv => OneReleaseIsInstalled
  BY ReleaseInvImplies DEF CommandsInv, OneReleaseIsInstalled
<1> QED BY <1>1, CommandsInvariance, PTL

\* For any number of processes that open an old inventory at once, any of which may
\* crash between two statements: no profile and no setting is lost.
THEOREM UpgradesLoseNothing == Spec => []UpgradeLosesNothing
<1>1. CommandsInv => UpgradeLosesNothing
  BY SchemaInvImplies DEF CommandsInv, UpgradeLosesNothing
<1> QED BY <1>1, CommandsInvariance, PTL

\* For a line of any length: whatever is sent to a machine is what the flags on it
\* ask for, before or behind the machine, and success means that it was told.
THEOREM MachinesAreToldWhatWasAsked == Spec => []MachineIsToldWhatWasAsked
<1>1. CommandsInv => MachineIsToldWhatWasAsked
  BY ShutdownInvImplies DEF CommandsInv, MachineIsToldWhatWasAsked
<1> QED BY <1>1, CommandsInvariance, PTL

\* For any number of tabs and browsers, one browser is let in and no sign-in
\* launches two pages.
THEOREM SignInsLaunchOnce == Spec => []SignInLaunchesOnce
<1>1. CommandsInv => SignInLaunchesOnce
  BY DEF CommandsInv, RemoteInv, OneBrowser, TokensInOrder, SignInLaunchesOnce, Remote!SignInLaunchesOnce
<1> QED BY <1>1, CommandsInvariance, PTL
=============================================================================

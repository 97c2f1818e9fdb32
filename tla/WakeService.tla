------------------------------ MODULE WakeService ------------------------------
(***************************************************************************)
(* WakeDevice (internal/wake): the route a machine is woken by, the        *)
(* packets that go out, the verification and the attempt that is recorded, *)
(* while the caller may stop waiting at any moment.                        *)
(***************************************************************************)
EXTENDS Naturals

CONSTANTS
    Relays,    \* relay routes
    Repeat,    \* magic packets of one wake, 3 unless asked otherwise
    None,
    Gone       \* the site of the machine has been deleted

VARIABLES
    machine,   \* [enabled, strategy, relay, broadcast, mac, address]
    site,      \* [relay, broadcast], Gone, or None when it has none
    enabled,   \* the relays that exist, and whether they are enabled
    options,   \* [force, verify]
    step,      \* where WakeDevice is
    waiting,   \* FALSE when the context has ended
    wire,      \* packets that have gone out, by "relay" or "broadcast"
    attempt,   \* the attempt being made: [kind, status, packets, verification]
    recorded,  \* the attempt in the store, or None
    answered,  \* the machine answered while it was verified
    result     \* "pending", "error" or "ok"

wakeVars == <<machine, site, enabled, options, step, waiting, wire, attempt, recorded, answered, result>>
wakeInput == <<machine, site, enabled, options>>

\* What the store, the router and the arguments say, as far as WakeDevice asks;
\* a broadcast address is valid, empty or not an IPv4 address.
Broadcasts == {"valid", "empty", "bad"}
Machine == [enabled : BOOLEAN, strategy : {"relay", "direct"}, relay : Relays \cup {None},
            broadcast : Broadcasts, mac : BOOLEAN, address : BOOLEAN]

Attempt == [kind : {None, "relay", "broadcast", "error"}, status : {None, "sending", "sent", "failed"},
            packets : Nat, verification : {"not_requested", "unavailable", "reachable", "timeout"}]
NoAttempt == [kind |-> None, status |-> None, packets |-> 0, verification |-> "not_requested"]

WakeInit ==
    /\ machine = None /\ site = None /\ enabled = None /\ options = None
    /\ step = "get" /\ waiting = TRUE
    /\ wire = [relay |-> 0, broadcast |-> 0]
    /\ attempt = NoAttempt
    /\ recorded = None /\ answered = FALSE /\ result = "pending"

-----------------------------------------------------------------------------
\* The machine's own setting, or the one of its site.
Inherit(own, none, ofSite) == IF own # none THEN own ELSE ofSite
HasSite(s) == s \notin {None, Gone}

\* The kind of route, or "error". A relay that is set but missing or disabled is
\* not passed over for a broadcast.
ResolveRoute(m, s, r) ==
    LET relay == Inherit(m.relay, None, IF HasSite(s) THEN s.relay ELSE None)
        destination == Inherit(m.broadcast, "empty", IF HasSite(s) THEN s.broadcast ELSE "empty")
    IN  CASE m.strategy = "relay" \/ relay # None ->
                IF relay # None /\ r[relay] = "enabled" THEN "relay" ELSE "error"
          [] OTHER -> IF destination = "bad" THEN "error" ELSE "broadcast"

\* Reading the machine, its site and its relay: what the store has of them is
\* found out here. A query whose context has ended fails.
Get ==
    /\ step = "get"
    /\ machine' \in Machine
    /\ site' \in [relay : Relays \cup {None}, broadcast : Broadcasts] \cup {Gone, None}
    /\ enabled' \in [Relays -> {"enabled", "disabled", "missing"}]
    /\ options' \in [force : BOOLEAN, verify : BOOLEAN]
    /\ step' = "resolve"
    /\ UNCHANGED <<waiting, wire, attempt, recorded, answered, result>>

\* There is no such machine: nothing is recorded.
NotFound ==
    /\ step = "get"
    /\ step' = "end" /\ result' = "error"
    /\ UNCHANGED <<wakeInput, waiting, wire, attempt, recorded, answered>>

Resolve ==
    /\ step = "resolve"
    /\ LET kind == ResolveRoute(machine, site, enabled)
           ready == waiting /\ (machine.enabled \/ options.force) /\ kind # "error" /\ machine.mac
       IN  /\ step' = IF ready THEN kind ELSE "record"
           /\ attempt' = [NoAttempt EXCEPT !.kind = kind, !.status = IF ready THEN "sending" ELSE "failed"]
    /\ UNCHANGED <<wakeInput, waiting, wire, recorded, answered, result>>

\* wol.Send: the next packet; between two it looks at the context and waits.
SendPacket ==
    /\ step = "broadcast" /\ waiting /\ attempt.packets < Repeat
    /\ wire' = [wire EXCEPT !.broadcast = @ + 1]
    /\ attempt' = [attempt EXCEPT !.packets = @ + 1]
    /\ UNCHANGED step
    /\ UNCHANGED <<wakeInput, waiting, recorded, answered, result>>

\* All packets are out, or the socket or the context has failed.
SendEnds ==
    /\ step = "broadcast"
    /\ \/ /\ attempt.packets = Repeat
          /\ attempt' = [attempt EXCEPT !.status = "sent"]
          /\ step' = IF options.verify THEN "verify" ELSE "record"
       \/ /\ attempt.packets < Repeat
          /\ attempt' = [attempt EXCEPT !.status = "failed"]
          /\ step' = "record"
    /\ UNCHANGED <<wakeInput, waiting, wire, recorded, answered, result>>

\* SendEtherwake: ssh ends well, or fails or is cut, whatever the router has done.
RelayWakes ==
    /\ step = "relay"
    /\ \/ /\ waiting
          /\ wire' = [wire EXCEPT !.relay = 1]
          /\ attempt' = [attempt EXCEPT !.status = "sent", !.packets = 1]
          /\ step' = IF options.verify THEN "verify" ELSE "record"
       \/ /\ wire' \in {wire, [wire EXCEPT !.relay = 1]}
          /\ attempt' = [attempt EXCEPT !.status = "failed"]
          /\ step' = "record"
    /\ UNCHANGED <<wakeInput, waiting, recorded, answered, result>>

\* WaitForTCP: the machine answers, or the time or the context is over.
Verify ==
    /\ step = "verify"
    /\ \/ ~machine.address /\ attempt' = [attempt EXCEPT !.verification = "unavailable"] /\ UNCHANGED answered
       \/ /\ machine.address /\ waiting
          /\ answered' = TRUE
          /\ attempt' = [attempt EXCEPT !.verification = "reachable"]
       \/ machine.address /\ attempt' = [attempt EXCEPT !.verification = "timeout"] /\ UNCHANGED answered
    /\ step' = "record"
    /\ UNCHANGED <<wakeInput, waiting, wire, recorded, result>>

\* Variant: a wake that is not recorded is a wake all the same.
RecordIfPossible ==
    /\ step = "record"
    /\ recorded' \in {None} \cup (IF waiting THEN {attempt} ELSE {})
    /\ result' = IF attempt.status = "sent" THEN "ok" ELSE "error"
    /\ step' = "end"
    /\ UNCHANGED <<wakeInput, waiting, wire, attempt, answered>>

\* RecordWakeAttempt; the error of the store goes before that of the wake.
Record ==
    /\ step = "record"
    /\ \/ waiting /\ recorded' = attempt /\ result' = (IF attempt.status = "sent" THEN "ok" ELSE "error")
       \/ UNCHANGED recorded /\ result' = "error"
    /\ step' = "end"
    /\ UNCHANGED <<wakeInput, waiting, wire, attempt, answered>>

\* The caller's context ends: an action is cancelled, or its time is over.
StopWaiting ==
    /\ waiting /\ step \notin {"get", "end"}
    /\ waiting' = FALSE
    /\ UNCHANGED <<wakeInput, step, wire, attempt, recorded, answered, result>>

WakeNext ==
    \/ Get \/ NotFound \/ Resolve \/ SendPacket \/ SendEnds \/ RelayWakes \/ Verify \/ Record \/ StopWaiting

-----------------------------------------------------------------------------
\* Does anything say that this machine is woken by a relay?
BehindRelay ==
    machine.strategy = "relay" \/ machine.relay # None \/ (HasSite(site) /\ site.relay # None)

\* What WakeDevice says is true, wherever the caller stops waiting: success means
\* that every packet has gone out by the route the machine has, one behind a
\* relay never by a broadcast, and that the history says so; the history has no
\* packet that did not go out, and no machine reachable that did not answer.
WakeIsToldTruly ==
    /\ result = "ok" =>
        /\ recorded # None /\ recorded.status = "sent"
        /\ wire[recorded.kind] = recorded.packets
        /\ recorded.kind = "broadcast" => wire.broadcast = Repeat
    /\ step = "end" /\ recorded # None =>
        /\ recorded.packets <= wire.relay + wire.broadcast
        /\ recorded.verification = "reachable" <=> answered
        /\ recorded.status = "sent" <=> result = "ok"
    /\ wire.broadcast > 0 => ~BehindRelay
    /\ wire.relay > 0 => BehindRelay
=============================================================================

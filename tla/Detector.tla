-------------------------------- MODULE Detector --------------------------------
(***************************************************************************)
(* Detector.Probe (internal/presence): the port of the machine, a sweep of *)
(* common ports by one goroutine each, a ping and the neighbour table, and *)
(* the verdict, while the caller may stop waiting and the time may run out.*)
(***************************************************************************)
EXTENDS Naturals, FiniteSets

CONSTANTS
    Ports,      \* the ports of the sweep
    None

VARIABLES
    stage,      \* where Probe is
    over,       \* {"probe"} once its time has run out, {"probe", "caller"} once the caller stops
    port,       \* port[p]: where the goroutine of p is
    answer,     \* answer[p]: what its dial ended with
    found,      \* the hit of the sweep cancels the others: sweepCtx
    results,    \* results[p]: p has sent its answer to the channel
    attempted,  \* some dial was counted, and all counted so far met no way to the host
    unreachable,
    verdict,    \* [status, method], or None
    heard       \* history: the machine answered something that was asked

detectorVars == <<stage, over, port, answer, found, results, attempted, unreachable, verdict, heard>>
goroutines == <<port, answer, found, results>>
counts == <<attempted, unreachable>>

\* A connection is made or refused, there is no way to the host, or nothing has
\* come back when the time or the context is over; one that is over may find the
\* connection made all the same.
Answers == {"answered", "unreachable", "silent"}

DetectorInit ==
    /\ stage = "begin" /\ over = {}
    /\ port = [p \in Ports |-> "new"]
    /\ answer = [p \in Ports |-> None]
    /\ found = FALSE /\ results = {}
    /\ attempted = FALSE /\ unreachable = TRUE
    /\ verdict = None /\ heard = FALSE

Decide(status, method) == verdict' = [status |-> status, method |-> method] /\ stage' = "end"

\* An address that cannot be probed is unknown; otherwise the port of the
\* machine is asked first, if it has one.
Begin ==
    /\ stage = "begin"
    /\ \/ stage' \in {"verify", "sweep"} /\ UNCHANGED verdict
       \/ Decide("unknown", "none")
    /\ UNCHANGED <<over, goroutines, counts, heard>>

VerifyDial ==
    /\ stage = "verify"
    /\ \E a \in Answers :
        /\ heard' = (heard \/ a = "answered")
        /\ attempted' = TRUE
        /\ unreachable' = (unreachable /\ a = "unreachable")
        /\ IF a = "answered" THEN Decide("online", "tcp_verify") ELSE stage' = "sweep" /\ UNCHANGED verdict
    /\ UNCHANGED <<over, goroutines>>

-----------------------------------------------------------------------------
(* sweepTCP.                                                               *)

SweepOver == found \/ over # {}

\* A goroutine looks at the context, dials, and cancels the others if it is
\* answered.
Start(p) ==
    /\ stage = "sweep" /\ port[p] = "new"
    /\ port' = [port EXCEPT ![p] = IF SweepOver THEN "gone" ELSE "dial"]
    /\ UNCHANGED <<stage, over, answer, found, results, counts, verdict, heard>>

Dial(p) ==
    /\ stage = "sweep" /\ port[p] = "dial"
    /\ \E a \in Answers :
        /\ answer' = [answer EXCEPT ![p] = a]
        /\ heard' = (heard \/ a = "answered")
        /\ found' = (found \/ a = "answered")
    /\ port' = [port EXCEPT ![p] = "send"]
    /\ UNCHANGED <<stage, over, results, counts, verdict>>

\* Variant: with the sweep over, an answer is not waited with.
SendUnlessOver(p) ==
    /\ stage = "sweep" /\ port[p] = "send"
    /\ results' \in IF SweepOver THEN {results, results \cup {p}} ELSE {results \cup {p}}
    /\ port' = [port EXCEPT ![p] = "gone"]
    /\ UNCHANGED <<stage, over, answer, found, counts, verdict, heard>>

\* The channel has room for all; with the sweep over, select may drop the
\* result, but not one that is a hit.
Send(p) ==
    /\ stage = "sweep" /\ port[p] = "send"
    /\ results' \in IF SweepOver /\ answer[p] # "answered" THEN {results, results \cup {p}} ELSE {results \cup {p}}
    /\ port' = [port EXCEPT ![p] = "gone"]
    /\ UNCHANGED <<stage, over, answer, found, counts, verdict, heard>>

\* All are gone and the channel is closed and read.
Swept ==
    /\ stage = "sweep" /\ \A p \in Ports : port[p] = "gone"
    /\ IF \E p \in results : answer[p] = "answered"
       THEN Decide("online", "tcp_sweep") /\ UNCHANGED counts
       ELSE /\ attempted' = (attempted \/ results # {})
            /\ unreachable' = (unreachable /\ \A p \in results : answer[p] = "unreachable")
            /\ stage' = "ping" /\ UNCHANGED verdict
    /\ UNCHANGED <<over, goroutines, heard>>

\* Without time there is no sweep.
SkipSweep ==
    /\ stage = "sweep" /\ over # {} /\ \A p \in Ports : port[p] = "new"
    /\ stage' = "ping"
    /\ UNCHANGED <<over, goroutines, counts, verdict, heard>>

-----------------------------------------------------------------------------
\* No dial has found a way to the host; one at least was tried.
Unreachable == attempted /\ unreachable

\* The ping, and the neighbour table when no dial has left this computer.
Ping ==
    /\ stage = "ping"
    /\ \/ over = {} /\ heard' = TRUE /\ Decide("online", "icmp")
       \/ stage' = "verdict" /\ UNCHANGED <<verdict, heard>>
    /\ UNCHANGED <<over, goroutines, counts>>

Verdict ==
    /\ stage = "verdict"
    /\ \/ Unreachable /\ over = {} /\ Decide("unknown", "arp")
       \/ Unreachable /\ Decide("unknown", "none")
       \/ ~Unreachable /\ "caller" \in over /\ Decide("unknown", "none")
       \/ ~Unreachable /\ "caller" \notin over /\ Decide("offline", "none")
    /\ UNCHANGED <<over, goroutines, counts, heard>>

\* The time of the probe runs out, or the caller stops waiting.
TimeOut ==
    /\ over = {} /\ stage \notin {"begin", "end"}
    /\ over' = {"probe"}
    /\ UNCHANGED <<stage, goroutines, counts, verdict, heard>>

StopWaiting ==
    /\ "caller" \notin over /\ stage \notin {"begin", "end"}
    /\ over' = {"probe", "caller"}
    /\ UNCHANGED <<stage, goroutines, counts, verdict, heard>>

DetectorNext ==
    \/ Begin \/ VerifyDial \/ Swept \/ SkipSweep \/ Ping \/ Verdict \/ TimeOut \/ StopWaiting
    \/ \E p \in Ports : Start(p) \/ Dial(p) \/ Send(p)

-----------------------------------------------------------------------------
\* A verdict rests on what was seen: a machine is online if and only if something
\* answered, no answer of a port is lost when the sweep is cut short by another
\* or by the time, and it is offline only when the caller has waited for the
\* probe to end (docs: "Unknown is not offline"; an entry of the neighbour table
\* is not reachability).
VerdictIsEvidence ==
    stage = "end" =>
        /\ verdict.status = "online" <=> heard
        /\ verdict.status = "offline" => "caller" \notin over
        /\ verdict.method = "arp" => verdict.status = "unknown" /\ attempted /\ unreachable
=============================================================================

--------------------------- MODULE FleetContract ---------------------------
(***************************************************************************)
(* What fleet.Run promises its callers, without goroutines, queues or      *)
(* semaphores: every machine is operated on at most once, within the       *)
(* limits, and is reported exactly once; cancelling turns the machines     *)
(* that are still queued into "cancelled" ones and never begins another;   *)
(* the results end when all of them have been reported.                    *)
(***************************************************************************)
EXTENDS Integers, FiniteSets

CONSTANTS
    Devices,    \* the machines of the request
    SiteOf,     \* the site of each
    Limit,      \* operations in flight, over all sites
    SiteLimit,  \* SiteLimit[s]: operations in flight at site s
    Outcomes,   \* what an operation can end with
    Cancelled   \* what a machine ends with whose operation never began

VARIABLES
    fate,       \* fate[d]: "queued", "running", an outcome or Cancelled
    reported,   \* the machines whose result has been handed over
    ended,      \* no result will follow
    cancelled   \* the caller has cancelled the request

vars == <<fate, reported, ended, cancelled>>

InFlight == {d \in Devices : fate[d] = "running"}

Init ==
    /\ fate = [d \in Devices |-> "queued"]
    /\ reported = {}
    /\ ended = FALSE
    /\ cancelled = FALSE

Begin(d) ==
    /\ ~cancelled
    /\ fate[d] = "queued"
    /\ Cardinality(InFlight) < Limit
    /\ Cardinality({e \in InFlight : SiteOf[e] = SiteOf[d]}) < SiteLimit[SiteOf[d]]
    /\ fate' = [fate EXCEPT ![d] = "running"]
    /\ UNCHANGED <<reported, ended, cancelled>>

Complete(d) ==
    /\ fate[d] = "running"
    /\ \E o \in Outcomes : fate' = [fate EXCEPT ![d] = o]
    /\ UNCHANGED <<reported, ended, cancelled>>

Skip(d) ==
    /\ cancelled
    /\ fate[d] = "queued"
    /\ fate' = [fate EXCEPT ![d] = Cancelled]
    /\ UNCHANGED <<reported, ended, cancelled>>

Report(d) ==
    /\ fate[d] \in Outcomes \cup {Cancelled}
    /\ d \notin reported
    /\ reported' = reported \cup {d}
    /\ UNCHANGED <<fate, ended, cancelled>>

End ==
    /\ reported = Devices
    /\ ~ended
    /\ ended' = TRUE
    /\ UNCHANGED <<fate, reported, cancelled>>

Cancel ==
    /\ ~cancelled
    /\ cancelled' = TRUE
    /\ UNCHANGED <<fate, reported, ended>>

Next ==
    \/ \E d \in Devices : Begin(d) \/ Complete(d) \/ Skip(d) \/ Report(d)
    \/ End
    \/ Cancel

Spec == Init /\ [][Next]_vars

=============================================================================

--------------------------- MODULE PresenceCache ---------------------------
(***************************************************************************)
(* presence.Cache (internal/presence/cache.go): goroutines that resolve    *)
(* the presence of a machine through a cache with a time to live, sharing  *)
(* one probe among those that ask for the same key at the same time.       *)
(*                                                                         *)
(* A caller is one call of Resolve; a probe's result is named by the       *)
(* caller that ran it, and so is the cacheCall the others wait on. Time is *)
(* the action Expire. A nil cache and the empty key, which bypass          *)
(* everything, are left out.                                               *)
(***************************************************************************)
EXTENDS Integers, FiniteSets

CONSTANTS
    Callers,       \* the calls of Resolve
    Keys,          \* the cache keys
    KeyOf,         \* KeyOf[c]: the key call c asks for
    Forced,        \* the calls made with force
    Mortal,        \* the calls whose context may be cancelled
    MaxEvictions,  \* bound on the expiries and invalidations in a behaviour
    None           \* no entry, no call in flight, no outcome

Failed == "context error"

ASSUME CacheAssumption ==
    /\ IsFiniteSet(Callers)
    /\ KeyOf \in [Callers -> Keys]
    /\ Forced \subseteq Callers
    /\ Mortal \subseteq Callers
    /\ MaxEvictions \in Nat
    /\ None \notin Callers \cup {Failed} /\ Failed \notin Callers

VARIABLES
    entries,    \* entries[k]: the cached result of k, or None
    expired,    \* expired[k]: the entry of k is past its expiry time
    inFlight,   \* inFlight[k]: the call registered as running for k, or None
    pc,         \* pc[c]: where call c is in Resolve
    joined,     \* joined[c]: the call that c waits on, or None
    outcome,    \* outcome[c]: a result, Failed, or None while c runs
    done,       \* the calls whose cacheCall is closed
    shared,     \* shared[c]: the outcome stored in c's cacheCall
    cancelled,  \* the calls whose context is done
    spoilt,     \* history: probes whose context was done when they ended
    evictions   \* expiries and invalidations so far

vars == <<entries, expired, inFlight, pc, joined, outcome, done, shared,
          cancelled, spoilt, evictions>>

Init ==
    /\ entries = [k \in Keys |-> None]
    /\ expired = [k \in Keys |-> FALSE]
    /\ inFlight = [k \in Keys |-> None]
    /\ pc = [c \in Callers |-> "get"]
    /\ joined = [c \in Callers |-> None]
    /\ outcome = [c \in Callers |-> None]
    /\ done = {}
    /\ shared = [c \in Callers |-> None]
    /\ cancelled = {}
    /\ spoilt = {}
    /\ evictions = 0

Goto(c, from, to) == pc[c] = from /\ pc' = [pc EXCEPT ![c] = to]

Return(c, o) == outcome' = [outcome EXCEPT ![c] = o]

Usable(c) == c \notin Forced /\ entries[KeyOf[c]] # None /\ ~expired[KeyOf[c]]

(* Variants, none of them part of the specification: plausible mistakes,   *)
(* each of which breaks a property below, as PROJECT.json records.         *)

\* A forced call does not look for one in flight.
LeadIfForced(c) ==
    /\ inFlight[KeyOf[c]] = None \/ c \in Forced
    /\ Goto(c, "flight", "probing")
    /\ inFlight' = [inFlight EXCEPT ![KeyOf[c]] = c]
    /\ UNCHANGED <<entries, expired, joined, outcome, done, shared, cancelled, spoilt, evictions>>

\* The result of an aborted probe is kept.
ProbeEndsUnchecked(c) ==
    /\ Goto(c, "probing", "set")
    /\ spoilt' = IF c \in cancelled THEN spoilt \cup {c} ELSE spoilt
    /\ UNCHANGED <<entries, expired, inFlight, joined, outcome, done, shared, cancelled, evictions>>

\* The error path returns without closing call.done.
UnregisterQuietly(c) ==
    /\ pc[c] \in {"unregister", "failed"}
    /\ LET o == IF pc[c] = "failed" THEN Failed ELSE c
       IN  shared' = [shared EXCEPT ![c] = o] /\ Return(c, o)
    /\ pc' = [pc EXCEPT ![c] = "returned"]
    /\ inFlight' = [inFlight EXCEPT ![KeyOf[c]] = None]
    /\ done' = IF pc[c] = "failed" THEN done ELSE done \cup {c}
    /\ UNCHANGED <<entries, expired, joined, cancelled, spoilt, evictions>>

-----------------------------------------------------------------------------
\* Get finds a fresh entry: Resolve returns it.
GetHit(c) ==
    /\ Usable(c)
    /\ Goto(c, "get", "returned")
    /\ Return(c, entries[KeyOf[c]])
    /\ UNCHANGED <<entries, expired, inFlight, joined, done, shared, cancelled, spoilt, evictions>>

\* Get finds none; without force it also drops an expired entry.
GetMiss(c) ==
    /\ ~Usable(c)
    /\ Goto(c, "get", "flight")
    /\ entries' = IF c \notin Forced THEN [entries EXCEPT ![KeyOf[c]] = None] ELSE entries
    /\ UNCHANGED <<expired, inFlight, joined, outcome, done, shared, cancelled, spoilt, evictions>>

\* A call is in flight for the key: wait for it.
Join(c) ==
    /\ inFlight[KeyOf[c]] # None
    /\ Goto(c, "flight", "waiting")
    /\ joined' = [joined EXCEPT ![c] = inFlight[KeyOf[c]]]
    /\ UNCHANGED <<entries, expired, inFlight, outcome, done, shared, cancelled, spoilt, evictions>>

\* None is: register this one and run the probe.
Lead(c) ==
    /\ inFlight[KeyOf[c]] = None
    /\ Goto(c, "flight", "probing")
    /\ inFlight' = [inFlight EXCEPT ![KeyOf[c]] = c]
    /\ UNCHANGED <<entries, expired, joined, outcome, done, shared, cancelled, spoilt, evictions>>

\* select, case <-call.done
WaitDone(c) ==
    /\ joined[c] \in done
    /\ Goto(c, "waiting", "returned")
    /\ Return(c, shared[joined[c]])
    /\ UNCHANGED <<entries, expired, inFlight, joined, done, shared, cancelled, spoilt, evictions>>

\* select, case <-ctx.Done()
WaitCancelled(c) ==
    /\ c \in cancelled
    /\ Goto(c, "waiting", "returned")
    /\ Return(c, Failed)
    /\ UNCHANGED <<entries, expired, inFlight, joined, done, shared, cancelled, spoilt, evictions>>

\* The probe has returned; under a done context its result is not kept.
ProbeEnds(c) ==
    /\ Goto(c, "probing", IF c \in cancelled THEN "failed" ELSE "set")
    /\ spoilt' = IF c \in cancelled THEN spoilt \cup {c} ELSE spoilt
    /\ UNCHANGED <<entries, expired, inFlight, joined, outcome, done, shared, cancelled, evictions>>

Set(c) ==
    /\ Goto(c, "set", "unregister")
    /\ entries' = [entries EXCEPT ![KeyOf[c]] = c]
    /\ expired' = [expired EXCEPT ![KeyOf[c]] = FALSE]
    /\ UNCHANGED <<inFlight, joined, outcome, done, shared, cancelled, spoilt, evictions>>

\* The deferred function: publish the outcome, leave inFlight, wake the others.
Unregister(c) ==
    /\ pc[c] \in {"unregister", "failed"}
    /\ LET o == IF pc[c] = "failed" THEN Failed ELSE c
       IN  shared' = [shared EXCEPT ![c] = o] /\ Return(c, o)
    /\ pc' = [pc EXCEPT ![c] = "returned"]
    /\ inFlight' = [inFlight EXCEPT ![KeyOf[c]] = None]
    /\ done' = done \cup {c}
    /\ UNCHANGED <<entries, expired, joined, cancelled, spoilt, evictions>>

ResolveStep(c) ==
    \/ GetHit(c) \/ GetMiss(c) \/ Join(c) \/ Lead(c) \/ WaitDone(c)
    \/ WaitCancelled(c) \/ ProbeEnds(c) \/ Set(c) \/ Unregister(c)

\* The entry's expiry time passes.
Expire(k) ==
    /\ evictions < MaxEvictions
    /\ entries[k] # None /\ ~expired[k]
    /\ expired' = [expired EXCEPT ![k] = TRUE]
    /\ evictions' = evictions + 1
    /\ UNCHANGED <<entries, inFlight, pc, joined, outcome, done, shared, cancelled, spoilt>>

Invalidate(k) ==
    /\ evictions < MaxEvictions
    /\ entries' = [entries EXCEPT ![k] = None]
    /\ evictions' = evictions + 1
    /\ UNCHANGED <<expired, inFlight, pc, joined, outcome, done, shared, cancelled, spoilt>>

CancelCaller(c) ==
    /\ c \in Mortal \ cancelled
    /\ pc[c] # "returned"
    /\ cancelled' = cancelled \cup {c}
    /\ UNCHANGED <<entries, expired, inFlight, pc, joined, outcome, done, shared, spoilt, evictions>>

Next ==
    \/ \E c \in Callers : ResolveStep(c) \/ CancelCaller(c)
    \/ \E k \in Keys : Expire(k) \/ Invalidate(k)

Spec == Init /\ [][Next]_vars

\* Goroutines run, and a probe is bounded by its timeout.
Fairness == \A c \in Callers : WF_vars(ResolveStep(c))

FairSpec == Spec /\ Fairness

-----------------------------------------------------------------------------
TypeOK ==
    /\ entries \in [Keys -> Callers \cup {None}]
    /\ expired \in [Keys -> BOOLEAN]
    /\ inFlight \in [Keys -> Callers \cup {None}]
    /\ pc \in [Callers -> {"get", "flight", "waiting", "probing", "set", "failed", "unregister", "returned"}]
    /\ joined \in [Callers -> Callers \cup {None}]
    /\ outcome \in [Callers -> Callers \cup {None, Failed}]
    /\ shared \in [Callers -> Callers \cup {None, Failed}]
    /\ done \subseteq Callers /\ cancelled \subseteq Mortal
    /\ spoilt \subseteq Callers
    /\ evictions \in 0 .. MaxEvictions

\* "Concurrent callers still share one network operation": however calls with
\* and without force, cancellations, expiries and invalidations interleave, at
\* most one probe of a key runs at any time.
OneProbeAtATime ==
    \A c, e \in Callers :
        pc[c] = "probing" /\ pc[e] = "probing" /\ KeyOf[c] = KeyOf[e] => c = e

\* A result that is cached, or returned to any caller, is that of a probe of
\* the caller's own key which ended before its context did: an aborted probe,
\* whose status says nothing, never spreads. An error is returned only to a
\* caller whose own context is done, or that shared an aborted probe.
OnlySoundResultsSpread ==
    /\ \A k \in Keys : entries[k] # None => KeyOf[entries[k]] = k /\ entries[k] \notin spoilt
    /\ \A c \in Callers :
          outcome[c] \in Callers => KeyOf[outcome[c]] = KeyOf[c] /\ outcome[c] \notin spoilt
    /\ \A c \in Callers :
          outcome[c] = Failed => c \in cancelled \/ (joined[c] # None /\ joined[c] \in spoilt)

\* What the probe of c has ended with, published or not.
VerdictOf(c) == IF pc[c] \in {"set", "unregister"} THEN c
                ELSE IF pc[c] = "failed" THEN Failed ELSE shared[c]

Contract == INSTANCE CacheContract WITH
    flight <- inFlight,
    verdict <- [c \in Callers |-> VerdictOf(c)],
    kept <- [k \in Keys |-> IF expired[k] THEN None ELSE entries[k]],
    follows <- joined,
    answer <- outcome,
    left <- cancelled

\* The cache keeps its contract: a call is answered by the probe it led or
\* followed or, unless it was forced, by a result that is kept; forced or not, it
\* leads no probe while another of its key is in flight; what a probe says to
\* its own caller, to its followers and to the cache is the same; it is kept only
\* while the probe is in flight, so that no older result replaces a newer one.
ImplementsCacheContract == Contract!Spec

\* Every call returns: no follower is left waiting on a call that is over.
EveryCallReturns == \A c \in Callers : <>(pc[c] = "returned")

=============================================================================

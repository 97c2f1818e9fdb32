------------------------------ MODULE CacheProofs ------------------------------
(* Theorems about presence.Cache for any number of callers and keys.       *)
EXTENDS PresenceCache, TLAPS

-----------------------------------------------------------------------------
(* The inductive invariant. What the properties say of results is not kept *)
(* by every step as it stands: a probe must not be able to be spoilt after *)
(* its result has spread, and that depends on where its call is.           *)

\* The call that leads a key is the one registered for it.
Leads(c) == pc[c] \in {"probing", "set", "failed", "unregister"}

Flight ==
    /\ \A c \in Callers : Leads(c) <=> inFlight[KeyOf[c]] = c
    /\ \A k \in Keys : inFlight[k] # None => KeyOf[inFlight[k]] = k

\* The probe of c has ended in time: nothing can spoil it any more.
Settled(c) == c \notin spoilt /\ pc[c] \in {"unregister", "returned"}

\* A spoilt probe is one whose context was done when it ended.
SpoiltIsKnown ==
    /\ \A c \in spoilt : c \in cancelled /\ pc[c] \in {"failed", "returned"}
    /\ \A c \in Callers : pc[c] = "failed" => c \in spoilt

\* What is cached, shared or returned is the result of a settled probe.
EntriesSettled == \A k \in Keys : entries[k] # None => KeyOf[entries[k]] = k /\ Settled(entries[k])

SharedSettled ==
    /\ \A c \in Callers : shared[c] \in Callers => shared[c] = c /\ Settled(c)
    /\ \A c \in Callers : shared[c] = Failed => c \in spoilt
    /\ \A c \in Callers : joined[c] # None => KeyOf[joined[c]] = KeyOf[c]

OutcomesSettled ==
    /\ \A c \in Callers :
          outcome[c] \in Callers => KeyOf[outcome[c]] = KeyOf[c] /\ Settled(outcome[c])
    /\ \A c \in Callers :
          outcome[c] = Failed => c \in cancelled \/ (joined[c] # None /\ joined[c] \in spoilt)
    /\ \A c \in Callers : pc[c] # "returned" => outcome[c] = None
    /\ \A c \in Callers : pc[c] = "waiting" => joined[c] # None

CacheInv ==
    /\ TypeOK /\ Flight /\ SpoiltIsKnown /\ EntriesSettled /\ SharedSettled /\ OutcomesSettled

\* Nobody has asked for anything yet.
LEMMA InitInv == Init => CacheInv
BY CacheAssumption DEF Init, CacheAssumption, CacheInv, TypeOK, Flight, Leads, SpoiltIsKnown,
   EntriesSettled, SharedSettled, OutcomesSettled

-----------------------------------------------------------------------------
(* One lemma for each action.                                              *)

\* What is returned is the entry.
LEMMA GetHitInv ==
    ASSUME CacheInv, NEW c \in Callers, GetHit(c)
    PROVE  CacheInv'
<1> USE CacheAssumption DEF CacheAssumption, CacheInv, TypeOK, GetHit, Goto, Return
<1>1. TypeOK'
  OBVIOUS
<1>2. Flight'
  BY DEF Flight, Leads
<1>3. SpoiltIsKnown'
  BY DEF SpoiltIsKnown
<1>4. EntriesSettled'
  BY DEF EntriesSettled, Settled
<1>5. SharedSettled'
  BY DEF SharedSettled, Settled
<1>6. OutcomesSettled'
  <2>1. entries[KeyOf[c]] \in Callers /\ KeyOf[entries[KeyOf[c]]] = KeyOf[c] /\ Settled(entries[KeyOf[c]])
    BY DEF EntriesSettled, Usable
  <2>2. Settled(entries[KeyOf[c]])'
    BY <2>1 DEF Settled
  <2>3. \A x \in Callers : outcome'[x] = IF x = c THEN entries[KeyOf[c]] ELSE outcome[x]
    OBVIOUS
  <2>4. \A x \in Callers : Settled(x) => Settled(x)'
    BY DEF Settled
  <2>5. \A x \in Callers \ {c} : pc'[x] = pc[x]
    OBVIOUS
  <2>6. pc'[c] = "returned"
    OBVIOUS
  <2> QED BY <2>1, <2>2, <2>3, <2>4, <2>5, <2>6 DEF OutcomesSettled
<1> QED BY <1>1, <1>2, <1>3, <1>4, <1>5, <1>6

\* An entry may be dropped.
LEMMA GetMissInv ==
    ASSUME CacheInv, NEW c \in Callers, GetMiss(c)
    PROVE  CacheInv'
<1> USE CacheAssumption DEF CacheAssumption, CacheInv, TypeOK, GetMiss, Goto
<1>1. TypeOK'
  OBVIOUS
<1>2. Flight'
  BY DEF Flight, Leads
<1>3. SpoiltIsKnown'
  BY DEF SpoiltIsKnown
<1>4. EntriesSettled'
  BY DEF EntriesSettled, Settled, SpoiltIsKnown
<1>5. SharedSettled'
  BY DEF SharedSettled, Settled
<1>6. OutcomesSettled'
  BY DEF OutcomesSettled, Settled
<1> QED BY <1>1, <1>2, <1>3, <1>4, <1>5, <1>6

\* The call waited for is of the same key.
LEMMA JoinInv ==
    ASSUME CacheInv, NEW c \in Callers, Join(c)
    PROVE  CacheInv'
<1> USE CacheAssumption DEF CacheAssumption, CacheInv, TypeOK, Join, Goto
<1>1. TypeOK'
  OBVIOUS
<1>2. Flight'
  BY DEF Flight, Leads
<1>3. SpoiltIsKnown'
  BY DEF SpoiltIsKnown
<1>4. EntriesSettled'
  BY DEF EntriesSettled, Settled
<1>5. SharedSettled'
  <2>1. inFlight[KeyOf[c]] \in Callers /\ KeyOf[inFlight[KeyOf[c]]] = KeyOf[c]
    BY DEF Flight
  <2>2. \A x \in Callers : joined'[x] = IF x = c THEN inFlight[KeyOf[c]] ELSE joined[x]
    OBVIOUS
  <2>3. \A x \in Callers : Settled(x) => Settled(x)'
    BY DEF Settled
  <2> QED BY <2>1, <2>2, <2>3 DEF SharedSettled
<1>6. OutcomesSettled'
  BY DEF OutcomesSettled, Settled, SharedSettled
<1> QED BY <1>1, <1>2, <1>3, <1>4, <1>5, <1>6

\* No call led the key, so that this one is the only one that does.
LEMMA LeadInv ==
    ASSUME CacheInv, NEW c \in Callers, Lead(c)
    PROVE  CacheInv'
<1> USE CacheAssumption DEF CacheAssumption, CacheInv, TypeOK, Lead, Goto
<1>1. TypeOK'
  OBVIOUS
<1>2. Flight'
  <2>1. \A x \in Callers : KeyOf[x] = KeyOf[c] => ~Leads(x)
    BY DEF Flight
  <2>2. \A x \in Callers : Leads(x)' <=> x = c \/ Leads(x)
    BY DEF Leads
  <2>3. \A k \in Keys : inFlight'[k] = IF k = KeyOf[c] THEN c ELSE inFlight[k]
    OBVIOUS
  <2>4. \A x \in Callers : KeyOf[x] \in Keys
    OBVIOUS
  <2> QED BY <2>1, <2>2, <2>3, <2>4 DEF Flight
<1>3. SpoiltIsKnown'
  BY DEF SpoiltIsKnown
<1>4. EntriesSettled'
  BY DEF EntriesSettled, Settled
<1>5. SharedSettled'
  BY DEF SharedSettled, Settled
<1>6. OutcomesSettled'
  BY DEF OutcomesSettled, Settled
<1> QED BY <1>1, <1>2, <1>3, <1>4, <1>5, <1>6

\* What is returned is what the call waited for has published.
LEMMA WaitDoneInv ==
    ASSUME CacheInv, NEW c \in Callers, WaitDone(c)
    PROVE  CacheInv'
<1> USE CacheAssumption DEF CacheAssumption, CacheInv, TypeOK, WaitDone, Goto, Return
<1>1. TypeOK'
  OBVIOUS
<1>2. Flight'
  BY DEF Flight, Leads
<1>3. SpoiltIsKnown'
  BY DEF SpoiltIsKnown
<1>4. EntriesSettled'
  BY DEF EntriesSettled, Settled
<1>5. SharedSettled'
  BY DEF SharedSettled, Settled
<1>6. OutcomesSettled'
  BY DEF OutcomesSettled, Settled, SharedSettled
<1> QED BY <1>1, <1>2, <1>3, <1>4, <1>5, <1>6

\* The error is that of the caller's own context.
LEMMA WaitCancelledInv ==
    ASSUME CacheInv, NEW c \in Callers, WaitCancelled(c)
    PROVE  CacheInv'
<1> USE CacheAssumption DEF CacheAssumption, CacheInv, TypeOK, WaitCancelled, Goto, Return
<1>1. TypeOK'
  OBVIOUS
<1>2. Flight'
  BY DEF Flight, Leads
<1>3. SpoiltIsKnown'
  BY DEF SpoiltIsKnown
<1>4. EntriesSettled'
  BY DEF EntriesSettled, Settled
<1>5. SharedSettled'
  BY DEF SharedSettled, Settled
<1>6. OutcomesSettled'
  BY DEF OutcomesSettled, Settled
<1> QED BY <1>1, <1>2, <1>3, <1>4, <1>5, <1>6

\* Only a probe that is running can be spoilt, and none of those has settled.
LEMMA ProbeEndsInv ==
    ASSUME CacheInv, NEW c \in Callers, ProbeEnds(c)
    PROVE  CacheInv'
<1> USE CacheAssumption DEF CacheAssumption, CacheInv, TypeOK, ProbeEnds, Goto
<1>1. TypeOK'
  OBVIOUS
<1>2. Flight'
  BY DEF Flight, Leads
<1>3. SpoiltIsKnown'
  BY DEF SpoiltIsKnown
<1>4. EntriesSettled'
  BY DEF EntriesSettled, Settled, SpoiltIsKnown
<1>5. SharedSettled'
  BY DEF SharedSettled, Settled, SpoiltIsKnown
<1>6. OutcomesSettled'
  BY DEF OutcomesSettled, Settled, SpoiltIsKnown, SharedSettled
<1> QED BY <1>1, <1>2, <1>3, <1>4, <1>5, <1>6

\* A probe that was not spoilt settles with its entry.
LEMMA SetInv ==
    ASSUME CacheInv, NEW c \in Callers, Set(c)
    PROVE  CacheInv'
<1> USE CacheAssumption DEF CacheAssumption, CacheInv, TypeOK, Set, Goto
<1>1. TypeOK'
  OBVIOUS
<1>2. Flight'
  BY DEF Flight, Leads
<1>3. SpoiltIsKnown'
  BY DEF SpoiltIsKnown
<1>4. EntriesSettled'
  BY DEF EntriesSettled, Settled, SpoiltIsKnown
<1>5. SharedSettled'
  BY DEF SharedSettled, Settled
<1>6. OutcomesSettled'
  BY DEF OutcomesSettled, Settled
<1> QED BY <1>1, <1>2, <1>3, <1>4, <1>5, <1>6

\* What is published is the result, or the error of a spoilt probe.
LEMMA UnregisterInv ==
    ASSUME CacheInv, NEW c \in Callers, Unregister(c)
    PROVE  CacheInv'
<1> USE CacheAssumption DEF CacheAssumption, CacheInv, TypeOK, Unregister, Return
<1>1. TypeOK'
  OBVIOUS
<1>2. Flight'
  BY DEF Flight, Leads
<1>3. SpoiltIsKnown'
  BY DEF SpoiltIsKnown
<1>4. EntriesSettled'
  BY DEF EntriesSettled, Settled
<1>5. SharedSettled'
  BY DEF SharedSettled, Settled, SpoiltIsKnown
<1>6. OutcomesSettled'
  BY DEF OutcomesSettled, Settled, SpoiltIsKnown
<1> QED BY <1>1, <1>2, <1>3, <1>4, <1>5, <1>6

\* An entry past its time is the same entry.
LEMMA ExpireInv ==
    ASSUME CacheInv, NEW k \in Keys, Expire(k)
    PROVE  CacheInv'
<1> USE CacheAssumption DEF CacheAssumption, CacheInv, TypeOK, Expire
<1>1. TypeOK'
  OBVIOUS
<1>2. Flight'
  BY DEF Flight, Leads
<1>3. SpoiltIsKnown'
  BY DEF SpoiltIsKnown
<1>4. EntriesSettled'
  BY DEF EntriesSettled, Settled
<1>5. SharedSettled'
  BY DEF SharedSettled, Settled
<1>6. OutcomesSettled'
  BY DEF OutcomesSettled, Settled
<1> QED BY <1>1, <1>2, <1>3, <1>4, <1>5, <1>6

\* An entry may be dropped.
LEMMA InvalidateInv ==
    ASSUME CacheInv, NEW k \in Keys, Invalidate(k)
    PROVE  CacheInv'
<1> USE CacheAssumption DEF CacheAssumption, CacheInv, TypeOK, Invalidate
<1>1. TypeOK'
  OBVIOUS
<1>2. Flight'
  BY DEF Flight, Leads
<1>3. SpoiltIsKnown'
  BY DEF SpoiltIsKnown
<1>4. EntriesSettled'
  BY DEF EntriesSettled, Settled
<1>5. SharedSettled'
  BY DEF SharedSettled, Settled
<1>6. OutcomesSettled'
  BY DEF OutcomesSettled, Settled
<1> QED BY <1>1, <1>2, <1>3, <1>4, <1>5, <1>6

\* A context that ends spoils nothing by itself.
LEMMA CancelCallerInv ==
    ASSUME CacheInv, NEW c \in Callers, CancelCaller(c)
    PROVE  CacheInv'
<1> USE CacheAssumption DEF CacheAssumption, CacheInv, TypeOK, CancelCaller
<1>1. TypeOK'
  OBVIOUS
<1>2. Flight'
  BY DEF Flight, Leads
<1>3. SpoiltIsKnown'
  BY DEF SpoiltIsKnown
<1>4. EntriesSettled'
  BY DEF EntriesSettled, Settled
<1>5. SharedSettled'
  BY DEF SharedSettled, Settled
<1>6. OutcomesSettled'
  BY DEF OutcomesSettled, Settled
<1> QED BY <1>1, <1>2, <1>3, <1>4, <1>5, <1>6

-----------------------------------------------------------------------------
\* No step of any caller breaks the invariant.
LEMMA NextInv == CacheInv /\ [Next]_vars => CacheInv'
<1> SUFFICES ASSUME CacheInv, [Next]_vars PROVE CacheInv'
  OBVIOUS
<1>1. ASSUME NEW c \in Callers, ResolveStep(c) PROVE CacheInv'
  BY <1>1, GetHitInv, GetMissInv, JoinInv, LeadInv, WaitDoneInv, WaitCancelledInv, ProbeEndsInv,
     SetInv, UnregisterInv DEF ResolveStep
<1>2. ASSUME NEW c \in Callers, CancelCaller(c) PROVE CacheInv'
  BY <1>2, CancelCallerInv
<1>3. ASSUME NEW k \in Keys, Expire(k) \/ Invalidate(k) PROVE CacheInv'
  BY <1>3, ExpireInv, InvalidateInv
<1>4. CASE UNCHANGED vars
  BY <1>4 DEF vars, CacheInv, TypeOK, Flight, Leads, SpoiltIsKnown, EntriesSettled, Settled,
     SharedSettled, OutcomesSettled
<1> QED BY <1>1, <1>2, <1>3, <1>4 DEF Next

\* The invariant holds in every state of every behaviour.
THEOREM CacheInvariance == Spec => []CacheInv
BY InitInv, NextInv, PTL DEF Spec

\* The variables of the cache and of its callers keep their types.
THEOREM TypeCorrect == Spec => []TypeOK
<1>1. CacheInv => TypeOK
  BY DEF CacheInv
<1> QED BY <1>1, CacheInvariance, PTL

\* However many callers race, with force or without, at most one probe of a key
\* runs at any time: Resolve's two looks, into the cache and among the calls in
\* flight, are enough.
THEOREM ProbesAreShared == Spec => []OneProbeAtATime
<1>1. CacheInv => OneProbeAtATime
  BY DEF CacheInv, Flight, Leads, OneProbeAtATime
<1> QED BY <1>1, CacheInvariance, PTL

\* However many callers race, the result of a probe that was cut short is never
\* cached or returned, and an error is the caller's own or that of such a probe.
THEOREM AbortedProbesDoNotSpread == Spec => []OnlySoundResultsSpread
<1>1. CacheInv => OnlySoundResultsSpread
  BY DEF CacheInv, EntriesSettled, OutcomesSettled, Settled, OnlySoundResultsSpread
<1> QED BY <1>1, CacheInvariance, PTL
-----------------------------------------------------------------------------
(* The cache keeps its contract.                                           *)

\* A call that has not looked at the calls in flight follows none; a result is
\* published by a call that is over, and before its channel is closed.
Progress ==
    /\ \A c \in Callers : pc[c] \in {"get", "flight"} \/ Leads(c) => joined[c] = None
    /\ \A c \in Callers : shared[c] # None => pc[c] = "returned"
    /\ \A c \in done : shared[c] # None

ContractInv == CacheInv /\ Progress

\* The order of a call's steps is kept by every step.
LEMMA ProgressStep == ContractInv /\ [Next]_vars => Progress'
<1> SUFFICES ASSUME ContractInv, [Next]_vars PROVE Progress'
  OBVIOUS
<1> USE CacheAssumption DEF CacheAssumption, ContractInv, CacheInv, TypeOK, Progress, Leads
<1>1. ASSUME NEW c \in Callers, GetHit(c) \/ GetMiss(c) \/ Join(c) PROVE Progress'
  BY <1>1 DEF GetHit, GetMiss, Join, Goto
<1>2. ASSUME NEW c \in Callers, Lead(c) \/ WaitDone(c) \/ WaitCancelled(c) PROVE Progress'
  BY <1>2 DEF Lead, WaitDone, WaitCancelled, Goto
<1>3. ASSUME NEW c \in Callers, ProbeEnds(c) \/ Set(c) PROVE Progress'
  BY <1>3 DEF ProbeEnds, Set, Goto
<1>4. ASSUME NEW c \in Callers, Unregister(c) PROVE Progress'
  BY <1>4 DEF Unregister
<1>5. ASSUME NEW c \in Callers, CancelCaller(c) PROVE Progress'
  BY <1>5 DEF CancelCaller
<1>6. ASSUME NEW k \in Keys, Expire(k) \/ Invalidate(k) PROVE Progress'
  BY <1>6 DEF Expire, Invalidate
<1>7. CASE UNCHANGED vars
  BY <1>7 DEF vars
<1> QED BY <1>1, <1>2, <1>3, <1>4, <1>5, <1>6, <1>7 DEF Next, ResolveStep

\* What is proved of the cache's states holds in all of them.
LEMMA ContractInvariance == Spec => []ContractInv
<1>1. Init => Progress
  BY DEF Init, Progress, Leads
<1> QED BY <1>1, InitInv, NextInv, ProgressStep, PTL DEF Spec, ContractInv

\* What the contract calls kept, and the verdicts it reads off the calls.
Kept == [k \in Keys |-> IF expired[k] THEN None ELSE entries[k]]
Verdicts == [c \in Callers |-> VerdictOf(c)]

\* A call that has not found its key in flight is still asking.
LEMMA StillAsking ==
    ASSUME ContractInv, NEW c \in Callers, pc[c] \in {"get", "flight"}
    PROVE  Contract!Asking(c)
BY CacheAssumption DEF CacheAssumption, ContractInv, CacheInv, TypeOK, Progress, Leads, Flight,
   OutcomesSettled, VerdictOf, Contract!Asking

\* Looking into the cache answers the call or is not seen.
LEMMA GetImplements ==
    ASSUME ContractInv, NEW c \in Callers, GetHit(c) \/ GetMiss(c)
    PROVE  Contract!Hit(c) \/ UNCHANGED Contract!vars
<1> USE CacheAssumption DEF CacheAssumption, ContractInv, CacheInv, TypeOK, Goto
<1>1. Contract!Asking(c) /\ KeyOf[c] \in Keys
  BY StillAsking DEF GetHit, GetMiss
<1>2. \A x \in Callers : VerdictOf(x)' = VerdictOf(x)
  BY DEF GetHit, GetMiss, VerdictOf, Progress
<1>3. Verdicts' = Verdicts
  BY <1>2 DEF Verdicts
<1>4. CASE GetHit(c)
  <2>1. Kept' = Kept /\ Kept[KeyOf[c]] = entries[KeyOf[c]] /\ entries[KeyOf[c]] # None
    BY <1>1, <1>4 DEF GetHit, Usable, Kept
  <2>2. outcome[c] = None /\ c \notin Forced
    BY <1>4 DEF GetHit, Usable, OutcomesSettled
  <2> QED BY <1>1, <1>3, <1>4, <2>1, <2>2
          DEF GetHit, Return, Contract!Hit, Contract!Answer, Kept, Verdicts
<1>5. CASE GetMiss(c)
  <2>1. Kept' = Kept
    BY <1>1, <1>5 DEF GetMiss, Usable, Kept
  <2> QED BY <1>3, <1>5, <2>1 DEF GetMiss, Contract!vars, Kept, Verdicts
<1> QED BY <1>4, <1>5

\* Looking among the calls in flight, the call leads or follows.
LEMMA FlightImplements ==
    ASSUME ContractInv, NEW c \in Callers, Join(c) \/ Lead(c)
    PROVE  Contract!Follow(c) \/ Contract!TakeOff(c)
<1> USE CacheAssumption DEF CacheAssumption, ContractInv, CacheInv, TypeOK, Goto
<1>1. Contract!Asking(c)
  BY StillAsking DEF Join, Lead
<1>2. \A x \in Callers : VerdictOf(x)' = VerdictOf(x)
  BY DEF Join, Lead, VerdictOf
<1>3. Verdicts' = Verdicts /\ Kept' = Kept
  BY <1>2 DEF Verdicts, Kept, Join, Lead
<1> QED BY <1>1, <1>3 DEF Join, Lead, Contract!Follow, Contract!TakeOff, Kept, Verdicts

\* A follower is answered by the probe it follows, once that has landed, or by
\* the end of its own context.
LEMMA WaitImplements ==
    ASSUME ContractInv, NEW c \in Callers, WaitDone(c) \/ WaitCancelled(c)
    PROVE  Contract!Hear(c) \/ Contract!GiveUp(c)
<1> USE CacheAssumption DEF CacheAssumption, ContractInv, CacheInv, TypeOK, Goto
<1>1. /\ joined[c] # None /\ joined[c] \in Callers /\ KeyOf[joined[c]] = KeyOf[c]
      /\ outcome[c] = None
  BY DEF WaitDone, WaitCancelled, OutcomesSettled, SharedSettled
<1>2. \A x \in Callers : VerdictOf(x)' = VerdictOf(x)
  BY DEF WaitDone, WaitCancelled, VerdictOf, Progress
<1>3. Verdicts' = Verdicts /\ Kept' = Kept
  BY <1>2 DEF Verdicts, Kept, WaitDone, WaitCancelled
<1>4. CASE WaitDone(c)
  <2>1. pc[joined[c]] = "returned"
    BY <1>1, <1>4 DEF WaitDone, Progress
  <2>2. VerdictOf(joined[c]) = shared[joined[c]] /\ inFlight[KeyOf[c]] # joined[c]
    BY <1>1, <2>1 DEF VerdictOf, Flight, Leads
  <2> QED BY <1>1, <1>3, <1>4, <2>2
          DEF WaitDone, Return, Contract!Hear, Contract!Answer, Kept, Verdicts
<1>5. CASE WaitCancelled(c)
  BY <1>1, <1>3, <1>5 DEF WaitCancelled, Return, Contract!GiveUp, Contract!Answer, Kept, Verdicts
<1> QED BY <1>4, <1>5

\* The end of the probe is its verdict, which the leader keeps and publishes.
LEMMA ProbeImplements ==
    ASSUME ContractInv, NEW c \in Callers, ProbeEnds(c) \/ Set(c) \/ Unregister(c)
    PROVE  Contract!Conclude(c) \/ Contract!Keep(c) \/ Contract!Land(c)
<1> USE CacheAssumption DEF CacheAssumption, ContractInv, CacheInv, TypeOK, Goto
<1>1. inFlight[KeyOf[c]] = c /\ KeyOf[c] \in Keys /\ shared[c] = None /\ outcome[c] = None
  BY DEF ProbeEnds, Set, Unregister, Flight, Leads, Progress, OutcomesSettled
<1>2. \A x \in Callers : x # c => VerdictOf(x)' = VerdictOf(x)
  BY DEF ProbeEnds, Set, Unregister, VerdictOf
<1>3. CASE ProbeEnds(c)
  <2>1. VerdictOf(c) = None /\ VerdictOf(c)' = IF c \in cancelled THEN Failed ELSE c
    BY <1>1, <1>3 DEF ProbeEnds, VerdictOf
  <2>2. Verdicts' = [Verdicts EXCEPT ![c] = IF c \in cancelled THEN Failed ELSE c]
    BY <1>2, <2>1 DEF Verdicts
  <2> QED BY <1>1, <1>3, <2>1, <2>2 DEF ProbeEnds, Contract!Conclude, Verdicts, Kept
<1>4. CASE Set(c)
  <2>1. VerdictOf(c) = c /\ VerdictOf(c)' = c
    BY <1>1, <1>4 DEF Set, VerdictOf
  <2>2. Verdicts' = Verdicts
    BY <1>2, <2>1 DEF Verdicts
  <2>3. Kept' = [Kept EXCEPT ![KeyOf[c]] = c]
    BY <1>1, <1>4 DEF Set, Kept
  <2> QED BY <1>1, <1>4, <2>1, <2>2, <2>3 DEF Set, Contract!Keep, Verdicts, Kept
<1>5. CASE Unregister(c)
  <2>1. /\ VerdictOf(c) = IF pc[c] = "failed" THEN Failed ELSE c
        /\ VerdictOf(c)' = VerdictOf(c) /\ VerdictOf(c) # None
    BY <1>1, <1>5 DEF Unregister, VerdictOf
  <2>2. Verdicts' = Verdicts /\ Kept' = Kept
    BY <1>2, <1>5, <2>1 DEF Verdicts, Kept, Unregister
  <2> QED BY <1>1, <1>5, <2>1, <2>2
          DEF Unregister, Return, Contract!Land, Contract!Answer, Verdicts, Kept
<1> QED BY <1>3, <1>4, <1>5

\* Time, invalidations and the callers' contexts.
LEMMA OthersImplement ==
    ASSUME ContractInv,
           (\E c \in Callers : CancelCaller(c)) \/ (\E k \in Keys : Expire(k) \/ Invalidate(k))
    PROVE  Contract!Next
<1> USE CacheAssumption DEF CacheAssumption, ContractInv, CacheInv, TypeOK
<1>1. Verdicts' = Verdicts
  BY DEF CancelCaller, Expire, Invalidate, Verdicts, VerdictOf
<1>2. ASSUME NEW c \in Callers, CancelCaller(c) PROVE Contract!Leave(c)
  BY <1>1, <1>2 DEF CancelCaller, OutcomesSettled, Contract!Leave, Verdicts
<1>3. ASSUME NEW k \in Keys, Expire(k) \/ Invalidate(k) PROVE Contract!Forget(k)
  <2>1. Kept' = [Kept EXCEPT ![k] = None]
    BY <1>3 DEF Expire, Invalidate, Kept
  <2> QED BY <1>1, <1>3, <2>1 DEF Expire, Invalidate, Contract!Forget, Verdicts, Kept
<1> QED BY <1>2, <1>3 DEF Contract!Next

\* presence.Cache keeps its contract, for any callers, keys, cancellations,
\* expiries and invalidations: probes are shared, a forced call is never given
\* what was kept, and no result is kept or shared that its own caller was not given.
THEOREM CacheImplementsContract == Spec => ImplementsCacheContract
<1>1. Init => Contract!Init
  BY CacheAssumption DEF CacheAssumption, Init, VerdictOf, Contract!Init
<1>2. ContractInv /\ [Next]_vars => [Contract!Next]_(Contract!vars)
  <2> SUFFICES ASSUME ContractInv, [Next]_vars PROVE Contract!Next \/ UNCHANGED Contract!vars
    OBVIOUS
  <2>1. ASSUME NEW c \in Callers, ResolveStep(c) PROVE Contract!Next \/ UNCHANGED Contract!vars
    BY <2>1, GetImplements, FlightImplements, WaitImplements, ProbeImplements
       DEF ResolveStep, Contract!Next
  <2>2. CASE UNCHANGED vars
    BY <2>2 DEF vars, VerdictOf, Contract!vars
  <2> QED BY <2>1, <2>2, OthersImplement DEF Next
<1> QED BY <1>1, <1>2, ContractInvariance, PTL DEF Spec, ImplementsCacheContract, Contract!Spec
=============================================================================

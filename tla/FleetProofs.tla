---------------------------- MODULE FleetProofs ----------------------------
(* Theorems about fleet.Run for every set of machines, sites and limits.   *)
EXTENDS Fleet, FiniteSetTheorems, TLAPS

-----------------------------------------------------------------------------
(* The limits.                                                             *)

\* However a caller sets its limit, between 1 and 32 operations may run.
LEMMA GlobalLimitRange == GlobalLimit \in 1 .. 32
BY FleetAssumption DEF FleetAssumption, GlobalLimit

\* However a site is configured, its limit is between 1 and 16.
LEMMA SiteCapRange == \A s \in Sites : SiteCap(s) \in 1 .. 16
BY FleetAssumption DEF FleetAssumption, SiteCap

\* A site with machines has at least one worker, and never more than its limit.
LEMMA SiteWorkersRange ==
    \A s \in Sites :
        /\ SiteWorkers(s) \in 0 .. SiteCap(s)
        /\ Grouped(s) # {} => SiteWorkers(s) >= 1
<1> TAKE s \in Sites
<1>1. IsFiniteSet(Grouped(s)) /\ Cardinality(Grouped(s)) \in Nat
  BY FleetAssumption, FS_Subset, FS_CardinalityType DEF FleetAssumption, Grouped
<1>2. Grouped(s) # {} => Cardinality(Grouped(s)) # 0
  BY <1>1, FS_EmptySet
<1> QED BY <1>1, <1>2, SiteCapRange DEF SiteWorkers

\* A goroutine is named by the site it serves and its number there.
LEMMA WorkerShape ==
    \A w \in Workers : w[1] \in Sites /\ w[2] \in 1 .. SiteWorkers(w[1]) /\ w = <<w[1], w[2]>>
BY DEF Workers

\* There are finitely many workers.
LEMMA WorkersFinite == IsFiniteSet(Workers)
<1>1. IsFiniteSet(1 .. 16)
  <2>1. \A a, b \in Int : IsFiniteSet(a .. b)
    BY FS_Interval
  <2>2. 1 \in Int /\ 16 \in Int
    OBVIOUS
  <2> QED BY <2>1, <2>2, Zenon
<1>2. IsFiniteSet(Sites \X (1 .. 16))
  BY <1>1, FleetAssumption, FS_Product DEF FleetAssumption
<1>3. Workers \subseteq Sites \X (1 .. 16)
  BY SiteCapRange, SiteWorkersRange DEF Workers
<1> QED BY <1>2, <1>3, FS_Subset

\* What sending a result does to the sequence of results.
LEMMA AppendResult ==
    ASSUME NEW r \in Result, TypeOK, results' = Append(results, r)
    PROVE  /\ results' \in Seq(Result)
           /\ Len(results') = Len(results) + 1
           /\ \A i \in DOMAIN results : i \in DOMAIN results' /\ results'[i] = results[i]
           /\ \A i \in DOMAIN results' : i \in DOMAIN results \/ results'[i] = r
           /\ \A i \in DOMAIN results' : i \notin DOMAIN results => i = Len(results')
           /\ Len(results') \in DOMAIN results' /\ results'[Len(results')] = r
           /\ Reported' = Reported \cup {r.device}
<1>1. /\ results' \in Seq(Result)
      /\ Len(results') = Len(results) + 1
      /\ DOMAIN results = 1 .. Len(results) /\ Len(results) \in Nat
      /\ DOMAIN results' = 1 .. Len(results')
      /\ \A i \in 1 .. Len(results) : results'[i] = results[i]
      /\ results'[Len(results) + 1] = r
  BY DEF TypeOK
<1>2. \A i \in DOMAIN results' : i \in DOMAIN results \/ i = Len(results')
  BY <1>1
<1>3. Reported' = Reported \cup {r.device}
  BY <1>1, <1>2 DEF Reported
<1> QED BY <1>1, <1>2, <1>3

\* What is sent on the channel names machines of the request.
LEMMA ReportedAreDevices == TypeOK => Reported \subseteq Devices
<1> SUFFICES ASSUME TypeOK PROVE Reported \subseteq Devices
  OBVIOUS
<1>1. \A i \in DOMAIN results : results[i] \in Result
  BY DEF TypeOK
<1>2. \A r \in Result : r.device \in Devices
  BY DEF Result
<1> QED BY <1>1, <1>2 DEF Reported

-----------------------------------------------------------------------------
(* The inductive invariant.                                                *)

\* The invariant holds when Run has filled the queues and started its workers.
LEMMA InitIInv == Init => IInv
<1> SUFFICES ASSUME Init PROVE IInv
  OBVIOUS
<1> USE DEF Init
<1>1. Reported = {} /\ results \in Seq(Result) /\ Len(results) = 0
  BY DEF Reported
<1>2. TypeOK
  <2>1. jobs \in [Sites -> SUBSET Devices]
    BY DEF Grouped
  <2>2. pc \in [Workers -> PC] /\ job \in [Workers -> Devices \cup {NoDevice}]
    BY DEF PC
  <2>3. taken \in 0 .. Len(results)
    BY <1>1
  <2> QED BY <1>1, <2>1, <2>2, <2>3 DEF TypeOK
<1>3. Possession
  BY DEF Possession
<1>4. OnePlace
  BY <1>1, FleetAssumption DEF OnePlace, FleetAssumption, Grouped
<1>5. NoDuplicateResult
  BY DEF NoDuplicateResult
<1>6. NoneLost
  BY FleetAssumption DEF NoneLost, FleetAssumption, Grouped
<1>7. Tokens
  BY FS_EmptySet, GlobalLimitRange DEF Tokens
<1>8. History
  BY DEF History
<1>9. TruthfulReport
  BY DEF TruthfulReport
<1>10. Ending
  BY DEF Ending
<1> QED BY <1>2, <1>3, <1>4, <1>5, <1>6, <1>7, <1>8, <1>9, <1>10 DEF IInv

\* It survives a worker that takes the next machine of its queue.
LEMMA ReceiveIInv ==
    ASSUME IInv, NEW w \in Workers, Receive(w)
    PROVE  IInv'
<1> USE DEF IInv
<1>1. PICK d \in jobs[w[1]] :
        /\ jobs' = [jobs EXCEPT ![w[1]] = @ \ {d}]
        /\ job' = [job EXCEPT ![w] = d]
  BY DEF Receive
<1>2. /\ w[1] \in Sites /\ d \in Devices /\ SiteOf[d] = w[1]
      /\ d # NoDevice /\ d \notin Reported /\ d \notin started
      /\ \A v \in Workers : job[v] # d
      /\ \A s \in Sites : d \in jobs[s] => s = w[1]
  BY WorkerShape, FleetAssumption DEF TypeOK, OnePlace, Grouped, History, FleetAssumption
<1>3. /\ pc[w] = "receive" /\ pc' = [pc EXCEPT ![w] = "check"]
      /\ status' = [status EXCEPT ![w] = Cancelled]
      /\ UNCHANGED <<global, results, taken, closed, cancelled, started, consumer>>
      /\ Reported' = Reported
  BY DEF Receive, Goto, Reported
<1>4. TypeOK'
  BY <1>1, <1>2, <1>3 DEF TypeOK, PC
<1>5. Possession'
  BY <1>1, <1>2, <1>3 DEF TypeOK, Possession
<1>6. OnePlace'
  BY <1>1, <1>2, <1>3 DEF TypeOK, OnePlace
<1>7. NoDuplicateResult' /\ TruthfulReport'
  BY <1>3 DEF NoDuplicateResult, TruthfulReport
<1>8. NoneLost'
  <2> SUFFICES ASSUME NEW e \in Devices
               PROVE  e \in jobs'[SiteOf[e]] \/ e \in Reported' \/ \E v \in Workers : job'[v] = e
    BY DEF NoneLost
  <2>1. CASE e = d
    BY <2>1, <1>1 DEF TypeOK
  <2>2. CASE e # d
    <3>1. CASE \E v \in Workers : job[v] = e
      <4>1. PICK v \in Workers : job[v] = e
        BY <3>1
      <4>2. v # w
        BY <4>1, <1>3, FleetAssumption DEF Possession, FleetAssumption
      <4> QED BY <4>1, <4>2, <1>1 DEF TypeOK
    <3>2. CASE ~ \E v \in Workers : job[v] = e
      <4>1. e \in jobs[SiteOf[e]] \/ e \in Reported
        BY <3>2 DEF NoneLost
      <4>2. SiteOf[e] \in Sites
        BY FleetAssumption DEF FleetAssumption
      <4> QED BY <4>1, <4>2, <2>2, <1>1, <1>2, <1>3 DEF TypeOK
    <3> QED BY <3>1, <3>2
  <2> QED BY <2>1, <2>2
<1>9. Tokens'
  BY <1>3 DEF TypeOK, Tokens
<1>10. History'
  BY <1>1, <1>2, <1>3 DEF TypeOK, History
<1>11. Ending'
  BY <1>1, <1>2, <1>3, WorkerShape DEF TypeOK, Ending
<1> QED BY <1>4, <1>5, <1>6, <1>7, <1>8, <1>9, <1>10, <1>11

\* A step that moves no machine keeps every machine in its place.
LEMMA PlacesKept ==
    ASSUME IInv, UNCHANGED <<jobs, job, results>>
    PROVE  OnePlace' /\ NoDuplicateResult' /\ NoneLost' /\ Reported' = Reported
BY DEF IInv, OnePlace, NoDuplicateResult, NoneLost, Reported

\* It survives a worker that finds its queue empty and ends.
LEMMA LeaveIInv ==
    ASSUME IInv, NEW w \in Workers, Leave(w)
    PROVE  IInv'
<1> USE DEF IInv
<1>1. /\ jobs[w[1]] = {} /\ pc[w] = "receive" /\ pc' = [pc EXCEPT ![w] = "done"]
      /\ UNCHANGED <<jobs, job, status, global, results, taken, closed, cancelled, started, consumer>>
  BY DEF Leave, Goto
<1>2. OnePlace' /\ NoDuplicateResult' /\ NoneLost' /\ Reported' = Reported
  BY <1>1, PlacesKept
<1>3. TypeOK'
  BY <1>1 DEF TypeOK, PC
<1>4. Possession'
  BY <1>1 DEF TypeOK, Possession
<1>5. Tokens'
  BY <1>1 DEF TypeOK, Tokens
<1>6. History' /\ TruthfulReport'
  BY <1>1 DEF TypeOK, History, TruthfulReport
<1>7. Ending'
  BY <1>1 DEF TypeOK, Ending
<1> QED BY <1>2, <1>3, <1>4, <1>5, <1>6, <1>7

\* It survives the first look at the context.
LEMMA CheckContextIInv ==
    ASSUME IInv, NEW w \in Workers, CheckContext(w)
    PROVE  IInv'
<1> USE DEF IInv
<1>1. /\ pc[w] = "check" /\ pc' = [pc EXCEPT ![w] = IF cancelled THEN "send" ELSE "select"]
      /\ UNCHANGED <<jobs, job, status, global, results, taken, closed, cancelled, started, consumer>>
  BY DEF CheckContext, Goto
<1>2. OnePlace' /\ NoDuplicateResult' /\ NoneLost' /\ Reported' = Reported
  BY <1>1, PlacesKept
<1>3. TypeOK'
  BY <1>1 DEF TypeOK, PC
<1>4. Possession'
  BY <1>1 DEF TypeOK, Possession
<1>5. Tokens'
  BY <1>1 DEF TypeOK, Tokens
<1>6. History' /\ TruthfulReport'
  BY <1>1 DEF TypeOK, History, TruthfulReport
<1>7. Ending'
  BY <1>1 DEF TypeOK, Ending
<1> QED BY <1>2, <1>3, <1>4, <1>5, <1>6, <1>7

\* It survives taking a token of the semaphore.
LEMMA AcquireIInv ==
    ASSUME IInv, NEW w \in Workers, Acquire(w)
    PROVE  IInv'
<1> USE DEF IInv
<1>1. /\ pc[w] = "select" /\ pc' = [pc EXCEPT ![w] = "acquired"]
      /\ Cardinality(global) < GlobalLimit /\ global' = global \cup {w}
      /\ UNCHANGED <<jobs, job, status, results, taken, closed, cancelled, started, consumer>>
  BY DEF Acquire, Goto
<1>2. OnePlace' /\ NoDuplicateResult' /\ NoneLost' /\ Reported' = Reported
  BY <1>1, PlacesKept
<1>3. TypeOK'
  BY <1>1 DEF TypeOK, PC
<1>4. Possession'
  BY <1>1 DEF TypeOK, Possession
<1>5. Tokens'
  <2>1. IsFiniteSet(global) /\ Cardinality(global) \in Nat
    BY WorkersFinite, FS_Subset, FS_CardinalityType DEF TypeOK
  <2>2. Cardinality(global \cup {w}) = IF w \in global THEN Cardinality(global) ELSE Cardinality(global) + 1
    BY <2>1, FS_AddElement, Zenon
  <2>3. Cardinality(global') <= GlobalLimit
    BY <1>1, <2>1, <2>2, GlobalLimitRange
  <2>4. \A v \in Workers : v \in global' <=> pc'[v] \in {"acquired", "running", "release"}
    BY <1>1 DEF TypeOK, Tokens
  <2> QED BY <2>3, <2>4 DEF Tokens
<1>6. History' /\ TruthfulReport'
  BY <1>1 DEF TypeOK, History, TruthfulReport
<1>7. Ending'
  BY <1>1 DEF TypeOK, Ending
<1> QED BY <1>2, <1>3, <1>4, <1>5, <1>6, <1>7

\* It survives leaving the select because the context is done.
LEMMA GiveUpIInv ==
    ASSUME IInv, NEW w \in Workers, GiveUp(w)
    PROVE  IInv'
<1> USE DEF IInv
<1>1. /\ pc[w] = "select" /\ pc' = [pc EXCEPT ![w] = "send"]
      /\ UNCHANGED <<jobs, job, status, global, results, taken, closed, cancelled, started, consumer>>
  BY DEF GiveUp, Goto
<1>2. OnePlace' /\ NoDuplicateResult' /\ NoneLost' /\ Reported' = Reported
  BY <1>1, PlacesKept
<1>3. TypeOK'
  BY <1>1 DEF TypeOK, PC
<1>4. Possession'
  BY <1>1 DEF TypeOK, Possession
<1>5. Tokens'
  BY <1>1 DEF TypeOK, Tokens
<1>6. History' /\ TruthfulReport'
  BY <1>1 DEF TypeOK, History, TruthfulReport
<1>7. Ending'
  BY <1>1 DEF TypeOK, Ending
<1> QED BY <1>2, <1>3, <1>4, <1>5, <1>6, <1>7

\* It survives the second look at the context, which begins the operation or not.
LEMMA BeginIInv ==
    ASSUME IInv, NEW w \in Workers, Begin(w)
    PROVE  IInv'
<1> USE DEF IInv
<1>1. /\ pc[w] = "acquired" /\ pc' = [pc EXCEPT ![w] = IF cancelled THEN "release" ELSE "running"]
      /\ started' = IF cancelled THEN started ELSE started \cup {job[w]}
      /\ UNCHANGED <<jobs, job, status, global, results, taken, closed, cancelled, consumer>>
  BY DEF Begin, Goto
<1>2. OnePlace' /\ NoDuplicateResult' /\ NoneLost' /\ Reported' = Reported
  BY <1>1, PlacesKept
<1>3. /\ job[w] \in Devices /\ job[w] \notin Reported
      /\ \A v \in Workers : v # w => job[v] # job[w]
      /\ \A s \in Sites : job[w] \notin jobs[s]
  BY <1>1 DEF TypeOK, Possession, OnePlace
<1>4. TypeOK'
  BY <1>1, <1>3 DEF TypeOK, PC
<1>5. Possession'
  BY <1>1 DEF TypeOK, Possession
<1>6. Tokens'
  BY <1>1 DEF TypeOK, Tokens
<1>7. History'
  BY <1>1, <1>3 DEF TypeOK, History
<1>8. TruthfulReport'
  BY <1>1, <1>3 DEF TruthfulReport, Reported
<1>9. Ending'
  BY <1>1 DEF TypeOK, Ending
<1> QED BY <1>2, <1>4, <1>5, <1>6, <1>7, <1>8, <1>9

\* It survives the return of an operation, with whatever status.
LEMMA OperateIInv ==
    ASSUME IInv, NEW w \in Workers, Operate(w)
    PROVE  IInv'
<1> USE DEF IInv
<1>1. PICK o \in Outcomes : status' = [status EXCEPT ![w] = o]
  BY DEF Operate
<1>2. /\ pc[w] = "running" /\ pc' = [pc EXCEPT ![w] = "release"]
      /\ UNCHANGED <<jobs, job, global, results, taken, closed, cancelled, started, consumer>>
  BY DEF Operate, Goto
<1>3. OnePlace' /\ NoDuplicateResult' /\ NoneLost' /\ Reported' = Reported
  BY <1>2, PlacesKept
<1>4. TypeOK'
  BY <1>1, <1>2 DEF TypeOK, PC
<1>5. Possession'
  BY <1>2 DEF TypeOK, Possession
<1>6. Tokens'
  BY <1>2 DEF TypeOK, Tokens
<1>7. History' /\ TruthfulReport'
  BY <1>1, <1>2, FleetAssumption DEF TypeOK, History, TruthfulReport, FleetAssumption
<1>8. Ending'
  BY <1>2 DEF TypeOK, Ending
<1> QED BY <1>3, <1>4, <1>5, <1>6, <1>7, <1>8

\* It survives giving the token back.
LEMMA ReleaseIInv ==
    ASSUME IInv, NEW w \in Workers, Release(w)
    PROVE  IInv'
<1> USE DEF IInv
<1>1. /\ pc[w] = "release" /\ pc' = [pc EXCEPT ![w] = "send"]
      /\ global' = global \ {w}
      /\ UNCHANGED <<jobs, job, status, results, taken, closed, cancelled, started, consumer>>
  BY DEF Release, Goto
<1>2. OnePlace' /\ NoDuplicateResult' /\ NoneLost' /\ Reported' = Reported
  BY <1>1, PlacesKept
<1>3. TypeOK'
  BY <1>1 DEF TypeOK, PC
<1>4. Possession'
  BY <1>1 DEF TypeOK, Possession
<1>5. Tokens'
  <2>1. IsFiniteSet(global) /\ Cardinality(global) \in Nat
    BY WorkersFinite, FS_Subset, FS_CardinalityType DEF TypeOK
  <2>2. Cardinality(global \ {w}) = IF w \in global THEN Cardinality(global) - 1 ELSE Cardinality(global)
    BY <2>1, FS_RemoveElement, Zenon
  <2>3. Cardinality(global') <= GlobalLimit
    BY <1>1, <2>1, <2>2, GlobalLimitRange DEF Tokens
  <2>4. \A v \in Workers : v \in global' <=> pc'[v] \in {"acquired", "running", "release"}
    BY <1>1 DEF TypeOK, Tokens
  <2> QED BY <2>3, <2>4 DEF Tokens
<1>6. History' /\ TruthfulReport'
  BY <1>1 DEF TypeOK, History, TruthfulReport
<1>7. Ending'
  BY <1>1 DEF TypeOK, Ending
<1> QED BY <1>2, <1>3, <1>4, <1>5, <1>6, <1>7

\* It survives sending a result: the machine moves from the worker to the channel.
LEMMA SendIInv ==
    ASSUME IInv, NEW w \in Workers, Send(w)
    PROVE  IInv'
<1> USE DEF IInv
<1> DEFINE r == [device |-> job[w], status |-> status[w]]
<1>1. /\ pc[w] = "send" /\ pc' = [pc EXCEPT ![w] = "receive"]
      /\ results' = Append(results, r)
      /\ job' = [job EXCEPT ![w] = NoDevice]
      /\ UNCHANGED <<jobs, status, global, taken, closed, cancelled, started, consumer>>
  BY DEF Send, Goto
<1>2. /\ job[w] \in Devices /\ job[w] \notin Reported
      /\ \A v \in Workers : v # w => job[v] # job[w]
      /\ \A s \in Sites : job[w] \notin jobs[s]
      /\ status[w] = Cancelled <=> job[w] \notin started
  BY <1>1 DEF TypeOK, Possession, OnePlace, History
<1>3. r \in Result
  BY <1>2 DEF TypeOK, Result
<1>4. /\ results' \in Seq(Result)
      /\ Len(results') = Len(results) + 1
      /\ \A i \in DOMAIN results : i \in DOMAIN results' /\ results'[i] = results[i]
      /\ \A i \in DOMAIN results' : i \in DOMAIN results \/ results'[i] = r
      /\ \A i \in DOMAIN results' : i \notin DOMAIN results => i = Len(results')
      /\ Reported' = Reported \cup {job[w]}
  <2>1. r.device = job[w]
    OBVIOUS
  <2> HIDE DEF r
  <2> QED BY <1>1, <1>3, <2>1, AppendResult
<1>5. \A i \in DOMAIN results : results[i].device # job[w]
  BY <1>2 DEF Reported
<1>6. TypeOK'
  <2>1. Len(results) \in Nat /\ taken' = taken
    BY <1>1 DEF TypeOK
  <2> QED BY <1>1, <1>4, <2>1 DEF TypeOK, PC
<1>7. Possession'
  BY <1>1 DEF TypeOK, Possession
<1>8. OnePlace'
  <2>1. \A s \in Sites : jobs'[s] \subseteq Grouped(s) /\ jobs'[s] \cap Reported' = {}
    BY <1>1, <1>2, <1>4 DEF OnePlace
  <2>2. ASSUME NEW v \in Workers, NEW s \in Sites
        PROVE  job'[v] \notin Reported' /\ job'[v] \notin jobs'[s]
    <3>1. NoDevice \notin Devices /\ jobs[s] \subseteq Devices
      BY FleetAssumption DEF FleetAssumption, TypeOK
    <3>2. NoDevice \notin Reported
      BY <3>1, ReportedAreDevices
    <3>3. CASE v = w
      BY <3>1, <3>2, <3>3, <1>1, <1>2, <1>4 DEF TypeOK
    <3>4. CASE v # w
      BY <3>4, <1>1, <1>2, <1>4 DEF TypeOK, OnePlace
    <3> QED BY <3>3, <3>4
  <2>3. \A v \in Workers : job'[v] \notin Reported'
    <3> SUFFICES ASSUME NEW v \in Workers PROVE job'[v] \notin Reported'
      OBVIOUS
    <3>1. w[1] \in Sites
      BY WorkerShape
    <3> QED BY <3>1, <2>2
  <2>4. \A u, v \in Workers : u # v /\ job'[u] = job'[v] => job'[u] = NoDevice
    BY <1>1 DEF TypeOK, OnePlace
  <2> QED BY <2>1, <2>2, <2>3, <2>4 DEF OnePlace
<1>9. NoDuplicateResult'
  <2> SUFFICES ASSUME NEW i \in DOMAIN results', NEW j \in DOMAIN results',
                      results'[i].device = results'[j].device
               PROVE  i = j
    BY DEF NoDuplicateResult
  <2>1. \A k \in DOMAIN results' : results'[k].device = job[w] <=> k = Len(results')
    <3>1. \A k \in DOMAIN results : k # Len(results')
      BY <1>4 DEF TypeOK
    <3> QED BY <3>1, <1>4, <1>5
  <2> QED BY <2>1, <1>4 DEF NoDuplicateResult
<1>10. NoneLost'
  <2> SUFFICES ASSUME NEW e \in Devices
               PROVE  e \in jobs'[SiteOf[e]] \/ e \in Reported' \/ \E v \in Workers : job'[v] = e
    BY DEF NoneLost
  <2> QED BY <1>1, <1>2, <1>4 DEF TypeOK, NoneLost
<1>11. Tokens'
  BY <1>1 DEF TypeOK, Tokens
<1>12. History'
  BY <1>1 DEF TypeOK, History
<1>13. TruthfulReport'
  BY <1>1, <1>2, <1>4 DEF TruthfulReport
<1>14. Ending'
  BY <1>1 DEF TypeOK, Ending
<1> QED BY <1>6, <1>7, <1>8, <1>9, <1>10, <1>11, <1>12, <1>13, <1>14

\* Closing the channel, cancelling and reading move no machine and no worker.
LEMMA CallerIInv ==
    ASSUME IInv, CloseResults \/ Cancel \/ Take \/ SeeClosed \/ StopReading \/ UNCHANGED vars
    PROVE  IInv'
<1> USE DEF IInv
<1>1. /\ UNCHANGED <<jobs, pc, job, status, global, results, started>>
      /\ closed' = closed \/ (closed' = TRUE /\ \A w \in Workers : pc[w] = "done")
      /\ cancelled' \in BOOLEAN
      /\ taken' = taken \/ (taken < Len(results) /\ taken' = taken + 1)
      /\ consumer' \in {"reading", "gone", "finished"}
  BY DEF CloseResults, Cancel, Take, SeeClosed, StopReading, vars, workerVars, TypeOK
<1>2. OnePlace' /\ NoDuplicateResult' /\ NoneLost' /\ Reported' = Reported
  BY <1>1, PlacesKept
<1>3. TypeOK'
  <2>1. Len(results) \in Nat /\ taken \in 0 .. Len(results)
    BY DEF TypeOK
  <2>2. taken' \in 0 .. Len(results)
    BY <1>1, <2>1
  <2>3. closed' \in BOOLEAN
    BY <1>1 DEF TypeOK
  <2> QED BY <1>1, <2>2, <2>3 DEF TypeOK
<1>4. Possession' /\ Tokens' /\ History' /\ TruthfulReport'
  BY <1>1 DEF Possession, Tokens, History, TruthfulReport
<1>5. Ending'
  BY <1>1 DEF Ending
<1> QED BY <1>2, <1>3, <1>4, <1>5

\* It survives every step of Run and of its caller.
LEMMA NextIInv == IInv /\ [Next]_vars => IInv'
<1> SUFFICES ASSUME IInv, [Next]_vars PROVE IInv'
  OBVIOUS
<1>1. ASSUME NEW w \in Workers, WorkerStep(w) PROVE IInv'
  BY <1>1, ReceiveIInv, LeaveIInv, CheckContextIInv, AcquireIInv, GiveUpIInv, BeginIInv,
     OperateIInv, ReleaseIInv, SendIInv DEF WorkerStep
<1> QED BY <1>1, CallerIInv DEF Next

-----------------------------------------------------------------------------
(* The theorems.                                                           *)

\* The invariant that explains fleet.Run: every machine is in one place.
THEOREM Invariance == Spec => []IInv
BY InitIInv, NextIInv, PTL DEF Spec

\* The variables of fleet.Run keep their types.
THEOREM TypeCorrect == Spec => []TypeOK
<1>1. IInv => TypeOK
  BY DEF IInv
<1> QED BY <1>1, Invariance, PTL

\* No machine is reported twice.
THEOREM ReportsAreUnique == Spec => []NoDuplicateResult
<1>1. IInv => NoDuplicateResult
  BY DEF IInv
<1> QED BY <1>1, Invariance, PTL

\* "cancelled" is reported of exactly the machines never operated on.
THEOREM ReportsAreTruthful == Spec => []TruthfulReport
<1>1. IInv => TruthfulReport
  BY DEF IInv
<1> QED BY <1>1, Invariance, PTL

\* A worker runs an operation only with a token, and a site has few workers.
LEMMA BoundedFromIInv == IInv => BoundedWork
<1> SUFFICES ASSUME IInv PROVE BoundedWork
  OBVIOUS
<1> USE DEF IInv
<1>1. Cardinality(Running) <= GlobalLimit
  <2>1. IsFiniteSet(global) /\ Cardinality(global) \in Nat
    BY WorkersFinite, FS_Subset, FS_CardinalityType DEF TypeOK
  <2>2. Running \subseteq global
    BY DEF Running, Tokens
  <2>3. IsFiniteSet(Running) /\ Cardinality(Running) <= Cardinality(global)
    BY <2>1, <2>2, FS_Subset
  <2>4. Cardinality(Running) \in Nat
    BY <2>3, FS_CardinalityType
  <2> QED BY <2>1, <2>3, <2>4, GlobalLimitRange DEF Tokens
<1>2. ASSUME NEW s \in Sites
      PROVE  Cardinality({w \in Running : w[1] = s}) <= SiteCap(s)
  <2> DEFINE here == {w \in Running : w[1] = s}
             slots == 1 .. SiteWorkers(s)
  <2>1. SiteWorkers(s) \in 0 .. SiteCap(s) /\ SiteCap(s) \in 1 .. 16
    BY SiteWorkersRange, SiteCapRange
  <2>2. IsFiniteSet(slots) /\ Cardinality(slots) = SiteWorkers(s)
    <3>1. \A a, b \in Int : IsFiniteSet(a .. b) /\ Cardinality(a .. b) = IF a > b THEN 0 ELSE b - a + 1
      BY FS_Interval
    <3>2. 1 \in Int /\ SiteWorkers(s) \in Int
      BY <2>1
    <3>3. IsFiniteSet(slots)
      BY <3>1, <3>2, Zenon
    <3>4. Cardinality(slots) = IF 1 > SiteWorkers(s) THEN 0 ELSE SiteWorkers(s) - 1 + 1
      BY <3>1, <3>2, Zenon
    <3> QED BY <2>1, <3>3, <3>4
  <2>3. [w \in here |-> w[2]] \in Injection(here, slots)
    <3>1. \A w \in here : w[1] = s /\ w[2] \in slots /\ w = <<w[1], w[2]>>
      BY WorkerShape DEF Running
    <3>2. [w \in here |-> w[2]] \in [here -> slots]
      BY <3>1
    <3>3. \A v, w \in here : v[2] = w[2] => v = w
      BY <3>1
    <3> QED BY <3>2, <3>3 DEF Injection, IsInjective
  <2>4. IsFiniteSet(here) /\ Cardinality(here) <= Cardinality(slots)
    BY <2>2, <2>3, FS_Injection
  <2>5. Cardinality(here) \in Nat
    BY <2>4, FS_CardinalityType
  <2> QED BY <2>1, <2>2, <2>4, <2>5
<1> QED BY <1>1, <1>2 DEF BoundedWork

\* The operations in flight never exceed the caller's limit nor a site's own.
THEOREM WorkIsBounded == Spec => []BoundedWork
BY BoundedFromIInv, Invariance, PTL

\* When the channel closes nothing is queued or held, so all is reported.
LEMMA CompleteFromIInv == IInv => ClosedIsComplete
<1> SUFFICES ASSUME IInv, closed PROVE Reported = Devices /\ \A w \in Workers : pc[w] = "done"
  BY DEF ClosedIsComplete
<1> USE DEF IInv
<1>1. \A w \in Workers : pc[w] = "done" /\ job[w] = NoDevice /\ jobs[w[1]] = {}
  BY DEF Ending, Possession
<1>2. ASSUME NEW d \in Devices PROVE d \in Reported
  <2>1. SiteOf[d] \in Sites /\ d # NoDevice
    BY FleetAssumption DEF FleetAssumption
  <2>2. SiteWorkers(SiteOf[d]) >= 1 /\ SiteWorkers(SiteOf[d]) \in Int
    BY <2>1, SiteWorkersRange, SiteCapRange DEF Grouped
  <2>3. <<SiteOf[d], 1>> \in Workers
    BY <2>1, <2>2 DEF Workers
  <2>4. jobs[SiteOf[d]] = {}
    BY <2>3, <1>1
  <2> QED BY <2>1, <2>4, <1>1 DEF NoneLost
<1> QED BY <1>1, <1>2, ReportedAreDevices

\* When the results end, every machine has been reported and no goroutine of
\* the pool is left to send on the closed channel.
THEOREM EndIsComplete == Spec => []ClosedIsComplete
BY CompleteFromIInv, Invariance, PTL

\* A worker about to send holds an unreported machine, for which there is room.
LEMMA RoomFromIInv == IInv => SendNeverBlocks
<1> SUFFICES ASSUME IInv, NEW w \in Workers, pc[w] = "send"
             PROVE  Len(results) - taken < ResultBuffer
  BY DEF SendNeverBlocks
<1> USE DEF IInv
<1> DEFINE others == Devices \ {job[w]}
           slots == 1 .. Len(results)
           f == [i \in slots |-> results[i].device]
<1>1. job[w] \in Devices /\ job[w] \notin Reported
  BY DEF TypeOK, Possession, OnePlace
<1>2. Len(results) \in Nat /\ DOMAIN results = slots
  BY DEF TypeOK
<1>3. f \in Injection(slots, others)
  <2>1. \A i \in slots : results[i].device \in others
    BY <1>1, <1>2, ReportedAreDevices DEF Reported
  <2>2. f \in [slots -> others]
    BY <2>1
  <2>3. \A i, j \in slots : f[i] = f[j] => i = j
    BY <1>2 DEF NoDuplicateResult
  <2> QED BY <2>2, <2>3 DEF Injection, IsInjective
<1>4. IsFiniteSet(Devices) /\ Cardinality(Devices) \in Nat
  BY FleetAssumption, FS_CardinalityType DEF FleetAssumption
<1>5. IsFiniteSet(others) /\ Cardinality(others) = Cardinality(Devices) - 1
  <2>1. /\ IsFiniteSet(Devices \ {job[w]})
        /\ Cardinality(Devices \ {job[w]}) =
             IF job[w] \in Devices THEN Cardinality(Devices) - 1 ELSE Cardinality(Devices)
    BY <1>4, FS_RemoveElement, Zenon
  <2> QED BY <2>1, <1>1
<1>6. Cardinality(slots) = Len(results)
  <2>1. \A a, b \in Int : Cardinality(a .. b) = IF a > b THEN 0 ELSE b - a + 1
    BY FS_Interval
  <2>2. 1 \in Int /\ Len(results) \in Int
    BY <1>2
  <2>3. Cardinality(slots) = IF 1 > Len(results) THEN 0 ELSE Len(results) - 1 + 1
    BY <2>1, <2>2, Zenon
  <2> QED BY <1>2, <2>3
<1>7. Cardinality(slots) <= Cardinality(others)
  BY <1>3, <1>5, FS_Injection
<1>8. Len(results) < Cardinality(Devices)
  BY <1>2, <1>4, <1>5, <1>6, <1>7
<1> QED BY <1>2, <1>4, <1>8 DEF TypeOK, ResultBuffer

\* The buffer of the result channel is large enough for whatever the workers
\* send: no goroutine is left behind by a caller that stopped reading.
THEOREM BufferNeverFills == Spec => []SendNeverBlocks
BY RoomFromIInv, Invariance, PTL

\* After cancellation no operation is begun.
THEOREM CancellationStartsNothing == Spec => CancelStartsNothing
<1>1. [Next]_vars => [cancelled => started' = started]_vars
  BY DEF Next, WorkerStep, Receive, Leave, CheckContext, Acquire, GiveUp, Begin, Operate,
         Release, Send, CloseResults, Cancel, Take, SeeClosed, StopReading, vars, workerVars
<1> QED BY <1>1, PTL DEF Spec, CancelStartsNothing

-----------------------------------------------------------------------------
(* fleet.Run implements its contract: each step of a worker is, seen       *)
(* through the fate of the machine it holds, a step of FleetContract or a  *)
(* stuttering one.                                                         *)

(* What the refinement mapping says of a machine, by where the machine is. *)

FateByPlace ==
    \A d \in Devices :
        /\ \A i \in DOMAIN results : results[i].device = d => Fate(d) = results[i].status
        /\ \A w \in Workers : job[w] = d => Fate(d) = WorkerFate(w) /\ Holder(d) = w
        /\ d \in jobs[SiteOf[d]] => Fate(d) = "queued"

\* A machine's fate is that of its result, of its worker or of the queue.
LEMMA FateIsByPlace == IInv => FateByPlace
<1> SUFFICES ASSUME IInv, NEW d \in Devices
             PROVE  /\ \A i \in DOMAIN results : results[i].device = d => Fate(d) = results[i].status
                    /\ \A w \in Workers : job[w] = d => Fate(d) = WorkerFate(w) /\ Holder(d) = w
                    /\ d \in jobs[SiteOf[d]] => Fate(d) = "queued"
  BY DEF FateByPlace
<1> USE DEF IInv
<1>0. d # NoDevice /\ SiteOf[d] \in Sites
  BY FleetAssumption DEF FleetAssumption
<1>1. ASSUME NEW i \in DOMAIN results, results[i].device = d
      PROVE  Fate(d) = results[i].status
  <2> DEFINE all == {results[k] : k \in DOMAIN results}
  <2>1. d \in Reported
    BY <1>1 DEF Reported
  <2>2. \A r \in all : r.device = d => r = results[i]
    BY <1>1 DEF NoDuplicateResult
  <2>3. (CHOOSE r \in all : r.device = d) = results[i]
    BY <1>1, <2>2
  <2> QED BY <2>1, <2>3 DEF Fate
<1>2. ASSUME NEW w \in Workers, job[w] = d
      PROVE  Fate(d) = WorkerFate(w) /\ Holder(d) = w
  <2>1. \A v \in Workers : job[v] = d => v = w
    BY <1>0, <1>2 DEF OnePlace
  <2>2. Holder(d) = w
    BY <1>2, <2>1 DEF Holder
  <2>3. d \notin Reported /\ d \in Held
    BY <1>0, <1>2 DEF OnePlace, Held
  <2> QED BY <2>2, <2>3 DEF Fate
<1>3. ASSUME d \in jobs[SiteOf[d]] PROVE Fate(d) = "queued"
  <2>1. d \notin Reported /\ d \notin Held
    BY <1>0, <1>3 DEF OnePlace, Held
  <2> QED BY <2>1 DEF Fate
<1> QED BY <1>1, <1>2, <1>3

\* A step of one worker, or of none, that moves no machine leaves the fate of
\* every machine it does not hold.
LEMMA FateFrame ==
    ASSUME IInv, FateByPlace, FateByPlace', NEW w,
           UNCHANGED <<jobs, job, results>>,
           \A v \in Workers : v # w => pc'[v] = pc[v] /\ status'[v] = status[v]
    PROVE  \A e \in Devices : e # job[w] => Fate(e)' = Fate(e)
<1> SUFFICES ASSUME NEW e \in Devices, e # job[w] PROVE Fate(e)' = Fate(e)
  OBVIOUS
<1>1. CASE e \in jobs[SiteOf[e]]
  BY <1>1 DEF FateByPlace
<1>2. CASE \E i \in DOMAIN results : results[i].device = e
  BY <1>2 DEF FateByPlace
<1>3. CASE \E v \in Workers : job[v] = e
  BY <1>3 DEF FateByPlace, WorkerFate
<1> QED BY <1>1, <1>2, <1>3 DEF IInv, NoneLost, Reported

\* With the other machines' fates unchanged, a change of the fate of the machine
\* a worker holds is a change of the abstract function at that machine.
LEMMA FateExcept ==
    ASSUME NEW d \in Devices, NEW f,
           Fate(d)' = f, \A e \in Devices : e # d => Fate(e)' = Fate(e)
    PROVE  [e \in Devices |-> Fate(e)]' = [[e \in Devices |-> Fate(e)] EXCEPT ![d] = f]
OBVIOUS

-----------------------------------------------------------------------------
(* The steps.                                                              *)

\* The instance of the contract counts as this module does.
LEMMA SameCardinality == \A S : Contract!Cardinality(S) = Cardinality(S)
BY DEF Contract!Cardinality, Cardinality

\* When Run begins, every machine is queued and nothing is reported.
LEMMA InitImplements == Init => Contract!Init
<1> SUFFICES ASSUME Init PROVE Contract!Init
  OBVIOUS
<1>1. FateByPlace
  BY InitIInv, FateIsByPlace
<1>2. ASSUME NEW d \in Devices PROVE Fate(d) = "queued"
  <2>1. SiteOf[d] \in Sites
    BY FleetAssumption DEF FleetAssumption
  <2> QED BY <1>1, <2>1 DEF FateByPlace, Init, Grouped
<1>3. Reported = {}
  BY DEF Init, Reported
<1> QED BY <1>2, <1>3 DEF Contract!Init, Init

\* A step that only moves a worker between points where its machine's fate is
\* the same is not seen by the contract.
LEMMA WorkerStutters ==
    ASSUME IInv, FateByPlace, FateByPlace', NEW w \in Workers,
           UNCHANGED <<jobs, job, results, closed, cancelled>>,
           \A v \in Workers : v # w => pc'[v] = pc[v] /\ status'[v] = status[v],
           WorkerFate(w)' = WorkerFate(w)
    PROVE  UNCHANGED Contract!vars
<1>1. \A e \in Devices : e # job[w] => Fate(e)' = Fate(e)
  BY FateFrame
<1>2. \A e \in Devices : e = job[w] => Fate(e)' = Fate(e)
  BY DEF FateByPlace
<1>3. \A e \in Devices : Fate(e)' = Fate(e)
  BY <1>1, <1>2
<1>4. [e \in Devices |-> Fate(e)]' = [e \in Devices |-> Fate(e)]
  BY <1>3
<1>5. Reported' = Reported
  BY DEF Reported
<1> QED BY <1>4, <1>5 DEF Contract!vars

\* A worker that takes a machine from its queue: the machine stays queued.
LEMMA ReceiveImplements ==
    ASSUME IInv, FateByPlace, FateByPlace', NEW w \in Workers, Receive(w)
    PROVE  UNCHANGED Contract!vars
<1> USE DEF IInv
<1>1. PICK d \in jobs[w[1]] : /\ jobs' = [jobs EXCEPT ![w[1]] = @ \ {d}]
                               /\ job' = [job EXCEPT ![w] = d]
  BY DEF Receive
<1>2. /\ pc[w] = "receive" /\ pc' = [pc EXCEPT ![w] = "check"]
      /\ status' = [status EXCEPT ![w] = Cancelled]
      /\ UNCHANGED <<results, closed, cancelled>>
  BY DEF Receive, Goto
<1>3. w[1] \in Sites /\ d \in Devices /\ SiteOf[d] = w[1] /\ job[w] = NoDevice
  BY WorkerShape, <1>2 DEF OnePlace, Grouped, Possession
<1>4. ASSUME NEW e \in Devices PROVE Fate(e)' = Fate(e)
  <2>0. e # NoDevice /\ SiteOf[e] \in Sites
    BY FleetAssumption DEF FleetAssumption
  <2>1. CASE e = d
    <3>1. Fate(e) = "queued"
      BY <1>3, <2>1 DEF FateByPlace
    <3>2. job'[w] = e /\ pc'[w] = "check"
      BY <1>1, <1>2, <2>1 DEF TypeOK
    <3>3. Fate(e)' = WorkerFate(w)'
      BY <3>2 DEF FateByPlace
    <3> QED BY <3>1, <3>2, <3>3 DEF WorkerFate
  <2>2. CASE e # d /\ e \in jobs[SiteOf[e]]
    <3>1. e \in jobs'[SiteOf[e]]
      BY <1>1, <1>3, <2>0, <2>2 DEF TypeOK
    <3> QED BY <2>2, <3>1 DEF FateByPlace
  <2>3. CASE \E i \in DOMAIN results : results[i].device = e
    BY <1>2, <2>3 DEF FateByPlace
  <2>4. CASE \E v \in Workers : job[v] = e
    <3>1. PICK v \in Workers : job[v] = e
      BY <2>4
    <3>2. v # w
      BY <1>3, <2>0, <3>1
    <3>3. job'[v] = e /\ pc'[v] = pc[v] /\ status'[v] = status[v]
      BY <1>1, <1>2, <3>1, <3>2 DEF TypeOK
    <3> QED BY <3>1, <3>3 DEF FateByPlace, WorkerFate
  <2> QED BY <2>1, <2>2, <2>3, <2>4 DEF NoneLost, Reported
<1>5. [e \in Devices |-> Fate(e)]' = [e \in Devices |-> Fate(e)]
  BY <1>4
<1>6. Reported' = Reported
  BY <1>2 DEF Reported
<1> QED BY <1>2, <1>5, <1>6 DEF Contract!vars

\* A machine that is dropped before its operation began, because the context is
\* done: the contract's Skip.
LEMMA DropImplements ==
    ASSUME IInv, FateByPlace, FateByPlace', NEW w \in Workers,
           pc[w] \in {"check", "select", "acquired"}, cancelled,
           pc' = [pc EXCEPT ![w] = "send"] \/ pc' = [pc EXCEPT ![w] = "release"],
           UNCHANGED <<jobs, job, status, results, closed, cancelled>>
    PROVE  Contract!Skip(job[w])
<1> USE DEF IInv
<1>1. job[w] \in Devices /\ status[w] = Cancelled
  BY DEF TypeOK, Possession, History
<1>2. pc'[w] \in {"send", "release"} /\ \A v \in Workers : v # w => pc'[v] = pc[v]
  BY DEF TypeOK
<1>3. Fate(job[w]) = "queued"
  BY <1>1 DEF FateByPlace, WorkerFate
<1>4. Fate(job[w])' = Cancelled
  BY <1>1, <1>2 DEF FateByPlace, WorkerFate
<1>5. \A e \in Devices : e # job[w] => Fate(e)' = Fate(e)
  BY <1>2, FateFrame
<1>6. [e \in Devices |-> Fate(e)]' = [[e \in Devices |-> Fate(e)] EXCEPT ![job[w]] = Cancelled]
  BY <1>1, <1>4, <1>5, FateExcept
<1>7. Reported' = Reported
  BY DEF Reported
<1> QED BY <1>1, <1>3, <1>6, <1>7 DEF Contract!Skip

\* The machines in flight are held by running workers, each by its own.
LEMMA InFlightHolders ==
    ASSUME IInv, FateByPlace, NEW d \in Contract!InFlight
    PROVE  /\ d \in Devices
           /\ Holder(d) \in Workers
           /\ job[Holder(d)] = d
           /\ pc[Holder(d)] = "running"
<1> USE DEF IInv
<1>1. d \in Devices /\ Fate(d) = "running"
  BY DEF Contract!InFlight
<1>2. ~ (d \in jobs[SiteOf[d]])
  BY <1>1 DEF FateByPlace
<1>3. d \notin Reported
  <2> SUFFICES ASSUME NEW i \in DOMAIN results, results[i].device = d PROVE FALSE
    BY DEF Reported
  <2>1. results[i].status = "running"
    BY <1>1 DEF FateByPlace
  <2>2. results[i] \in Result
    BY DEF TypeOK
  <2> QED BY <2>1, <2>2, FleetAssumption DEF Result, FleetAssumption, Cancelled
<1>4. PICK w \in Workers : job[w] = d
  BY <1>1, <1>2, <1>3 DEF NoneLost
<1>5. WorkerFate(w) = "running" /\ Holder(d) = w
  BY <1>1, <1>4 DEF FateByPlace
<1>6. pc[w] = "running"
  BY <1>5, FleetAssumption DEF WorkerFate, TypeOK, FleetAssumption, Cancelled
<1> QED BY <1>1, <1>4, <1>5, <1>6

\* With a token in hand and the operation not yet begun, there is room for one
\* more under the limit of Run and under that of the site.
LEMMA RoomToBegin ==
    ASSUME IInv, FateByPlace, NEW w \in Workers, pc[w] = "acquired"
    PROVE  /\ Cardinality(Contract!InFlight) < GlobalLimit
           /\ Cardinality({e \in Contract!InFlight : SiteOf[e] = w[1]}) < SiteCap(w[1])
<1> USE DEF IInv
<1> DEFINE flight == Contract!InFlight
           tokens == global \ {w}
<1>1. Cardinality(flight) < GlobalLimit
  <2>1. IsFiniteSet(global) /\ Cardinality(global) \in Nat
    BY WorkersFinite, FS_Subset, FS_CardinalityType DEF TypeOK
  <2>2. w \in global
    BY DEF Tokens
  <2>3. IsFiniteSet(tokens) /\ Cardinality(tokens) = Cardinality(global) - 1
    <3>1. /\ IsFiniteSet(global \ {w})
          /\ Cardinality(global \ {w}) =
               IF w \in global THEN Cardinality(global) - 1 ELSE Cardinality(global)
      BY <2>1, FS_RemoveElement, Zenon
    <3> QED BY <2>2, <3>1
  <2>4. [d \in flight |-> Holder(d)] \in Injection(flight, tokens)
    <3>1. \A d \in flight : Holder(d) \in tokens /\ job[Holder(d)] = d
      BY InFlightHolders DEF Tokens
    <3>2. [d \in flight |-> Holder(d)] \in [flight -> tokens]
      BY <3>1
    <3>3. \A d, e \in flight : Holder(d) = Holder(e) => d = e
      BY <3>1
    <3> QED BY <3>2, <3>3 DEF Injection, IsInjective
  <2>5. IsFiniteSet(flight) /\ Cardinality(flight) <= Cardinality(tokens)
    BY <2>3, <2>4, FS_Injection
  <2>6. Cardinality(flight) \in Nat
    BY <2>5, FS_CardinalityType
  <2> QED BY <2>1, <2>3, <2>5, <2>6, GlobalLimitRange DEF Tokens
<1>2. Cardinality({e \in flight : SiteOf[e] = w[1]}) < SiteCap(w[1])
  <2> DEFINE s == w[1]
             here == {e \in flight : SiteOf[e] = s}
             slots == 1 .. SiteWorkers(s)
             free == slots \ {w[2]}
  <2>1. s \in Sites /\ w[2] \in slots /\ w = <<w[1], w[2]>>
    BY WorkerShape
  <2>2. SiteWorkers(s) \in 0 .. SiteCap(s) /\ SiteCap(s) \in 1 .. 16
    BY <2>1, SiteWorkersRange, SiteCapRange
  <2>3. IsFiniteSet(slots) /\ Cardinality(slots) = SiteWorkers(s)
    <3>1. \A a, b \in Int : IsFiniteSet(a .. b) /\ Cardinality(a .. b) = IF a > b THEN 0 ELSE b - a + 1
      BY FS_Interval
    <3>2. 1 \in Int /\ SiteWorkers(s) \in Int
      BY <2>2
    <3>3. IsFiniteSet(slots)
      BY <3>1, <3>2, Zenon
    <3>4. Cardinality(slots) = IF 1 > SiteWorkers(s) THEN 0 ELSE SiteWorkers(s) - 1 + 1
      BY <3>1, <3>2, Zenon
    <3> QED BY <2>2, <3>3, <3>4
  <2>4. IsFiniteSet(free) /\ Cardinality(free) = SiteWorkers(s) - 1
    <3>1. /\ IsFiniteSet(slots \ {w[2]})
          /\ Cardinality(slots \ {w[2]}) =
               IF w[2] \in slots THEN Cardinality(slots) - 1 ELSE Cardinality(slots)
      BY <2>3, FS_RemoveElement, Zenon
    <3> QED BY <2>1, <2>3, <3>1
  <2>5. [e \in here |-> Holder(e)[2]] \in Injection(here, free)
    <3>1. ASSUME NEW e \in here
          PROVE  /\ Holder(e) = <<s, Holder(e)[2]>> /\ job[Holder(e)] = e
                 /\ Holder(e)[2] \in free
      <4>1. /\ Holder(e) \in Workers /\ job[Holder(e)] = e /\ pc[Holder(e)] = "running"
            /\ e \in Devices /\ SiteOf[e] = s
        BY InFlightHolders
      <4>2. e # NoDevice
        BY <4>1, FleetAssumption DEF FleetAssumption
      <4>3. Holder(e)[1] = s
        BY <4>1, <4>2 DEF Possession
      <4>4. Holder(e) = <<s, Holder(e)[2]>> /\ Holder(e)[2] \in slots
        BY <4>1, <4>3, WorkerShape
      <4>5. Holder(e)[2] # w[2]
        BY <2>1, <4>1, <4>4
      <4> QED BY <4>1, <4>4, <4>5
    <3>2. [e \in here |-> Holder(e)[2]] \in [here -> free]
      BY <3>1
    <3>3. \A d, e \in here : Holder(d)[2] = Holder(e)[2] => d = e
      BY <3>1
    <3> QED BY <3>2, <3>3 DEF Injection, IsInjective
  <2>6. IsFiniteSet(here) /\ Cardinality(here) <= Cardinality(free)
    BY <2>4, <2>5, FS_Injection
  <2>7. Cardinality(here) \in Nat
    BY <2>6, FS_CardinalityType
  <2> QED BY <2>2, <2>4, <2>6, <2>7
<1> QED BY <1>1, <1>2

\* The second look at the context: the contract's Begin, or its Skip.
LEMMA BeginImplements ==
    ASSUME IInv, FateByPlace, FateByPlace', NEW w \in Workers, Begin(w)
    PROVE  Contract!Begin(job[w]) \/ Contract!Skip(job[w])
<1> USE DEF IInv
<1>1. CASE cancelled
  <2>1. pc[w] = "acquired" /\ pc' = [pc EXCEPT ![w] = "release"]
        /\ UNCHANGED <<jobs, job, status, results, closed, cancelled>>
    BY <1>1 DEF Begin, Goto
  <2> QED BY <1>1, <2>1, DropImplements
<1>2. CASE ~cancelled
  <2>1. /\ pc[w] = "acquired" /\ pc' = [pc EXCEPT ![w] = "running"]
        /\ UNCHANGED <<jobs, job, status, results, closed, cancelled>>
    BY <1>2 DEF Begin, Goto
  <2>2. job[w] \in Devices /\ SiteOf[job[w]] = w[1] /\ w[1] \in Sites
    BY <2>1, WorkerShape DEF TypeOK, Possession
  <2>3. pc'[w] = "running" /\ \A v \in Workers : v # w => pc'[v] = pc[v]
    BY <2>1 DEF TypeOK
  <2>4. Fate(job[w]) = "queued"
    BY <2>1, <2>2 DEF FateByPlace, WorkerFate
  <2>5. Fate(job[w])' = "running"
    BY <2>1, <2>2, <2>3 DEF FateByPlace, WorkerFate
  <2>6. \A e \in Devices : e # job[w] => Fate(e)' = Fate(e)
    BY <2>1, <2>3, FateFrame
  <2>7. [e \in Devices |-> Fate(e)]' = [[e \in Devices |-> Fate(e)] EXCEPT ![job[w]] = "running"]
    BY <2>1, <2>2, <2>5, <2>6, FateExcept
  <2>8. Reported' = Reported
    BY <2>1 DEF Reported
  <2>9. /\ Cardinality(Contract!InFlight) < GlobalLimit
        /\ Cardinality({e \in Contract!InFlight : SiteOf[e] = SiteOf[job[w]]}) < SiteCap(SiteOf[job[w]])
    BY <2>1, <2>2, RoomToBegin
  <2>10. [t \in Sites |-> SiteCap(t)][SiteOf[job[w]]] = SiteCap(SiteOf[job[w]])
    BY <2>2
  <2>13. /\ Contract!Cardinality(Contract!InFlight) < GlobalLimit
         /\ Contract!Cardinality({e \in Contract!InFlight : SiteOf[e] = SiteOf[job[w]]})
               < SiteCap(SiteOf[job[w]])
    BY <2>9, SameCardinality
  <2>11. [e \in Devices |-> Fate(e)][job[w]] = "queued"
    BY <2>2, <2>4
  <2>12. Contract!Begin(job[w])
    BY <1>2, <2>1, <2>7, <2>8, <2>10, <2>11, <2>13 DEF Contract!Begin
  <2> QED BY <2>12
<1> QED BY <1>1, <1>2

\* The operation returns: the contract's Complete.
LEMMA OperateImplements ==
    ASSUME IInv, FateByPlace, FateByPlace', NEW w \in Workers, Operate(w)
    PROVE  Contract!Complete(job[w])
<1> USE DEF IInv
<1>1. PICK o \in Outcomes : status' = [status EXCEPT ![w] = o]
  BY DEF Operate
<1>2. /\ pc[w] = "running" /\ pc' = [pc EXCEPT ![w] = "release"]
      /\ UNCHANGED <<jobs, job, results, closed, cancelled>>
  BY DEF Operate, Goto
<1>3. job[w] \in Devices
  BY <1>2 DEF TypeOK, Possession
<1>4. /\ pc'[w] = "release" /\ status'[w] = o
      /\ \A v \in Workers : v # w => pc'[v] = pc[v] /\ status'[v] = status[v]
  BY <1>1, <1>2 DEF TypeOK
<1>5. Fate(job[w]) = "running"
  BY <1>2, <1>3 DEF FateByPlace, WorkerFate
<1>6. Fate(job[w])' = o
  BY <1>2, <1>3, <1>4 DEF FateByPlace, WorkerFate
<1>7. \A e \in Devices : e # job[w] => Fate(e)' = Fate(e)
  BY <1>2, <1>4, FateFrame
<1>8. [e \in Devices |-> Fate(e)]' = [[e \in Devices |-> Fate(e)] EXCEPT ![job[w]] = o]
  BY <1>2, <1>3, <1>6, <1>7, FateExcept
<1>9. Reported' = Reported
  BY <1>2 DEF Reported
<1>10. [e \in Devices |-> Fate(e)][job[w]] = "running"
  BY <1>3, <1>5
<1> QED BY <1>2, <1>8, <1>9, <1>10 DEF Contract!Complete

\* A result enters the channel: the contract's Report, which says of the
\* machine what its worker knew.
LEMMA SendImplements ==
    ASSUME IInv, FateByPlace, FateByPlace', NEW w \in Workers, Send(w)
    PROVE  Contract!Report(job[w])
<1> USE DEF IInv
<1> DEFINE d == job[w]
           r == [device |-> d, status |-> status[w]]
<1>1. /\ pc[w] = "send" /\ pc' = [pc EXCEPT ![w] = "receive"]
      /\ results' = Append(results, r)
      /\ job' = [job EXCEPT ![w] = NoDevice]
      /\ UNCHANGED <<jobs, status, closed, cancelled>>
  BY DEF Send, Goto
<1>2. d \in Devices /\ d \notin Reported /\ status[w] \in Outcomes \cup {Cancelled}
  BY <1>1 DEF TypeOK, Possession, OnePlace
<1>3. Fate(d) = status[w]
  BY <1>1, <1>2 DEF FateByPlace, WorkerFate
<1>4. r \in Result
  BY <1>2 DEF Result
<1>5. /\ \A i \in DOMAIN results : i \in DOMAIN results' /\ results'[i] = results[i]
      /\ Len(results') \in DOMAIN results' /\ results'[Len(results')] = r
      /\ Reported' = Reported \cup {r.device}
  BY <1>1, <1>4, AppendResult
<1>6. ASSUME NEW e \in Devices PROVE Fate(e)' = Fate(e)
  <2>1. CASE e = d
    <3>1. results'[Len(results')].device = e /\ results'[Len(results')].status = status[w]
      BY <1>5, <2>1
    <3> QED BY <1>3, <1>5, <2>1, <3>1 DEF FateByPlace
  <2>2. CASE e \in jobs[SiteOf[e]]
    BY <1>1, <2>2 DEF FateByPlace
  <2>3. CASE \E i \in DOMAIN results : results[i].device = e
    BY <1>5, <2>3 DEF FateByPlace
  <2>4. CASE e # d /\ \E v \in Workers : job[v] = e
    <3>1. PICK v \in Workers : job[v] = e
      BY <2>4
    <3>2. v # w
      BY <2>4, <3>1
    <3>3. job'[v] = e /\ pc'[v] = pc[v] /\ status'[v] = status[v]
      BY <1>1, <3>1, <3>2 DEF TypeOK
    <3> QED BY <3>1, <3>3 DEF FateByPlace, WorkerFate
  <2> QED BY <2>1, <2>2, <2>3, <2>4 DEF NoneLost, Reported
<1>7. [e \in Devices |-> Fate(e)]' = [e \in Devices |-> Fate(e)]
  BY <1>6
<1>8. [e \in Devices |-> Fate(e)][d] = status[w]
  BY <1>2, <1>3
<1>9. Reported' = Reported \cup {d}
  BY <1>5
<1> HIDE DEF d
<1> QED BY <1>1, <1>2, <1>7, <1>8, <1>9 DEF Contract!Report, d

\* A step that concerns neither workers nor results changes no machine's fate.
LEMMA FatesKept ==
    ASSUME FateByPlace, FateByPlace', IInv, UNCHANGED <<jobs, pc, job, status, results>>
    PROVE  /\ [e \in Devices |-> Fate(e)]' = [e \in Devices |-> Fate(e)]
           /\ Reported' = Reported
<1>1. ASSUME NEW e \in Devices PROVE Fate(e)' = Fate(e)
  <2>1. CASE e \in jobs[SiteOf[e]]
    BY <2>1 DEF FateByPlace
  <2>2. CASE \E i \in DOMAIN results : results[i].device = e
    BY <2>2 DEF FateByPlace
  <2>3. CASE \E v \in Workers : job[v] = e
    BY <2>3 DEF FateByPlace, WorkerFate
  <2> QED BY <2>1, <2>2, <2>3 DEF IInv, NoneLost, Reported
<1>2. Reported' = Reported
  BY DEF Reported
<1> QED BY <1>1, <1>2

\* Closing the channel is the contract's End: by then all has been reported.
LEMMA CloseImplements ==
    ASSUME IInv, FateByPlace, FateByPlace', ClosedIsComplete', CloseResults
    PROVE  Contract!End
<1>1. UNCHANGED <<jobs, pc, job, status, results, cancelled>> /\ ~closed /\ closed' = TRUE
  BY DEF CloseResults
<1>2. /\ [e \in Devices |-> Fate(e)]' = [e \in Devices |-> Fate(e)]
      /\ Reported' = Reported
  BY <1>1, FatesKept
<1>3. Reported = Devices
  BY <1>1, <1>2 DEF ClosedIsComplete
<1> QED BY <1>1, <1>2, <1>3 DEF Contract!End

\* The caller's steps: its Cancel is the contract's, its reading is not seen.
LEMMA CallerImplements ==
    ASSUME IInv, FateByPlace, FateByPlace',
           Cancel \/ Take \/ SeeClosed \/ StopReading \/ UNCHANGED vars
    PROVE  Contract!Cancel \/ UNCHANGED Contract!vars
<1>1. /\ UNCHANGED <<jobs, pc, job, status, results, closed>>
      /\ cancelled' = cancelled \/ (~cancelled /\ cancelled' = TRUE)
  BY DEF Cancel, Take, SeeClosed, StopReading, vars, workerVars
<1>2. /\ [e \in Devices |-> Fate(e)]' = [e \in Devices |-> Fate(e)]
      /\ Reported' = Reported
  BY <1>1, FatesKept
<1> QED BY <1>1, <1>2 DEF Contract!Cancel, Contract!vars

\* The steps of a worker that the contract does not see, or sees as a Skip.
LEMMA QuietImplements ==
    ASSUME IInv, FateByPlace, FateByPlace', NEW w \in Workers,
           Leave(w) \/ CheckContext(w) \/ Acquire(w) \/ GiveUp(w) \/ Release(w)
    PROVE  Contract!Skip(job[w]) \/ UNCHANGED Contract!vars
<1> USE DEF IInv
<1>1. /\ UNCHANGED <<jobs, job, status, results, closed, cancelled>>
      /\ w \in DOMAIN pc /\ \A v \in Workers : v # w => pc'[v] = pc[v]
  BY DEF Leave, CheckContext, Acquire, GiveUp, Release, Goto, TypeOK
<1>2. CASE Leave(w) \/ Acquire(w) \/ Release(w) \/ (CheckContext(w) /\ ~cancelled)
  <2>1. \/ pc[w] \in {"receive", "check", "select"} /\ pc'[w] \in {"done", "select", "acquired"}
        \/ pc[w] = "release" /\ pc'[w] = "send"
    BY <1>1, <1>2 DEF Leave, Acquire, Release, CheckContext, Goto
  <2>2. WorkerFate(w)' = WorkerFate(w)
    BY <1>1, <2>1 DEF WorkerFate
  <2> QED BY <1>1, <2>2, WorkerStutters
<1>3. CASE GiveUp(w) \/ (CheckContext(w) /\ cancelled)
  <2>1. /\ pc[w] \in {"check", "select", "acquired"} /\ cancelled
        /\ pc' = [pc EXCEPT ![w] = "send"]
    BY <1>3 DEF GiveUp, CheckContext, Goto
  <2> QED BY <1>1, <2>1, DropImplements
<1> QED BY <1>2, <1>3

\* Every step of Run is a step of the contract or is not seen by it.
LEMMA StepImplements ==
    IInv /\ FateByPlace /\ FateByPlace' /\ ClosedIsComplete' /\ [Next]_vars
    => [Contract!Next]_(Contract!vars)
<1> SUFFICES ASSUME IInv, FateByPlace, FateByPlace', ClosedIsComplete', [Next]_vars
             PROVE  Contract!Next \/ UNCHANGED Contract!vars
  OBVIOUS
<1>1. ASSUME NEW w \in Workers, job[w] = NoDevice, WorkerStep(w)
      PROVE  UNCHANGED Contract!vars
  <2>1. pc[w] \in {"receive", "done"}
    BY <1>1 DEF IInv, Possession
  <2>2. Receive(w) \/ Leave(w)
    BY <1>1, <2>1 DEF WorkerStep, CheckContext, Acquire, GiveUp, Begin, Operate, Release, Send, Goto
  <2>3. CASE Leave(w)
    <3>1. /\ UNCHANGED <<jobs, job, status, results, closed, cancelled>>
          /\ pc[w] = "receive" /\ pc'[w] = "done"
          /\ \A v \in Workers : v # w => pc'[v] = pc[v]
      BY <2>3 DEF Leave, Goto, IInv, TypeOK
    <3>2. WorkerFate(w)' = WorkerFate(w)
      BY <3>1 DEF WorkerFate
    <3> QED BY <3>1, <3>2, WorkerStutters
  <2> QED BY <2>2, <2>3, ReceiveImplements
<1>2. ASSUME NEW w \in Workers, job[w] \in Devices, WorkerStep(w)
      PROVE  \/ Contract!Begin(job[w]) \/ Contract!Complete(job[w])
             \/ Contract!Skip(job[w]) \/ Contract!Report(job[w])
             \/ UNCHANGED Contract!vars
  BY <1>2, ReceiveImplements, QuietImplements, BeginImplements, OperateImplements, SendImplements
     DEF WorkerStep
<1>3. ASSUME NEW w \in Workers, WorkerStep(w) PROVE Contract!Next \/ UNCHANGED Contract!vars
  <2>1. job[w] \in Devices \/ job[w] = NoDevice
    BY DEF IInv, TypeOK
  <2> QED BY <1>1, <1>2, <1>3, <2>1 DEF Contract!Next
<1>4. CASE CloseResults
  BY <1>4, CloseImplements DEF Contract!Next
<1>5. CASE Cancel \/ Take \/ SeeClosed \/ StopReading \/ UNCHANGED vars
  BY <1>5, CallerImplements DEF Contract!Next
<1> QED BY <1>3, <1>4, <1>5 DEF Next

\* fleet.Run implements its contract: whatever the machines, the sites and the
\* limits, its callers see each machine begun at most once and within the
\* limits, reported once, and the results end after all of them.
THEOREM RunImplementsContract == Spec => ImplementsContract
<1>1. Init => Contract!Init
  BY InitImplements
<1>2. Spec => []IInv
  BY Invariance
<1>3. IInv => FateByPlace
  BY FateIsByPlace
<1>4. IInv => ClosedIsComplete
  BY CompleteFromIInv
<1>5. IInv /\ FateByPlace /\ FateByPlace' /\ ClosedIsComplete' /\ [Next]_vars
      => [Contract!Next]_(Contract!vars)
  BY StepImplements
<1> QED BY <1>1, <1>2, <1>3, <1>4, <1>5, PTL DEF Spec, ImplementsContract, Contract!Spec

=============================================================================

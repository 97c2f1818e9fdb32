------------------------------ MODULE BatchProofs ------------------------------
(* Theorems about `wol batch` for any machines, sites, limits and outcomes. *)
EXTENDS BatchCommand, FleetProofs

-----------------------------------------------------------------------------
(* The inductive invariant: what holds of the pool while the command reads,*)
(* and what the counts say of the results that were printed.               *)

\* Only a cancellation makes a worker report that its machine was skipped.
OnlyCancelledSkips ==
    ~cancelled =>
        /\ \A w \in Workers : pc[w] \in {"release", "send"} => status[w] # Cancelled
        /\ \A i \in DOMAIN results : results[i].status # Cancelled

\* The counts are positive when there is something to count.
Counted ==
    /\ good \in Nat /\ bad \in Nat
    /\ good > 0 <=> \E i \in 1 .. taken : results[i].status \in Success
    /\ bad > 0 <=> \E i \in 1 .. taken : results[i].status \notin Success

BatchInv ==
    /\ IInv /\ OnlyCancelledSkips /\ Counted
    /\ exit = NoExit => consumer = "reading"
    /\ ExitCodeTellsTruth /\ InterruptedReportsAll

\* The command begins with nothing counted.
LEMMA BatchInitInv == BatchInit => BatchInv
<1> SUFFICES ASSUME BatchInit PROVE BatchInv
  OBVIOUS
<1> USE DEF BatchInit
<1>1. IInv
  BY InitIInv
<1>2. OnlyCancelledSkips
  BY DEF Init, OnlyCancelledSkips
<1>3. Counted
  BY DEF Init, Counted
<1>4. exit = NoExit /\ consumer = "reading"
  BY DEF Init
<1>5. ExitCodeTellsTruth /\ InterruptedReportsAll
  BY <1>4 DEF NoExit, ExitCodeTellsTruth, InterruptedReportsAll
<1> QED BY <1>1, <1>2, <1>3, <1>4, <1>5 DEF BatchInv

\* When every machine is reported, and none twice, there is one result for each.
LEMMA OneResultEach ==
    ASSUME IInv, Reported = Devices
    PROVE  Len(results) = Cardinality(Devices)
<1> DEFINE slots == 1 .. Len(results)
           f == [i \in slots |-> results[i].device]
<1>1. Len(results) \in Nat /\ DOMAIN results = slots
  BY DEF IInv, TypeOK
<1>2. f \in [slots -> Devices]
  BY <1>1 DEF Reported
<1>3. \A i, j \in slots : f[i] = f[j] => i = j
  BY <1>1 DEF IInv, NoDuplicateResult
<1>4. \A d \in Devices : \E i \in slots : f[i] = d
  BY <1>1 DEF Reported
<1>5. f \in Bijection(slots, Devices)
  BY <1>2, <1>3, <1>4 DEF Bijection, Injection, IsInjective, Surjection
<1>6. ExistsBijection(slots, Devices)
  BY <1>5 DEF ExistsBijection
<1> HIDE DEF f
<1> QED BY <1>1, <1>6, FS_CountingElements

-----------------------------------------------------------------------------
(* The steps.                                                              *)

\* Every step of the command is one of the pool and its reader.
LEMMA BatchStepIsFleetStep == [BatchNext]_batchVars => [Next]_vars
BY DEF BatchNext, Background, Interrupt, PrintResult, OutputFails, Conclude, Next, batchVars

\* A worker skips a machine only on the paths that a cancellation opens.
LEMMA SkipsKept ==
    ASSUME IInv, OnlyCancelledSkips, [Next]_vars
    PROVE  OnlyCancelledSkips'
<1> USE DEF IInv, TypeOK, OnlyCancelledSkips
<1>1. ASSUME NEW w \in Workers, Receive(w) \/ Leave(w) \/ CheckContext(w) \/ Acquire(w)
                                  \/ GiveUp(w) \/ Begin(w) \/ Release(w)
      PROVE  OnlyCancelledSkips'
  BY <1>1 DEF Receive, Leave, CheckContext, Acquire, GiveUp, Begin, Release, Goto
<1>2. ASSUME NEW w \in Workers, Operate(w) PROVE OnlyCancelledSkips'
  BY <1>2, FleetAssumption DEF Operate, Goto, FleetAssumption
<1>3. ASSUME NEW w \in Workers, Send(w) PROVE OnlyCancelledSkips'
  <2> DEFINE r == [device |-> job[w], status |-> status[w]]
  <2>1. r \in Result /\ results' = Append(results, r)
    BY <1>3 DEF Send, Goto, Possession, Result
  <2>2. \A i \in DOMAIN results' : (i \in DOMAIN results /\ results'[i] = results[i]) \/ results'[i] = r
    BY <2>1, AppendResult
  <2>3. ~cancelled => r.status # Cancelled
    BY <1>3 DEF Send, Goto
  <2> HIDE DEF r
  <2>4. ~cancelled' => \A i \in DOMAIN results' : results'[i].status # Cancelled
    BY <1>3, <2>2, <2>3 DEF Send
  <2> QED BY <1>3, <2>4 DEF Send, Goto
<1>4. CASE CloseResults \/ Cancel \/ Take \/ SeeClosed \/ StopReading \/ UNCHANGED vars
  BY <1>4 DEF CloseResults, Cancel, Take, SeeClosed, StopReading, vars, workerVars
<1> QED BY <1>1, <1>2, <1>3, <1>4 DEF Next, WorkerStep

\* A step of the pool takes no printed result back.
LEMMA PrintedKept ==
    ASSUME IInv, Next, taken' = taken
    PROVE  \A i \in 1 .. taken : results'[i] = results[i]
<1> USE DEF IInv, TypeOK
<1>1. Len(results) \in Nat /\ DOMAIN results = 1 .. Len(results) /\ taken \in 0 .. Len(results)
  OBVIOUS
<1>2. ASSUME NEW w \in Workers, Send(w) PROVE \A i \in DOMAIN results : results'[i] = results[i]
  <2>1. [device |-> job[w], status |-> status[w]] \in Result
    BY <1>2 DEF Send, Goto, Possession, Result
  <2> QED BY <1>2, <2>1, AppendResult DEF Send
<1>3. results' = results \/ \E w \in Workers : Send(w)
  BY DEF Next, WorkerStep, Receive, Leave, CheckContext, Acquire, GiveUp, Begin, Operate, Release,
         CloseResults, Cancel, Take, SeeClosed, StopReading, workerVars
<1> QED BY <1>1, <1>2, <1>3

\* Nothing of the invariant is lost by a step that does not end the command.
LEMMA StillRunning ==
    ASSUME BatchInv, Next, exit' = NoExit, consumer' = "reading", Counted'
    PROVE  BatchInv'
<1>1. IInv' /\ OnlyCancelledSkips'
  BY NextIInv, SkipsKept DEF BatchInv
<1>2. ExitCodeTellsTruth' /\ InterruptedReportsAll'
  BY DEF NoExit, ExitCodeTellsTruth, InterruptedReportsAll
<1> QED BY <1>1, <1>2 DEF BatchInv

\* The pool works and the signal comes without a result being printed.
LEMMA BackgroundInv ==
    ASSUME BatchInv, exit = NoExit, Background \/ Interrupt
    PROVE  BatchInv'
<1>1. Next
  BY DEF Background, Interrupt, Next
<1>2. UNCHANGED <<taken, consumer, good, bad, exit>>
  BY DEF Background, Interrupt, WorkerStep, Receive, Leave, CheckContext, Acquire, GiveUp, Begin,
         Operate, Release, Send, CloseResults, Cancel, workerVars
<1>3. \A i \in 1 .. taken : results'[i] = results[i]
  BY <1>1, <1>2, PrintedKept DEF BatchInv
<1>4. Counted'
  BY <1>2, <1>3 DEF BatchInv, Counted
<1> QED BY <1>1, <1>2, <1>4, StillRunning DEF BatchInv

\* A result that is printed is counted on its side.
LEMMA PrintResultInv ==
    ASSUME BatchInv, exit = NoExit, PrintResult
    PROVE  BatchInv'
<1>1. Next
  BY DEF PrintResult, Next
<1>2. taken \in Nat /\ taken' = taken + 1 /\ UNCHANGED <<results, consumer, exit>> /\ consumer = "reading"
  BY DEF BatchInv, IInv, TypeOK, PrintResult, Take
<1>3. \A i \in 1 .. taken' : i \in 1 .. taken \/ i = taken + 1
  BY <1>2
<1>4. 1 .. taken \subseteq 1 .. taken' /\ taken + 1 \in 1 .. taken'
  BY <1>2
<1>5. CASE results[taken + 1].status \in Success
  <2>1. good' = good + 1 /\ bad' = bad
    BY <1>5 DEF PrintResult
  <2>2. (\E i \in 1 .. taken' : results'[i].status \notin Success)
            <=> \E i \in 1 .. taken : results[i].status \notin Success
    BY <1>2, <1>3, <1>4, <1>5
  <2>3. \E i \in 1 .. taken' : results'[i].status \in Success
    BY <1>2, <1>4, <1>5
  <2>4. Counted'
    BY <2>1, <2>2, <2>3 DEF BatchInv, Counted
  <2> QED BY <1>1, <1>2, <2>4, StillRunning
<1>6. CASE results[taken + 1].status \notin Success
  <2>1. good' = good /\ bad' = bad + 1
    BY <1>6 DEF PrintResult
  <2>2. (\E i \in 1 .. taken' : results'[i].status \in Success)
            <=> \E i \in 1 .. taken : results[i].status \in Success
    BY <1>2, <1>3, <1>4, <1>6
  <2>3. \E i \in 1 .. taken' : results'[i].status \notin Success
    BY <1>2, <1>4, <1>6
  <2>4. Counted'
    BY <2>1, <2>2, <2>3 DEF BatchInv, Counted
  <2> QED BY <1>1, <1>2, <2>4, StillRunning
<1> QED BY <1>5, <1>6

\* A line that cannot be written ends the command with its reader gone.
LEMMA OutputFailsInv ==
    ASSUME BatchInv, exit = NoExit, OutputFails
    PROVE  BatchInv'
<1>1. Next
  BY DEF OutputFails, Next
<1>2. exit' = 1 /\ consumer' = "gone" /\ UNCHANGED <<taken, results, good, bad>>
  BY DEF OutputFails, StopReading
<1>3. IInv' /\ OnlyCancelledSkips'
  BY <1>1, NextIInv, SkipsKept DEF BatchInv
<1>4. Counted'
  BY <1>2 DEF BatchInv, Counted
<1>5. ExitCodeTellsTruth' /\ InterruptedReportsAll'
  BY <1>2 DEF NoExit, ExitCodeTellsTruth, InterruptedReportsAll
<1> QED BY <1>2, <1>3, <1>4, <1>5 DEF BatchInv, NoExit

\* At the end everything is reported and printed, and the counts say what.
LEMMA ConcludeInv ==
    ASSUME BatchInv, exit = NoExit, Conclude
    PROVE  BatchInv'
<1>1. Next
  BY DEF Conclude, Next
<1>2. /\ closed /\ taken = Len(results) /\ consumer' = "finished"
      /\ UNCHANGED <<taken, results, cancelled, good, bad>>
  BY DEF Conclude, SeeClosed, workerVars
<1>3. IInv' /\ OnlyCancelledSkips'
  BY <1>1, NextIInv, SkipsKept DEF BatchInv
<1>4. Counted'
  BY <1>2 DEF BatchInv, Counted
<1>5. Reported = Devices /\ Reported' = Reported
  BY <1>2, CompleteFromIInv DEF BatchInv, ClosedIsComplete, Reported
<1>6. taken = Cardinality(Devices)
  BY <1>2, <1>5, OneResultEach DEF BatchInv
<1>7. exit' \in {0, 1, 3, 130} /\ (exit' = 130 <=> cancelled)
  BY DEF Conclude
<1>8. /\ exit' = 0 => ~(bad > 0)
      /\ exit' = 3 => bad > 0 /\ good > 0
      /\ exit' = 1 => bad > 0 /\ ~(good > 0)
  BY DEF Conclude
<1>9. /\ ~(bad > 0) => Printed' \subseteq Success
      /\ bad > 0 => ~ Printed' \subseteq Success
      /\ good > 0 => Printed' \cap Success # {}
      /\ ~(good > 0) => Printed' \cap Success = {}
  BY <1>2 DEF BatchInv, Counted, Printed
<1>10. ~cancelled => Cancelled \notin Printed'
  <2>1. DOMAIN results = 1 .. taken
    BY <1>2 DEF BatchInv, IInv, TypeOK
  <2> QED BY <1>2, <2>1 DEF BatchInv, OnlyCancelledSkips, Printed
<1>11. ExitCodeTellsTruth'
  BY <1>2, <1>5, <1>7, <1>8, <1>9, <1>10 DEF ExitCodeTellsTruth, NoExit
<1>12. InterruptedReportsAll'
  BY <1>2, <1>6 DEF InterruptedReportsAll
<1> QED BY <1>3, <1>4, <1>7, <1>11, <1>12 DEF BatchInv, NoExit

\* It survives every step; once there is an exit code there are no more.
LEMMA BatchStepInv == BatchInv /\ [BatchNext]_batchVars => BatchInv'
<1> SUFFICES ASSUME BatchInv, [BatchNext]_batchVars PROVE BatchInv'
  OBVIOUS
<1>1. CASE BatchNext
  BY <1>1, BackgroundInv, PrintResultInv, OutputFailsInv, ConcludeInv DEF BatchNext
<1>2. CASE UNCHANGED batchVars
  <2>1. IInv' /\ OnlyCancelledSkips'
    BY <1>2, NextIInv, SkipsKept DEF BatchInv, batchVars
  <2>2. /\ UNCHANGED <<results, taken, cancelled, consumer, good, bad, exit>>
        /\ Printed' = Printed /\ Reported' = Reported
    BY <1>2 DEF batchVars, vars, Printed, Reported
  <2> QED BY <2>1, <2>2 DEF BatchInv, Counted, ExitCodeTellsTruth, InterruptedReportsAll
<1> QED BY <1>1, <1>2

-----------------------------------------------------------------------------
(* The theorems.                                                           *)

\* The invariant of `wol batch`.
THEOREM BatchInvariance == BatchSpec => []BatchInv
BY BatchInitInv, BatchStepInv, PTL DEF BatchSpec

\* The exit code agrees with what was printed, for any number of machines.
THEOREM ExitCodesAreTrue == BatchSpec => []ExitCodeTellsTruth
<1>1. BatchInv => ExitCodeTellsTruth
  BY DEF BatchInv
<1> QED BY <1>1, BatchInvariance, PTL

\* An interrupted batch has printed one line for each machine.
THEOREM InterruptionsAreComplete == BatchSpec => []InterruptedReportsAll
<1>1. BatchInv => InterruptedReportsAll
  BY DEF BatchInv
<1> QED BY <1>1, BatchInvariance, PTL

=============================================================================

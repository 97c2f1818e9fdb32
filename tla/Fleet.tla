------------------------------- MODULE Fleet -------------------------------
(***************************************************************************)
(* fleet.Run (internal/fleet/fleet.go): one operation per machine, spread   *)
(* over a pool of goroutines for each site, all of them sharing one        *)
(* counting semaphore, with one cancellable context and one buffered       *)
(* channel of results that the last goroutine closes.                      *)
(*                                                                         *)
(* Abstracted: a site's queue is the set of the machines still in it (the  *)
(* channel's order is one of the orders allowed here); the timeout handed  *)
(* to the operation; the fields of a result other than machine and status. *)
(***************************************************************************)
EXTENDS Integers, Sequences, FiniteSets

CONSTANTS
    Devices,          \* the machines passed to Run, one entry each
    Sites,            \* the site identifiers the machines refer to
    SiteOf,           \* SiteOf[d]: the site of machine d
    SiteConcurrency,  \* SiteConcurrency[s]: the site's setting, 0 if it has none
    Concurrency,      \* the caller's limit on simultaneous operations
    Outcomes,         \* the statuses an operation can return
    NoDevice          \* what a worker that holds no machine has as its job

Cancelled == "cancelled"  \* the status of a machine whose operation never ran

ASSUME FleetAssumption ==
    /\ IsFiniteSet(Devices)
    /\ IsFiniteSet(Sites)
    /\ SiteOf \in [Devices -> Sites]
    /\ SiteConcurrency \in [Sites -> Int]
    /\ Concurrency \in Int
    /\ NoDevice \notin Devices
    /\ Cancelled \notin Outcomes
    /\ "running" \notin Outcomes  \* what the contract says of an operation in flight

-----------------------------------------------------------------------------
(* The limits Run derives from its arguments.                              *)

\* The number of tokens of the semaphore `global`.
GlobalLimit ==
    IF Concurrency < 1 THEN 16 ELSE IF Concurrency > 32 THEN 32 ELSE Concurrency

Grouped(s) == {d \in Devices : SiteOf[d] = s}

\* A site's own limit, before it is cut to the number of its machines.
SiteCap(s) ==
    IF SiteConcurrency[s] < 1 THEN 4
    ELSE IF SiteConcurrency[s] > 16 THEN 16 ELSE SiteConcurrency[s]

SiteWorkers(s) ==
    IF SiteCap(s) > Cardinality(Grouped(s)) THEN Cardinality(Grouped(s)) ELSE SiteCap(s)

\* Worker <<s, i>> is the i-th goroutine started for site s.
Workers == UNION {{s} \X (1 .. SiteWorkers(s)) : s \in Sites}

\* Variant: a channel only as deep as the semaphore.
ShallowBuffer == GlobalLimit

\* make(chan Result, len(devices))
ResultBuffer == Cardinality(Devices)

-----------------------------------------------------------------------------
VARIABLES
    jobs,       \* jobs[s]: machines of site s no worker has received yet
    pc,         \* pc[w]: where worker w is in its loop
    job,        \* job[w]: the machine w holds
    status,     \* status[w]: the status in the result w is building
    global,     \* the workers that hold a token of the semaphore
    results,    \* every result sent, in order
    taken,      \* how many of them the consumer has received
    closed,     \* the result channel is closed
    cancelled,  \* the caller's context is done
    started,    \* history: machines whose operation was begun
    consumer    \* "reading", "gone" (stopped reading early) or "finished"

workerVars == <<jobs, pc, job, status, global, started>>
vars == <<jobs, pc, job, status, global, results, taken, closed, cancelled, started, consumer>>

Result == [device : Devices, status : Outcomes \cup {Cancelled}]

Reported == {results[i].device : i \in DOMAIN results}

Init ==
    /\ jobs = [s \in Sites |-> Grouped(s)]
    /\ pc = [w \in Workers |-> "receive"]
    /\ job = [w \in Workers |-> NoDevice]
    /\ status = [w \in Workers |-> Cancelled]
    /\ global = {}
    /\ results = <<>>
    /\ taken = 0
    /\ closed = FALSE
    /\ cancelled = FALSE
    /\ started = {}
    /\ consumer = "reading"

-----------------------------------------------------------------------------
(* The worker's loop.                                                      *)

Goto(w, from, to) == pc[w] = from /\ pc' = [pc EXCEPT ![w] = to]

(***************************************************************************)
(* Variants: plausible mistakes in this loop. None of them is part of the  *)
(* specification; each one put in the place of the action it varies breaks *)
(* a property below, as PROJECT.json records.                              *)
(***************************************************************************)

\* d := <-jobs in an endless loop: an empty closed queue yields a zero machine.
ReceiveUnchecked(w) ==
    /\ Goto(w, "receive", "check")
    /\ \E d \in IF jobs[w[1]] = {} THEN {NoDevice} ELSE jobs[w[1]] :
          /\ jobs' = [jobs EXCEPT ![w[1]] = @ \ {d}]
          /\ job' = [job EXCEPT ![w] = d]
    /\ status' = [status EXCEPT ![w] = Cancelled]
    /\ UNCHANGED <<global, results, taken, closed, cancelled, started, consumer>>

\* The result is declared outside the loop and keeps the last machine's status.
ReceiveKeepingStatus(w) ==
    /\ Goto(w, "receive", "check")
    /\ \E d \in jobs[w[1]] :
          /\ jobs' = [jobs EXCEPT ![w[1]] = @ \ {d}]
          /\ job' = [job EXCEPT ![w] = d]
    /\ UNCHANGED <<status, global, results, taken, closed, cancelled, started, consumer>>

\* The semaphore is made inside the loop over the sites.
AcquireOfSite(w) ==
    /\ Goto(w, "select", "acquired")
    /\ Cardinality({v \in global : v[1] = w[1]}) < GlobalLimit
    /\ global' = global \cup {w}
    /\ UNCHANGED <<jobs, job, status, results, taken, closed, cancelled, started, consumer>>

\* select with a default instead of case <-ctx.Done().
GiveUpWhenBusy(w) ==
    /\ Goto(w, "select", "send")
    /\ UNCHANGED <<jobs, job, status, global, results, taken, closed, cancelled, started, consumer>>

\* A worker that gives up leaves its machine to the others, and reports it.
GiveUpRequeuing(w) ==
    /\ cancelled
    /\ Goto(w, "select", "send")
    /\ jobs' = [jobs EXCEPT ![w[1]] = @ \cup {job[w]}]
    /\ UNCHANGED <<job, status, global, results, taken, closed, cancelled, started, consumer>>

\* No second ctx.Err() once the token is in hand.
BeginUnchecked(w) ==
    /\ Goto(w, "acquired", "running")
    /\ started' = started \cup {job[w]}
    /\ UNCHANGED <<jobs, job, status, global, results, taken, closed, cancelled, consumer>>

\* The channel is closed when the queues are empty, without wg.Wait().
CloseWithoutWaiting ==
    /\ ~closed
    /\ \A s \in Sites : jobs[s] = {}
    /\ closed' = TRUE
    /\ UNCHANGED <<jobs, pc, job, status, global, results, taken, cancelled, started, consumer>>

\* The goroutine that waits gives up with the context and closes nothing.
CloseUnlessCancelled ==
    /\ ~closed /\ ~cancelled
    /\ \A w \in Workers : pc[w] = "done"
    /\ closed' = TRUE
    /\ UNCHANGED <<jobs, pc, job, status, global, results, taken, cancelled, started, consumer>>

-----------------------------------------------------------------------------
\* for d := range jobs: the next machine, with a result that says "cancelled".
Receive(w) ==
    /\ Goto(w, "receive", "check")
    /\ \E d \in jobs[w[1]] :
          /\ jobs' = [jobs EXCEPT ![w[1]] = @ \ {d}]
          /\ job' = [job EXCEPT ![w] = d]
    /\ status' = [status EXCEPT ![w] = Cancelled]
    /\ UNCHANGED <<global, results, taken, closed, cancelled, started, consumer>>

\* The queue is closed and empty: wg.Done().
Leave(w) ==
    /\ jobs[w[1]] = {}
    /\ Goto(w, "receive", "done")
    /\ UNCHANGED <<jobs, job, status, global, results, taken, closed, cancelled, started, consumer>>

\* The first ctx.Err(): a cancelled scan goes straight to sending.
CheckContext(w) ==
    /\ Goto(w, "check", IF cancelled THEN "send" ELSE "select")
    /\ UNCHANGED <<jobs, job, status, global, results, taken, closed, cancelled, started, consumer>>

\* select, case global <- struct{}{}
Acquire(w) ==
    /\ Goto(w, "select", "acquired")
    /\ Cardinality(global) < GlobalLimit
    /\ global' = global \cup {w}
    /\ UNCHANGED <<jobs, job, status, results, taken, closed, cancelled, started, consumer>>

\* select, case <-ctx.Done()
GiveUp(w) ==
    /\ cancelled
    /\ Goto(w, "select", "send")
    /\ UNCHANGED <<jobs, job, status, global, results, taken, closed, cancelled, started, consumer>>

\* The second ctx.Err(), with the token in hand: begin the operation or not.
Begin(w) ==
    /\ Goto(w, "acquired", IF cancelled THEN "release" ELSE "running")
    /\ started' = IF cancelled THEN started ELSE started \cup {job[w]}
    /\ UNCHANGED <<jobs, job, status, global, results, taken, closed, cancelled, consumer>>

\* The operation returns. A done context makes it return sooner, with a
\* status of its own (a probe says "unknown", a wake says "failed").
Operate(w) ==
    /\ Goto(w, "running", "release")
    /\ \E o \in Outcomes : status' = [status EXCEPT ![w] = o]
    /\ UNCHANGED <<jobs, job, global, results, taken, closed, cancelled, started, consumer>>

\* <-global
Release(w) ==
    /\ Goto(w, "release", "send")
    /\ global' = global \ {w}
    /\ UNCHANGED <<jobs, job, status, results, taken, closed, cancelled, started, consumer>>

\* results <- r, which blocks while the channel's buffer is full.
Send(w) ==
    /\ Goto(w, "send", "receive")
    /\ Len(results) - taken < ResultBuffer
    /\ results' = Append(results, [device |-> job[w], status |-> status[w]])
    /\ job' = [job EXCEPT ![w] = NoDevice]
    /\ UNCHANGED <<jobs, status, global, taken, closed, cancelled, started, consumer>>

WorkerStep(w) ==
    \/ Receive(w) \/ Leave(w) \/ CheckContext(w) \/ Acquire(w) \/ GiveUp(w)
    \/ Begin(w) \/ Operate(w) \/ Release(w) \/ Send(w)

\* go func() { wg.Wait(); close(results) }()
CloseResults ==
    /\ ~closed
    /\ \A w \in Workers : pc[w] = "done"
    /\ closed' = TRUE
    /\ UNCHANGED <<jobs, pc, job, status, global, results, taken, cancelled, started, consumer>>

-----------------------------------------------------------------------------
(* The caller: it may cancel at any time, and it reads results one by one  *)
(* (nextFleet in the TUI, range in `wol batch`) until the channel is       *)
(* closed or it stops reading (a stale request id, a failed write).        *)

Cancel ==
    /\ ~cancelled
    /\ cancelled' = TRUE
    /\ UNCHANGED <<workerVars, results, taken, closed, consumer>>

Take ==
    /\ consumer = "reading"
    /\ taken < Len(results)
    /\ taken' = taken + 1
    /\ UNCHANGED <<workerVars, results, closed, cancelled, consumer>>

SeeClosed ==
    /\ consumer = "reading"
    /\ closed /\ taken = Len(results)
    /\ consumer' = "finished"
    /\ UNCHANGED <<workerVars, results, taken, closed, cancelled>>

StopReading ==
    /\ consumer = "reading"
    /\ consumer' = "gone"
    /\ UNCHANGED <<workerVars, results, taken, closed, cancelled>>

Next ==
    \/ \E w \in Workers : WorkerStep(w)
    \/ CloseResults
    \/ Cancel \/ Take \/ SeeClosed \/ StopReading

Spec == Init /\ [][Next]_vars

(***************************************************************************)
(* Goroutines are scheduled and every operation is bounded by a timeout,   *)
(* so a worker with something to do does it; the reader of the channel     *)
(* keeps reading for as long as it has not stopped. Nobody has to cancel.  *)
(***************************************************************************)
Fairness ==
    /\ \A w \in Workers : WF_vars(WorkerStep(w))
    /\ WF_vars(CloseResults)
    /\ WF_vars(Take) /\ WF_vars(SeeClosed)

FairSpec == Spec /\ Fairness

-----------------------------------------------------------------------------
(* Properties.                                                             *)

PC == {"receive", "check", "select", "acquired", "running", "release", "send", "done"}

\* The types of the variables of Run and of its caller.
TypeOK ==
    /\ jobs \in [Sites -> SUBSET Devices]
    /\ pc \in [Workers -> PC]
    /\ job \in [Workers -> Devices \cup {NoDevice}]
    /\ status \in [Workers -> Outcomes \cup {Cancelled}]
    /\ global \subseteq Workers
    /\ results \in Seq(Result)
    /\ taken \in 0 .. Len(results)
    /\ closed \in BOOLEAN
    /\ cancelled \in BOOLEAN
    /\ started \subseteq Devices
    /\ consumer \in {"reading", "gone", "finished"}

Running == {w \in Workers : pc[w] = "running"}

\* The operations in flight respect both limits: never more than the caller's
\* limit over all sites, never more than a site's own limit within the site.
BoundedWork ==
    /\ Cardinality(Running) <= GlobalLimit
    /\ \A s \in Sites : Cardinality({w \in Running : w[1] = s}) <= SiteCap(s)

\* No machine is reported twice, whatever worker handled it.
NoDuplicateResult ==
    \A i, j \in DOMAIN results : results[i].device = results[j].device => i = j

\* The channel closes only when every machine has its result in it, and no
\* goroutine is left that could still send (a send on it would panic).
ClosedIsComplete ==
    closed => Reported = Devices /\ \A w \in Workers : pc[w] = "done"

\* A result says "cancelled" exactly when the machine's operation was never
\* begun: what a retry of the cancelled machines relies on.
TruthfulReport ==
    \A i \in DOMAIN results :
        results[i].status = Cancelled <=> results[i].device \notin started

\* "The bounded result buffer lets cancellation complete even when a UI has
\* stopped consuming an old scan": no send ever finds the buffer full.
SendNeverBlocks ==
    \A w \in Workers : pc[w] = "send" => Len(results) - taken < ResultBuffer

\* Once the context is done no operation is begun, not even by a worker that
\* obtains a token afterwards (select may pick either ready case).
CancelStartsNothing == [][cancelled => started' = started]_vars

\* Run always ends, with or without cancellation and whether or not anyone
\* still reads the results; and a caller that does not give up reads the end.
Completes == <>closed /\ <>(consumer # "reading")

-----------------------------------------------------------------------------
(***************************************************************************)
(* Why these hold: every machine is in exactly one place (its site's       *)
(* queue, one worker, or the results), the tokens are held by the workers  *)
(* between acquiring and releasing, and what a worker will report agrees   *)
(* with what it did. Together with TypeOK this is inductive.               *)
(***************************************************************************)

Possession ==
    \A w \in Workers :
        /\ job[w] = NoDevice <=> pc[w] \in {"receive", "done"}
        /\ job[w] # NoDevice => SiteOf[job[w]] = w[1]

OnePlace ==
    /\ \A s \in Sites : jobs[s] \subseteq Grouped(s) /\ jobs[s] \cap Reported = {}
    /\ \A w \in Workers : job[w] \notin Reported /\ \A s \in Sites : job[w] \notin jobs[s]
    /\ \A v, w \in Workers : v # w /\ job[v] = job[w] => job[v] = NoDevice

NoneLost ==
    \A d \in Devices : d \in jobs[SiteOf[d]] \/ d \in Reported \/ \E w \in Workers : job[w] = d

Tokens ==
    /\ \A w \in Workers : w \in global <=> pc[w] \in {"acquired", "running", "release"}
    /\ Cardinality(global) <= GlobalLimit

History ==
    /\ \A s \in Sites : jobs[s] \cap started = {}
    /\ \A w \in Workers :
          /\ pc[w] \in {"check", "select", "acquired"} => status[w] = Cancelled /\ job[w] \notin started
          /\ pc[w] = "running" => job[w] \in started
          /\ pc[w] \in {"release", "send"} => (status[w] = Cancelled <=> job[w] \notin started)

Ending ==
    /\ \A w \in Workers : pc[w] = "done" => jobs[w[1]] = {}
    /\ closed => \A w \in Workers : pc[w] = "done"

IInv ==
    /\ TypeOK
    /\ Possession
    /\ OnePlace
    /\ NoDuplicateResult
    /\ NoneLost
    /\ Tokens
    /\ History
    /\ TruthfulReport
    /\ Ending

-----------------------------------------------------------------------------
(***************************************************************************)
(* The refinement: what has become of each machine, read off the queue,    *)
(* the worker that holds it and the results sent.                          *)
(***************************************************************************)

Holder(d) == CHOOSE w \in Workers : job[w] = d

Held == {job[w] : w \in Workers} \ {NoDevice}

\* The fate of the machine that a worker holds.
WorkerFate(w) ==
    IF pc[w] = "running" THEN "running"
    ELSE IF pc[w] \in {"release", "send"} THEN status[w]
    ELSE "queued"

Fate(d) ==
    IF d \in Reported
    THEN (CHOOSE r \in {results[i] : i \in DOMAIN results} : r.device = d).status
    ELSE IF d \in Held THEN WorkerFate(Holder(d))
    ELSE "queued"

Contract == INSTANCE FleetContract WITH
    Limit <- GlobalLimit,
    SiteLimit <- [s \in Sites |-> SiteCap(s)],
    fate <- [d \in Devices |-> Fate(d)],
    reported <- Reported,
    ended <- closed

\* Run implements its contract: the steps of the workers, seen through the
\* fate of each machine, are steps of FleetContract or change nothing in it.
ImplementsContract == Contract!Spec

=============================================================================

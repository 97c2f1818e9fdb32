---------------------------- MODULE BatchCommand ----------------------------
(***************************************************************************)
(* `wol batch check|wake` (cmd/wol/cmd_batch.go) from the point where the  *)
(* machines are selected: a process that runs fleet.Run under a context    *)
(* cancelled by SIGINT or SIGTERM, prints each result as it arrives,       *)
(* counts the successful ones and turns the counts into its exit code.     *)
(* Selecting machines and parsing flags come before it and are left out.   *)
(***************************************************************************)
EXTENDS Fleet

CONSTANT Success  \* the outcomes that count as success: "online", "sent"

ASSUME BatchAssumption == Success \subseteq Outcomes /\ Devices # {}

NoExit == -1       \* the process is still running

VARIABLES
    good,    \* results that were a success
    bad,     \* results that were not
    exit     \* the exit code, once the process has one

batchVars == <<vars, good, bad, exit>>

BatchInit ==
    /\ Init
    /\ good = 0
    /\ bad = 0
    /\ exit = NoExit

\* Variant: any failure makes the code "partial".
ConcludeAlwaysPartial ==
    /\ SeeClosed
    /\ exit' = IF cancelled THEN 130 ELSE IF bad > 0 THEN 3 ELSE 0
    /\ UNCHANGED <<good, bad>>

\* Variant: the signal ends the process where it stands.
InterruptAtOnce == Cancel /\ exit' = 130 /\ UNCHANGED <<good, bad>>

\* for r := range results: print the result, then count it.
PrintResult ==
    /\ Take
    /\ LET ok == results[taken + 1].status \in Success
       IN  /\ good' = IF ok THEN good + 1 ELSE good
           /\ bad' = IF ok THEN bad ELSE bad + 1
    /\ exit' = exit

\* With --json, a line that cannot be written ends the command.
OutputFails ==
    /\ taken < Len(results)
    /\ StopReading
    /\ exit' = 1
    /\ UNCHANGED <<good, bad>>

\* The channel is closed: the exit code.
Conclude ==
    /\ SeeClosed
    /\ exit' = IF cancelled THEN 130
               ELSE IF bad > 0 /\ good > 0 THEN 3
               ELSE IF bad > 0 THEN 1
               ELSE 0
    /\ UNCHANGED <<good, bad>>

\* The goroutines of Run, and the signal that cancels their context.
Background ==
    /\ (\E w \in Workers : WorkerStep(w)) \/ CloseResults
    /\ UNCHANGED <<good, bad, exit>>

Interrupt == Cancel /\ UNCHANGED <<good, bad, exit>>

BatchNext ==
    /\ exit = NoExit
    /\ Background \/ Interrupt \/ PrintResult \/ OutputFails \/ Conclude

BatchFairness ==
    /\ \A w \in Workers : WF_batchVars(exit = NoExit /\ WorkerStep(w) /\ UNCHANGED <<good, bad, exit>>)
    /\ WF_batchVars(exit = NoExit /\ CloseResults /\ UNCHANGED <<good, bad, exit>>)
    /\ WF_batchVars(exit = NoExit /\ PrintResult)
    /\ WF_batchVars(exit = NoExit /\ Conclude)

BatchSpec == BatchInit /\ [][BatchNext]_batchVars /\ BatchFairness

-----------------------------------------------------------------------------
Printed == {results[i].status : i \in 1 .. taken}

\* What docs/homelab.md promises of the exit code: 0 when every selected machine
\* was reported a success, 3 when some were and some were not, 130 when
\* interrupted, 1 when none was, or at the first line that cannot be written. A
\* machine that was skipped never hides behind the code of a finished batch.
ExitCodeTellsTruth ==
    /\ exit = 0 => Reported = Devices /\ Printed \subseteq Success
    /\ exit = 3 => Reported = Devices /\ Printed \cap Success # {} /\ ~ Printed \subseteq Success
    /\ exit = 130 => cancelled
    /\ exit = 1 /\ consumer # "gone" => Reported = Devices /\ Printed \cap Success = {}
    /\ exit \notin {NoExit, 130} /\ Cancelled \in Printed => consumer = "gone"

\* An interrupted batch still prints one line for every machine.
InterruptedReportsAll == exit = 130 => taken = Cardinality(Devices)

\* The command ends, whatever arrives and whenever it is interrupted.
BatchEnds == <>(exit # NoExit)

=============================================================================

---------------------------------- MODULE Power ----------------------------------
(***************************************************************************)
(* wol shutdown (cmd/wol), the power form of the Wake Desk (internal/tui)  *)
(* and internal/power: what is asked, the platform it is done with, the    *)
(* command that is sent over ssh and the history of it. A word of the      *)
(* command line is a record: what it is and, for a delay, its milliseconds.*)
(***************************************************************************)
EXTENDS Integers, Sequences, FiniteSets, SequencesExt

CONSTANTS
    Lines,   \* command lines: sequences of words
    None

VARIABLES
    line, rest,   \* the arguments, and those still to be parsed
    positionals,  \* arguments that are not flags
    flags,        \* the flags that have been set, in order
    doing,        \* the step
    platform,     \* of the machine: "windows", "linux", "darwin", or "" when nothing sets it
    command,      \* what is sent: [kind, delay, force], or None
    told,         \* the machine has been told
    history,      \* the attempt recorded: [action, status, delay], or None
    exit          \* the exit status

powerVars == <<line, rest, positionals, flags, doing, platform, command, told, history, exit>>
parsed == <<line, rest, positionals, flags>>

PowerInit ==
    /\ line = <<>> /\ rest = <<>> /\ positionals = <<>> /\ flags = <<>>
    /\ doing = "begin" /\ platform = ""
    /\ command = None /\ told = FALSE /\ history = None /\ exit = None

\* A delay that is negative is not accepted.
Words == [word : {"machine", "--", "cancel", "force", "delay"}, ms : Nat]

Exit(status) == doing' = "end" /\ exit' = status
Word(what) == [word |-> what, ms |-> 0]
After(ms) == [word |-> "delay", ms |-> ms]
IsFlag(w) == w.word \notin {"machine", "--"}
Has(words, what) == \E i \in DOMAIN words : words[i].word = what
LastDelay(words) ==
    LET delays == {i \in DOMAIN words : words[i].word = "delay"}
    IN  IF delays = {} THEN 0 ELSE words[Max(delays)].ms

\* wol shutdown cancel puts its flag before the rest.
Arguments ==
    /\ doing = "begin"
    /\ \E l \in Lines, verb \in {<<>>, <<Word("cancel")>>} : line' = verb \o l /\ rest' = verb \o l
    /\ doing' = "parse"
    /\ UNCHANGED <<positionals, flags, platform, command, told, history, exit>>

\* The form has a field for now, cancel or a delay, and one for the platform,
\* which is taken as it is; what it asks is as if it were on a command line.
PowerForm ==
    /\ doing = "begin"
    /\ \E l \in Lines :
        /\ Len(l) <= 1 /\ \A i \in DOMAIN l : l[i].word \in {"cancel", "delay"}
        /\ line' = l /\ flags' = l
    /\ platform' \in {"windows", "linux", "darwin", ""}
    /\ doing' = "execute"
    /\ UNCHANGED <<rest, positionals, command, told, history, exit>>

\* flags.Parse takes flags up to the first word that is none, or a terminator.
Taken(args) == SelectInSeq(args, LAMBDA w : ~IsFlag(w))
Leading(args) == IF Taken(args) = 0 THEN args ELSE SubSeq(args, 1, Taken(args) - 1)

\* Variant: one pass of the flag package, which leaves what follows the machine.
ParseOnce ==
    /\ doing = "parse"
    /\ flags' = flags \o Leading(rest)
    /\ LET left == SubSeq(rest, Len(Leading(rest)) + 1, Len(rest))
       IN  positionals' = IF left = <<>> THEN positionals ELSE Append(positionals, left[1])
    /\ rest' = <<>>
    /\ doing' = "resolve"
    /\ UNCHANGED <<line, platform, command, told, history, exit>>

\* A pass of parseInterspersed.
Parse ==
    /\ doing = "parse"
    /\ flags' = flags \o Leading(rest)
    /\ LET left == SubSeq(rest, Len(Leading(rest)) + 1, Len(rest)) IN
        \/ /\ left = <<>>
           /\ doing' = "resolve" /\ rest' = <<>> /\ UNCHANGED positionals
        \/ /\ left # <<>> /\ Head(left).word = "--"
           /\ doing' = "resolve" /\ rest' = <<>> /\ positionals' = positionals \o Tail(left)
        \/ /\ left # <<>> /\ Head(left).word # "--"
           /\ rest' = Tail(left) /\ positionals' = Append(positionals, Head(left)) /\ UNCHANGED doing
    /\ UNCHANGED <<line, platform, command, told, history, exit>>

\* One machine, which exists and has an address, and a platform: its own, or that
\* of its power profile when one can be read and is enabled, or the flag's.
Resolve ==
    /\ doing = "resolve"
    /\ \/ Len(positionals) # 1 /\ Exit(2) /\ UNCHANGED platform
       \/ Len(positionals) = 1 /\ (\E status \in {1, 2} : Exit(status)) /\ UNCHANGED platform
       \/ /\ Len(positionals) = 1
          /\ platform' \in {"windows", "linux", "darwin"}
          /\ doing' = "execute" /\ UNCHANGED exit
    /\ UNCHANGED <<parsed, command, told, history>>

\* The delay that is asked for; --cancel goes before it.
Minute == 60000
Cancelling == Has(flags, "cancel")
Delay == IF Cancelling THEN 0 ELSE LastDelay(flags)

\* What the platform cannot do, or no platform that is known, is refused (Execute).
Refused ==
    \/ platform = ""
    \/ Has(flags, "force") /\ platform # "windows"
    \/ Delay > 0 /\ platform = "windows" /\ Delay < 1000
    \/ Delay > 0 /\ platform # "windows" /\ Delay % Minute # 0

\* The driver of the platform: whole seconds, or whole minutes.
Seconds(d) == (d \div 1000) * 1000
Minutes(d) == (d \div Minute) * Minute
Build ==
    IF Cancelling THEN [kind |-> "cancel", delay |-> 0, force |-> FALSE]
    ELSE [kind |-> IF Delay > 0 THEN "schedule" ELSE "now",
          delay |-> IF platform = "windows" THEN Seconds(Delay) ELSE Minutes(Delay),
          force |-> Has(flags, "force")]

\* Nothing is sent for a request that is refused; its attempt has no action.
Refuse ==
    /\ doing = "execute" /\ Refused
    /\ doing' = "failed"
    /\ UNCHANGED <<parsed, platform, command, told, history, exit>>

\* ssh, for ten seconds: it may end badly although the machine was told, as when
\* the machine goes down at once.
Execute ==
    /\ doing = "execute" /\ ~Refused
    /\ command' = Build
    /\ \/ told' = TRUE /\ doing' = "sent"
       \/ told' \in BOOLEAN /\ doing' = "failed"
    /\ UNCHANGED <<parsed, platform, history, exit>>

\* The attempt is recorded, if it can be; the exit status, or the message of the
\* form, tells of the command.
Report ==
    /\ doing \in {"sent", "failed"}
    /\ history' \in {None, [action |-> IF command = None THEN "" ELSE command.kind,
                            status |-> doing, delay |-> Seconds(Delay)]}
    /\ Exit(IF doing = "sent" THEN 0 ELSE 3)
    /\ UNCHANGED <<parsed, platform, command, told>>

PowerNext == Arguments \/ PowerForm \/ Parse \/ Resolve \/ Refuse \/ Execute \/ Report

-----------------------------------------------------------------------------
\* What the line asks for, wherever the flags are: the words up to a terminator.
UpToEnd(words) ==
    LET ends == SelectInSeq(words, LAMBDA w : w.word = "--")
    IN  IF ends = 0 THEN words ELSE SubSeq(words, 1, ends)
Asked == UpToEnd(line)

\* A machine is told what was asked of it (parseMachineAndFlags: "stopping at the
\* name would silently drop a later --cancel and shut the machine down instead"):
\* never to go down by a line with --cancel, never earlier than asked but for a
\* part of a second, never to close programs unasked; success means that it was
\* told, and the history agrees with the exit status.
MachineIsToldWhatWasAsked ==
    /\ command # None =>
        /\ command.kind = "cancel" <=> Has(Asked, "cancel")
        /\ command.kind # "cancel" =>
            /\ command.delay <= LastDelay(Asked) /\ LastDelay(Asked) - command.delay < 1000
            /\ command.kind = "now" <=> LastDelay(Asked) = 0
            /\ command.force <=> Has(Asked, "force")
    /\ exit = 0 => told
    /\ history # None => (history.status = "sent" <=> exit = 0)
=============================================================================

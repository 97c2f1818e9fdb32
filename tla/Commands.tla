-------------------------------- MODULE Commands --------------------------------
(***************************************************************************)
(* The commands of wol (cmd/wol/main.go): a process runs the one it is     *)
(* given, and what a command does is in the module it is an instance of.   *)
(***************************************************************************)
EXTENDS Naturals, Sequences

CONSTANTS
    None, Gone,
    Updaters, Versions, Installed, Releases, MaxBuilds,   \* SelfUpdate
    Relays, Repeat,                             \* WakeService
    Ports,                                      \* Detector
    Lines,                                      \* Power
    Openers, Devices, Apps,                     \* Schema
    Tabs, Browser, Passwords, MaxTokens         \* Broker

VARIABLES
    verb,  \* the command, None before it is looked at
    system, at, has, build, path, old, temp,
    machine, site, enabled, options, step, waiting, wire, attempt, recorded, answered, result,
    stage, over, port, answer, found, results, attempted, unreachable, verdict, heard,
    line, rest, positionals, flags, doing, platform, command, told, history, exit,
    columns, rows, urls, opening, seen, first, saved, raced,
    consumed, cookies, serving, form, launch, built, vault, shown, ended

Update == INSTANCE SelfUpdate
Wake == INSTANCE WakeService
Status == INSTANCE Detector
Shutdown == INSTANCE Power
Database == INSTANCE Schema
Remote == INSTANCE Broker

ASSUME CommandsAssumption ==
    /\ Repeat \in Nat \ {0}
    /\ DOMAIN Browser = Tabs
    /\ None \notin Wake!Attempt \cup Status!Answers \cup Update!Programs \cup {"sent", Gone}

\* The versions that are published, and the one installed, are those of SemVer.
ASSUME VersionsAssumption == Versions \cup {Installed} \subseteq Update!SemVer

\* An archive that is named for one platform is for that platform (scripts/package.sh).
ASSUME ReleasesAssumption ==
    \A assets \in Releases : \A a \in assets, os \in {"windows", "linux"} :
        /\ ~a.companion
        /\ Update!NamesOnly(a, os, Update!OsTerms)
        /\ Update!NamesOnly(a, Update!Arch, Update!ArchTerms)
        => a.runs = <<os, Update!Arch>>

\* A command line is a sequence of words.
ASSUME ShutdownAssumption == Lines \subseteq Seq(Shutdown!Words) /\ None # 0

update == <<system, at, has, build, path, old, temp>>
wake == <<machine, site, enabled, options, step, waiting, wire, attempt, recorded, answered, result>>
status == <<stage, over, port, answer, found, results, attempted, unreachable, verdict, heard>>
shutdown == <<line, rest, positionals, flags, doing, platform, command, told, history, exit>>
database == <<columns, rows, urls, opening, seen, first, saved, raced>>
remote == <<consumed, cookies, serving, form, launch, built, vault, shown, ended>>

vars == <<verb, update, wake, status, shutdown, database, remote>>

Init ==
    /\ verb \in {"update", "wake", "status", "shutdown", "open", "remote"}
    /\ Update!UpdateInit /\ Wake!WakeInit /\ Status!DetectorInit /\ Shutdown!PowerInit
    /\ Database!SchemaInit /\ Remote!BrokerInit
    \* What there is for another command does not matter.
    /\ verb # "update" => system = [windows |-> FALSE, key |-> FALSE]
    /\ verb # "open" => rows = {} /\ columns = Database!Current
    /\ verb # "remote" => vault = None

RunUpdate ==
    /\ verb = "update" /\ Update!UpdateNext
    /\ UNCHANGED <<verb, wake, status, shutdown, database, remote>>

RunWake ==
    /\ verb = "wake" /\ Wake!WakeNext
    /\ UNCHANGED <<verb, update, status, shutdown, database, remote>>

RunStatus ==
    /\ verb = "status" /\ Status!DetectorNext
    /\ UNCHANGED <<verb, update, wake, shutdown, database, remote>>

RunShutdown ==
    /\ verb = "shutdown" /\ Shutdown!PowerNext
    /\ UNCHANGED <<verb, update, wake, status, database, remote>>

\* What every command begins with that needs the inventory.
RunOpen ==
    /\ verb = "open" /\ Database!SchemaNext
    /\ UNCHANGED <<verb, update, wake, status, shutdown, remote>>

RunRemote ==
    /\ verb = "remote" /\ Remote!BrokerNext
    /\ UNCHANGED <<verb, update, wake, status, shutdown, database>>

Next == RunUpdate \/ RunWake \/ RunStatus \/ RunShutdown \/ RunOpen \/ RunRemote

Spec == Init /\ [][Next]_vars

-----------------------------------------------------------------------------
(* What the modules promise of their command.                              *)

\* wol update writes one release, published, checked and newer, over wol.
OneReleaseIsInstalled == Update!OneReleaseIsInstalled

\* wol update, whatever fails, leaves a wol on the disk.
ProgramSurvives == Update!ProgramSurvives

\* wol wake and the history of wakes say what has happened.
WakeIsToldTruly == Wake!WakeIsToldTruly

\* wol status calls a machine online or offline on evidence.
VerdictIsEvidence == Status!VerdictIsEvidence

\* wol shutdown tells a machine what was asked, wherever the flags are.
MachineIsToldWhatWasAsked == Shutdown!MachineIsToldWhatWasAsked

\* Opening an inventory of an earlier release loses nothing.
UpgradeLosesNothing == Database!UpgradeLosesNothing

\* A local remote session lets one browser in, and a sign-in launches one page.
SignInLaunchesOnce == Remote!SignInLaunchesOnce
=============================================================================

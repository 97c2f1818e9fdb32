------------------------------- MODULE MCCommands -------------------------------
EXTENDS Commands, Sequences, TLC
CONSTANTS u1, u2, o1, o2, t1, t2, t3, b1, b2, d1, r1, p1, p2, p3, a1, secret

\* The identifiers of a pre-release, and the words of a command line, as SelfUpdate
\* and Power have them.
Identifier(word, value) == [word |-> word, value |-> value]
Argument(word, ms) == [word |-> word, ms |-> ms]

MCVersions == {[base |-> <<1, 0>>, pre |-> <<>>],
               [base |-> <<1>>, pre |-> <<Identifier(TRUE, 1), Identifier(FALSE, 2)>>],
               [base |-> <<1, 0, 1>>, pre |-> <<Identifier(FALSE, 3)>>]}
MCInstalled == [base |-> <<1, 0>>, pre |-> <<>>]
\* A release as packaged, with archives for other platforms, a bundle of the source
\* that names two systems and files that go with the archives.
Asset(terms, companion, holds, runs) ==
    [terms |-> terms, companion |-> companion, holds |-> holds, runs |-> runs]
MCReleases ==
    { {Asset({"wol", o, c}, FALSE, "program", <<o, c>>) : o \in {"linux", "windows", "darwin"}, c \in {"amd64", "arm64"}}
        \cup {Asset({"wol", "linux", "amd64"}, TRUE, "signature", None),
              Asset({"wol", "linux", "windows", "amd64"}, FALSE, "program", None)},
      {Asset({"wol", "linux", "x86", "64"}, FALSE, "program", <<"linux", "amd64">>),
       Asset({"wol", "windows", "amd64"}, FALSE, "documents", <<"windows", "amd64">>)} }
MCUpdaters == {u1, u2}
MCOpeners == {o1, o2}
MCDevices == {d1}
MCRelays == {r1}
MCPorts == {p1, p2, p3}
MCApps == {a1}
MCTabs == {t1, t2, t3}
MCBrowser == (t1 :> b1 @@ t2 :> b1 @@ t3 :> b2)
MCPasswords == {secret}
MCWords == {Argument(w, 0) : w \in {"machine", "--", "cancel", "force"}}
               \cup {Argument("delay", ms) : ms \in {500, 1500, 120000}}
MCLines == UNION {[1 .. n -> MCWords] : n \in 0 .. 3}
=============================================================================

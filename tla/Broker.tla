--------------------------------- MODULE Broker ---------------------------------
(***************************************************************************)
(* The broker of a local remote session (internal/localremote/session.go): *)
(* the one-time link, the sign-in, the launch token of Guacamole and the   *)
(* end of the session, for the tabs of several browsers whose requests are *)
(* served at once. What is done under the mutex, and a call of the vault,  *)
(* is one step.                                                            *)
(***************************************************************************)
EXTENDS Naturals, Sequences

CONSTANTS
    Tabs,
    Browser,     \* Browser[t]: the browser of a tab, whose cookie it has
    Passwords,
    MaxTokens,   \* bound on the launch tokens that are built
    None

VARIABLES
    consumed,    \* the one-time link has been followed
    cookies,     \* the browsers that have the cookie
    serving,     \* serving[t]: the step of the request of t, or "idle"
    form,        \* form[t]: [password, remember] being signed in with
    launch,      \* the launch token that waits for its page: a number, 0 for none
    built,       \* the number of tokens built
    vault,       \* the password in the keychain, or None
    shown,       \* history: the tokens put on a page, in order
    ended        \* the session has been told to end

brokerVars == <<consumed, cookies, serving, form, launch, built, vault, shown, ended>>
tokens == <<launch, built>>

BrokerInit ==
    /\ consumed = FALSE /\ cookies = {}
    /\ serving = [t \in Tabs |-> "idle"]
    /\ form = [t \in Tabs |-> None]
    /\ launch = 0 /\ built = 0
    /\ vault \in {None} \cup Passwords
    /\ shown = <<>> /\ ended = FALSE

Serve(t, s) == serving' = [serving EXCEPT ![t] = s]

\* consume: the first to follow the link has the cookie, others are told it expired.
Consume(t) ==
    /\ serving[t] = "idle"
    /\ ~consumed
    /\ consumed' = TRUE /\ cookies' = cookies \cup {Browser[t]}
    /\ UNCHANGED <<serving, form, tokens, vault, shown, ended>>

Allowed(t) == serving[t] = "idle" /\ Browser[t] \in cookies

\* serveSession: a saved sign-in is used at once; otherwise the page asks for one.
\* A vault that fails has none.
ServeSession(t) ==
    /\ Allowed(t)
    /\ vault # None
    /\ form' = [form EXCEPT ![t] = [password |-> vault, remember |-> TRUE]]
    /\ Serve(t, "begin")
    /\ UNCHANGED <<consumed, cookies, tokens, vault, shown, ended>>

\* connect: with a password, or with the one that was saved.
Connect(t) ==
    /\ Allowed(t)
    /\ \E p \in Passwords \cup {vault}, remember \in BOOLEAN :
        form' = [form EXCEPT ![t] = [password |-> p, remember |-> remember]]
    /\ Serve(t, "keep")
    /\ UNCHANGED <<consumed, cookies, tokens, vault, shown, ended>>

\* The sign-in is kept or removed; a keychain that fails changes nothing.
Keep(t) ==
    /\ serving[t] = "keep"
    /\ vault' \in {vault, IF form[t].remember THEN form[t].password ELSE None}
    /\ Serve(t, "begin")
    /\ UNCHANGED <<consumed, cookies, form, tokens, shown, ended>>

Forget(t) ==
    /\ Allowed(t)
    /\ vault' \in {vault, None}
    /\ UNCHANGED <<consumed, cookies, serving, form, tokens, shown, ended>>

\* beginRemote, and the browser is sent to /remote.
BeginRemote(t) ==
    /\ serving[t] = "begin" /\ built < MaxTokens
    /\ built' = built + 1
    /\ launch' = built + 1
    /\ form' = [form EXCEPT ![t] = None]
    /\ Serve(t, "remote")
    /\ UNCHANGED <<consumed, cookies, vault, shown, ended>>

\* Variant: the token stays, for a page that is loaded again.
RemoteKeeps(t) ==
    /\ serving[t] = "remote" \/ Allowed(t)
    /\ shown' = IF launch = 0 THEN shown ELSE Append(shown, launch)
    /\ Serve(t, "idle")
    /\ UNCHANGED <<consumed, cookies, form, tokens, vault, ended>>

\* remote: the page takes the token; without one the tab goes to sign in again.
Remote(t) ==
    /\ serving[t] = "remote" \/ Allowed(t)
    /\ shown' = IF launch = 0 THEN shown ELSE Append(shown, launch)
    /\ launch' = 0
    /\ Serve(t, "idle")
    /\ UNCHANGED <<consumed, cookies, form, built, vault, ended>>

\* closeFromBrowser: disconnectOnce.
CloseFromBrowser(t) ==
    /\ Allowed(t)
    /\ ~ended /\ ended' = TRUE
    /\ UNCHANGED <<consumed, cookies, serving, form, tokens, vault, shown>>

BrokerNext ==
    \E t \in Tabs :
        \/ Consume(t) \/ ServeSession(t) \/ Connect(t) \/ Keep(t) \/ Forget(t)
        \/ BeginRemote(t) \/ Remote(t) \/ CloseFromBrowser(t)

-----------------------------------------------------------------------------
\* One browser is let in by the link, and a sign-in launches one page at most,
\* whatever tabs ask at the same time ("one-time session link", launchToken):
\* no token is on two pages, none on a page that was replaced by a later sign-in
\* before it was shown.
SignInLaunchesOnce ==
    /\ \A b, c \in cookies : b = c
    /\ \A i, j \in DOMAIN shown : i < j => shown[i] < shown[j]
    /\ launch # 0 => launch = built /\ \A i \in DOMAIN shown : shown[i] < launch
=============================================================================

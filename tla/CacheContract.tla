--------------------------- MODULE CacheContract ---------------------------
(***************************************************************************)
(* What presence.Cache promises the callers of Resolve, without mutexes,   *)
(* channels or clocks: for a key there is one probe in flight at most, and *)
(* who asks meanwhile follows it; who asks otherwise, and has not insisted *)
(* on a fresh result, may be given the one that is kept. A probe that      *)
(* outlived its caller's context ends in an error, shared by those who     *)
(* follow it and kept for nobody.                                          *)
(***************************************************************************)
CONSTANTS
    Callers,  \* the calls of Resolve
    Keys,     \* the cache keys
    KeyOf,    \* the key each call asks for
    Forced,   \* the calls that insist on a fresh result
    Mortal,   \* the calls whose context may end
    Failed,   \* the answer to a call whose probe, or patience, was cut short
    None

VARIABLES
    flight,   \* flight[k]: the call whose probe is in flight for k, or None
    verdict,  \* verdict[c]: what the probe of c ended with, c or Failed, or None
    kept,     \* kept[k]: the call whose result is kept for k, or None
    follows,  \* follows[c]: the call whose probe c shares, or None
    answer,   \* answer[c]: what c was given, or None
    left      \* the calls whose context has ended

vars == <<flight, verdict, kept, follows, answer, left>>

Init ==
    /\ flight = [k \in Keys |-> None]
    /\ verdict = [c \in Callers |-> None]
    /\ kept = [k \in Keys |-> None]
    /\ follows = [c \in Callers |-> None]
    /\ answer = [c \in Callers |-> None]
    /\ left = {}

\* The call of c has neither been answered nor taken part in a probe.
Asking(c) == answer[c] = None /\ follows[c] = None /\ verdict[c] = None /\ flight[KeyOf[c]] # c

\* A call is answered once.
Answer(c, o) == answer[c] = None /\ answer' = [answer EXCEPT ![c] = o]

Hit(c) ==
    /\ c \notin Forced
    /\ Asking(c)
    /\ kept[KeyOf[c]] # None
    /\ Answer(c, kept[KeyOf[c]])
    /\ UNCHANGED <<flight, verdict, kept, follows, left>>

TakeOff(c) ==
    /\ Asking(c)
    /\ flight[KeyOf[c]] = None
    /\ flight' = [flight EXCEPT ![KeyOf[c]] = c]
    /\ UNCHANGED <<verdict, kept, follows, answer, left>>

Follow(c) ==
    /\ Asking(c)
    /\ flight[KeyOf[c]] # None
    /\ follows' = [follows EXCEPT ![c] = flight[KeyOf[c]]]
    /\ UNCHANGED <<flight, verdict, kept, answer, left>>

Conclude(c) ==
    /\ flight[KeyOf[c]] = c
    /\ verdict[c] = None
    /\ verdict' = [verdict EXCEPT ![c] = IF c \in left THEN Failed ELSE c]
    /\ UNCHANGED <<flight, kept, follows, answer, left>>

Keep(c) ==
    /\ flight[KeyOf[c]] = c
    /\ verdict[c] = c
    /\ kept' = [kept EXCEPT ![KeyOf[c]] = c]
    /\ UNCHANGED <<flight, verdict, follows, answer, left>>

Land(c) ==
    /\ flight[KeyOf[c]] = c
    /\ verdict[c] # None
    /\ flight' = [flight EXCEPT ![KeyOf[c]] = None]
    /\ Answer(c, verdict[c])
    /\ UNCHANGED <<verdict, kept, follows, left>>

Hear(c) ==
    /\ follows[c] # None
    /\ flight[KeyOf[c]] # follows[c]
    /\ Answer(c, verdict[follows[c]])
    /\ UNCHANGED <<flight, verdict, kept, follows, left>>

GiveUp(c) ==
    /\ follows[c] # None
    /\ c \in left
    /\ Answer(c, Failed)
    /\ UNCHANGED <<flight, verdict, kept, follows, left>>

Leave(c) ==
    /\ c \in Mortal
    /\ answer[c] = None
    /\ left' = left \cup {c}
    /\ UNCHANGED <<flight, verdict, kept, follows, answer>>

Forget(k) ==
    /\ kept' = [kept EXCEPT ![k] = None]
    /\ UNCHANGED <<flight, verdict, follows, answer, left>>

Next ==
    \/ \E c \in Callers :
          \/ Hit(c) \/ TakeOff(c) \/ Follow(c) \/ Conclude(c) \/ Keep(c)
          \/ Land(c) \/ Hear(c) \/ GiveUp(c) \/ Leave(c)
    \/ \E k \in Keys : Forget(k)

Spec == Init /\ [][Next]_vars

=============================================================================

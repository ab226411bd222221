----------------------------- MODULE Shortener -----------------------------
(***************************************************************************)
(* What the service promises a client of POST /shorten, with no pods, no   *)
(* leader and no log: one table of short codes.  A request gets a code of  *)
(* its own, is told of a code that it got, and is told once.  It may get   *)
(* more codes than it is told of, also after it was told that it failed.   *)
(*                                                                         *)
(* ShortenRequests implements it.                                          *)
(***************************************************************************)
CONSTANTS
    Codes,
    LongURLs,   \* a request is named by its long URL
    NoRow,      \* nothing is stored for a code
    None        \* the client was told nothing yet

VARIABLES
    store,      \* the long URL of each code
    granted,    \* the codes each request got
    answer      \* what its client was told: a code, "error", or None

vars == <<store, granted, answer>>

Init ==
    /\ store = [c \in Codes |-> NoRow]
    /\ granted = [u \in LongURLs |-> {}]
    /\ answer = [u \in LongURLs |-> None]

\* A request gets a code that is free.
Grant(u, c) ==
    /\ store[c] = NoRow
    /\ store' = [store EXCEPT ![c] = u]
    /\ granted' = [granted EXCEPT ![u] = @ \cup {c}]
    /\ UNCHANGED answer

\* An administrator frees a code.
Delete(c) ==
    /\ store' = [store EXCEPT ![c] = NoRow]
    /\ UNCHANGED <<granted, answer>>

Acknowledge(u, c) ==
    /\ answer[u] = None /\ c \in granted[u]
    /\ answer' = [answer EXCEPT ![u] = c]
    /\ UNCHANGED <<store, granted>>

Fail(u) ==
    /\ answer[u] = None
    /\ answer' = [answer EXCEPT ![u] = "error"]
    /\ UNCHANGED <<store, granted>>

Next ==
    \/ \E u \in LongURLs, c \in Codes : Grant(u, c) \/ Acknowledge(u, c)
    \/ \E c \in Codes : Delete(c)
    \/ \E u \in LongURLs : Fail(u)

Spec == Init /\ [][Next]_vars
============================================================================

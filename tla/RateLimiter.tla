----------------------------- MODULE RateLimiter -----------------------------
(***************************************************************************)
(* The rate limiter (services/rate_limit_service.py): one Redis counter    *)
(* per action and client address, which the first attempt of a window      *)
(* creates and gives a lifetime, in two commands.  Redis may fail at       *)
(* either, with or without having done what it was asked, and then the     *)
(* attempt is let through.                                                 *)
(*                                                                         *)
(* A component: the handlers that ask it (Pictures) compose its steps with *)
(* theirs.  An application without a Redis client is one whose Redis       *)
(* always fails.                                                           *)
(***************************************************************************)
EXTENDS Naturals

CONSTANTS
    Host,       \* the client addresses
    Limit,      \* UPLOAD_LIMIT, LOGIN_LIMIT, REGISTER_LIMIT
    Window,     \* the lifetime of a counter, in ticks of the clock
    Request     \* the requests that may be in flight at the same time

ASSUME RateLimiterAssumption ==
    Host # {} /\ Limit \in Nat \ {0} /\ Window \in Nat \ {0}

VARIABLES
    count,      \* the counter of each address, 0 without a key
    ttl,        \* what is left of its lifetime, 0 without one
    gate,       \* how far the attempt of each request has come
    passed,     \* history: the attempts that the present counter has let through
    untimed     \* history: the addresses whose counter has lost its EXPIRE

limiterVars == <<count, ttl, gate, passed, untimed>>

-----------------------------------------------------------------------------
(* Bound: above the limit every count has the same consequences.           *)
Cap == Limit + 1

NoAttempt == [at |-> "out", host |-> CHOOSE h \in Host : TRUE, n |-> 0]

Attempts == [at : {"out", "count", "expire", "open", "refused"}, host : Host, n : 0..Cap]

LimiterInit ==
    /\ count = [h \in Host |-> 0]
    /\ ttl = [h \in Host |-> 0]
    /\ gate = [r \in Request |-> NoAttempt]
    /\ passed = [h \in Host |-> 0]
    /\ untimed = {}

InGate(r, point) == gate[r].at = point

\* Mutant: one attempt more than the limit.
AllowsOneMore(n) == n <= Limit + 1

Allows(n) == n <= Limit

\* Mutant: every attempt gives the counter its lifetime anew.
EveryAttempt(n) == TRUE

\* Mutant: the lifetime starts when the limit is reached.
LastAttempt(n) == n = Limit

\* The attempt that sets the lifetime.
StartsWindow(n) == n = 1

\* What the limiter answers to the attempt that made the counter n.
Answer(r, n) ==
    /\ gate' = [gate EXCEPT ![r].at = IF Allows(n) THEN "open" ELSE "refused"]
    /\ passed' = IF Allows(n) THEN [passed EXCEPT ![gate[r].host] = @ + 1] ELSE passed

LetThrough(r) == gate' = [gate EXCEPT ![r].at = "open"] /\ UNCHANGED passed

\* The request reaches enforce_rate_limit.
Ask(r, h) ==
    /\ InGate(r, "out")
    /\ gate' = [gate EXCEPT ![r] = [at |-> "count", host |-> h, n |-> 0]]
    /\ UNCHANGED <<count, ttl, passed, untimed>>

\* INCR.
Count(r) ==
    /\ InGate(r, "count")
    /\ LET h == gate[r].host
           n == IF count[h] < Cap THEN count[h] + 1 ELSE Cap
       IN
       \/ /\ count' = [count EXCEPT ![h] = n]
          /\ IF StartsWindow(n)
             THEN gate' = [gate EXCEPT ![r].at = "expire", ![r].n = n] /\ UNCHANGED passed
             ELSE Answer(r, n)
          /\ UNCHANGED untimed
       \/ /\ LetThrough(r)
          /\ UNCHANGED <<count, untimed>>
       \/ /\ count' = [count EXCEPT ![h] = n]
          /\ LetThrough(r)
          /\ untimed' = IF StartsWindow(n) THEN untimed \cup {h} ELSE untimed
    /\ UNCHANGED ttl

\* EXPIRE, which does nothing once the counter is gone.
SetLifetime(r) ==
    /\ InGate(r, "expire")
    /\ LET h == gate[r].host IN
       \/ /\ ttl' = [ttl EXCEPT ![h] = IF count[h] > 0 THEN Window ELSE 0]
          /\ Answer(r, gate[r].n) \/ LetThrough(r)
          /\ UNCHANGED untimed
       \/ LetThrough(r) /\ untimed' = untimed \cup {h} /\ UNCHANGED ttl
    /\ UNCHANGED count

\* The handler ends, or its process dies, wherever the attempt has come to.
Leave(r) ==
    /\ gate' = [gate EXCEPT ![r] = NoAttempt]
    /\ untimed' = IF InGate(r, "expire") THEN untimed \cup {gate[r].host} ELSE untimed
    /\ UNCHANGED <<count, ttl, passed>>

\* Redis: lifetimes run, and a counter whose lifetime is over is gone.
Tick ==
    /\ \E h \in Host : ttl[h] > 0
    /\ ttl' = [h \in Host |-> IF ttl[h] > 0 THEN ttl[h] - 1 ELSE 0]
    /\ count' = [h \in Host |-> IF ttl[h] = 1 THEN 0 ELSE count[h]]
    /\ passed' = [h \in Host |-> IF ttl[h] = 1 THEN 0 ELSE passed[h]]
    /\ UNCHANGED <<gate, untimed>>

-----------------------------------------------------------------------------
(* Properties.                                                             *)

LimiterTypeOK ==
    /\ count \in [Host -> 0..Cap]
    /\ ttl \in [Host -> 0..Window]
    /\ gate \in [Request -> Attempts]
    /\ passed \in [Host -> Nat]
    /\ untimed \in SUBSET Host

\* API_CONTRACT_CATALOG.md, "429 rate_limited": however the attempts of an
\* address overlap, one counter lets no more than Limit of them through.
\* (Those that a failing Redis lets through are not counted.)
WithinLimit == \A h \in Host : passed[h] <= Limit

\* A counter has a lifetime, or the attempt that created it is about to give it
\* one, or that command was lost.
CounterEnds ==
    \A h \in Host : count[h] > 0 =>
        \/ ttl[h] > 0
        \/ h \in untimed
        \/ \E r \in Request : InGate(r, "expire") /\ gate[r].host = h

\* An address that is refused is served again, unless EXPIRE was lost.
ServedAgain == \A h \in Host : count[h] > Limit ~> (count[h] <= Limit \/ h \in untimed)

\* rate_limit_service.py: "The policy is explicitly fail-open: a cache outage must
\* not become a sign-in outage."  No address is refused for ever.
NeverLockedOut == \A h \in Host : count[h] > Limit ~> count[h] <= Limit
=============================================================================

---------------------------- MODULE PicturesProofs ----------------------------
(***************************************************************************)
(* Proofs about Pictures and the RateLimiter it composes, for every set of *)
(* addresses, pictures and requests and for every limit and window: the    *)
(* limit holds, a counter without a lifetime has lost its EXPIRE, and a    *)
(* key names a whole file except in the cases that KeyHasFile lists.       *)
(***************************************************************************)
EXTENDS Pictures, TLAPS

-----------------------------------------------------------------------------
(* The inductive invariant of the limiter.                                 *)

Starts(r, h) == InGate(r, "expire") /\ gate[r].host = h

\* The attempts that a counter has let through, and the one that it may let
\* through once it has a lifetime, are all counted.
Counted ==
    \A h \in Host :
        /\ passed[h] <= count[h] /\ passed[h] <= Limit
        /\ ttl[h] > 0 => count[h] > 0
        /\ \A r \in Request : Starts(r, h) =>
              /\ gate[r].n = 1 /\ ttl[h] = 0
              /\ passed[h] < count[h] /\ passed[h] < Limit
              /\ \A q \in Request : Starts(q, h) => q = r

LInv == LimiterTypeOK /\ Counted /\ CounterEnds

-----------------------------------------------------------------------------
(* The inductive invariant of the pictures.                                *)

\* Where a request is, and what it has by then.
Linked ==
    \A r \in Request :
        /\ gate[r].at # "out" => At(r, "gate")
        /\ tx[r].pc \in {"gate", "write", "get", "set"} => tx[r].digest \in Digest
        /\ At(r, "unlink") => tx[r].seen \in Digest

\* The file of picture d is whole, or something explains why not.
Sound(d) == file[d] = "whole" \/ d \in torn \/ Writing(d) # {}

\* What an upload has written is sound when it sets the key.
WrittenIsSound == \A d \in Digest : Written(d) # {} => Sound(d)

IInv == LInv /\ TypeOK /\ Linked /\ WrittenIsSound /\ KeyHasFile

-----------------------------------------------------------------------------
(* The limiter.                                                            *)

LEMMA NoAttemptType ==
    NoAttempt \in Attempts /\ NoAttempt.at = "out" /\ NoAttempt.n = 0
<1>1. (CHOOSE h \in Host : TRUE) \in Host
  BY RateLimiterAssumption
<1> QED BY <1>1, RateLimiterAssumption DEF NoAttempt, Attempts, Cap

LEMMA CapType == Cap \in Nat /\ Limit < Cap /\ 1 \in 0..Cap /\ Limit \in Nat /\ 1 <= Limit
BY RateLimiterAssumption DEF Cap

\* An attempt moves to a point other than "expire" and the counters stay.
LEMMA GateFrame ==
    ASSUME LInv, NEW r \in Request, NEW a \in Attempts, a.at # "expire",
           gate' = [gate EXCEPT ![r] = a], UNCHANGED <<count, ttl, passed>>,
           untimed' \in SUBSET Host, untimed \subseteq untimed',
           InGate(r, "expire") => gate[r].host \in untimed'
    PROVE  LInv'
<1>1. gate' \in [Request -> Attempts] /\ gate'[r] = a
      /\ \A q \in Request \ {r} : gate'[q] = gate[q]
  BY DEF LInv, LimiterTypeOK
<1>2. LimiterTypeOK'
  BY <1>1 DEF LInv, LimiterTypeOK
<1>3. \A q \in Request, h \in Host : Starts(q, h)' => Starts(q, h)
  BY <1>1 DEF Starts, InGate
<1>4. Counted'
  BY <1>1, <1>3 DEF LInv, Counted, Starts, InGate
<1>5. CounterEnds'
  <2> SUFFICES ASSUME NEW h \in Host, count[h] > 0, ~(ttl[h] > 0), h \notin untimed'
               PROVE  \E q \in Request : InGate(q, "expire")' /\ gate'[q].host = h
    BY DEF CounterEnds
  <2>1. PICK q \in Request : InGate(q, "expire") /\ gate[q].host = h
    BY DEF LInv, CounterEnds
  <2> QED BY <1>1, <2>1 DEF InGate
<1> QED BY <1>2, <1>4, <1>5 DEF LInv

LEMMA AskStep ==
    ASSUME LInv, NEW r \in Request, NEW h \in Host, Ask(r, h)
    PROVE  LInv'
<1>1. PICK a : a = [at |-> "count", host |-> h, n |-> 0]
  OBVIOUS
<1>2. a \in Attempts /\ a.at = "count"
  BY <1>1, CapType DEF Attempts
<1> QED BY <1>1, <1>2, GateFrame DEF Ask, InGate, LInv, LimiterTypeOK

LEMMA LeaveStep ==
    ASSUME LInv, NEW r \in Request, Leave(r)
    PROVE  LInv'
<1>1. PICK a : a = NoAttempt
  OBVIOUS
<1>2. gate[r].host \in Host /\ untimed \in SUBSET Host
  BY DEF LInv, LimiterTypeOK, Attempts
<1>3. /\ untimed' \in SUBSET Host /\ untimed \subseteq untimed'
      /\ InGate(r, "expire") => gate[r].host \in untimed'
  BY <1>2 DEF Leave
<1> QED BY <1>1, <1>3, NoAttemptType, GateFrame DEF Leave

LEMMA CountStep ==
    ASSUME LInv, NEW r \in Request, Count(r)
    PROVE  LInv'
<1>1. PICK h, n : h = gate[r].host /\ n = IF count[h] < Cap THEN count[h] + 1 ELSE Cap
  OBVIOUS
<1>2. /\ gate[r].at = "count" /\ h \in Host /\ gate[r] \in Attempts
      /\ count \in [Host -> 0..Cap] /\ ttl \in [Host -> 0..Window]
      /\ passed \in [Host -> Nat] /\ untimed \in SUBSET Host
      /\ gate \in [Request -> Attempts] /\ UNCHANGED ttl
  BY <1>1 DEF LInv, LimiterTypeOK, Attempts, Count, InGate
<1>3. n \in 0..Cap /\ n > 0 /\ (n = 1 <=> count[h] = 0) /\ (n <= Limit => n = count[h] + 1)
      /\ count[h] \in 0..Cap /\ count[h] <= n
  BY <1>1, <1>2, CapType
<1>4. PICK open, refused, expire :
         /\ open = [gate[r] EXCEPT !.at = "open"]
         /\ refused = [gate[r] EXCEPT !.at = "refused"]
         /\ expire = [gate[r] EXCEPT !.at = "expire", !.n = n]
  OBVIOUS
<1>5. /\ open \in Attempts /\ open.at = "open"
      /\ refused \in Attempts /\ refused.at = "refused"
      /\ expire \in Attempts /\ expire.at = "expire" /\ expire.host = h /\ expire.n = n
  BY <1>1, <1>2, <1>3, <1>4 DEF Attempts
<1>6. Counted /\ CounterEnds
  BY DEF LInv
<1>7. ASSUME count' = [count EXCEPT ![h] = n], NEW a \in Attempts,
             gate' = [gate EXCEPT ![r] = a], a.at # "expire", n # 1 \/ h \in untimed',
             untimed' \in SUBSET Host, untimed \subseteq untimed',
             \/ UNCHANGED passed
             \/ n <= Limit /\ n # 1 /\ passed' = [passed EXCEPT ![h] = @ + 1]
      PROVE  LInv'
  <2>1. /\ gate' \in [Request -> Attempts] /\ gate'[r] = a
        /\ \A q \in Request \ {r} : gate'[q] = gate[q]
        /\ count' \in [Host -> 0..Cap] /\ passed' \in [Host -> Nat]
        /\ count'[h] = n /\ \A g \in Host \ {h} : count'[g] = count[g] /\ passed'[g] = passed[g]
    BY <1>2, <1>3, <1>7
  <2>2. LimiterTypeOK'
    BY <1>2, <1>7, <2>1 DEF LimiterTypeOK
  <2>3. \A q \in Request, g \in Host : Starts(q, g)' <=> Starts(q, g)
    BY <1>2, <1>7, <2>1 DEF Starts, InGate
  <2>4. passed'[h] <= n /\ passed'[h] <= Limit
    BY <1>2, <1>3, <1>6, <1>7, CapType DEF Counted
  <2>5. ASSUME NEW q \in Request, Starts(q, h)
        PROVE  passed'[h] < n /\ passed'[h] < Limit /\ gate'[q].n = 1 /\ ttl[h] = 0
    <3>1. gate[q].n = 1 /\ ttl[h] = 0 /\ passed[h] < count[h] /\ passed[h] < Limit
      BY <1>2, <1>6, <2>5 DEF Counted
    <3>2. q # r
      BY <1>2, <2>5 DEF Starts, InGate
    <3> QED BY <1>2, <1>3, <1>7, <2>1, <3>1, <3>2, CapType
  <2>6. Counted'
    <3> SUFFICES ASSUME NEW g \in Host
                 PROVE  /\ passed'[g] <= count'[g] /\ passed'[g] <= Limit
                        /\ ttl'[g] > 0 => count'[g] > 0
                        /\ \A q \in Request : Starts(q, g)' =>
                              /\ gate'[q].n = 1 /\ ttl'[g] = 0
                              /\ passed'[g] < count'[g] /\ passed'[g] < Limit
                              /\ \A p \in Request : Starts(p, g)' => p = q
      BY DEF Counted
    <3>1. CASE g = h
      BY <1>2, <1>3, <1>6, <2>1, <2>3, <2>4, <2>5, <3>1 DEF Counted
    <3>2. CASE g # h
      BY <1>2, <1>6, <2>1, <2>3, <3>2 DEF Counted, Starts, InGate
    <3> QED BY <3>1, <3>2
  <2>7. CounterEnds'
    <3> SUFFICES ASSUME NEW g \in Host, count'[g] > 0, ~(ttl[g] > 0), g \notin untimed'
                 PROVE  \E q \in Request : Starts(q, g)'
      BY <1>2 DEF CounterEnds, Starts
    <3>1. count[g] > 0
      <4>1. CASE g = h
        BY <1>3, <1>7, <4>1
      <4>2. CASE g # h
        BY <1>2, <2>1, <4>2
      <4> QED BY <4>1, <4>2
    <3>2. PICK q \in Request : Starts(q, g)
      BY <1>6, <1>7, <3>1 DEF CounterEnds, Starts
    <3> QED BY <2>3, <3>2
  <2> QED BY <2>2, <2>6, <2>7 DEF LInv
<1>8. ASSUME count' = [count EXCEPT ![h] = n], n = 1, gate' = [gate EXCEPT ![r] = expire],
             UNCHANGED <<passed, untimed>>
      PROVE  LInv'
  <2>1. /\ gate' \in [Request -> Attempts] /\ gate'[r] = expire
        /\ \A q \in Request \ {r} : gate'[q] = gate[q]
        /\ count' \in [Host -> 0..Cap]
        /\ count'[h] = 1 /\ \A g \in Host \ {h} : count'[g] = count[g]
    BY <1>2, <1>3, <1>5, <1>8
  <2>2. LimiterTypeOK'
    BY <1>2, <1>8, <2>1 DEF LimiterTypeOK
  <2>3. passed[h] = 0 /\ \A q \in Request : ~Starts(q, h)
    BY <1>2, <1>3, <1>6, <1>8 DEF Counted
  <2>4. /\ \A q \in Request \ {r}, g \in Host : Starts(q, g)' <=> Starts(q, g)
        /\ \A g \in Host : Starts(r, g)' <=> g = h
        /\ \A g \in Host : ~Starts(r, g)
    BY <1>2, <1>5, <2>1 DEF Starts, InGate
  <2>5. \A q \in Request : Starts(q, h)' <=> q = r
    BY <1>2, <2>3, <2>4
  <2>6. ttl[h] = 0
    BY <1>2, <1>3, <1>6, <1>8 DEF Counted
  <2>7. Counted'
    <3> SUFFICES ASSUME NEW g \in Host
                 PROVE  /\ passed'[g] <= count'[g] /\ passed'[g] <= Limit
                        /\ ttl'[g] > 0 => count'[g] > 0
                        /\ \A q \in Request : Starts(q, g)' =>
                              /\ gate'[q].n = 1 /\ ttl'[g] = 0
                              /\ passed'[g] < count'[g] /\ passed'[g] < Limit
                              /\ \A p \in Request : Starts(p, g)' => p = q
      BY DEF Counted
    <3>1. CASE g = h
      BY <1>2, <1>5, <1>8, <2>1, <2>3, <2>5, <2>6, <3>1, CapType
    <3>2. CASE g # h
      BY <1>2, <1>6, <1>8, <2>1, <2>4, <3>2 DEF Counted, Starts, InGate
    <3> QED BY <3>1, <3>2
  <2>8. CounterEnds'
    <3> SUFFICES ASSUME NEW g \in Host, count'[g] > 0, ~(ttl[g] > 0), g \notin untimed
                 PROVE  \E q \in Request : Starts(q, g)'
      BY <1>2, <1>8 DEF CounterEnds, Starts
    <3>1. CASE g = h
      BY <2>5, <3>1
    <3>2. CASE g # h
      BY <1>6, <2>1, <2>4, <3>2 DEF CounterEnds, Starts
    <3> QED BY <3>1, <3>2
  <2> QED BY <2>2, <2>7, <2>8 DEF LInv
<1>9. CASE /\ count' = [count EXCEPT ![h] = n] /\ UNCHANGED untimed
           /\ ~StartsWindow(n) /\ Answer(r, n)
  <2>1. n # 1
    BY <1>9 DEF StartsWindow
  <2>2. CASE Allows(n)
    BY <1>1, <1>2, <1>4, <1>5, <1>7, <1>9, <2>1, <2>2 DEF Answer, Allows
  <2>3. CASE ~Allows(n)
    BY <1>2, <1>4, <1>5, <1>7, <1>9, <2>1, <2>3 DEF Answer
  <2> QED BY <2>2, <2>3
<1>10. CASE /\ count' = [count EXCEPT ![h] = n] /\ UNCHANGED <<passed, untimed>>
            /\ StartsWindow(n) /\ gate' = [gate EXCEPT ![r].at = "expire", ![r].n = n]
  BY <1>2, <1>4, <1>8, <1>10 DEF StartsWindow
<1>11. CASE LetThrough(r) /\ UNCHANGED <<count, untimed>>
  BY <1>2, <1>4, <1>5, <1>11, GateFrame DEF LetThrough, InGate
<1>12. CASE /\ count' = [count EXCEPT ![h] = n] /\ LetThrough(r)
            /\ untimed' = IF StartsWindow(n) THEN untimed \cup {h} ELSE untimed
  <2>1. /\ untimed' \in SUBSET Host /\ untimed \subseteq untimed'
        /\ n # 1 \/ h \in untimed'
    BY <1>2, <1>12 DEF StartsWindow
  <2> QED BY <1>2, <1>4, <1>5, <1>7, <1>12, <2>1 DEF LetThrough
<1> QED BY <1>1, <1>9, <1>10, <1>11, <1>12 DEF Count

LEMMA SetLifetimeStep ==
    ASSUME LInv, NEW r \in Request, SetLifetime(r)
    PROVE  LInv'
<1>1. PICK h : h = gate[r].host
  OBVIOUS
<1>2. /\ gate[r].at = "expire" /\ h \in Host /\ gate[r] \in Attempts
      /\ count \in [Host -> 0..Cap] /\ ttl \in [Host -> 0..Window]
      /\ passed \in [Host -> Nat] /\ untimed \in SUBSET Host
      /\ gate \in [Request -> Attempts] /\ UNCHANGED count
  BY <1>1 DEF LInv, LimiterTypeOK, Attempts, SetLifetime, InGate
<1>3. /\ Starts(r, h) /\ gate[r].n = 1 /\ ttl[h] = 0 /\ Allows(1)
      /\ passed[h] < count[h] /\ passed[h] < Limit
      /\ \A q \in Request : Starts(q, h) => q = r
  BY <1>1, <1>2, CapType DEF LInv, Counted, Starts, InGate, Allows
<1>4. PICK open : open = [gate[r] EXCEPT !.at = "open"]
  OBVIOUS
<1>5. open \in Attempts /\ open.at = "open"
  BY <1>2, <1>4 DEF Attempts
<1>6. CASE LetThrough(r) /\ untimed' = untimed \cup {h} /\ UNCHANGED ttl
  BY <1>1, <1>2, <1>4, <1>5, <1>6, GateFrame DEF LetThrough
<1>7. CASE /\ ttl' = [ttl EXCEPT ![h] = IF count[h] > 0 THEN Window ELSE 0]
           /\ Answer(r, gate[r].n) \/ LetThrough(r)
           /\ UNCHANGED untimed
  <2>1. /\ gate' = [gate EXCEPT ![r] = open]
        /\ UNCHANGED passed \/ passed' = [passed EXCEPT ![h] = @ + 1]
    BY <1>1, <1>2, <1>3, <1>4, <1>7 DEF Answer, LetThrough
  <2>2. /\ gate' \in [Request -> Attempts] /\ gate'[r] = open
        /\ \A q \in Request \ {r} : gate'[q] = gate[q]
    BY <1>2, <1>5, <2>1
  <2>3. /\ ttl' \in [Host -> 0..Window] /\ ttl'[h] > 0
        /\ \A g \in Host \ {h} : ttl'[g] = ttl[g]
    BY <1>2, <1>3, <1>7, CapType, RateLimiterAssumption DEF LInv, LimiterTypeOK
  <2>4. /\ passed' \in [Host -> Nat] /\ passed'[h] <= passed[h] + 1
        /\ \A g \in Host \ {h} : passed'[g] = passed[g]
    BY <1>2, <2>1
  <2>5. /\ \A q \in Request, g \in Host : Starts(q, g)' => Starts(q, g) /\ q # r /\ g # h
        /\ \A q \in Request, g \in Host : g # h /\ Starts(q, g) => Starts(q, g)'
    BY <1>2, <1>3, <1>5, <2>2 DEF Starts, InGate
  <2>6. LimiterTypeOK'
    BY <1>2, <1>7, <2>2, <2>3, <2>4 DEF LimiterTypeOK, SetLifetime
  <2>7. Counted'
    <3> SUFFICES ASSUME NEW g \in Host
                 PROVE  /\ passed'[g] <= count'[g] /\ passed'[g] <= Limit
                        /\ ttl'[g] > 0 => count'[g] > 0
                        /\ \A q \in Request : Starts(q, g)' =>
                              /\ gate'[q].n = 1 /\ ttl'[g] = 0
                              /\ passed'[g] < count'[g] /\ passed'[g] < Limit
                              /\ \A p \in Request : Starts(p, g)' => p = q
      BY DEF Counted
    <3>1. CASE g = h
      BY <1>2, <1>3, <2>4, <2>5, <3>1, CapType
    <3>2. CASE g # h
      BY <1>2, <2>2, <2>3, <2>4, <2>5, <3>2 DEF LInv, Counted
    <3> QED BY <3>1, <3>2
  <2>8. CounterEnds'
    <3> SUFFICES ASSUME NEW g \in Host, count[g] > 0, ~(ttl'[g] > 0), g \notin untimed'
                 PROVE  \E q \in Request : Starts(q, g)'
      BY <1>2 DEF CounterEnds, Starts
    <3>1. g # h /\ g \notin untimed
      BY <1>7, <2>3 DEF SetLifetime
    <3> QED BY <2>3, <2>5, <3>1 DEF LInv, CounterEnds, Starts
  <2> QED BY <2>6, <2>7, <2>8 DEF LInv
<1> QED BY <1>1, <1>6, <1>7 DEF SetLifetime

LEMMA TickStep ==
    ASSUME LInv, Tick
    PROVE  LInv'
<1>1. /\ count \in [Host -> 0..Cap] /\ ttl \in [Host -> 0..Window]
      /\ passed \in [Host -> Nat] /\ untimed' = untimed /\ gate' = gate
  BY DEF LInv, LimiterTypeOK, Tick
<1>2. \A h \in Host :
         /\ ttl'[h] = IF ttl[h] > 0 THEN ttl[h] - 1 ELSE 0
         /\ count'[h] = IF ttl[h] = 1 THEN 0 ELSE count[h]
         /\ passed'[h] = IF ttl[h] = 1 THEN 0 ELSE passed[h]
  BY DEF Tick
<1>3. LimiterTypeOK'
  <2>1. \A h \in Host : ttl'[h] \in 0..Window /\ count'[h] \in 0..Cap /\ passed'[h] \in Nat
    BY <1>1, <1>2, RateLimiterAssumption, CapType
  <2> QED BY <1>1, <2>1 DEF LInv, LimiterTypeOK, Tick
<1>4. \A q \in Request, h \in Host : Starts(q, h)' <=> Starts(q, h)
  BY <1>1 DEF Starts, InGate
<1>5. Counted'
  <2> SUFFICES ASSUME NEW h \in Host
               PROVE  /\ passed'[h] <= count'[h] /\ passed'[h] <= Limit
                      /\ ttl'[h] > 0 => count'[h] > 0
                      /\ \A q \in Request : Starts(q, h)' =>
                            /\ gate'[q].n = 1 /\ ttl'[h] = 0
                            /\ passed'[h] < count'[h] /\ passed'[h] < Limit
                            /\ \A p \in Request : Starts(p, h)' => p = q
    BY DEF Counted
  <2>1. /\ passed[h] <= count[h] /\ passed[h] <= Limit
        /\ ttl[h] > 0 => count[h] > 0
        /\ \A q \in Request : Starts(q, h) =>
              /\ gate[q].n = 1 /\ ttl[h] = 0
              /\ passed[h] < count[h] /\ passed[h] < Limit
              /\ \A p \in Request : Starts(p, h) => p = q
    BY DEF LInv, Counted
  <2> QED BY <1>1, <1>2, <1>4, <2>1, CapType
<1>6. CounterEnds'
  <2> SUFFICES ASSUME NEW h \in Host, count'[h] > 0, ~(ttl'[h] > 0), h \notin untimed
               PROVE  \E q \in Request : Starts(q, h)'
    BY <1>1 DEF CounterEnds, Starts
  <2>1. count[h] > 0 /\ ~(ttl[h] > 0)
    BY <1>1, <1>2, RateLimiterAssumption
  <2> QED BY <1>4, <2>1 DEF LInv, CounterEnds, Starts
<1> QED BY <1>3, <1>5, <1>6 DEF LInv

-----------------------------------------------------------------------------
(* The pictures.                                                           *)

LEMMA IdleType == Idle \in Transactions /\ Idle.pc = "idle"
BY DEF Idle, Transactions

\* What a step of request r needs to show of the pictures, once the limiter is
\* dealt with: tx changes for r only, and r becomes t.
LEMMA PictureFrame ==
    ASSUME IInv, LInv', NEW r \in Request, NEW t \in Transactions,
           tx' = [tx EXCEPT ![r] = t],
           key' \in Digest \cup {None}, torn' \in SUBSET Digest, torn \subseteq torn',
           UNCHANGED file,
           \A q \in Request \ {r} : gate'[q] = gate[q],
           gate'[r].at # "out" => t.pc = "gate",
           t.pc \in {"gate", "get", "set"} => t.digest \in Digest,
           t.pc = "unlink" => t.seen \in Digest,
           t.pc # "write",
           t.pc \in {"get", "set"} => At(r, "get") /\ tx[r].digest = t.digest,
           At(r, "write") => tx[r].digest \in torn',
           At(r, "clear") /\ tx[r].seen # None /\ key' # None => tx[r].seen \in torn',
           key' # key /\ key' # None => r \in Written(key')
    PROVE  IInv'
<1>1. /\ tx' \in [Request -> Transactions] /\ tx'[r] = t
      /\ \A q \in Request \ {r} : tx'[q] = tx[q]
  BY DEF IInv, TypeOK
<1>2. TypeOK'
  BY <1>1 DEF IInv, TypeOK, LInv
<1>3. Linked'
  BY <1>1 DEF IInv, Linked, At
<1>4. ASSUME NEW d \in Digest, Sound(d)
      PROVE  Sound(d)'
  <2>1. CASE file[d] = "whole" \/ d \in torn
    BY <2>1 DEF Sound
  <2>2. CASE \E q \in Request : q \in Writing(d)
    <3>1. PICK q \in Request : q \in Writing(d)
      BY <2>2
    <3>2. CASE q = r
      BY <3>1, <3>2 DEF Writing, Sound
    <3>3. CASE q # r
      BY <1>1, <3>1, <3>3 DEF Writing, Sound, At
    <3> QED BY <3>2, <3>3
  <2> QED BY <1>4, <2>1, <2>2 DEF Sound, Writing
<1>5. \A d \in Digest : Written(d)' # {} => Written(d) # {}
  BY <1>1 DEF Written, At
<1>6. WrittenIsSound'
  BY <1>4, <1>5 DEF IInv, WrittenIsSound
<1>7. KeyHasFile'
  <2> SUFFICES ASSUME NEW d \in Digest, key' = d, ~Sound(d)'
               PROVE  \E q \in Request : At(q, "clear")' /\ tx'[q].seen = d
    <3>1. key' # None => key' \in Digest
      OBVIOUS
    <3> QED BY <3>1 DEF KeyHasFile, Sound, Writing, At
  <2>1. ~Sound(d) /\ d # None
    BY <1>4, PicturesAssumption
  <2>2. Written(d) = {}
    BY <2>1 DEF IInv, WrittenIsSound
  <2>3. key = d
    BY <2>1, <2>2
  <2>4. PICK q \in Request : At(q, "clear") /\ tx[q].seen = d
    BY <2>1, <2>3 DEF IInv, KeyHasFile, Sound
  <2>5. q # r
    BY <2>1, <2>4 DEF Sound
  <2> QED BY <1>1, <2>4, <2>5 DEF At
<1> QED BY <1>2, <1>3, <1>6, <1>7 DEF IInv

\* The steps that end a request and leave the files alone.
LEMMA EndStep ==
    ASSUME IInv, NEW r \in Request, End(r), UNCHANGED file,
           key' \in Digest \cup {None}, torn' \in SUBSET Digest, torn \subseteq torn',
           At(r, "write") => tx[r].digest \in torn',
           At(r, "clear") /\ tx[r].seen # None /\ key' # None => tx[r].seen \in torn',
           key' # key /\ key' # None => r \in Written(key')
    PROVE  IInv'
<1>1. PICK t : t = Idle
  OBVIOUS
<1>2. tx' = [tx EXCEPT ![r] = t] /\ t \in Transactions /\ t.pc = "idle"
  BY <1>1, IdleType DEF End
<1>3. LInv'
  BY LeaveStep DEF IInv, End
<1>4. gate \in [Request -> Attempts] /\ gate' = [gate EXCEPT ![r] = NoAttempt]
  BY DEF IInv, LInv, LimiterTypeOK, End, Leave
<1>5. gate'[r].at = "out" /\ \A q \in Request \ {r} : gate'[q] = gate[q]
  BY <1>4, NoAttemptType
<1> QED BY <1>2, <1>3, <1>5, PictureFrame

LEMMA RefuseStep ==
    ASSUME IInv, NEW r \in Request, Refuse(r)
    PROVE  IInv'
<1>1. At(r, "gate")
  BY DEF IInv, Linked, Refuse, InGate
<1> QED BY <1>1, EndStep DEF Refuse, IInv, TypeOK, At

LEMMA SetKeyStep ==
    ASSUME IInv, NEW r \in Request, SetKey(r)
    PROVE  IInv'
<1>1. tx[r].digest \in Digest /\ tx[r].pc = "set" /\ key \in Digest \cup {None}
      /\ torn \in SUBSET Digest
  BY DEF IInv, Linked, SetKey, At, TypeOK
<1>2. key' = key \/ key' = tx[r].digest
  BY DEF SetKey
<1>3. r \in Written(tx[r].digest)
  BY <1>1 DEF Written, At
<1> QED BY <1>1, <1>2, <1>3, EndStep DEF SetKey, At

LEMMA ClearKeyStep ==
    ASSUME IInv, NEW r \in Request, ClearKey(r)
    PROVE  IInv'
<1>1. tx[r].pc = "clear" /\ key \in Digest \cup {None} /\ torn \in SUBSET Digest
  BY DEF IInv, ClearKey, At, TypeOK
<1>2. (key' = key /\ tx[r].seen = None) \/ key' = None
  BY DEF ClearKey
<1> QED BY <1>1, <1>2, EndStep DEF ClearKey, At

LEMMA AbortStep ==
    ASSUME IInv, NEW r \in Request, Abort(r)
    PROVE  IInv'
<1>1. /\ key \in Digest \cup {None} /\ torn \in SUBSET Digest
      /\ At(r, "write") => tx[r].digest \in Digest
      /\ tx[r].seen \in Digest \cup {None}
  BY DEF IInv, TypeOK, Linked, At, Transactions
<1>2. /\ torn' \in SUBSET Digest /\ torn \subseteq torn' /\ key' = key
      /\ At(r, "write") => tx[r].digest \in torn'
      /\ At(r, "clear") /\ tx[r].seen # None => tx[r].seen \in torn'
  BY <1>1 DEF Abort, At
<1> QED BY <1>1, <1>2, EndStep DEF Abort

\* The steps of the limiter alone.
LEMMA LimiterFrame ==
    ASSUME IInv, LInv', UNCHANGED pictureVars,
           \A r \in Request : gate'[r].at # "out" => gate[r].at # "out"
    PROVE  IInv'
<1> USE DEF pictureVars
<1>1. TypeOK' /\ Linked'
  BY DEF IInv, TypeOK, LInv, Linked, At
<1>2. WrittenIsSound' /\ KeyHasFile'
  BY DEF IInv, WrittenIsSound, KeyHasFile, Sound, Written, Writing, At
<1> QED BY <1>1, <1>2 DEF IInv

LEMMA GateStep ==
    ASSUME IInv, NEW r \in Request, Gate(r)
    PROVE  IInv'
<1>1. LInv'
  BY CountStep, SetLifetimeStep DEF IInv, Gate
<1>2. gate[r].at # "out" /\ \A q \in Request \ {r} : gate'[q] = gate[q]
  BY DEF IInv, LInv, LimiterTypeOK, Gate, Count, SetLifetime, Answer, LetThrough, InGate
<1> QED BY <1>1, <1>2, LimiterFrame DEF Gate

LEMMA BeginUploadStep ==
    ASSUME IInv, NEW r \in Request, BeginUpload(r)
    PROVE  IInv'
<1>1. PICK h \in Host, d \in Digest :
         Ask(r, h) /\ tx' = [tx EXCEPT ![r] = [Idle EXCEPT !.pc = "gate", !.digest = d]]
  BY DEF BeginUpload
<1>2. PICK t : t = [Idle EXCEPT !.pc = "gate", !.digest = d]
  OBVIOUS
<1>3. t \in Transactions /\ t.pc = "gate" /\ t.digest = d
  BY <1>2 DEF Idle, Transactions
<1>4. LInv'
  BY <1>1, AskStep DEF IInv
<1>5. \A q \in Request \ {r} : gate'[q] = gate[q]
  BY <1>1 DEF Ask, IInv, LInv, LimiterTypeOK
<1>6. /\ UNCHANGED <<key, file, torn>> /\ tx[r].pc = "idle"
      /\ key \in Digest \cup {None} /\ torn \in SUBSET Digest
  BY DEF BeginUpload, IInv, TypeOK, At
<1> QED BY <1>1, <1>2, <1>3, <1>4, <1>5, <1>6, PictureFrame DEF At

LEMMA StutterLInv ==
    ASSUME LInv, UNCHANGED limiterVars
    PROVE  LInv'
BY DEF LInv, limiterVars, LimiterTypeOK, Counted, CounterEnds, Starts, InGate

LEMMA GetStep ==
    ASSUME IInv, NEW r \in Request, Get(r)
    PROVE  IInv'
<1>1. PICK t : t = [tx[r] EXCEPT !.pc = "set", !.seen = key]
  OBVIOUS
<1>2. /\ tx[r].pc = "get" /\ tx[r] \in Transactions /\ tx[r].digest \in Digest
      /\ key \in Digest \cup {None} /\ torn \in SUBSET Digest
  BY DEF IInv, TypeOK, Linked, Get, At
<1>3. /\ t \in Transactions /\ t.pc = "set" /\ t.digest = tx[r].digest
      /\ tx' = [tx EXCEPT ![r] = t]
  BY <1>1, <1>2 DEF Transactions, Get
<1>4. LInv' /\ gate' = gate /\ gate[r].at = "out"
  BY <1>2, StutterLInv DEF IInv, Get, limiterVars, Linked, At
<1> QED BY <1>2, <1>3, <1>4, PictureFrame DEF Get, At

LEMMA BeginDeletionStep ==
    ASSUME IInv, NEW r \in Request, BeginDeletion(r)
    PROVE  IInv'
<1>1. PICK t : t = [Idle EXCEPT !.pc = IF key = None THEN "clear" ELSE "unlink", !.seen = key]
  OBVIOUS
<1>2. /\ tx[r].pc = "idle" /\ key \in Digest \cup {None} /\ torn \in SUBSET Digest
  BY DEF IInv, TypeOK, BeginDeletion, At
<1>3. /\ t \in Transactions /\ t.pc \in {"clear", "unlink"} /\ t.seen = key
      /\ t.pc = "unlink" => key \in Digest
      /\ tx' = [tx EXCEPT ![r] = t]
  BY <1>1, <1>2 DEF Transactions, Idle, BeginDeletion
<1>4. LInv' /\ gate' = gate /\ gate[r].at = "out"
  BY <1>2, StutterLInv DEF IInv, BeginDeletion, limiterVars, Linked, At
<1> QED BY <1>2, <1>3, <1>4, PictureFrame DEF BeginDeletion, At

LEMMA OpenStep ==
    ASSUME IInv, NEW r \in Request, Open(r)
    PROVE  IInv'
<1>1. PICK d : d = tx[r].digest
  OBVIOUS
<1>2. /\ tx[r].pc = "gate" /\ tx[r] \in Transactions /\ d \in Digest /\ d # None
      /\ file \in [Digest -> {"absent", "partial", "whole"}] /\ gate \in [Request -> Attempts]
  BY <1>1, PicturesAssumption DEF IInv, TypeOK, LInv, LimiterTypeOK, Linked, Open, At
<1>3. PICK t : t = [tx[r] EXCEPT !.pc = "write"]
  OBVIOUS
<1>4. t \in Transactions /\ t.pc = "write" /\ t.digest = d /\ t.seen = tx[r].seen
  BY <1>1, <1>2, <1>3 DEF Transactions
<1>5. /\ tx' \in [Request -> Transactions] /\ tx'[r] = t
      /\ \A q \in Request \ {r} : tx'[q] = tx[q]
  BY <1>3, <1>4 DEF Open, Goto, IInv, TypeOK
<1>6. LInv' /\ gate'[r].at = "out" /\ \A q \in Request \ {r} : gate'[q] = gate[q]
  BY <1>2, LeaveStep, NoAttemptType DEF IInv, Open, Leave
<1>7. /\ file' \in [Digest -> {"absent", "partial", "whole"}]
      /\ \A e \in Digest \ {d} : file'[e] = file[e]
  BY <1>1, <1>2 DEF Open
<1>8. TypeOK'
  BY <1>5, <1>6, <1>7 DEF TypeOK, LInv, Open, IInv
<1>9. Linked'
  BY <1>2, <1>4, <1>5, <1>6 DEF IInv, Linked, At
<1>10. r \in Writing(d)' /\ \A e \in Digest : Writing(e) \subseteq Writing(e)'
  BY <1>2, <1>4, <1>5 DEF Writing, At
<1>11. \A e \in Digest : Written(e)' \subseteq Written(e) /\ (Sound(e) \/ e = d => Sound(e)')
  BY <1>2, <1>4, <1>5, <1>7, <1>10 DEF Written, Sound, Open, At
<1>12. WrittenIsSound'
  BY <1>11 DEF IInv, WrittenIsSound
<1>13. KeyHasFile'
  <2> SUFFICES ASSUME NEW e \in Digest, key = e, ~Sound(e)'
               PROVE  \E q \in Request : At(q, "clear")' /\ tx'[q].seen = e
    BY DEF KeyHasFile, Sound, Writing, At, Open, IInv, TypeOK
  <2>1. ~Sound(e)
    BY <1>11
  <2>2. PICK q \in Request : At(q, "clear") /\ tx[q].seen = e
    BY <2>1, PicturesAssumption DEF IInv, KeyHasFile, Sound
  <2> QED BY <1>2, <1>5, <2>2 DEF At
<1> QED BY <1>6, <1>8, <1>9, <1>12, <1>13 DEF IInv

LEMMA WriteStep ==
    ASSUME IInv, NEW r \in Request, Write(r)
    PROVE  IInv'
<1>1. PICK d : d = tx[r].digest
  OBVIOUS
<1>2. /\ tx[r].pc = "write" /\ tx[r] \in Transactions /\ d \in Digest /\ d # None
      /\ file \in [Digest -> {"absent", "partial", "whole"}] /\ torn \in SUBSET Digest
  BY <1>1, PicturesAssumption DEF IInv, TypeOK, Linked, Write, At
<1>3. PICK t : t = [tx[r] EXCEPT !.pc = "get"]
  OBVIOUS
<1>4. t \in Transactions /\ t.pc = "get" /\ t.digest = d /\ t.seen = tx[r].seen
  BY <1>1, <1>2, <1>3 DEF Transactions
<1>5. /\ tx' \in [Request -> Transactions] /\ tx'[r] = t
      /\ \A q \in Request \ {r} : tx'[q] = tx[q]
  BY <1>3, <1>4 DEF Write, Goto, IInv, TypeOK
<1>6. LInv' /\ gate' = gate /\ gate[r].at = "out"
  BY <1>2, StutterLInv DEF IInv, Write, limiterVars, Linked, At
<1>7. \/ file' = [file EXCEPT ![d] = "whole"] /\ torn' = torn \ {d}
      \/ Writing(d) # {r} /\ UNCHANGED <<file, torn>>
  BY <1>1 DEF Write
<1>8. TypeOK'
  BY <1>2, <1>5, <1>6, <1>7 DEF TypeOK, LInv, Write, IInv
<1>9. Linked'
  BY <1>2, <1>4, <1>5, <1>6 DEF IInv, Linked, At
<1>10. Sound(d)'
  <2>1. CASE file' = [file EXCEPT ![d] = "whole"]
    BY <1>2, <2>1 DEF Sound
  <2>2. CASE Writing(d) # {r} /\ UNCHANGED <<file, torn>>
    <3>1. r \in Writing(d)
      BY <1>1, <1>2 DEF Writing, At
    <3>2. PICK q \in Writing(d) : q # r
      BY <2>2, <3>1
    <3>3. q \in Writing(d)'
      BY <1>5, <3>2 DEF Writing, At
    <3> QED BY <3>3 DEF Sound
  <2> QED BY <1>7, <2>1, <2>2
<1>11. ASSUME NEW e \in Digest, e # d
       PROVE  (Sound(e) => Sound(e)') /\ Written(e)' = Written(e)
  <2>1. Writing(e)' = Writing(e) /\ Written(e)' = Written(e)
    BY <1>1, <1>4, <1>5, <1>11 DEF Writing, Written, At
  <2>2. file'[e] = file[e] /\ (e \in torn => e \in torn')
    BY <1>2, <1>7, <1>11
  <2> QED BY <2>1, <2>2 DEF Sound
<1>12. WrittenIsSound'
  BY <1>10, <1>11 DEF IInv, WrittenIsSound
<1>13. KeyHasFile'
  <2> SUFFICES ASSUME NEW e \in Digest, key = e, ~Sound(e)'
               PROVE  \E q \in Request : At(q, "clear")' /\ tx'[q].seen = e
    BY DEF KeyHasFile, Sound, Writing, At, Write, IInv, TypeOK
  <2>1. ~Sound(e)
    BY <1>10, <1>11
  <2>2. PICK q \in Request : At(q, "clear") /\ tx[q].seen = e
    BY <2>1, PicturesAssumption DEF IInv, KeyHasFile, Sound
  <2> QED BY <1>2, <1>5, <2>2 DEF At
<1> QED BY <1>6, <1>8, <1>9, <1>12, <1>13 DEF IInv

LEMMA UnlinkStep ==
    ASSUME IInv, NEW r \in Request, Unlink(r)
    PROVE  IInv'
<1>1. PICK d : d = tx[r].seen
  OBVIOUS
<1>2. /\ tx[r].pc = "unlink" /\ d \in Digest /\ tx \in [Request -> Transactions]
      /\ file \in [Digest -> {"absent", "partial", "whole"}] /\ torn \in SUBSET Digest
  BY <1>1 DEF IInv, TypeOK, Linked, Unlink, At
<1>3. /\ file' = [file EXCEPT ![d] = "absent"]
      /\ torn' = IF Writing(d) \cup Written(d) # {} THEN torn \cup {d} ELSE torn
      /\ tx' = [q \in Request |->
                  IF q = r THEN [tx[r] EXCEPT !.pc = "clear"]
                  ELSE IF q \in Writing(d) THEN [tx[q] EXCEPT !.pc = "get"]
                  ELSE tx[q]]
  BY <1>1 DEF Unlink
<1>4. ASSUME NEW q \in Request
      PROVE  /\ tx'[q] \in Transactions
             /\ tx'[q].digest = tx[q].digest /\ tx'[q].seen = tx[q].seen
             /\ tx'[q].pc = IF q = r THEN "clear"
                            ELSE IF q \in Writing(d) THEN "get" ELSE tx[q].pc
  <2>1. tx[q] \in Transactions
    BY <1>2
  <2> QED BY <1>3, <2>1 DEF Transactions
<1>5. LInv' /\ gate' = gate /\ UNCHANGED key
  BY StutterLInv DEF IInv, Unlink, limiterVars
<1>6. TypeOK'
  <2>1. tx' \in [Request -> Transactions]
    BY <1>3, <1>4
  <2>2. file' \in [Digest -> {"absent", "partial", "whole"}] /\ torn' \in SUBSET Digest
    BY <1>2, <1>3
  <2> QED BY <1>5, <2>1, <2>2 DEF IInv, TypeOK, LInv
<1>7. Linked'
  <2> SUFFICES ASSUME NEW q \in Request
               PROVE  /\ gate'[q].at # "out" => tx'[q].pc = "gate"
                      /\ tx'[q].pc \in {"gate", "write", "get", "set"} => tx'[q].digest \in Digest
                      /\ tx'[q].pc = "unlink" => tx'[q].seen \in Digest
    BY DEF Linked, At
  <2>1. /\ gate[q].at # "out" => tx[q].pc = "gate"
        /\ tx[q].pc \in {"gate", "write", "get", "set"} => tx[q].digest \in Digest
        /\ tx[q].pc = "unlink" => tx[q].seen \in Digest
    BY DEF IInv, Linked, At
  <2> QED BY <1>2, <1>4, <1>5, <2>1 DEF Writing, At
<1>8. \A e \in Digest \ {d} : Writing(e)' = Writing(e) /\ Written(e)' = Written(e)
  BY <1>2, <1>4 DEF Writing, Written, At
<1>9. Written(d)' # {} => d \in torn'
  BY <1>2, <1>3, <1>4 DEF Writing, Written, At
<1>10. \A e \in Digest \ {d} : Sound(e) => Sound(e)'
  BY <1>2, <1>3, <1>8 DEF Sound
<1>11. WrittenIsSound'
  BY <1>8, <1>9, <1>10 DEF IInv, WrittenIsSound, Sound
<1>12. KeyHasFile'
  <2> SUFFICES ASSUME NEW e \in Digest, key = e, ~Sound(e)'
               PROVE  \E q \in Request : At(q, "clear")' /\ tx'[q].seen = e
    BY <1>5 DEF KeyHasFile, Sound, Writing, At, IInv, TypeOK
  <2>1. CASE e = d
    BY <1>1, <1>4, <2>1 DEF At
  <2>2. CASE e # d
    <3>1. ~Sound(e)
      BY <1>10, <2>2
    <3>2. PICK q \in Request : At(q, "clear") /\ tx[q].seen = e
      BY <3>1, PicturesAssumption DEF IInv, KeyHasFile, Sound
    <3> QED BY <1>2, <1>4, <3>2 DEF At, Writing
  <2> QED BY <2>1, <2>2
<1> QED BY <1>5, <1>6, <1>7, <1>11, <1>12 DEF IInv

-----------------------------------------------------------------------------
(* The theorems.                                                           *)

LEMMA InitIInv == Init => IInv
<1> SUFFICES ASSUME Init PROVE IInv
  OBVIOUS
<1> USE DEF Init, LimiterInit
<1>1. LimiterTypeOK
  BY NoAttemptType, CapType, RateLimiterAssumption DEF LimiterTypeOK
<1>2. \A r \in Request : gate[r].at = "out" /\ tx[r].pc = "idle"
  BY NoAttemptType, IdleType
<1>3. Counted /\ CounterEnds
  BY <1>2, CapType DEF Counted, CounterEnds, Starts, InGate
<1>4. TypeOK
  BY <1>1, IdleType DEF TypeOK
<1>5. Linked /\ WrittenIsSound /\ KeyHasFile
  BY <1>2 DEF Linked, WrittenIsSound, KeyHasFile, Written, At
<1> QED BY <1>1, <1>3, <1>4, <1>5 DEF IInv, LInv

LEMMA StepIInv == IInv /\ [Next]_vars => IInv'
<1> SUFFICES ASSUME IInv, [Next]_vars PROVE IInv'
  OBVIOUS
<1>1. ASSUME NEW r \in Request, Step(r)
      PROVE  IInv'
  BY <1>1, BeginUploadStep, GateStep, RefuseStep, OpenStep, WriteStep, GetStep, SetKeyStep,
     BeginDeletionStep, UnlinkStep, ClearKeyStep, AbortStep DEF Step
<1>2. CASE Tick /\ UNCHANGED pictureVars
  <2>1. LInv' /\ gate' = gate
    BY <1>2, TickStep DEF IInv, Tick
  <2> QED BY <1>2, <2>1, LimiterFrame
<1>3. CASE UNCHANGED vars
  BY <1>3, StutterLInv, LimiterFrame DEF vars, limiterVars, IInv
<1> QED BY <1>1, <1>2, <1>3 DEF Next

\* The invariant is inductive.
THEOREM Inductive == Spec => []IInv
BY InitIInv, StepIInv, PTL DEF Spec

\* Every variable keeps its shape.
THEOREM TypeCorrect == Spec => []TypeOK
<1>1. IInv => TypeOK
  BY DEF IInv
<1> QED BY <1>1, Inductive, PTL

\* However uploads and deletions of one picture overlap or are cut off, a key
\* without a whole file has one of the four explanations of KeyHasFile.
THEOREM KeysHaveFiles == Spec => []KeyHasFile
<1>1. IInv => KeyHasFile
  BY DEF IInv
<1> QED BY <1>1, Inductive, PTL

\* However the attempts overlap, a counter lets no more than Limit through.
THEOREM LimitHolds == Spec => []WithinLimit
<1>1. IInv => WithinLimit
  BY DEF IInv, LInv, Counted, WithinLimit
<1> QED BY <1>1, Inductive, PTL

\* Only a lost EXPIRE leaves a counter without a lifetime.
THEOREM CountersEnd == Spec => []CounterEnds
<1>1. IInv => CounterEnds
  BY DEF IInv, LInv
<1> QED BY <1>1, Inductive, PTL
=============================================================================

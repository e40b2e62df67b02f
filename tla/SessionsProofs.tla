--------------------------- MODULE SessionsProofs ---------------------------
(***************************************************************************)
(* Proofs about Sessions, for every set of accounts, shops, tokens and     *)
(* requests: what has ended stays ended; deactivations, deletions and the  *)
(* end of a family leave no session but what was issued beside them; a     *)
(* family has one live token unless a token was presented twice at once.   *)
(***************************************************************************)
EXTENDS Sessions, TLAPS

-----------------------------------------------------------------------------
(* The inductive invariant.                                                *)

Asked == {"login", "refresh", "switch"}
Busy(r) == ~At(r, "idle")

\* Which kinds of request come to a point.
Comes(kind, point) ==
    /\ point = "present" => kind \in {"refresh", "logout", "switch"}
    /\ point = "account" => kind \in Asked \cup {"register"}
    /\ point = "scope" => kind \in Asked \cup {"deleteShop"}
    /\ point = "issue" => kind \in Asked \cup {"register"}
    /\ point = "reuse" => kind = "refresh"
    /\ point = "revokeFamily" => kind \in {"refresh", "logout"}
    /\ point = "revokeUser" => kind \in {"refresh", "deactivate"}
    /\ point = "revokeShop" => kind = "deleteShop"
    /\ point = "end" => kind \in {"refresh", "logout", "deactivate", "deleteShop"}

\* What a request is about.
About(request) ==
    /\ request.kind # "logout" => request.user \in User
    /\ request.kind \in {"refresh", "logout"} => request.token \in Issued
    /\ request.kind \in {"switch", "deleteShop"} => request.shop \in Shop
    /\ request.kind = "deleteShop" => shop[request.shop] # "none"
    /\ request.kind = "switch" =>
          request.audience = "cms" /\ request.token \in Issued \cup {None}
    /\ request.kind = "refresh" =>
          /\ request.user = record[request.token].owner
          /\ request.shop = record[request.token].shop
          /\ request.audience = record[request.token].audience

\* The family that a request joins or ends is that of the token it presents.
Joins(request) ==
    request.family # None =>
        /\ request.pc \in {"issue", "end"}
        /\ request.kind \in {"refresh", "logout", "switch"}
        /\ request.token \in Issued
        /\ request.family = record[request.token].family

WellFormed(request) ==
    /\ Comes(request.kind, request.pc)
    /\ IF request.pc = "idle" THEN request = Idle ELSE About(request)
    /\ request.pruning \subseteq Issued
    /\ Joins(request)

\* A shop that is being registered has no row, and one request registers it.
Reserved(r) ==
    tx[r].kind = "register" /\ tx[r].shop # None =>
        /\ shop[tx[r].shop] = "none"
        /\ \A q \in Request \ {r} : tx[q].kind = "register" => tx[q].shop # tx[r].shop

\* The rows a revocation has chosen are all that were there and have to go.
Chosen(request) ==
    request.pc = "end" =>
        /\ request.saw \subseteq Issued
        /\ request.kind = "deactivate" =>
              \A t \in Unrevoked \cap request.saw :
                  record[t].owner = request.user => t \in request.revoking
        /\ request.kind = "deleteShop" =>
              \A t \in Unrevoked \cap request.saw :
                  record[t].shop = request.shop => t \in request.revoking
        /\ request.family # None =>
              \A t \in Unrevoked \cap request.saw :
                  record[t].family = request.family => t \in request.revoking

\* What had ended when a request started has ended for good, and the request
\* is on its way to be refused.
Dead(request) == request.kind = "refresh" /\ request.token \notin Unrevoked \ expired
Barred(request) == account[request.user] = "deactivated"
Closed(request) ==
    request.kind # "login" /\ request.shop \in Shop /\ shop[request.shop] = "deleted"

Doomed(request) ==
    request.late =>
        /\ request.kind \in Asked
        /\ request.pc # "issue"
        /\ request.pc = "present" => request.kind = "refresh"
        /\ \/ Dead(request) /\ request.pc \notin {"account", "scope"}
           \/ Barred(request) /\ request.pc # "scope"
           \/ Closed(request)

\* The switch of a session whose token had been revoked takes nothing over.
EmptyHanded(request) ==
    request.stale => /\ request.kind = "switch" /\ request.family = None
                     /\ request.token \in Issued \ Unrevoked

\* A row was issued, to an account, in a family that was.
Recorded ==
    /\ rows \subseteq Issued /\ closed \subseteq Issued
    /\ \A t \in Issued : /\ record[t].owner \in User
                         /\ record[t].family \in Issued
                         /\ record[t].shop # None => record[t].audience = "cms"

\* A token is the first of its family, or was issued for one of it that was
\* revoked then.
Linked ==
    \A t \in Issued :
        IF record[t].from = None THEN record[t].family = t
        ELSE /\ record[t].from \in Issued \ Unrevoked
             /\ record[record[t].from].family = record[t].family

\* A family that is not forked is a chain, and has one token at its end.
Spent(t) == \E u \in Issued : record[u].from = t
Chained ==
    \A t, u \in Issued :
        t # u /\ record[t].family = record[u].family /\ ~Spent(t) /\ ~Spent(u)
            => Forked(record[t].family)

Tables ==
    /\ DeactivationEndsSessions /\ DeletionEndsSessions /\ FamiliesEndWhole
    /\ Linked /\ Chained
    /\ ShopsHaveMembers

\* What the invariant says of one request.
Fits(request) ==
    WellFormed(request) /\ Chosen(request) /\ Doomed(request) /\ EmptyHanded(request)

IInv ==
    /\ TypeOK /\ Recorded /\ Tables
    /\ \A r \in Request : Fits(tx[r]) /\ Reserved(r)

-----------------------------------------------------------------------------
(* Frames.                                                                 *)

LEMMA IdleFits == Idle \in Transactions /\ Fits(Idle) /\ Fits(Idle)'
<1>1. Idle \in Transactions
  BY DEF Idle, Transactions, Points, Kinds, Audiences
<1>2. Fits(Idle)
  BY DEF Fits, WellFormed, Joins, Comes, Chosen, Doomed, EmptyHanded, Idle
<1>3. Fits(Idle)'
  BY DEF Fits, WellFormed, Joins, Comes, Chosen, Doomed, EmptyHanded, Idle
<1> QED BY <1>1, <1>2, <1>3

\* What any step does to the tables, as far as the requests beside it see: a
\* row keeps its record, nothing that has ended comes back, and a row that was
\* not there is a new one.
Onward(r) ==
    /\ \A t \in Issued : record'[t] = record[t]
    /\ \A t \in rows' : \/ /\ t \in rows
                           /\ t \in revoked => t \in revoked'
                           /\ t \in expired => t \in expired'
                        \/ t \notin Issued
    /\ \A u \in User : account[u] = "deactivated" => account'[u] = "deactivated"
    /\ \A s \in Shop : shop[s] = "deleted" => shop'[s] = "deleted"
    /\ \A s \in Shop : shop'[s] = "none" => shop[s] = "none"
    /\ \A s \in Shop : shop[s] = "none" =>
          shop'[s] = "none" \/ (tx[r].kind = "register" /\ tx[r].shop = s)

\* The shop that a request is about to register is its own.
Registers(r) ==
    tx'[r].kind = "register" /\ tx'[r].shop # None =>
        \/ tx[r].kind = "register" /\ tx'[r].shop = tx[r].shop
        \/ FreeShop(tx'[r].shop)

LEMMA OthersFit ==
    ASSUME IInv, NEW r \in Request, Onward(r), Registers(r),
           NEW q \in Request \ {r}, \A p \in Request \ {r} : tx'[p] = tx[p]
    PROVE  Fits(tx[q])' /\ Reserved(q)'
<1>1. /\ Fits(tx[q]) /\ Reserved(q)
      /\ tx'[q] = tx[q] /\ tx[q] \in Transactions
      /\ Recorded /\ TypeOK
  BY DEF IInv, TypeOK
<1>2. /\ Issued \subseteq Issued'
      /\ \A t \in Issued : record'[t] = record[t]
  BY DEF Onward, Issued
<1>3. \A t \in Issued : t \in Unrevoked' => t \in Unrevoked
  BY DEF Onward, Unrevoked
<1>4. WellFormed(tx[q])'
  BY <1>1, <1>2 DEF Fits, WellFormed, Joins, About, Onward
<1>5. Reserved(q)'
  <2> SUFFICES ASSUME tx[q].kind = "register", tx[q].shop # None
               PROVE  /\ shop'[tx[q].shop] = "none"
                      /\ \A p \in Request \ {q} :
                            tx'[p].kind = "register" => tx'[p].shop # tx[q].shop
    BY <1>1 DEF Reserved
  <2>1. tx[q].shop \in Shop
    BY <1>1 DEF Transactions
  <2>2. /\ shop[tx[q].shop] = "none"
        /\ \A p \in Request \ {q} : tx[p].kind = "register" => tx[p].shop # tx[q].shop
    BY <1>1 DEF Reserved
  <2>3. shop'[tx[q].shop] = "none"
    BY <2>1, <2>2 DEF Onward
  <2>4. tx'[r].kind = "register" => tx'[r].shop # tx[q].shop
    BY <1>1, <2>2 DEF Registers, FreeShop
  <2> QED BY <2>2, <2>3, <2>4
<1>6. Chosen(tx[q])'
  <2> SUFFICES ASSUME tx[q].pc = "end" PROVE Chosen(tx[q])'
    BY <1>1 DEF Chosen
  <2>1. Chosen(tx[q]) /\ tx[q].saw \subseteq Issued
    BY <1>1 DEF Fits, Chosen
  <2>2. \A t \in Unrevoked' \cap tx[q].saw :
            t \in Unrevoked \cap tx[q].saw /\ record'[t] = record[t]
    BY <1>2, <1>3, <2>1
  <2> QED BY <1>1, <1>2, <2>1, <2>2 DEF Chosen
<1>7. Doomed(tx[q])'
  <2> SUFFICES ASSUME tx[q].late
               PROVE  Doomed(tx[q])'
    BY <1>1 DEF Doomed
  <2>1. Doomed(tx[q]) /\ tx[q].kind \in Asked
    BY <1>1 DEF Fits, Doomed
  <2>2. About(tx[q])
    BY <1>1, <2>1 DEF Fits, WellFormed, Idle, Asked
  <2>3. Dead(tx[q]) => Dead(tx[q])'
    BY <1>1, <2>2 DEF Dead, Unrevoked, Onward, About
  <2>4. Barred(tx[q]) => Barred(tx[q])'
    BY <1>1, <2>1, <2>2 DEF Barred, Onward, About, Asked
  <2>5. Closed(tx[q]) => Closed(tx[q])'
    BY <1>1 DEF Closed, Onward
  <2> QED BY <1>1, <2>1, <2>3, <2>4, <2>5 DEF Doomed
<1>8. EmptyHanded(tx[q])'
  BY <1>1, <1>2, <1>3 DEF Fits, EmptyHanded
<1> QED BY <1>4, <1>5, <1>6, <1>7, <1>8 DEF Fits

\* A request ends, with what it has written.
LEMMA EndStep ==
    ASSUME IInv, NEW r \in Request, Busy(r), End(r), Onward(r),
           TypeOK', Recorded', Tables'
    PROVE  IInv'
<1>1. /\ tx'[r] = Idle
      /\ \A q \in Request \ {r} : tx'[q] = tx[q]
  BY DEF End, IInv, TypeOK
<1>2. Registers(r)
  BY <1>1 DEF Registers, Idle
<1>3. \A q \in Request \ {r} : Fits(tx[q])' /\ Reserved(q)'
  BY <1>1, <1>2, OthersFit
<1>4. Fits(tx[r])' /\ Reserved(r)'
  BY <1>1, IdleFits DEF Reserved, Idle
<1> QED BY <1>3, <1>4 DEF IInv

\* Nothing but the requests changes.
LEMMA Quiet ==
    ASSUME IInv, NEW r \in Request, UNCHANGED <<people, tokens, history>>
    PROVE  /\ Onward(r) /\ Recorded' /\ Tables'
           /\ account' = account /\ shop' = shop /\ record' = record
           /\ expired' = expired /\ Issued' = Issued /\ Unrevoked' = Unrevoked
<1>1. /\ account' = account /\ shop' = shop /\ member' = member /\ admins' = admins
      /\ rows' = rows /\ record' = record /\ revoked' = revoked
      /\ expired' = expired /\ closed' = closed /\ outlived' = outlived
  BY DEF people, tokens, history
<1>2. Issued' = Issued /\ Unrevoked' = Unrevoked
  BY <1>1 DEF Issued, Unrevoked
<1>3. Onward(r)
  BY <1>1 DEF Onward
<1>4. Recorded'
  BY <1>1, <1>2 DEF IInv, Recorded
<1>5. Linked' /\ Chained'
  BY <1>1, <1>2 DEF IInv, Tables, Linked, Chained, Spent, Forked
<1>6. Tables'
  BY <1>1, <1>2, <1>5 DEF IInv, Tables, DeactivationEndsSessions, DeletionEndsSessions,
                          FamiliesEndWhole, ShopsHaveMembers
<1> QED BY <1>1, <1>2, <1>3, <1>4, <1>6

\* A request moves on without a write, to what fits the tables.
LEMMA MoveOn ==
    ASSUME IInv, NEW r \in Request, NEW request \in Transactions,
           tx' = [tx EXCEPT ![r] = request], UNCHANGED <<people, tokens, history>>,
           Registers(r), Fits(request)
    PROVE  IInv'
<1>1. /\ tx'[r] = request
      /\ \A q \in Request \ {r} : tx'[q] = tx[q]
  BY DEF IInv, TypeOK
<1>2. TypeOK'
  BY DEF IInv, TypeOK, people, tokens, history
<1>3. /\ Onward(r) /\ Recorded' /\ Tables'
      /\ account' = account /\ shop' = shop /\ record' = record
      /\ expired' = expired /\ Issued' = Issued /\ Unrevoked' = Unrevoked
  BY Quiet
<1>4. \A q \in Request \ {r} : Fits(tx[q])' /\ Reserved(q)'
  BY <1>1, <1>3, OthersFit
<1>5. Reserved(r)'
  BY <1>1, <1>3 DEF IInv, Reserved, Registers, FreeShop
<1>6. WellFormed(tx[r])'
  BY <1>1, <1>3 DEF Fits, WellFormed, Joins, About
<1>7. Chosen(tx[r])'
  BY <1>1, <1>3 DEF Fits, Chosen
<1>8. Doomed(tx[r])' /\ EmptyHanded(tx[r])'
  BY <1>1, <1>3 DEF Fits, Doomed, Dead, Barred, Closed, EmptyHanded
<1> QED BY <1>2, <1>3, <1>4, <1>5, <1>6, <1>7, <1>8 DEF IInv, Fits

\* A request in flight keeps its kind and the shop it registers.
LEMMA StaysKind ==
    ASSUME IInv, NEW r \in Request, NEW request \in Transactions,
           tx' = [tx EXCEPT ![r] = request], request.kind = tx[r].kind,
           request.kind # "login" => request.shop = tx[r].shop
    PROVE  Registers(r)
BY DEF Registers, IInv, TypeOK

LEMMA RefuseStep ==
    ASSUME IInv, NEW r \in Request, Busy(r), Refuse(r)
    PROVE  IInv'
<1>1. End(r) /\ UNCHANGED <<people, tokens, history>>
  BY DEF Refuse
<1>2. Onward(r) /\ Recorded' /\ Tables'
  BY <1>1, Quiet
<1>3. TypeOK'
  BY <1>1, IdleFits DEF End, IInv, TypeOK, people, tokens, history
<1> QED BY <1>1, <1>2, <1>3, EndStep

\* A step that only moves a request to its next point.
Moved(r, point) == [tx[r] EXCEPT !.pc = point]

LEMMA MovedType ==
    ASSUME IInv, NEW r \in Request, NEW point \in Points
    PROVE  LET request == Moved(r, point) IN
           /\ request \in Transactions
           /\ request.pc = point
           /\ request.kind = tx[r].kind /\ request.user = tx[r].user
           /\ request.shop = tx[r].shop /\ request.audience = tx[r].audience
           /\ request.token = tx[r].token /\ request.family = tx[r].family
           /\ request.pruning = tx[r].pruning /\ request.revoking = tx[r].revoking
           /\ request.late = tx[r].late /\ request.stale = tx[r].stale
BY DEF Moved, IInv, TypeOK, Transactions

LEMMA GotoStep ==
    ASSUME IInv, NEW r \in Request, Busy(r), ~At(r, "issue"), ~At(r, "end"),
           NEW point \in Points \ {"idle", "end"},
           Goto(r, point), UNCHANGED <<people, tokens, history>>,
           Comes(tx[r].kind, point), Doomed(Moved(r, point))
    PROVE  IInv'
<1> DEFINE request == Moved(r, point)
<1>1. tx[r] \in Transactions /\ Fits(tx[r])
  BY DEF IInv, TypeOK
<1>2. /\ request \in Transactions
      /\ request.pc = point
      /\ request.kind = tx[r].kind /\ request.user = tx[r].user
      /\ request.shop = tx[r].shop /\ request.audience = tx[r].audience
      /\ request.token = tx[r].token /\ request.family = tx[r].family
      /\ request.pruning = tx[r].pruning /\ request.stale = tx[r].stale
  BY MovedType
<1>3. tx' = [tx EXCEPT ![r] = request]
  BY DEF Goto, IInv, TypeOK, Moved
<1> HIDE DEF request
<1>4. WellFormed(request)
  BY <1>1, <1>2 DEF Fits, WellFormed, Joins, About, At, Busy
<1>5. Chosen(request) /\ EmptyHanded(request)
  BY <1>1, <1>2 DEF Fits, Chosen, EmptyHanded
<1>6. Fits(request)
  BY <1>4, <1>5 DEF Fits, request
<1> QED BY <1>2, <1>3, <1>6, MoveOn, StaysKind

-----------------------------------------------------------------------------
(* The reads.                                                              *)

\* What the invariant says of a request that comes to a point.
LEMMA Facts ==
    ASSUME IInv, NEW r \in Request, Busy(r)
    PROVE  /\ tx[r] \in Transactions
           /\ Comes(tx[r].kind, tx[r].pc) /\ About(tx[r])
           /\ Chosen(tx[r]) /\ Doomed(tx[r]) /\ EmptyHanded(tx[r])
           /\ Joins(tx[r]) /\ tx[r].pruning \subseteq Issued
BY DEF IInv, TypeOK, Fits, WellFormed, Busy, At

LEMMA PresentToRefreshStep ==
    ASSUME IInv, NEW r \in Request, PresentToRefresh(r)
    PROVE  IInv'
<1>1. Busy(r) /\ tx[r].pc = "present" /\ tx[r].kind = "refresh"
  BY DEF PresentToRefresh, Busy, At
<1>2. Doomed(tx[r])
  BY <1>1, Facts
<1>3. CASE Refuse(r)
  BY <1>1, <1>3, RefuseStep
<1>4. CASE Goto(r, "reuse") /\ UNCHANGED <<people, tokens, history>>
  <2>1. Comes(tx[r].kind, "reuse")
    BY <1>1 DEF Comes
  <2>2. Doomed(Moved(r, "reuse"))
    BY <1>1, <1>2, MovedType DEF Doomed, Dead, Barred, Closed, Points
  <2> QED BY <1>1, <1>4, <2>1, <2>2, GotoStep DEF Points, At
<1>5. CASE /\ tx[r].token \in Unrevoked \ expired
           /\ Goto(r, "account") /\ UNCHANGED <<people, tokens, history>>
  <2>1. Comes(tx[r].kind, "account")
    BY <1>1 DEF Comes, Asked
  <2>2. Doomed(Moved(r, "account"))
    BY <1>1, <1>2, <1>5, MovedType DEF Doomed, Dead, Barred, Closed, Points
  <2> QED BY <1>1, <1>5, <2>1, <2>2, GotoStep DEF Points, At
<1> QED BY <1>3, <1>4, <1>5 DEF PresentToRefresh

LEMMA PresentToLogoutStep ==
    ASSUME IInv, NEW r \in Request, PresentToLogout(r)
    PROVE  IInv'
<1>1. Busy(r) /\ tx[r].pc = "present" /\ tx[r].kind = "logout"
  BY DEF PresentToLogout, Busy, At
<1>2. ~tx[r].late
  BY <1>1, Facts DEF Doomed, Asked
<1>3. CASE Refuse(r)
  BY <1>1, <1>3, RefuseStep
<1>4. CASE Goto(r, "revokeFamily") /\ UNCHANGED <<people, tokens, history>>
  <2>1. Comes(tx[r].kind, "revokeFamily")
    BY <1>1 DEF Comes
  <2>2. Doomed(Moved(r, "revokeFamily"))
    BY <1>1, <1>2, MovedType DEF Doomed, Points
  <2> QED BY <1>1, <1>4, <2>1, <2>2, GotoStep DEF Points, At
<1> QED BY <1>3, <1>4 DEF PresentToLogout

LEMMA PresentToSwitchStep ==
    ASSUME IInv, NEW r \in Request, PresentToSwitch(r)
    PROVE  IInv'
<1> DEFINE family == IF tx[r].token \in Unrevoked THEN record[tx[r].token].family ELSE None
           request == [tx[r] EXCEPT !.pc = "issue", !.family = family]
<1>1. Busy(r) /\ tx[r].pc = "present" /\ tx[r].kind = "switch"
  BY DEF PresentToSwitch, Busy, At
<1>2. /\ tx[r] \in Transactions /\ About(tx[r]) /\ tx[r].pruning \subseteq Issued
      /\ EmptyHanded(tx[r])
  BY <1>1, Facts
<1>3. ~tx[r].late
  BY <1>1, Facts DEF Doomed
<1>4. family \in Issued \cup {None} /\ Issued \subseteq Token
  BY DEF IInv, Recorded, Unrevoked, Issued
<1>5. request \in Transactions
  BY <1>2, <1>4 DEF Transactions, Points
<1>6. /\ request.pc = "issue" /\ request.family = family
      /\ request.kind = tx[r].kind /\ request.user = tx[r].user
      /\ request.shop = tx[r].shop /\ request.audience = tx[r].audience
      /\ request.token = tx[r].token /\ request.pruning = tx[r].pruning
      /\ request.late = tx[r].late /\ request.stale = tx[r].stale
  BY <1>2 DEF Transactions
<1>7. tx' = [tx EXCEPT ![r] = request] /\ UNCHANGED <<people, tokens, history>>
  BY DEF PresentToSwitch, IInv, TypeOK
<1>8. family # None => /\ tx[r].token \in Unrevoked \cap Issued
                       /\ family = record[tx[r].token].family
  BY DEF IInv, Recorded, Unrevoked
<1> HIDE DEF request, family
<1>9. WellFormed(request)
  BY <1>1, <1>2, <1>6, <1>8 DEF WellFormed, About, Comes, Joins, Asked
<1>10. Chosen(request) /\ Doomed(request) /\ EmptyHanded(request)
  BY <1>2, <1>3, <1>6, <1>8 DEF Chosen, Doomed, EmptyHanded
<1>11. Registers(r)
  BY <1>5, <1>6, <1>7, StaysKind
<1> QED BY <1>5, <1>7, <1>9, <1>10, <1>11, MoveOn DEF Fits

LEMMA CheckReuseStep ==
    ASSUME IInv, NEW r \in Request, CheckReuse(r)
    PROVE  IInv'
<1>1. Busy(r) /\ tx[r].pc = "reuse"
  BY DEF CheckReuse, Busy, At
<1>2. Doomed(tx[r]) /\ tx[r].kind = "refresh"
  BY <1>1, Facts DEF Comes
<1>3. CASE Refuse(r)
  BY <1>1, <1>3, RefuseStep
<1>4. CASE Goto(r, "revokeFamily") /\ UNCHANGED <<people, tokens, history>>
  <2>1. Comes(tx[r].kind, "revokeFamily")
    BY <1>2 DEF Comes
  <2>2. Doomed(Moved(r, "revokeFamily"))
    BY <1>1, <1>2, MovedType DEF Doomed, Dead, Barred, Closed, Points
  <2> QED BY <1>1, <1>4, <2>1, <2>2, GotoStep DEF Points, At
<1> QED BY <1>3, <1>4 DEF CheckReuse

LEMMA CheckAccountStep ==
    ASSUME IInv, NEW r \in Request, CheckAccount(r)
    PROVE  IInv'
<1>1. /\ Busy(r) /\ tx[r].pc = "account"
      /\ tx[r].kind \in {"register", "login", "switch"}
  BY DEF CheckAccount, Busy, At
<1>2. Doomed(tx[r])
  BY <1>1, Facts
<1>3. CASE Refuse(r)
  BY <1>1, <1>3, RefuseStep
<1>4. CASE /\ tx[r].kind = "register"
           /\ Goto(r, "issue") /\ UNCHANGED <<people, tokens, history>>
  <2>1. Comes(tx[r].kind, "issue")
    BY <1>4 DEF Comes
  <2>2. Doomed(Moved(r, "issue"))
    BY <1>2, <1>4, MovedType DEF Doomed, Points, Asked
  <2> QED BY <1>1, <1>4, <2>1, <2>2, GotoStep DEF Points, At
<1>5. CASE /\ tx[r].kind \in {"login", "switch"} /\ account[tx[r].user] = "active"
           /\ Goto(r, "scope") /\ UNCHANGED <<people, tokens, history>>
  <2>1. Comes(tx[r].kind, "scope")
    BY <1>5 DEF Comes, Asked
  <2>2. Doomed(Moved(r, "scope"))
    BY <1>1, <1>2, <1>5, MovedType DEF Doomed, Dead, Barred, Closed, Points
  <2> QED BY <1>1, <1>5, <2>1, <2>2, GotoStep DEF Points, At
<1> QED BY <1>1, <1>3, <1>4, <1>5 DEF CheckAccount

LEMMA CheckOwnerStep ==
    ASSUME IInv, NEW r \in Request, CheckOwner(r)
    PROVE  IInv'
<1>1. Busy(r) /\ tx[r].pc = "account" /\ tx[r].kind = "refresh"
  BY DEF CheckOwner, Busy, At
<1>2. /\ tx[r] \in Transactions /\ About(tx[r]) /\ Doomed(tx[r])
      /\ ~tx[r].stale /\ tx[r].family = None
  BY <1>1, Facts DEF EmptyHanded, Joins
<1>3. UNCHANGED <<people, tokens, history>>
  BY DEF CheckOwner
<1>4. CASE account[tx[r].user] = "deactivated" /\ Goto(r, "revokeUser")
  <2>1. Comes(tx[r].kind, "revokeUser")
    BY <1>1 DEF Comes
  <2>2. Doomed(Moved(r, "revokeUser"))
    BY <1>1, <1>2, <1>4, MovedType DEF Doomed, Dead, Barred, Closed, Points
  <2> QED BY <1>1, <1>3, <1>4, <2>1, <2>2, GotoStep DEF Points, At
<1>5. CASE /\ account[tx[r].user] # "deactivated"
           /\ tx' = [tx EXCEPT ![r].pc = "scope", ![r].pruning = rows \cap expired]
  <2> DEFINE request == [tx[r] EXCEPT !.pc = "scope", !.pruning = rows \cap expired]
  <2>1. rows \cap expired \subseteq Issued /\ Issued \subseteq Token
    BY DEF IInv, Recorded, Issued
  <2>2. request \in Transactions
    <3>1. "scope" \in Points /\ rows \cap expired \in SUBSET Token /\ tx[r] \in Transactions
      BY <1>2, <2>1 DEF Points
    <3> QED BY <3>1 DEF Transactions
  <2>3. /\ request.pc = "scope" /\ request.pruning = rows \cap expired
        /\ request.kind = tx[r].kind /\ request.user = tx[r].user
        /\ request.shop = tx[r].shop /\ request.audience = tx[r].audience
        /\ request.token = tx[r].token /\ request.family = tx[r].family
        /\ request.late = tx[r].late /\ request.stale = tx[r].stale
    BY <1>2 DEF Transactions
  <2>4. tx' = [tx EXCEPT ![r] = request]
    BY <1>5 DEF IInv, TypeOK
  <2> HIDE DEF request
  <2>5. WellFormed(request)
    BY <1>1, <1>2, <2>1, <2>3 DEF WellFormed, About, Comes, Joins, Asked
  <2>6. Chosen(request) /\ EmptyHanded(request)
    BY <1>2, <2>3 DEF Chosen, EmptyHanded
  <2>7. Doomed(request)
    BY <1>1, <1>2, <1>5, <2>3 DEF Doomed, Dead, Barred, Closed
  <2>8. Registers(r)
    BY <2>2, <2>3, <2>4, StaysKind
  <2> QED BY <1>3, <2>2, <2>4, <2>5, <2>6, <2>7, <2>8, MoveOn DEF Fits
<1> QED BY <1>4, <1>5 DEF CheckOwner

LEMMA ChooseScopeStep ==
    ASSUME IInv, NEW r \in Request, ChooseScope(r)
    PROVE  IInv'
<1>1. Busy(r) /\ tx[r].pc = "scope" /\ tx[r].kind = "login"
  BY DEF ChooseScope, Busy, At
<1>2. /\ tx[r] \in Transactions /\ About(tx[r])
      /\ ~tx[r].stale /\ tx[r].family = None /\ tx[r].pruning \subseteq Issued
  BY <1>1, Facts DEF EmptyHanded, Joins
<1>3. ~tx[r].late
  BY <1>1, Facts DEF Doomed, Dead, Closed
<1>4. CASE Refuse(r)
  BY <1>1, <1>4, RefuseStep
<1>5. ASSUME NEW s \in Shop \cup {None},
             tx' = [tx EXCEPT ![r].pc = "issue", ![r].shop = s],
             UNCHANGED <<people, tokens, history>>
      PROVE  IInv'
  <2> DEFINE request == [tx[r] EXCEPT !.pc = "issue", !.shop = s]
  <2>1. request \in Transactions
    <3>1. "issue" \in Points /\ tx[r] \in Transactions
      BY <1>2 DEF Points
    <3> QED BY <3>1 DEF Transactions
  <2>2. /\ request.pc = "issue" /\ request.pruning = tx[r].pruning
        /\ request.kind = tx[r].kind /\ request.user = tx[r].user
        /\ request.token = tx[r].token /\ request.family = tx[r].family
        /\ request.late = tx[r].late /\ request.stale = tx[r].stale
    BY <1>2 DEF Transactions
  <2>3. tx' = [tx EXCEPT ![r] = request]
    BY <1>5 DEF IInv, TypeOK
  <2> HIDE DEF request
  <2>4. WellFormed(request)
    BY <1>1, <1>2, <2>2 DEF WellFormed, About, Comes, Joins, Asked
  <2>5. Chosen(request) /\ Doomed(request) /\ EmptyHanded(request)
    BY <1>2, <1>3, <2>2 DEF Chosen, Doomed, EmptyHanded
  <2>6. Registers(r)
    BY <1>1, <2>1, <2>2, <2>3, StaysKind
  <2> QED BY <1>5, <2>1, <2>3, <2>4, <2>5, <2>6, MoveOn DEF Fits
<1> QED BY <1>4, <1>5 DEF ChooseScope

\* A session whose shop is gone is out of its scope.
LEMMA ClosedIsOut ==
    ASSUME IInv, NEW r \in Request, Busy(r), tx[r].kind \in {"refresh", "switch"},
           Closed(tx[r])
    PROVE  tx[r].audience = "cms" /\ ~IsMember(tx[r].user, tx[r].shop)
<1>1. About(tx[r])
  BY Facts
<1>2. tx[r].kind = "refresh" => record[tx[r].token].shop # None
  BY <1>1, SessionsAssumption DEF Closed, About
<1>3. tx[r].audience = "cms"
  BY <1>1, <1>2 DEF About, IInv, Recorded
<1> QED BY <1>3 DEF Closed, IsMember

LEMMA CheckScopeStep ==
    ASSUME IInv, NEW r \in Request, CheckScope(r)
    PROVE  IInv'
<1>1. /\ Busy(r) /\ tx[r].pc = "scope" /\ tx[r].kind = "refresh"
      /\ UNCHANGED <<people, tokens, history>>
  BY DEF CheckScope, Busy, At
<1>2. Doomed(tx[r])
  BY <1>1, Facts
<1>3. CASE InScope(r) /\ Goto(r, "issue")
  <2>1. ~Closed(tx[r])
    BY <1>1, <1>3, ClosedIsOut DEF InScope, CanUse
  <2>2. ~tx[r].late
    BY <1>1, <1>2, <2>1 DEF Doomed
  <2>3. Comes(tx[r].kind, "issue")
    BY <1>1 DEF Comes, Asked
  <2>4. Doomed(Moved(r, "issue"))
    BY <2>2, MovedType DEF Doomed, Points
  <2> QED BY <1>1, <1>3, <2>3, <2>4, GotoStep DEF Points, At
<1>4. CASE ~InScope(r) /\ Goto(r, "revokeFamily")
  <2>1. Comes(tx[r].kind, "revokeFamily")
    BY <1>1 DEF Comes
  <2>2. Doomed(Moved(r, "revokeFamily"))
    BY <1>1, <1>2, MovedType DEF Doomed, Dead, Barred, Closed, Points
  <2> QED BY <1>1, <1>4, <2>1, <2>2, GotoStep DEF Points, At
<1> QED BY <1>3, <1>4 DEF CheckScope

LEMMA CheckTargetStep ==
    ASSUME IInv, NEW r \in Request, CheckTarget(r)
    PROVE  IInv'
<1>1. Busy(r) /\ tx[r].pc = "scope" /\ tx[r].kind = "switch"
  BY DEF CheckTarget, Busy, At
<1>2. Doomed(tx[r])
  BY <1>1, Facts
<1>3. CASE Refuse(r)
  BY <1>1, <1>3, RefuseStep
<1>4. ASSUME InScope(r), NEW point \in {"issue", "present"}, Goto(r, point),
             UNCHANGED <<people, tokens, history>>
      PROVE  IInv'
  <2>1. ~Closed(tx[r])
    BY <1>1, <1>4, ClosedIsOut DEF InScope, CanUse
  <2>2. ~tx[r].late
    BY <1>1, <1>2, <2>1 DEF Doomed
  <2>3. Comes(tx[r].kind, point)
    BY <1>1 DEF Comes, Asked
  <2>4. Doomed(Moved(r, point))
    BY <2>2, MovedType DEF Doomed, Points
  <2> QED BY <1>1, <1>4, <2>3, <2>4, GotoStep DEF Points, At
<1> QED BY <1>3, <1>4 DEF CheckTarget

LEMMA CheckShopStep ==
    ASSUME IInv, NEW r \in Request, CheckShop(r)
    PROVE  IInv'
<1>1. Busy(r) /\ tx[r].pc = "scope" /\ tx[r].kind = "deleteShop"
  BY DEF CheckShop, Busy, At
<1>2. ~tx[r].late
  BY <1>1, Facts DEF Doomed, Asked
<1>3. CASE Refuse(r)
  BY <1>1, <1>3, RefuseStep
<1>4. CASE Goto(r, "revokeShop") /\ UNCHANGED <<people, tokens, history>>
  <2>1. Comes(tx[r].kind, "revokeShop")
    BY <1>1 DEF Comes
  <2>2. Doomed(Moved(r, "revokeShop"))
    BY <1>1, <1>2, MovedType DEF Doomed, Points
  <2> QED BY <1>1, <1>4, <2>1, <2>2, GotoStep DEF Points, At
<1> QED BY <1>3, <1>4 DEF CheckShop

-----------------------------------------------------------------------------
(* The revocations, up to the commit.                                      *)

LEMMA RevokeStep ==
    ASSUME IInv, NEW r \in Request,
           tx[r].pc \in {"revokeFamily", "revokeUser", "revokeShop"},
           NEW chosen \in SUBSET rows, NEW family \in Token \cup {None},
           Revoke(r, chosen, family),
           tx[r].kind = "deactivate" =>
               \A t \in rows : record[t].owner = tx[r].user => t \in chosen,
           tx[r].kind = "deleteShop" =>
               \A t \in rows : record[t].shop = tx[r].shop => t \in chosen,
           family # None =>
               /\ tx[r].kind \in {"refresh", "logout"}
               /\ family = record[tx[r].token].family
               /\ \A t \in rows : record[t].family = family => t \in chosen
    PROVE  IInv'
<1> DEFINE request == [tx[r] EXCEPT !.pc = "end", !.family = family,
                                    !.revoking = chosen \ revoked, !.saw = rows]
<1>1. Busy(r)
  BY DEF Busy, At
<1>2. /\ tx[r] \in Transactions /\ Comes(tx[r].kind, tx[r].pc) /\ About(tx[r])
      /\ Doomed(tx[r]) /\ ~tx[r].stale /\ tx[r].pruning \subseteq Issued
  BY <1>1, Facts DEF EmptyHanded, Comes
<1>3. chosen \ revoked \in SUBSET Token /\ rows \in SUBSET Token /\ rows \subseteq Issued
  BY DEF IInv, TypeOK, Recorded
<1>4. request \in Transactions
  <2>1. "end" \in Points
    BY DEF Points
  <2> QED BY <1>2, <1>3, <2>1 DEF Transactions
<1>5. /\ request.pc = "end" /\ request.revoking = chosen \ revoked /\ request.saw = rows
      /\ request.kind = tx[r].kind /\ request.user = tx[r].user
      /\ request.shop = tx[r].shop /\ request.audience = tx[r].audience
      /\ request.token = tx[r].token /\ request.family = family
      /\ request.pruning = tx[r].pruning
      /\ request.late = tx[r].late /\ request.stale = tx[r].stale
  BY <1>2 DEF Transactions
<1>6. tx' = [tx EXCEPT ![r] = request] /\ UNCHANGED <<people, tokens, history>>
  BY DEF Revoke, IInv, TypeOK
<1> HIDE DEF request
<1>7. WellFormed(request)
  BY <1>2, <1>5 DEF WellFormed, About, Comes, Joins
<1>8. Chosen(request)
  BY <1>3, <1>5 DEF Chosen, Unrevoked
<1>9. Doomed(request) /\ EmptyHanded(request)
  BY <1>2, <1>5 DEF Doomed, Dead, Barred, Closed, EmptyHanded
<1>10. Registers(r)
  BY <1>4, <1>5, <1>6, StaysKind
<1> QED BY <1>4, <1>6, <1>7, <1>8, <1>9, <1>10, MoveOn DEF Fits

LEMMA RevokeFamilyStep ==
    ASSUME IInv, NEW r \in Request, RevokeFamily(r)
    PROVE  IInv'
<1>1. PICK f : f = record[tx[r].token].family
  OBVIOUS
<1>2. tx[r].pc = "revokeFamily" /\ Revoke(r, Family(f), f)
  BY <1>1 DEF RevokeFamily, At
<1>3. tx[r].kind \in {"refresh", "logout"} /\ tx[r].token \in Issued
  BY <1>2, Facts DEF Busy, At, Comes, About
<1>4. f \in Token
  BY <1>1, <1>3 DEF IInv, Recorded, Issued
<1>5. Family(f) \in SUBSET rows /\ \A t \in rows : record[t].family = f => t \in Family(f)
  BY DEF Family
<1> QED BY <1>1, <1>2, <1>3, <1>4, <1>5, RevokeStep

LEMMA RevokeUserStep ==
    ASSUME IInv, NEW r \in Request, RevokeUser(r)
    PROVE  IInv'
<1> DEFINE chosen == {t \in rows : record[t].owner = tx[r].user}
<1>1. tx[r].pc = "revokeUser" /\ Revoke(r, chosen, None)
  BY DEF RevokeUser, At
<1>2. tx[r].kind \in {"refresh", "deactivate"}
  BY <1>1, Facts DEF Busy, At, Comes
<1>3. chosen \in SUBSET rows /\ \A t \in rows : record[t].owner = tx[r].user => t \in chosen
  OBVIOUS
<1> HIDE DEF chosen
<1> QED BY <1>1, <1>2, <1>3, RevokeStep

LEMMA RevokeShopStep ==
    ASSUME IInv, NEW r \in Request, RevokeShop(r)
    PROVE  IInv'
<1> DEFINE chosen == {t \in rows : record[t].shop = tx[r].shop}
<1>1. tx[r].pc = "revokeShop" /\ Revoke(r, chosen, None)
  BY DEF RevokeShop, At
<1>2. tx[r].kind = "deleteShop"
  BY <1>1, Facts DEF Busy, At, Comes
<1>3. chosen \in SUBSET rows /\ \A t \in rows : record[t].shop = tx[r].shop => t \in chosen
  OBVIOUS
<1> HIDE DEF chosen
<1> QED BY <1>1, <1>2, <1>3, RevokeStep

-----------------------------------------------------------------------------
(* The issue of a token.                                                   *)

\* Accounts and shops come into being with a registration, and go with a
\* deactivation or a deletion.
People ==
    /\ account \in [User -> Accounts] /\ shop \in [Shop -> Shops]
    /\ member \in SUBSET (User \X Shop) /\ admins \in SUBSET User
    /\ ShopsHaveMembers

\* A token is issued in a live shop, in a new family or in the place of a
\* token of its family that is revoked with it; if its account or its family
\* has ended, it has outlived that.
LEMMA IssueStep ==
    ASSUME IInv, NEW r \in Request, At(r, "issue"), tx[r].kind # "logout",
           NEW family \in Issued \cup {None}, NEW replaced \in SUBSET Token,
           NEW pruned \in SUBSET Issued, Issue(r, family, replaced, pruned),
           People',
           \A u \in User : account'[u] = "deactivated" <=> account[u] = "deactivated",
           \A s \in Shop : shop'[s] = "deleted" <=> shop[s] = "deleted",
           \A s \in Shop : shop'[s] = "none" => shop[s] = "none",
           \A s \in Shop : shop[s] = "none" =>
               shop'[s] = "none" \/ (tx[r].kind = "register" /\ tx[r].shop = s),
           tx[r].audience = "cms" /\ tx[r].shop # None => shop[tx[r].shop] # "deleted",
           family # None => /\ tx[r].token \in Issued /\ record[tx[r].token].family = family
                            /\ tx[r].token \in (rows \ pruned) => tx[r].token \in replaced
                            /\ ~tx[r].stale
    PROVE  IInv'
<1>1. /\ Busy(r) /\ tx[r] \in Transactions /\ tx[r].user \in User /\ ~tx[r].late
      /\ TypeOK /\ Recorded /\ Tables
  BY Facts DEF Busy, At, IInv, About, Doomed
<1> PICK t \in Token \ Issued :
        /\ record' = [record EXCEPT ![t] =
                        [owner |-> tx[r].user, audience |-> tx[r].audience,
                         shop |-> IF tx[r].audience = "cms" THEN tx[r].shop ELSE None,
                         family |-> IF family = None THEN t ELSE family,
                         from |-> IF family = None THEN None ELSE tx[r].token]]
        /\ rows' = (rows \ pruned) \cup {t}
        /\ revoked' = (revoked \cup replaced) \ pruned
        /\ expired' = expired \ pruned
        /\ outlived' = outlived \cup (Overtaken(r, family) \X {t})
        /\ closed' = closed
        /\ End(r)
  BY DEF Issue
<1> DEFINE new == [owner |-> tx[r].user, audience |-> tx[r].audience,
                   shop |-> IF tx[r].audience = "cms" THEN tx[r].shop ELSE None,
                   family |-> IF family = None THEN t ELSE family,
                   from |-> IF family = None THEN None ELSE tx[r].token]
<1>2. /\ new \in Records /\ new.owner = tx[r].user /\ new.audience = tx[r].audience
      /\ new.shop = IF tx[r].audience = "cms" THEN tx[r].shop ELSE None
      /\ new.family = IF family = None THEN t ELSE family
      /\ new.from = IF family = None THEN None ELSE tx[r].token
  BY <1>1 DEF Records, Transactions, Issued
<1>3. /\ record' = [record EXCEPT ![t] = new]
      /\ record'[t] = new
      /\ \A u \in Token \ {t} : record'[u] = record[u]
      /\ record' \in [Token -> Records]
  BY <1>1, <1>2 DEF TypeOK
<1>4. new # Unissued
  BY <1>1, <1>2, SessionsAssumption DEF Unissued
<1> HIDE DEF new
<1>5. /\ Issued' = Issued \cup {t} /\ t # None
      /\ \A u \in Issued : u # t /\ u # None /\ record'[u] = record[u]
  BY <1>3, <1>4, SessionsAssumption DEF Issued
<1>6. End(r) /\ tx' \in [Request -> Transactions]
  BY <1>1, IdleFits DEF End, TypeOK
<1>7. TypeOK'
  <2>1. /\ rows' \subseteq Token /\ revoked' \subseteq Token
        /\ expired' \subseteq Token /\ closed' \subseteq Token
    BY <1>1 DEF TypeOK
  <2>2. outlived' \subseteq Ends \X Token
    BY <1>1 DEF TypeOK, Overtaken, Ends
  <2> QED BY <1>3, <1>6, <2>1, <2>2 DEF TypeOK, People
<1>8. Recorded'
  <2>1. rows' \subseteq Issued' /\ closed' \subseteq Issued'
    BY <1>1, <1>5 DEF Recorded
  <2>2. ASSUME NEW u \in Issued'
        PROVE  /\ record'[u].owner \in User /\ record'[u].family \in Issued'
               /\ record'[u].shop # None => record'[u].audience = "cms"
    <3>1. CASE u = t
      BY <1>1, <1>2, <1>3, <1>5, <3>1
    <3>2. CASE u # t
      BY <1>1, <1>5, <2>2, <3>2 DEF Recorded
    <3> QED BY <3>1, <3>2
  <2> QED BY <2>1, <2>2 DEF Recorded
<1>9. Onward(r)
  <2>1. \A u \in Issued : record'[u] = record[u]
    BY <1>5
  <2>2. \A u \in rows' : \/ /\ u \in rows
                            /\ u \in revoked => u \in revoked'
                            /\ u \in expired => u \in expired'
                         \/ u \notin Issued
    BY <1>1 DEF Recorded
  <2> QED BY <2>1, <2>2 DEF Onward
\* A row that is live afterwards was live before, or is the new one.
<1>10. \A u \in Unrevoked' :
          \/ u = t
          \/ /\ u \in Unrevoked /\ u \in Issued /\ u # t
             /\ record[u].owner \in User /\ record[u].shop \in Shop \cup {None}
  <2> SUFFICES ASSUME NEW u \in rows', u \notin revoked', u # t
               PROVE  /\ u \in Unrevoked /\ u \in Issued
                      /\ record[u].owner \in User /\ record[u].shop \in Shop \cup {None}
    BY DEF Unrevoked
  <2>1. u \in Unrevoked /\ u \in Issued /\ u \in Token
    BY <1>1 DEF Unrevoked, Recorded, Issued
  <2>2. record[u] \in Records
    BY <1>1, <2>1 DEF TypeOK
  <2> QED BY <1>1, <2>1, <2>2 DEF Recorded, Records
<1>11. DeactivationEndsSessions'
  <2>1. account[tx[r].user] = "deactivated" => <<"account", t>> \in outlived'
    BY <1>1 DEF Overtaken
  <2> QED BY <1>1, <1>2, <1>3, <1>5, <1>10, <2>1 DEF DeactivationEndsSessions, Tables
<1>12. DeletionEndsSessions'
  BY <1>1, <1>2, <1>3, <1>5, <1>10 DEF DeletionEndsSessions, Tables, Transactions
<1>13. FamiliesEndWhole'
  <2>1. new.family \in closed => <<"family", t>> \in outlived'
    BY <1>1, <1>2 DEF Overtaken, Recorded
  <2> QED BY <1>1, <1>3, <1>5, <1>10, <2>1 DEF FamiliesEndWhole, Tables
<1>14. Linked'
  <2>1. \A u \in Issued : u \notin Unrevoked => u \notin Unrevoked'
    BY <1>5, <1>10
  <2>2. family # None => tx[r].token \in Issued /\ tx[r].token \notin Unrevoked'
    BY <1>5 DEF Unrevoked
  <2>3. ASSUME NEW u \in Issued
        PROVE  IF record'[u].from = None THEN record'[u].family = u
               ELSE /\ record'[u].from \in Issued' \ Unrevoked'
                    /\ record'[record'[u].from].family = record'[u].family
    BY <1>1, <1>5, <2>1 DEF Tables, Linked
  <2>4. IF record'[t].from = None THEN record'[t].family = t
        ELSE /\ record'[t].from \in Issued' \ Unrevoked'
             /\ record'[record'[t].from].family = record'[t].family
    BY <1>2, <1>3, <1>5, <2>2
  <2> QED BY <1>5, <2>3, <2>4 DEF Linked
<1>15. Chained'
  <2>1. \A u \in Issued : Spent(u) => Spent(u)'
    BY <1>5 DEF Spent
  <2>2. \A f : Forked(f) => Forked(f)'
    BY <1>5 DEF Forked
  <2>3. ASSUME NEW u \in Issued, NEW v \in Issued, u # v,
               record[u].family = record[v].family, ~Spent(u)', ~Spent(v)'
        PROVE  Forked(record[u].family)'
    BY <1>1, <2>1, <2>2, <2>3 DEF Tables, Chained
  <2>4. ASSUME NEW v \in Issued, record[v].family = record'[t].family, ~Spent(v)'
        PROVE  Forked(record[v].family)'
    <3>1. /\ family # None /\ record'[t].family = family /\ record'[t].from = tx[r].token
          /\ tx[r].token \in Issued /\ record[tx[r].token].family = family
      BY <1>1, <1>2, <1>3, <1>5, <2>4 DEF Recorded
    <3>2. v # tx[r].token
      BY <1>5, <2>4, <3>1 DEF Spent
    <3>3. CASE Spent(tx[r].token)
      <4>1. PICK w \in Issued : record[w].from = tx[r].token
        BY <3>3 DEF Spent
      <4>2. /\ w # t /\ record'[w] = record[w] /\ record[w].from # None
            /\ record[w].family = family
        BY <1>1, <1>5, <3>1, <4>1 DEF Tables, Linked
      <4>3. \E x, y \in Issued' : /\ x # y /\ record'[x].family = family
                                  /\ record'[x].from # None
                                  /\ record'[x].from = record'[y].from
        BY <1>5, <3>1, <4>1, <4>2
      <4> QED BY <2>4, <3>1, <4>3 DEF Forked
    <3>4. CASE ~Spent(tx[r].token)
      BY <1>1, <2>1, <2>2, <2>4, <3>1, <3>2, <3>4 DEF Tables, Chained
    <3> QED BY <3>3, <3>4
  <2> QED BY <1>5, <2>3, <2>4 DEF Chained
<1>16. Tables'
  BY <1>11, <1>12, <1>13, <1>14, <1>15 DEF Tables, People
<1> QED BY <1>1, <1>6, <1>7, <1>8, <1>9, <1>16, EndStep

\* The scope that is looked at again.
LEMMA StillIn ==
    ASSUME NEW r \in Request, StillInScope(r), tx[r].audience = "cms"
    PROVE  shop[tx[r].shop] # "deleted"
BY DEF StillInScope, IsMember

LEMMA PeopleStay ==
    ASSUME IInv, UNCHANGED people
    PROVE  People' /\ account' = account /\ shop' = shop
BY DEF IInv, TypeOK, Tables, People, people, ShopsHaveMembers

LEMMA LoginStep ==
    ASSUME IInv, NEW r \in Request, Login(r)
    PROVE  IInv'
<1>1. Busy(r) /\ At(r, "issue") /\ tx[r].kind = "login"
  BY DEF Login, Busy, At
<1>2. CASE Refuse(r)
  BY <1>1, <1>2, RefuseStep
<1>3. CASE StillInScope(r) /\ Issue(r, None, {}, rows \cap expired) /\ UNCHANGED people
  <2>1. rows \cap expired \in SUBSET Issued
    BY DEF IInv, Recorded
  <2> HIDE DEF Issue
  <2> QED BY <1>1, <1>3, <2>1, StillIn, PeopleStay, IssueStep
<1> QED BY <1>2, <1>3 DEF Login

LEMMA RefreshStep ==
    ASSUME IInv, NEW r \in Request, Refresh(r)
    PROVE  IInv'
<1>1. Busy(r) /\ At(r, "issue") /\ tx[r].kind = "refresh"
  BY DEF Refresh, Busy, At
<1>2. CASE Refuse(r)
  BY <1>1, <1>2, RefuseStep
<1>3. CASE /\ StillInScope(r) /\ UNCHANGED people
           /\ Issue(r, record[tx[r].token].family, {tx[r].token}, tx[r].pruning)
  <2>1. tx[r].token \in Issued /\ tx[r].pruning \in SUBSET Issued /\ ~tx[r].stale
    BY <1>1, Facts DEF About, EmptyHanded, At
  <2>2. record[tx[r].token].family \in Issued /\ tx[r].token \in Token
    BY <2>1 DEF IInv, Recorded, Issued
  <2> HIDE DEF Issue
  <2> QED BY <1>1, <1>3, <2>1, <2>2, StillIn, PeopleStay, IssueStep
<1> QED BY <1>2, <1>3 DEF Refresh

LEMMA SwitchShopStep ==
    ASSUME IInv, NEW r \in Request, SwitchShop(r)
    PROVE  IInv'
<1> DEFINE replaced == IF tx[r].family = None THEN {} ELSE {tx[r].token} \cap rows
<1>1. Busy(r) /\ At(r, "issue") /\ tx[r].kind = "switch"
  BY DEF SwitchShop, Busy, At
<1>2. CASE Refuse(r)
  BY <1>1, <1>2, RefuseStep
<1>3. CASE StillInScope(r) /\ UNCHANGED people /\ Issue(r, tx[r].family, replaced, {})
  <2>1. tx[r].family # None => /\ tx[r].token \in Issued /\ ~tx[r].stale
                               /\ record[tx[r].token].family = tx[r].family
    BY <1>1, Facts DEF Joins, EmptyHanded
  <2>2. tx[r].family \in Issued \cup {None}
    BY <2>1 DEF IInv, Recorded
  <2>3. /\ replaced \in SUBSET Token
        /\ tx[r].family # None /\ tx[r].token \in rows => tx[r].token \in replaced
    BY DEF IInv, TypeOK
  <2> HIDE DEF replaced, Issue
  <2> QED BY <1>1, <1>3, <2>1, <2>2, <2>3, StillIn, PeopleStay, IssueStep
<1> QED BY <1>2, <1>3 DEF SwitchShop

LEMMA RegisterStep ==
    ASSUME IInv, NEW r \in Request, Register(r)
    PROVE  IInv'
<1>1. Busy(r) /\ At(r, "issue") /\ tx[r].kind = "register"
  BY DEF Register, Busy, At
<1>2. CASE Refuse(r)
  BY <1>1, <1>2, RefuseStep
<1>3. CASE /\ account[tx[r].user] = "none"
           /\ account' = [account EXCEPT ![tx[r].user] = "active"]
           /\ shop' = IF tx[r].shop = None THEN shop ELSE [shop EXCEPT ![tx[r].shop] = "open"]
           /\ member' = IF tx[r].shop = None THEN member
                        ELSE member \cup {<<tx[r].user, tx[r].shop>>}
           /\ Issue(r, None, {}, {}) /\ UNCHANGED admins
  <2>1. /\ tx[r].user \in User /\ tx[r].shop \in Shop \cup {None}
        /\ tx[r].shop # None => shop[tx[r].shop] = "none"
    BY <1>1, Facts DEF About, Transactions, IInv, Reserved
  <2>2. TypeOK /\ ShopsHaveMembers
    BY DEF IInv, Tables
  <2>3. /\ account' \in [User -> Accounts] /\ shop' \in [Shop -> Shops]
        /\ member' \in SUBSET (User \X Shop) /\ admins' \in SUBSET User
    BY <1>3, <2>1, <2>2 DEF TypeOK, Accounts, Shops
  <2>4. ShopsHaveMembers'
    <3>1. CASE tx[r].shop = None
      BY <1>3, <2>2, <3>1 DEF ShopsHaveMembers
    <3>2. CASE tx[r].shop # None
      <4>1. shop' = [shop EXCEPT ![tx[r].shop] = "open"]
            /\ member' = member \cup {<<tx[r].user, tx[r].shop>>}
        BY <1>3, <3>2
      <4> QED BY <2>1, <2>2, <3>2, <4>1 DEF ShopsHaveMembers, TypeOK
    <3> QED BY <3>1, <3>2
  <2>5. /\ \A u \in User : account'[u] = "deactivated" <=> account[u] = "deactivated"
        /\ \A s \in Shop : shop'[s] = "deleted" <=> shop[s] = "deleted"
        /\ \A s \in Shop : shop'[s] = "none" => shop[s] = "none"
        /\ \A s \in Shop : shop[s] = "none" => shop'[s] = "none" \/ tx[r].shop = s
    BY <1>3, <2>1, <2>2 DEF TypeOK
  <2>6. People'
    BY <2>3, <2>4 DEF People
  <2> HIDE DEF Issue
  <2> QED BY <1>1, <1>3, <2>1, <2>5, <2>6, IssueStep
<1> QED BY <1>2, <1>3 DEF Register

-----------------------------------------------------------------------------
(* The commit of a revocation.                                             *)

LEMMA CommitStep ==
    ASSUME IInv, NEW r \in Request, Commit(r)
    PROVE  IInv'
<1>1. /\ Busy(r) /\ tx[r].pc = "end"
      /\ TypeOK /\ Recorded /\ Tables
  BY DEF Commit, Busy, At, IInv
<1>2. /\ tx[r] \in Transactions /\ About(tx[r]) /\ Chosen(tx[r]) /\ Joins(tx[r])
      /\ tx[r].kind \in {"refresh", "logout", "deactivate", "deleteShop"}
  BY <1>1, Facts DEF Comes
<1>3. /\ rows' = rows \ tx[r].pruning
      /\ revoked' = (revoked \cup tx[r].revoking) \cap rows'
      /\ expired' = expired \ tx[r].pruning
      /\ account' = IF tx[r].kind = "deactivate"
                     THEN [account EXCEPT ![tx[r].user] = "deactivated"] ELSE account
      /\ shop' = IF tx[r].kind = "deleteShop"
                  THEN [shop EXCEPT ![tx[r].shop] = "deleted"] ELSE shop
      /\ member' = IF tx[r].kind = "deleteShop"
                    THEN {m \in member : m[2] # tx[r].shop} ELSE member
      /\ closed' = closed \cup ({tx[r].family} \ {None})
      /\ outlived' = outlived \cup Missed(r)
      /\ admins' = admins /\ record' = record /\ End(r)
  BY DEF Commit
<1>4. /\ tx[r].kind = "deactivate" => tx[r].user \in User
      /\ tx[r].kind = "deleteShop" => tx[r].shop \in Shop /\ shop[tx[r].shop] # "none"
      /\ tx[r].family # None => /\ tx[r].kind \in {"refresh", "logout"}
                                /\ tx[r].family \in Issued
  BY <1>1, <1>2 DEF About, Joins, Recorded
<1>5. /\ account' \in [User -> Accounts] /\ shop' \in [Shop -> Shops]
      /\ \A u \in User : account'[u] = "deactivated" <=>
            account[u] = "deactivated" \/ (tx[r].kind = "deactivate" /\ u = tx[r].user)
      /\ \A s \in Shop : shop'[s] = IF tx[r].kind = "deleteShop" /\ s = tx[r].shop
                                    THEN "deleted" ELSE shop[s]
  BY <1>1, <1>3, <1>4 DEF TypeOK, Accounts, Shops
\* What it missed has outlived it.
<1>6. /\ Missed(r) \subseteq Ends \X Token
      /\ \A t \in rows \ tx[r].saw :
            /\ tx[r].kind = "deactivate" /\ record[t].owner = tx[r].user
                  => <<"account", t>> \in Missed(r)
            /\ tx[r].kind = "deleteShop" /\ record[t].shop = tx[r].shop
                  => <<"shop", t>> \in Missed(r)
            /\ tx[r].family # None /\ record[t].family = tx[r].family
                  => <<"family", t>> \in Missed(r)
  <2>1. \A t : /\ Ended(r, t) \subseteq Ends
               /\ tx[r].kind = "deactivate" /\ record[t].owner = tx[r].user
                     => "account" \in Ended(r, t)
               /\ tx[r].kind = "deleteShop" /\ record[t].shop = tx[r].shop
                     => "shop" \in Ended(r, t)
               /\ tx[r].family # None /\ record[t].family = tx[r].family
                     => "family" \in Ended(r, t)
    BY <1>4 DEF Ended, Ends
  <2>2. \A end, t : <<end, t>> \in Missed(r) <=> t \in rows \ tx[r].saw /\ end \in Ended(r, t)
    BY DEF Missed
  <2>3. \A pair \in Missed(r) : \E t \in rows : \E end \in Ended(r, t) : pair = <<end, t>>
    BY DEF Missed
  <2>4. rows \subseteq Token
    BY <1>1 DEF TypeOK
  <2> QED BY <2>1, <2>2, <2>3, <2>4
<1>7. TypeOK'
  <2>1. tx' \in [Request -> Transactions]
    BY <1>1, <1>3, IdleFits DEF End, TypeOK
  <2>2. closed' \subseteq Token /\ outlived' \subseteq Ends \X Token
    BY <1>1, <1>3, <1>4, <1>6 DEF TypeOK, Issued
  <2> QED BY <1>1, <1>3, <1>5, <2>1, <2>2 DEF TypeOK
<1>8. Issued' = Issued
  BY <1>3 DEF Issued
<1>9. Recorded'
  BY <1>1, <1>3, <1>4, <1>8 DEF Recorded
<1>10. Onward(r)
  BY <1>3, <1>4, <1>5 DEF Onward
\* What is live afterwards was live before, and was not chosen.
<1>11. \A t \in Unrevoked' :
          /\ t \in rows /\ t \in Unrevoked /\ t \notin tx[r].revoking
          /\ record[t].owner \in User /\ record[t].shop \in Shop \cup {None}
  <2> SUFFICES ASSUME NEW t \in rows', t \notin revoked'
               PROVE  /\ t \in Unrevoked /\ t \notin tx[r].revoking
                      /\ record[t].owner \in User /\ record[t].shop \in Shop \cup {None}
    BY DEF Unrevoked
  <2>1. t \in rows /\ t \in Unrevoked /\ t \notin tx[r].revoking
    BY <1>3 DEF Unrevoked
  <2>2. t \in Issued /\ record[t] \in Records
    BY <1>1, <2>1 DEF TypeOK, Recorded
  <2> QED BY <1>1, <2>1, <2>2 DEF Recorded, Records
<1>12. DeactivationEndsSessions'
  BY <1>1, <1>2, <1>3, <1>5, <1>6, <1>11 DEF DeactivationEndsSessions, Tables, Chosen
<1>13. DeletionEndsSessions'
  BY <1>1, <1>2, <1>3, <1>5, <1>6, <1>11 DEF DeletionEndsSessions, Tables, Chosen
<1>14. FamiliesEndWhole'
  BY <1>1, <1>2, <1>3, <1>6, <1>11 DEF FamiliesEndWhole, Tables, Chosen
<1>15. Linked' /\ Chained'
  <2>1. Linked'
    BY <1>1, <1>3, <1>8, <1>11 DEF Linked, Tables
  <2>2. Chained'
    BY <1>1, <1>3, <1>8 DEF Chained, Tables, Spent, Forked
  <2> QED BY <2>1, <2>2
<1>16. ShopsHaveMembers'
  <2>1. CASE tx[r].kind # "deleteShop"
    BY <1>1, <1>3, <2>1 DEF ShopsHaveMembers, Tables
  <2>2. CASE tx[r].kind = "deleteShop"
    <3>1. \A u \in User, s \in Shop :
             <<u, s>> \in member' <=> <<u, s>> \in member /\ s # tx[r].shop
      BY <1>3, <2>2
    <3> QED BY <1>1, <1>5, <2>2, <3>1 DEF ShopsHaveMembers, Tables
  <2> QED BY <2>1, <2>2
<1>17. Tables'
  BY <1>12, <1>13, <1>14, <1>15, <1>16 DEF Tables
<1> QED BY <1>1, <1>3, <1>7, <1>9, <1>10, <1>17, EndStep

-----------------------------------------------------------------------------
(* The start of a request.                                                 *)

LEMMA AskStep ==
    ASSUME IInv, NEW r \in Request, At(r, "idle"), NEW request \in Transactions,
           Ask(r, request), UNCHANGED <<people, tokens, history>>,
           About(request), request.family = None, request.pruning = {},
           \/ request.pc = "present" /\ request.kind \in {"refresh", "logout"}
           \/ request.pc = "account" /\ request.kind \in {"register", "login", "switch"}
           \/ request.pc = "scope" /\ request.kind = "deleteShop"
           \/ request.pc = "revokeUser" /\ request.kind = "deactivate",
           request.kind = "login" => request.shop = None,
           request.kind = "register" /\ request.shop # None => FreeShop(request.shop)
    PROVE  IInv'
<1>1. PICK late \in BOOLEAN : late = Over(request)
  BY DEF Over
<1>2. PICK stale \in BOOLEAN : stale = Stale(request)
  BY DEF Stale
<1>3. PICK asked : asked = [request EXCEPT !.late = late, !.stale = stale]
  OBVIOUS
<1>4. /\ asked \in Transactions
      /\ asked.late = late /\ asked.stale = stale
      /\ asked.pc = request.pc /\ asked.kind = request.kind /\ asked.user = request.user
      /\ asked.shop = request.shop /\ asked.audience = request.audience
      /\ asked.token = request.token /\ asked.family = None /\ asked.pruning = {}
  BY <1>3 DEF Transactions
<1>5. tx' = [tx EXCEPT ![r] = asked] /\ tx'[r] = asked
  BY <1>1, <1>2, <1>3 DEF Ask, IInv, TypeOK
<1>6. Registers(r)
  BY <1>4, <1>5 DEF Registers
<1>7. WellFormed(asked)
  BY <1>4 DEF WellFormed, Comes, About, Joins, Asked
<1>8. Chosen(asked)
  BY <1>4 DEF Chosen
<1>9. Doomed(asked)
  BY <1>1, <1>4 DEF Doomed, Over, Dead, Barred, Closed, Asked, Transactions
<1>10. EmptyHanded(asked)
  BY <1>2, <1>4 DEF EmptyHanded, Stale, About
<1> QED BY <1>4, <1>5, <1>6, <1>7, <1>8, <1>9, <1>10, MoveOn DEF Fits

LEMMA BeginStep ==
    ASSUME IInv, NEW r \in Request, Begin(r)
    PROVE  IInv'
<1>1. At(r, "idle") /\ UNCHANGED <<people, tokens, history>> /\ TypeOK /\ Recorded
  BY DEF Begin, IInv
<1>2. \A t \in rows : /\ t \in Token /\ t \in Issued
                      /\ record[t].owner \in User
                      /\ record[t].shop \in Shop \cup {None}
                      /\ record[t].audience \in Audiences
  BY <1>1 DEF TypeOK, Recorded, Records
<1>3. ASSUME NEW u \in User, NEW s \in {x \in Shop : FreeShop(x)} \cup {None},
             Ask(r, [Idle EXCEPT !.pc = "account", !.kind = "register", !.user = u, !.shop = s,
                                 !.audience = IF s = None THEN "storefront" ELSE "cms"])
      PROVE  IInv'
  <2> DEFINE request == [Idle EXCEPT !.pc = "account", !.kind = "register", !.user = u,
                                     !.shop = s,
                                     !.audience = IF s = None THEN "storefront" ELSE "cms"]
  <2>1. /\ request \in Transactions /\ request.pc = "account" /\ request.kind = "register"
        /\ request.user = u /\ request.shop = s /\ request.family = None
        /\ request.pruning = {}
    BY DEF Idle, Transactions, Points, Kinds, Audiences
  <2> HIDE DEF request
  <2>2. About(request)
    BY <2>1 DEF About
  <2> QED BY <1>1, <1>3, <2>1, <2>2, AskStep DEF request
<1>4. ASSUME NEW u \in User, NEW a \in Audience,
             Ask(r, [Idle EXCEPT !.pc = "account", !.kind = "login", !.user = u,
                                 !.audience = a])
      PROVE  IInv'
  <2> DEFINE request == [Idle EXCEPT !.pc = "account", !.kind = "login", !.user = u,
                                     !.audience = a]
  <2>1. /\ request \in Transactions /\ request.pc = "account" /\ request.kind = "login"
        /\ request.user = u /\ request.shop = None /\ request.family = None
        /\ request.pruning = {}
    BY SessionsAssumption DEF Idle, Transactions, Points, Kinds, Audiences
  <2> HIDE DEF request
  <2>2. About(request)
    BY <2>1 DEF About
  <2> QED BY <1>1, <1>4, <2>1, <2>2, AskStep DEF request
<1>5. ASSUME NEW t \in rows,
             Ask(r, [Idle EXCEPT !.pc = "present", !.kind = "refresh", !.token = t,
                                 !.user = record[t].owner, !.shop = record[t].shop,
                                 !.audience = record[t].audience])
      PROVE  IInv'
  <2> DEFINE request == [Idle EXCEPT !.pc = "present", !.kind = "refresh", !.token = t,
                                     !.user = record[t].owner, !.shop = record[t].shop,
                                     !.audience = record[t].audience]
  <2>1. /\ request \in Transactions /\ request.pc = "present" /\ request.kind = "refresh"
        /\ request.token = t /\ request.user = record[t].owner
        /\ request.shop = record[t].shop /\ request.audience = record[t].audience
        /\ request.family = None /\ request.pruning = {}
    BY <1>2 DEF Idle, Transactions, Points, Kinds, Audiences
  <2> HIDE DEF request
  <2>2. About(request)
    BY <1>2, <2>1 DEF About
  <2> QED BY <1>1, <1>5, <2>1, <2>2, AskStep DEF request
<1>6. ASSUME NEW t \in rows,
             Ask(r, [Idle EXCEPT !.pc = "present", !.kind = "logout", !.token = t])
      PROVE  IInv'
  <2> DEFINE request == [Idle EXCEPT !.pc = "present", !.kind = "logout", !.token = t]
  <2>1. /\ request \in Transactions /\ request.pc = "present" /\ request.kind = "logout"
        /\ request.token = t /\ request.family = None /\ request.pruning = {}
    BY <1>2 DEF Idle, Transactions, Points, Kinds, Audiences
  <2> HIDE DEF request
  <2>2. About(request)
    BY <1>2, <2>1 DEF About
  <2> QED BY <1>1, <1>6, <2>1, <2>2, AskStep DEF request
<1>7. ASSUME NEW u \in User, NEW s \in Shop, NEW t \in rows \cup {None},
             Ask(r, [Idle EXCEPT !.pc = "account", !.kind = "switch", !.user = u,
                                 !.shop = s, !.audience = "cms", !.token = t])
      PROVE  IInv'
  <2> DEFINE request == [Idle EXCEPT !.pc = "account", !.kind = "switch", !.user = u,
                                     !.shop = s, !.audience = "cms", !.token = t]
  <2>1. /\ request \in Transactions /\ request.pc = "account" /\ request.kind = "switch"
        /\ request.user = u /\ request.shop = s /\ request.audience = "cms"
        /\ request.token = t /\ request.family = None /\ request.pruning = {}
    BY <1>2 DEF Idle, Transactions, Points, Kinds, Audiences
  <2> HIDE DEF request
  <2>2. About(request)
    BY <1>2, <2>1 DEF About
  <2> QED BY <1>1, <1>7, <2>1, <2>2, AskStep DEF request
<1>8. ASSUME NEW u \in User,
             Ask(r, [Idle EXCEPT !.pc = "revokeUser", !.kind = "deactivate", !.user = u])
      PROVE  IInv'
  <2> DEFINE request == [Idle EXCEPT !.pc = "revokeUser", !.kind = "deactivate", !.user = u]
  <2>1. /\ request \in Transactions /\ request.pc = "revokeUser"
        /\ request.kind = "deactivate" /\ request.user = u
        /\ request.family = None /\ request.pruning = {}
    BY DEF Idle, Transactions, Points, Kinds, Audiences
  <2> HIDE DEF request
  <2>2. About(request)
    BY <2>1 DEF About
  <2> QED BY <1>1, <1>8, <2>1, <2>2, AskStep DEF request
<1>9. ASSUME NEW u \in User, NEW s \in Shop, CanUse(u, s),
             Ask(r, [Idle EXCEPT !.pc = "scope", !.kind = "deleteShop", !.user = u, !.shop = s])
      PROVE  IInv'
  <2> DEFINE request == [Idle EXCEPT !.pc = "scope", !.kind = "deleteShop", !.user = u,
                                     !.shop = s]
  <2>1. /\ request \in Transactions /\ request.pc = "scope" /\ request.kind = "deleteShop"
        /\ request.user = u /\ request.shop = s
        /\ request.family = None /\ request.pruning = {}
    BY DEF Idle, Transactions, Points, Kinds, Audiences
  <2> HIDE DEF request
  <2>2. About(request)
    BY <1>9, <2>1 DEF About, CanUse
  <2> QED BY <1>1, <1>9, <2>1, <2>2, AskStep DEF request
<1> QED BY <1>3, <1>4, <1>5, <1>6, <1>7, <1>8, <1>9 DEF Begin

-----------------------------------------------------------------------------
(* Time and the operators.                                                 *)

\* What they change hides nothing a request has read and revives nothing.
LEMMA OperatorStep ==
    ASSUME IInv, TypeOK', tx' = tx,
           rows' = rows, record' = record, revoked' = revoked,
           closed' = closed, outlived' = outlived,
           expired \subseteq expired',
           \A u \in User : account'[u] = "deactivated" <=> account[u] = "deactivated",
           \A s \in Shop : /\ shop'[s] = "deleted" <=> shop[s] = "deleted"
                           /\ shop'[s] = "none" <=> shop[s] = "none",
           ShopsHaveMembers'
    PROVE  IInv'
<1>1. TypeOK /\ Recorded /\ Tables
  BY DEF IInv
<1>2. Issued' = Issued /\ Unrevoked' = Unrevoked
  BY DEF Issued, Unrevoked
<1>3. Recorded'
  BY <1>1, <1>2 DEF Recorded
<1>4. \A t \in Unrevoked : record[t].owner \in User /\ record[t].shop \in Shop \cup {None}
  BY <1>1 DEF Unrevoked, Recorded, TypeOK, Records
<1>5. Linked' /\ Chained'
  BY <1>1, <1>2 DEF Tables, Linked, Chained, Spent, Forked
<1>6. Tables'
  BY <1>1, <1>2, <1>4, <1>5 DEF Tables, DeactivationEndsSessions, DeletionEndsSessions,
                                FamiliesEndWhole
<1>7. ASSUME NEW r \in Request
      PROVE  Fits(tx[r])' /\ Reserved(r)'
  <2>1. Fits(tx[r]) /\ Reserved(r) /\ tx[r] \in Transactions
    BY <1>1 DEF IInv, TypeOK
  <2>2. Reserved(r)'
    BY <2>1 DEF Reserved, Transactions
  <2>3. WellFormed(tx[r])'
    BY <1>2, <2>1 DEF Fits, WellFormed, About, Joins
  <2>4. Chosen(tx[r])' /\ EmptyHanded(tx[r])'
    BY <1>2, <2>1 DEF Fits, Chosen, EmptyHanded
  <2>5. CASE At(r, "idle")
    BY <2>1, <2>2, <2>5, IdleFits DEF At, Fits, WellFormed
  <2>6. CASE Busy(r)
    <3>1. About(tx[r])
      BY <2>6, Facts
    <3>2. Doomed(tx[r])'
      BY <1>2, <2>1, <3>1 DEF Fits, Doomed, Dead, Barred, Closed, About, Asked
    <3> QED BY <2>2, <2>3, <2>4, <3>2 DEF Fits
  <2> QED BY <2>5, <2>6 DEF Busy
<1> QED BY <1>3, <1>6, <1>7 DEF IInv

LEMMA OperateStep ==
    ASSUME IInv, Operate
    PROVE  IInv'
<1>1. TypeOK /\ ShopsHaveMembers
  BY DEF IInv, Tables
<1>2. ASSUME NEW t \in Token, Expire(t)
      PROVE  IInv'
  <2>1. TypeOK' /\ ShopsHaveMembers'
    BY <1>1, <1>2 DEF Expire, people, history, TypeOK, ShopsHaveMembers
  <2> QED BY <1>2, <2>1, OperatorStep DEF Expire, people, history
<1>3. ASSUME NEW s \in Shop, Suspend(s) \/ Reopen(s)
      PROVE  IInv'
  <2>1. PICK from \in {"open", "suspended"}, to \in {"open", "suspended"} :
            shop[s] = from /\ shop' = [shop EXCEPT ![s] = to]
    BY <1>3 DEF Suspend, Reopen
  <2>2. /\ account' = account /\ member' = member /\ admins' = admins
        /\ rows' = rows /\ record' = record /\ revoked' = revoked
        /\ expired' = expired /\ closed' = closed /\ outlived' = outlived /\ tx' = tx
    BY <1>3 DEF Suspend, Reopen, tokens, history
  <2>3. TypeOK'
    BY <1>1, <2>1, <2>2 DEF TypeOK, Shops
  <2>4. \A x \in Shop : /\ shop'[x] = "deleted" <=> shop[x] = "deleted"
                        /\ shop'[x] = "none" <=> shop[x] = "none"
                        /\ shop'[x] \in {"open", "suspended"} <=> shop[x] \in {"open", "suspended"}
    BY <1>1, <2>1 DEF TypeOK
  <2>5. ShopsHaveMembers'
    BY <1>1, <2>2, <2>4 DEF ShopsHaveMembers
  <2> QED BY <2>2, <2>3, <2>4, <2>5, OperatorStep
<1>4. ASSUME NEW u \in User, Promote(u) \/ Demote(u)
      PROVE  IInv'
  <2>1. /\ shop' = shop /\ member' = member
        /\ rows' = rows /\ record' = record /\ revoked' = revoked
        /\ expired' = expired /\ closed' = closed /\ outlived' = outlived /\ tx' = tx
    BY <1>4 DEF Promote, Demote, tokens, history
  <2>2. /\ account' \in [User -> Accounts] /\ admins' \in SUBSET User
        /\ \A x \in User : account'[x] = "deactivated" <=> account[x] = "deactivated"
    BY <1>1, <1>4 DEF Promote, Demote, TypeOK, Accounts
  <2>3. TypeOK' /\ ShopsHaveMembers'
    BY <1>1, <2>1, <2>2 DEF TypeOK, ShopsHaveMembers
  <2> QED BY <2>1, <2>2, <2>3, OperatorStep
<1> QED BY <1>2, <1>3, <1>4 DEF Operate

-----------------------------------------------------------------------------
(* The invariant is inductive.                                             *)

LEMMA InitIInv == Init => IInv
<1> SUFFICES ASSUME Init PROVE IInv
  OBVIOUS
<1>1. Unissued \in Records
  BY DEF Unissued, Records, Audiences
<1>2. TypeOK
  BY <1>1, IdleFits DEF Init, TypeOK, Accounts, Shops
<1>3. Issued = {} /\ Unrevoked = {}
  BY DEF Init, Issued, Unrevoked
<1>4. Recorded
  BY <1>3 DEF Init, Recorded
<1>5. Tables
  BY <1>3 DEF Init, Tables, DeactivationEndsSessions, DeletionEndsSessions, FamiliesEndWhole,
              Linked, Chained, ShopsHaveMembers
<1>6. \A r \in Request : tx[r] = Idle
  BY DEF Init
<1>7. \A r \in Request : Fits(tx[r]) /\ Reserved(r)
  BY <1>6, IdleFits DEF Reserved, Idle
<1> QED BY <1>2, <1>4, <1>5, <1>7 DEF IInv

LEMMA StutterStep ==
    ASSUME IInv, UNCHANGED vars
    PROVE  IInv'
<1>1. /\ account' = account /\ shop' = shop /\ member' = member /\ admins' = admins
      /\ rows' = rows /\ record' = record /\ revoked' = revoked
      /\ expired' = expired /\ closed' = closed /\ outlived' = outlived /\ tx' = tx
  BY DEF vars, people, tokens, history
<1>2. TypeOK' /\ ShopsHaveMembers'
  BY <1>1 DEF IInv, TypeOK, Tables, ShopsHaveMembers
<1> QED BY <1>1, <1>2, OperatorStep

LEMMA StepIInv == IInv /\ [Next]_vars => IInv'
<1> SUFFICES ASSUME IInv, [Next]_vars PROVE IInv'
  OBVIOUS
<1>1. CASE UNCHANGED vars
  BY <1>1, StutterStep
<1>2. CASE Operate
  BY <1>2, OperateStep
<1>3. ASSUME NEW r \in Request, Begin(r) \/ Read(r) \/ Write(r) \/ Rollback(r)
      PROVE  IInv'
  <2>1. CASE Begin(r)
    BY <2>1, BeginStep
  <2>2. CASE Read(r)
    BY <2>2, PresentToRefreshStep, PresentToLogoutStep, PresentToSwitchStep, CheckReuseStep,
       CheckAccountStep, CheckOwnerStep, ChooseScopeStep, CheckScopeStep, CheckTargetStep,
       CheckShopStep DEF Read
  <2>3. CASE Write(r)
    BY <2>3, RegisterStep, LoginStep, RefreshStep, SwitchShopStep, RevokeFamilyStep,
       RevokeUserStep, RevokeShopStep, CommitStep DEF Write
  <2>4. CASE Rollback(r)
    BY <2>4, RefuseStep DEF Rollback, Busy
  <2> QED BY <1>3, <2>1, <2>2, <2>3, <2>4
<1> QED BY <1>1, <1>2, <1>3 DEF Next

\* Sessions keeps its inductive invariant.
THEOREM Inductive == Spec => []IInv
BY InitIInv, StepIInv, PTL DEF Spec

-----------------------------------------------------------------------------
(* The theorems.                                                           *)

\* Every variable keeps its shape, whatever the requests in flight.
THEOREM TypeCorrect == Spec => []TypeOK
<1>1. IInv => TypeOK
  BY DEF IInv
<1> QED BY <1>1, Inductive, PTL

\* deactivate, whatever the requests beside it: a live token of a deactivated
\* account was issued after the UPDATE had chosen the rows, by a request that
\* had started before the commit.
THEOREM DeactivationIsComplete == Spec => []DeactivationEndsSessions
<1>1. IInv => DeactivationEndsSessions
  BY DEF IInv, Tables
<1> QED BY <1>1, Inductive, PTL

\* delete_shop: a live token that works in a deleted shop was issued between
\* the UPDATE and the commit; none is issued afterwards.
THEOREM DeletionIsComplete == Spec => []DeletionEndsSessions
<1>1. IInv => DeletionEndsSessions
  BY DEF IInv, Tables
<1> QED BY <1>1, Inductive, PTL

\* refresh and switch_shop put the new token in the place of the old one: a
\* family has two live tokens only if two requests got one each for the same
\* token.
THEOREM RotationReplaces == Spec => []OneLiveTokenPerFamily
<1>1. ASSUME IInv PROVE OneLiveTokenPerFamily
  <2>1. Unrevoked \subseteq Issued /\ Linked /\ Chained
    BY <1>1 DEF IInv, Recorded, Tables, Unrevoked
  <2>2. \A t \in Unrevoked : ~Spent(t)
    BY <2>1, SessionsAssumption DEF Linked, Spent, Issued
  <2> QED BY <2>1, <2>2 DEF Chained, OneLiveTokenPerFamily
<1> QED BY <1>1, Inductive, PTL

\* logout, a reuse and a lost scope end the family: what lives on in it was
\* issued after the UPDATE by a request that had started before the commit, or
\* in the place of such a token.
THEOREM FamiliesAreRevokedWhole == Spec => []FamiliesEndWhole
<1>1. IInv => FamiliesEndWhole
  BY DEF IInv, Tables
<1> QED BY <1>1, Inductive, PTL

\* register and delete_shop create and end a shop with its memberships.
THEOREM MembersComeAndGo == Spec => []ShopsHaveMembers
<1>1. IInv => ShopsHaveMembers
  BY DEF IInv, Tables
<1> QED BY <1>1, Inductive, PTL

\* login, refresh and switch_shop issue nothing for what had ended before they
\* started.
THEOREM NothingIssuedLate == Spec => EndedSessionsStayEnded
<1>1. IInv => \A r \in Request : ~(At(r, "issue") /\ tx[r].late)
  BY DEF IInv, Fits, Doomed, At
<1>2. IInv /\ [Next]_vars =>
        [\A r \in Request :
            At(r, "issue") /\ tx[r].late /\ ~At(r, "issue")' => rows' \subseteq rows]_vars
  BY <1>1
<1> QED BY <1>2, Inductive, PTL DEF Spec, EndedSessionsStayEnded

\* A step of a request leaves the others where they are.
LEMMA OthersStay ==
    ASSUME IInv, NEW q \in Request, NEW r \in Request \ {q},
           Begin(q) \/ Read(q) \/ Write(q) \/ Rollback(q)
    PROVE  tx'[r] = tx[r]
<1>1. tx \in [Request -> Transactions]
  BY DEF IInv, TypeOK
<1>2. ASSUME Begin(q) PROVE tx'[r] = tx[r]
  <2>1. \E request : Ask(q, request)
    BY <1>2 DEF Begin
  <2> QED BY <1>1, <2>1 DEF Ask
<1>3. ASSUME Read(q) PROVE tx'[r] = tx[r]
  BY <1>1, <1>3 DEF Read, PresentToRefresh, PresentToLogout, PresentToSwitch, CheckReuse,
       CheckAccount, CheckOwner, ChooseScope, CheckScope, CheckTarget, CheckShop,
       Refuse, End, Goto
<1>4. ASSUME Register(q) \/ Login(q) \/ Refresh(q) \/ SwitchShop(q) PROVE tx'[r] = tx[r]
  <2>1. End(q)
    BY <1>4 DEF Register, Login, Refresh, SwitchShop, Issue, Refuse
  <2> QED BY <1>1, <2>1 DEF End
<1>5. ASSUME RevokeFamily(q) \/ RevokeUser(q) \/ RevokeShop(q) PROVE tx'[r] = tx[r]
  <2>1. \E chosen, family : Revoke(q, chosen, family)
    BY <1>5 DEF RevokeFamily, RevokeUser, RevokeShop
  <2> QED BY <1>1, <2>1 DEF Revoke
<1>6. ASSUME Commit(q) \/ Rollback(q) PROVE tx'[r] = tx[r]
  BY <1>1, <1>6 DEF Commit, Rollback, Refuse, End
<1> QED BY <1>2, <1>3, <1>4, <1>5, <1>6 DEF Write

\* switch_shop: a token that had been revoked before the request started hands
\* no family over, whatever the requests beside it do.
THEOREM NothingHandedOver == Spec => RevokedTokensHandNothingOver
<1>1. ASSUME IInv, Next, NEW r \in Request,
             At(r, "issue"), tx[r].stale, ~At(r, "issue")', NEW t \in rows' \ rows
      PROVE  record'[t].family = t
  <2>1. Busy(r) /\ tx[r].kind = "switch" /\ tx[r].family = None
    BY <1>1, Facts DEF Busy, At, EmptyHanded
  <2>2. tx'[r] # tx[r]
    BY <1>1 DEF At
  <2>3. Begin(r) \/ Read(r) \/ Write(r) \/ Rollback(r)
    <3>1. ~Operate
      BY <2>2 DEF Operate, Expire, Suspend, Reopen, Promote, Demote
    <3> QED BY <1>1, <2>2, <3>1, OthersStay DEF Next
  <2>4. ~Begin(r) /\ ~Read(r)
    BY <1>1 DEF At, Begin, Read, PresentToRefresh, PresentToLogout, PresentToSwitch,
         CheckReuse, CheckAccount, CheckOwner, ChooseScope, CheckScope, CheckTarget, CheckShop
  <2>5. Write(r) => SwitchShop(r)
    BY <1>1, <2>1 DEF At, Write, Register, Login, Refresh, RevokeFamily, RevokeUser,
         RevokeShop, Commit
  <2>6. ~Refuse(r)
    BY DEF Refuse, tokens
  <2>7. Issue(r, None, {}, {})
    BY <2>1, <2>3, <2>4, <2>5, <2>6 DEF SwitchShop, Rollback
  <2>8. PICK new \in Token \ Issued :
            /\ record' = [record EXCEPT ![new] =
                            [owner |-> tx[r].user, audience |-> tx[r].audience,
                             shop |-> IF tx[r].audience = "cms" THEN tx[r].shop ELSE None,
                             family |-> new, from |-> None]]
            /\ rows' = (rows \ {}) \cup {new}
    BY <2>7 DEF Issue
  <2> QED BY <1>1, <2>8 DEF IInv, TypeOK
<1>2. IInv /\ [Next]_vars =>
        [\A r \in Request : At(r, "issue") /\ tx[r].stale /\ ~At(r, "issue")' =>
            \A t \in rows' \ rows : record'[t].family = t]_vars
  BY <1>1
<1> QED BY <1>2, Inductive, PTL DEF Spec, RevokedTokensHandNothingOver
=============================================================================

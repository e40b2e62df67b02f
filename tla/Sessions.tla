------------------------------ MODULE Sessions ------------------------------
(***************************************************************************)
(* Accounts, shops and refresh tokens: registration, sign-in, rotation,    *)
(* sign-out, the switch to another shop, the deactivation of an account    *)
(* and the deletion of a shop, in requests that run at the same time.      *)
(*                                                                         *)
(* Every request is one PostgreSQL transaction at READ COMMITTED, and no   *)
(* statement of these services locks what it reads.  A step of this module *)
(* is one read with the decision taken on it, the UPDATE that chooses the  *)
(* rows to revoke, or the last writes with the commit.                     *)
(*                                                                         *)
(* A revocation is the same however often it is written, so that the order *)
(* in which two requests get a row of refresh_tokens is left out.  The     *)
(* lock on a row of users or shops decides what an UPDATE that waits for   *)
(* it sees afterwards, and is modelled.                                    *)
(*                                                                         *)
(* The objects of the session cache are modelled where they matter: a      *)
(* second SELECT finds out that a row is gone, but returns the columns of  *)
(* an object that is still in use as the first one read them.              *)
(***************************************************************************)
EXTENDS FiniteSets

CONSTANTS
    User,       \* the accounts, each with an address of its own
    Shop,       \* the ids a shop may get
    Audience,   \* what a session may be for
    Token,      \* the refresh tokens that may be issued
    Request,    \* the requests that may be in flight at the same time
    None        \* no account, no shop, no token

ASSUME SessionsAssumption ==
    /\ None \notin User \cup Shop \cup Token
    /\ Audience \subseteq {"storefront", "cms", "admin"}

VARIABLES
    account,    \* users.deactivated_at, "none" while there is no row
    shop,       \* shops.is_active and deleted_at, "none" while there is no row
    member,     \* the live rows of memberships that name a shop
    admins,     \* the accounts with a live sys_admin platform membership
    rows,       \* the rows of refresh_tokens
    record,     \* what each token was issued for, kept when its row is pruned
    revoked,    \* the rows whose revoked_at is set
    expired,    \* the rows whose expires_at has passed
    closed,     \* history: the families that were ended as a whole
    outlived,   \* history: <<end, t>>, where t was issued too late to be revoked by it
    tx          \* what each request has still to do and has read so far

people == <<account, shop, member, admins>>
tokens == <<rows, record, revoked, expired>>
history == <<closed, outlived>>
vars == <<people, tokens, history, tx>>

-----------------------------------------------------------------------------
Audiences == {"storefront", "cms", "admin"}
Accounts == {"none", "active", "deactivated"}
Shops == {"none", "open", "suspended", "deleted"}

\* A family is named after its first token.  (from is the token whose
\* replaced_by_id names this one.)
Unissued == [owner |-> None, audience |-> "storefront", shop |-> None, family |-> None,
             from |-> None]
Records == [owner : User \cup {None}, audience : Audiences, shop : Shop \cup {None},
            family : Token \cup {None}, from : Token \cup {None}]

Issued == {t \in Token : record[t] # Unissued}
Unrevoked == rows \ revoked
Family(f) == {t \in rows : record[t].family = f}

\* find_membership finds a row, and its shop is not suspended.
IsMember(u, s) == <<u, s>> \in member /\ shop[s] # "deleted"
CanUse(u, s) == IsMember(u, s) /\ shop[s] = "open"

Kinds == {"register", "login", "refresh", "logout", "switch", "deactivate", "deleteShop"}

\* What a request does next.
Points == {"idle", "present", "account", "scope", "issue", "reuse",
           "revokeFamily", "revokeUser", "revokeShop", "end"}

Ends == {"account", "shop", "family"}

\* (late, stale and saw are history.)
Idle == [pc |-> "idle", kind |-> "logout", user |-> None, shop |-> None,
         audience |-> "storefront", token |-> None, family |-> None,
         revoking |-> {}, pruning |-> {}, late |-> FALSE, stale |-> FALSE, saw |-> {}]

Transactions ==
    [pc : Points, kind : Kinds, user : User \cup {None}, shop : Shop \cup {None},
     audience : Audiences, token : Token \cup {None}, family : Token \cup {None},
     revoking : SUBSET Token, pruning : SUBSET Token,
     late : BOOLEAN, stale : BOOLEAN, saw : SUBSET Token]

Init ==
    /\ account = [u \in User |-> "none"]
    /\ shop = [s \in Shop |-> "none"]
    /\ member = {} /\ admins = {}
    /\ rows = {} /\ revoked = {} /\ expired = {}
    /\ closed = {} /\ outlived = {}
    /\ record = [t \in Token |-> Unissued]
    /\ tx = [r \in Request |-> Idle]

At(r, point) == tx[r].pc = point
Goto(r, point) == tx' = [tx EXCEPT ![r].pc = point]
End(r) == tx' = [tx EXCEPT ![r] = Idle]

\* An error raised by the service, or nothing to do: nothing is written.
Refuse(r) == End(r) /\ UNCHANGED <<people, tokens, history>>

\* Bound: an id of Shop is used once.
FreeShop(s) == shop[s] = "none" /\ \A r \in Request : tx[r].shop # s

\* History: what the request asks to go on with had ended when it started, so
\* that it is to be refused.
Over(request) ==
    /\ request.kind \in {"login", "refresh", "switch"}
    /\ \/ request.kind = "refresh" /\ request.token \notin Unrevoked \ expired
       \/ account[request.user] = "deactivated"
       \/ request.shop # None /\ shop[request.shop] = "deleted"

\* History: the cookie of a switch held a token that had been revoked, or was
\* gone, when the request started.  (The switch itself is not to be refused: it
\* is the access token that entitles to it.)
Stale(request) ==
    request.kind = "switch" /\ request.token \notin Unrevoked \cup {None}

Ask(r, request) ==
    tx' = [tx EXCEPT ![r] = [request EXCEPT !.late = Over(request),
                                            !.stale = Stale(request)]]

-----------------------------------------------------------------------------
(* What a client can ask for.  An access token is good for a request as    *)
(* long as get_current_principal finds its account, and its shop, usable.  *)
(* (An address or a token that is unknown when a request arrives, and an   *)
(* address that is taken when a registration does, end it at once.)        *)

Begin(r) ==
    /\ At(r, "idle")
    /\ \/ \E u \in User, s \in {x \in Shop : FreeShop(x)} \cup {None} :
             /\ account[u] = "none"
             /\ Ask(r, [Idle EXCEPT !.pc = "account", !.kind = "register", !.user = u, !.shop = s,
                                    !.audience = IF s = None THEN "storefront" ELSE "cms"])
       \/ \E u \in User, a \in Audience :
             /\ account[u] # "none"
             /\ Ask(r, [Idle EXCEPT !.pc = "account", !.kind = "login", !.user = u,
                                    !.audience = a])
       \/ \E t \in rows :
             Ask(r, [Idle EXCEPT !.pc = "present", !.kind = "refresh", !.token = t,
                                 !.user = record[t].owner, !.shop = record[t].shop,
                                 !.audience = record[t].audience])
       \/ \E t \in rows :
             Ask(r, [Idle EXCEPT !.pc = "present", !.kind = "logout", !.token = t])
       \/ \E u \in User, s \in Shop, t \in rows \cup {None} :
             /\ account[u] = "active" /\ \E x \in Shop : CanUse(u, x)
             /\ Ask(r, [Idle EXCEPT !.pc = "account", !.kind = "switch", !.user = u,
                                    !.shop = s, !.audience = "cms", !.token = t])
       \/ \E u \in User :
             /\ account[u] = "active"
             /\ Ask(r, [Idle EXCEPT !.pc = "revokeUser", !.kind = "deactivate", !.user = u])
       \/ \E u \in User, s \in Shop :
             /\ account[u] = "active" /\ CanUse(u, s)
             /\ Ask(r, [Idle EXCEPT !.pc = "scope", !.kind = "deleteShop", !.user = u,
                                    !.shop = s])
    /\ UNCHANGED <<people, tokens, history>>

\* PostgreSQL makes the request the victim of a deadlock, an index refuses a
\* slug, or the connection is lost.
Rollback(r) == ~At(r, "idle") /\ Refuse(r)

-----------------------------------------------------------------------------
(* The reads.                                                              *)

\* Mutant: revoked_at is not looked at.
PresentAny(r) ==
    /\ At(r, "present") /\ tx[r].kind = "refresh"
    /\ \/ tx[r].token \notin rows \ expired /\ Refuse(r)
       \/ /\ tx[r].token \in rows \ expired
          /\ Goto(r, "account")
          /\ UNCHANGED <<people, tokens, history>>

\* refresh, logout and switch_shop: the row of the token in the cookie.
PresentToRefresh(r) ==
    /\ At(r, "present") /\ tx[r].kind = "refresh"
    /\ LET t == tx[r].token IN
       \/ /\ t \notin rows \/ (t \notin revoked /\ t \in expired)
          /\ Refuse(r)
       \/ /\ t \in rows \cap revoked
          /\ Goto(r, "reuse")
          /\ UNCHANGED <<people, tokens, history>>
       \/ /\ t \in Unrevoked \ expired
          /\ Goto(r, "account")
          /\ UNCHANGED <<people, tokens, history>>

PresentToLogout(r) ==
    /\ At(r, "present") /\ tx[r].kind = "logout"
    /\ \/ tx[r].token \notin rows /\ Refuse(r)
       \/ tx[r].token \in rows /\ Goto(r, "revokeFamily") /\ UNCHANGED <<people, tokens, history>>

\* Mutant: revoked_at is not looked at.
PresentAnyToSwitch(r) ==
    /\ At(r, "present") /\ tx[r].kind = "switch"
    /\ tx' = [tx EXCEPT ![r].pc = "issue",
                        ![r].family = IF tx[r].token \in rows
                                      THEN record[tx[r].token].family ELSE None]
    /\ UNCHANGED <<people, tokens, history>>

\* (The token's owner, audience and expiry are not looked at.)
PresentToSwitch(r) ==
    /\ At(r, "present") /\ tx[r].kind = "switch"
    /\ tx' = [tx EXCEPT ![r].pc = "issue",
                        ![r].family = IF tx[r].token \in Unrevoked
                                      THEN record[tx[r].token].family ELSE None]
    /\ UNCHANGED <<people, tokens, history>>

\* A token that was revoked comes back.
CheckReuse(r) ==
    /\ At(r, "reuse")
    /\ \/ account[tx[r].user] = "deactivated" /\ Refuse(r)
       \/ /\ account[tx[r].user] # "deactivated"
          /\ Goto(r, "revokeFamily")
          /\ UNCHANGED <<people, tokens, history>>

\* The account of a registration, of a sign-in, of a switch.
CheckAccount(r) ==
    /\ At(r, "account") /\ tx[r].kind \in {"register", "login", "switch"}
    /\ LET found == account[tx[r].user]
           wanted == IF tx[r].kind = "register" THEN "none" ELSE "active"
       IN
       \/ found # wanted /\ Refuse(r)
       \/ /\ found = wanted
          /\ Goto(r, IF tx[r].kind = "register" THEN "issue" ELSE "scope")
          /\ UNCHANGED <<people, tokens, history>>

\* refresh: the owner of the token, and delete_expired_refresh_tokens.
CheckOwner(r) ==
    /\ At(r, "account") /\ tx[r].kind = "refresh"
    /\ \/ /\ account[tx[r].user] = "deactivated"
          /\ Goto(r, "revokeUser")
       \/ /\ account[tx[r].user] # "deactivated"
          /\ tx' = [tx EXCEPT ![r].pc = "scope", ![r].pruning = rows \cap expired]
    /\ UNCHANGED <<people, tokens, history>>

\* What a session of this audience needs, for the first time in a request.
InScope(r) ==
    CASE tx[r].audience = "cms"   -> CanUse(tx[r].user, tx[r].shop)
      [] tx[r].audience = "admin" -> tx[r].user \in admins
      [] OTHER                    -> TRUE

\* login: the shop the session opens in, or the platform membership.
ChooseScope(r) ==
    /\ At(r, "scope") /\ tx[r].kind = "login"
    /\ LET usable == {s \in Shop : CanUse(tx[r].user, s)}
           refused == IF tx[r].audience = "cms" THEN usable = {} ELSE ~InScope(r)
       IN
       \/ refused /\ Refuse(r)
       \/ /\ ~refused
          /\ \E s \in IF tx[r].audience = "cms" THEN usable ELSE {None} :
                tx' = [tx EXCEPT ![r].pc = "issue", ![r].shop = s]
          /\ UNCHANGED <<people, tokens, history>>

\* refresh: a session that has lost its scope takes its family with it.
CheckScope(r) ==
    /\ At(r, "scope") /\ tx[r].kind = "refresh"
    /\ Goto(r, IF InScope(r) THEN "issue" ELSE "revokeFamily")
    /\ UNCHANGED <<people, tokens, history>>

CheckTarget(r) ==
    /\ At(r, "scope") /\ tx[r].kind = "switch"
    /\ \/ ~InScope(r) /\ Refuse(r)
       \/ /\ InScope(r)
          /\ Goto(r, IF tx[r].token = None THEN "issue" ELSE "present")
          /\ UNCHANGED <<people, tokens, history>>

CheckShop(r) ==
    /\ At(r, "scope") /\ tx[r].kind = "deleteShop"
    /\ \/ shop[tx[r].shop] = "deleted" /\ Refuse(r)
       \/ /\ shop[tx[r].shop] # "deleted"
          /\ Goto(r, "revokeShop")
          /\ UNCHANGED <<people, tokens, history>>

-----------------------------------------------------------------------------
(* The writes.                                                             *)

\* The request has updated the row and not committed yet.
HoldsUser(r, u) == At(r, "end") /\ tx[r].kind = "deactivate" /\ tx[r].user = u
HoldsShop(r, s) == At(r, "end") /\ tx[r].kind = "deleteShop" /\ tx[r].shop = s

\* issue_session asks again: a row that is gone is noticed, a suspension is not.
StillInScope(r) ==
    CASE tx[r].audience = "cms"   -> IsMember(tx[r].user, tx[r].shop)
      [] tx[r].audience = "admin" -> tx[r].user \in admins
      [] OTHER                    -> TRUE

\* History: what has ended since the request started, without its knowing.
Overtaken(r, family) ==
    {end \in {"account", "family"} :
        /\ ~tx[r].late
        /\ IF end = "account" THEN account[tx[r].user] = "deactivated"
                              ELSE family \in closed /\ ~tx[r].stale}

\* The INSERT of a token in a family, or in a new one, with the revocation of
\* the one it replaces, the pruning, and the commit.
Issue(r, family, replaced, pruned) ==
    \E t \in Token \ Issued :
        /\ record' = [record EXCEPT ![t] =
                        [owner |-> tx[r].user, audience |-> tx[r].audience,
                         shop |-> IF tx[r].audience = "cms" THEN tx[r].shop ELSE None,
                         family |-> IF family = None THEN t ELSE family,
                         from |-> IF family = None THEN None ELSE tx[r].token]]
        /\ rows' = (rows \ pruned) \cup {t}
        /\ revoked' = (revoked \cup replaced) \ pruned
        /\ expired' = expired \ pruned
        /\ outlived' = outlived \cup (Overtaken(r, family) \X {t})
        /\ closed' = closed
        /\ End(r)

\* The indexes users_email_live and shops_slug_live are the arbiters.
Register(r) ==
    /\ At(r, "issue") /\ tx[r].kind = "register"
    /\ LET u == tx[r].user
           s == tx[r].shop
       IN
       \/ account[u] # "none" /\ Refuse(r)
       \/ /\ account[u] = "none"
          /\ account' = [account EXCEPT ![u] = "active"]
          /\ shop' = IF s = None THEN shop ELSE [shop EXCEPT ![s] = "open"]
          /\ member' = IF s = None THEN member ELSE member \cup {<<u, s>>}
          /\ Issue(r, None, {}, {})
          /\ UNCHANGED admins

\* (set_last_login waits for a deactivation that has updated the account.)
Login(r) ==
    /\ At(r, "issue") /\ tx[r].kind = "login"
    /\ \A q \in Request : ~HoldsUser(q, tx[r].user)
    /\ \/ ~StillInScope(r) /\ Refuse(r)
       \/ /\ StillInScope(r)
          /\ Issue(r, None, {}, rows \cap expired)
          /\ UNCHANGED people

\* Mutant: the presented token stays good.
RefreshKeepingOld(r) ==
    /\ At(r, "issue") /\ tx[r].kind = "refresh"
    /\ LET t == tx[r].token
           refused == ~StillInScope(r) \/ t \notin rows \cup tx[r].pruning
       IN
       \/ refused /\ Refuse(r)
       \/ /\ ~refused
          /\ Issue(r, record[t].family, {}, tx[r].pruning)
          /\ UNCHANGED people

\* The UPDATE of the presented row fails if someone else has pruned it.
Refresh(r) ==
    /\ At(r, "issue") /\ tx[r].kind = "refresh"
    /\ LET t == tx[r].token
           refused == ~StillInScope(r) \/ t \notin rows \cup tx[r].pruning
       IN
       \/ refused /\ Refuse(r)
       \/ /\ ~refused
          /\ Issue(r, record[t].family, {t}, tx[r].pruning)
          /\ UNCHANGED people

SwitchShop(r) ==
    /\ At(r, "issue") /\ tx[r].kind = "switch"
    /\ \/ ~StillInScope(r) /\ Refuse(r)
       \/ /\ StillInScope(r)
          /\ Issue(r, tx[r].family, IF tx[r].family = None THEN {} ELSE {tx[r].token} \cap rows, {})
          /\ UNCHANGED people

\* The UPDATE that revokes what is committed when it starts, of a whole family
\* or (None) of something else.
Revoke(r, chosen, family) ==
    /\ tx' = [tx EXCEPT ![r].pc = "end", ![r].family = family,
                        ![r].revoking = chosen \ revoked, ![r].saw = rows]
    /\ UNCHANGED <<people, tokens, history>>

\* Mutants: only the presented token goes; only the sessions of the caller's
\* audience; none, for the scope check would refuse them.
RevokePresented(r) ==
    At(r, "revokeFamily") /\ Revoke(r, {tx[r].token}, record[tx[r].token].family)
RevokeAudience(r) ==
    /\ At(r, "revokeUser")
    /\ Revoke(r, {t \in rows : /\ record[t].owner = tx[r].user
                               /\ record[t].audience = tx[r].audience}, None)
RevokeNothing(r) == At(r, "revokeShop") /\ Revoke(r, {}, None)

RevokeFamily(r) ==
    /\ At(r, "revokeFamily")
    /\ LET f == record[tx[r].token].family IN Revoke(r, Family(f), f)

\* (A deactivation updates the account first.)
RevokeUser(r) ==
    /\ At(r, "revokeUser")
    /\ tx[r].kind = "deactivate" => \A q \in Request : ~HoldsUser(q, tx[r].user)
    /\ Revoke(r, {t \in rows : record[t].owner = tx[r].user}, None)

\* (A deletion updates the memberships and the shop first.)
RevokeShop(r) ==
    /\ At(r, "revokeShop")
    /\ \A q \in Request : ~HoldsShop(q, tx[r].shop)
    /\ Revoke(r, {t \in rows : record[t].shop = tx[r].shop}, None)

\* History: what the request ends when it commits, and what of it was issued
\* after its UPDATE.
Ended(r, t) ==
    CASE tx[r].kind = "deactivate" -> IF record[t].owner = tx[r].user THEN {"account"} ELSE {}
      [] tx[r].kind = "deleteShop" -> IF record[t].shop = tx[r].shop THEN {"shop"} ELSE {}
      [] OTHER -> IF tx[r].family # None /\ record[t].family = tx[r].family
                  THEN {"family"} ELSE {}
Missed(r) == UNION {Ended(r, t) \X {t} : t \in rows \ tx[r].saw}

Commit(r) ==
    /\ At(r, "end")
    /\ rows' = rows \ tx[r].pruning
    /\ revoked' = (revoked \cup tx[r].revoking) \cap rows'
    /\ expired' = expired \ tx[r].pruning
    /\ account' = IF tx[r].kind = "deactivate"
                   THEN [account EXCEPT ![tx[r].user] = "deactivated"] ELSE account
    /\ shop' = IF tx[r].kind = "deleteShop"
                THEN [shop EXCEPT ![tx[r].shop] = "deleted"] ELSE shop
    /\ member' = IF tx[r].kind = "deleteShop"
                  THEN {m \in member : m[2] # tx[r].shop} ELSE member
    /\ closed' = closed \cup ({tx[r].family} \ {None})
    /\ outlived' = outlived \cup Missed(r)
    /\ End(r)
    /\ UNCHANGED <<admins, record>>

-----------------------------------------------------------------------------
(* Time, and the operators.                                                *)

Expire(t) ==
    /\ t \in rows \ expired
    /\ expired' = expired \cup {t}
    /\ UNCHANGED <<people, rows, record, revoked, history, tx>>

\* Mutant: the flag's name is stored as the state.
SuspendAsInactive(s) ==
    /\ shop[s] = "open"
    /\ shop' = [shop EXCEPT ![s] = "inactive"]
    /\ UNCHANGED <<account, member, admins, tokens, history, tx>>

\* set_shop_active
Suspend(s) ==
    /\ shop[s] = "open"
    /\ shop' = [shop EXCEPT ![s] = "suspended"]
    /\ UNCHANGED <<account, member, admins, tokens, history, tx>>

Reopen(s) ==
    /\ shop[s] = "suspended"
    /\ shop' = [shop EXCEPT ![s] = "open"]
    /\ UNCHANGED <<account, member, admins, tokens, history, tx>>

\* create_admin_account, of the command line.
Promote(u) ==
    /\ u \notin admins
    /\ admins' = admins \cup {u}
    /\ account' = IF account[u] = "none" THEN [account EXCEPT ![u] = "active"] ELSE account
    /\ UNCHANGED <<shop, member, tokens, history, tx>>

\* soft_delete_platform_membership
Demote(u) ==
    /\ u \in admins
    /\ admins' = admins \ {u}
    /\ UNCHANGED <<account, shop, member, tokens, history, tx>>

Read(r) ==
    \/ PresentToRefresh(r) \/ PresentToLogout(r) \/ PresentToSwitch(r) \/ CheckReuse(r)
    \/ CheckAccount(r) \/ CheckOwner(r) \/ ChooseScope(r) \/ CheckScope(r)
    \/ CheckTarget(r) \/ CheckShop(r)

Write(r) ==
    \/ Register(r) \/ Login(r) \/ Refresh(r) \/ SwitchShop(r)
    \/ RevokeFamily(r) \/ RevokeUser(r) \/ RevokeShop(r) \/ Commit(r)

Operate ==
    \/ \E t \in Token : Expire(t)
    \/ \E s \in Shop : Suspend(s) \/ Reopen(s)
    \/ \E u \in User : Promote(u) \/ Demote(u)

Next ==
    \/ \E r \in Request : Begin(r) \/ Read(r) \/ Write(r) \/ Rollback(r)
    \/ Operate

Spec == Init /\ [][Next]_vars

-----------------------------------------------------------------------------
(* Properties.                                                             *)

\* Every variable keeps its shape.
TypeOK ==
    /\ account \in [User -> Accounts]
    /\ shop \in [Shop -> Shops]
    /\ member \in SUBSET (User \X Shop)
    /\ admins \in SUBSET User
    /\ rows \in SUBSET Token
    /\ record \in [Token -> Records]
    /\ revoked \in SUBSET Token
    /\ expired \in SUBSET Token
    /\ closed \in SUBSET Token
    /\ outlived \in SUBSET (Ends \X Token)
    /\ tx \in [Request -> Transactions]

\* A request that starts when its session has ended (its token was rotated,
\* revoked or pruned, or has expired, its account was deactivated, its shop
\* was deleted) never gets a new token, whatever the requests beside it do.
EndedSessionsStayEnded ==
    [][\A r \in Request :
          At(r, "issue") /\ tx[r].late /\ ~At(r, "issue")' => rows' \subseteq rows]_vars

\* Rotation and the switch of shops replace the live token of a family.  A
\* family has two only if two requests got one each for the same token; each of
\* them started before the other had revoked it (EndedSessionsStayEnded,
\* RevokedTokensHandNothingOver).
Forked(f) ==
    \E t, u \in Issued : /\ t # u /\ record[t].family = f
                         /\ record[t].from # None /\ record[t].from = record[u].from
OneLiveTokenPerFamily ==
    \A t, u \in Unrevoked :
        t # u /\ record[t].family = record[u].family => Forked(record[t].family)

\* switch_shop: a token that was revoked before the request started hands
\* nothing over, and the new token starts a family of its own.
RevokedTokensHandNothingOver ==
    [][\A r \in Request : At(r, "issue") /\ tx[r].stale /\ ~At(r, "issue")' =>
          \A t \in rows' \ rows : record'[t].family = t]_vars

\* deactivate revokes every session of the account: a deactivated account has
\* no live token but one that was issued after the UPDATE had chosen the rows,
\* by a request that had started before the deactivation was committed.
DeactivationEndsSessions ==
    \A t \in Unrevoked :
        account[record[t].owner] = "deactivated" => <<"account", t>> \in outlived

\* M6: deleting a shop revokes the sessions that work in it, but for one that
\* was issued between the UPDATE and the commit.
DeletionEndsSessions ==
    \A t \in Unrevoked :
        record[t].shop # None /\ shop[record[t].shop] = "deleted"
            => <<"shop", t>> \in outlived

\* Signing out, a token that is presented again after it was revoked, and a lost
\* scope end the whole family, the branches that a race has made included: what
\* lives on was issued after the UPDATE, by a request that had started before
\* the commit, or in the place of such a token.
FamiliesEndWhole ==
    \A t \in Unrevoked : record[t].family \in closed => <<"family", t>> \in outlived

\* The same without the exception, as logout and refresh of auth_service.py say
\* it: the whole family is revoked, "and the thief's copy dies with it".
EndedFamiliesHoldNothing == \A t \in Unrevoked : record[t].family \notin closed

\* One transaction: an account registered with a shop is its member, a live
\* shop always has a member, a deleted one has none.
ShopsHaveMembers ==
    \A s \in Shop : shop[s] \in {"open", "suspended"} <=> \E u \in User : <<u, s>> \in member
=============================================================================

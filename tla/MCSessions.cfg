\* Two requests at a time, one account, one shop and two refresh tokens: a
\* rotation, a switch, a sign-out or a deactivation meets another request on the
\* token.  (A registration without a shop opens a storefront session.)
SPECIFICATION Spec
CONSTANTS
    User = {u1}
    Shop = {s1}
    Audience = {"cms", "admin"}
    Token = {t1, t2}
    Request = {r1, r2}
    None = None
SYMMETRY MCSymmetry
INVARIANTS TypeOK DeactivationEndsSessions DeletionEndsSessions FamiliesEndWhole
INVARIANT OneLiveTokenPerFamily
PROPERTIES EndedSessionsStayEnded RevokedTokensHandNothingOver

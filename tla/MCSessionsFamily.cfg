\* Two requests at a time: a family is ended while one of its tokens is rotated.
SPECIFICATION Spec
CONSTANTS
    User = {u1}
    Shop = {}
    Audience = {"storefront"}
    Token = {t1, t2}
    Request = {r1, r2}
    None = None
SYMMETRY MCSymmetry
INVARIANT EndedFamiliesHoldNothing

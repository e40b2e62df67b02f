\* Two requests at a time: one product with two variants of up to two options,
\* and one attribute that staff attach, flag and detach meanwhile.
SPECIFICATION Spec
CONSTANTS
    Product = {p1}
    Variant = {v1, v2}
    Attribute = {a1}
    Select = {a1}
    Option = {o1, o2}
    Request = {r1, r2}
    None = None
SYMMETRY MCSymmetry
INVARIANTS TypeOK ActiveSells OneVariationSet NoOrphanVariant
PROPERTY DeletedRowsAreKept

\* Two requests at a time: a seller writes a value for the attribute that a
\* member of the staff is turning into a variation.
SPECIFICATION Spec
CONSTANTS
    Product = {p1}
    Variant = {v1, v2}
    Attribute = {a1}
    Select = {a1}
    Option = {o1, o2}
    Request = {r1, r2}
    None = None
SYMMETRY MCSymmetry
INVARIANT NoVariationValue

\* One request at a time: a variant of a product that the staff have made
\* stale, by requiring a second attribute, is deleted.
SPECIFICATION Spec
CONSTANTS
    Product = {p1}
    Variant = {v1, v2}
    Attribute = {a1, a2}
    Select = {a1}
    Option = {o1, o2}
    Request = {r1}
    None = None
SYMMETRY MCSymmetry
PROPERTY EditsKeepTheRules

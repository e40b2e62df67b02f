\* Two requests at a time; a SELECT and another attribute, or two brands.
SPECIFICATION Spec
CONSTANTS
    n1 = n1
    n2 = n2
    Attribute = {a1, a2}
    Select = {a1}
    Option = {o1, o2}
    Brand = {b1, b2}
    Key = {k1}
    Name = {n1, n2}
    Fold <- MCFold
    Product = {p1}
    Variant = {v1}
    Request = {q1, q2}
    None = None
    Together = FALSE
SYMMETRY MCSymmetry
INVARIANTS TypeOK NoDanglingReference ValuesMatchTheirType NamesAreUnique
PROPERTY OnlyRacesFail

\* Two requests at a time, of sellers or of staff but not one of each: one
\* product with two variants and one attribute, required or not, of products
\* or of variants.
SPECIFICATION Spec
CONSTANTS
    Product = {p1}
    Variant = {v1, v2}
    Attribute = {a1}
    Select = {a1}
    Option = {o1, o2}
    Request = {r1, r2}
    None = None
SYMMETRY MCSymmetry
CONSTRAINT Apart
INVARIANT ValuesFollowConfiguration
PROPERTIES SavesKeepTheRules NeverPushedOut ImplementsListing

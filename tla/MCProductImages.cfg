\* Two requests at a time, three images, one variant: the product's own list may
\* hold all of them, the variant's list one, so that both limits are met.
SPECIFICATION Spec
CONSTANTS
    Variant = {v1}
    Own = Own
    Image = {i1, i2, i3}
    ProductImagesMax = 3
    VariantImagesMax = 1
    Request = {r1, r2}
    None = None
SYMMETRY MCSymmetry
INVARIANTS TypeOK DensePositions WithinLimits OnlyLiveScopes NoRowWithoutFile NoSilentOrphan
PROPERTY ImplementsImageLists

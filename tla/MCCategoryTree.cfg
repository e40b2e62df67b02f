\* Two requests at a time over four categories, three levels deep at most: the
\* cycle check decides some moves and the depth check others.
SPECIFICATION Spec
CONSTANTS
    Category = {c1, c2, c3, c4}
    Request = {r1, r2}
    Root = Root
    MaxDepth = 3
SYMMETRY MCSymmetry
INVARIANTS TypeOK LeafOnly NoDanglingRow ChecksStillHold
INVARIANTS AcyclicUntilMovesCross DepthBoundedUntilMovesCross
PROPERTY ImplementsRules

\* Two moves at a time over four categories: the smallest tree in which each
\* move passes its own check and the two together close a loop.
SPECIFICATION Spec
CONSTANTS
    Category = {c1, c2, c3, c4}
    Request = {r1, r2}
    Root = Root
    MaxDepth = 4
SYMMETRY MCSymmetry
INVARIANT Acyclic

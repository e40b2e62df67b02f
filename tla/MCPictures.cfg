\* Two requests at a time from one address, two pictures, two attempts let
\* through in a window of two ticks.
SPECIFICATION FairSpec
CONSTANTS
    Host = {h1}
    Limit = 2
    Window = 2
    Request = {r1, r2}
    Digest = {d1, d2}
    None = None
INVARIANTS TypeOK KeyHasFile WithinLimit CounterEnds
PROPERTY ServedAgain

CONSTANTS
    p1 = p1
    p2 = p2
    p3 = p3
    Pre = Pre
    Posters = {p1}
    Settled = FALSE
    PreMayFail = FALSE
    FdsMayFail = FALSE
SPECIFICATION Spec
INVARIANT StopWaits

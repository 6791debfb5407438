CONSTANTS
    p1 = p1
    p2 = p2
    p3 = p3
    Pre = Pre
    Posters = {p1, p2, p3}
    Settled = TRUE
    PreMayFail = FALSE
    FdsMayFail = FALSE
SPECIFICATION LiveSpec
INVARIANTS NoCrash StopWaits
PROPERTIES LifeCycle LoopServesAll

SPECIFICATION EngineSpec
CONSTANTS
    Creature = {a, b}
    GraphId = {g1, g2, g3}
    NoGraph = NoGraph
    MaxStarts = 2
SYMMETRY Symmetry
CHECK_DEADLOCK FALSE
INVARIANTS
    BooksAgree
    EnvironmentsFollowGraphs
    WhollyUpOrDown
PROPERTIES
    ShutdownLeavesNobody

SPECIFICATION SessionSpec
CONSTANTS
    Creature = {a, b, c}
    GraphId = {g1, g2, g3}
    NoGraph = NoGraph
    NoStore = NoStore
    MaxEvents = 1
    MaxCopies = 1
SYMMETRY Symmetry
CHECK_DEADLOCK FALSE
INVARIANTS
    OneGraphOneStore
    

    

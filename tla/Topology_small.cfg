SPECIFICATION Spec
CONSTANTS
    Creature = {a, b, c}
    Channel = {x, y}
    GraphId = {g1, g2, g3}
    NoGraph = NoGraph
SYMMETRY Symmetry
INVARIANTS
    TypeOK
    IndexConsistent
    EdgesDeclared
PROPERTIES
    NoAliasing
    SharersStayTogether
    SplitIsClean
    ImplementsWiring
    ImplementsPartition

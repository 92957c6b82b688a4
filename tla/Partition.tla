----------------------------- MODULE Partition -----------------------------
(***************************************************************************)
(* What the rest of the engine sees of the topology: creatures come into a *)
(* graph and leave it, a graph is merged into another, a graph falls apart *)
(* and one of the pieces keeps its id.  Why it does, its channels and its   *)
(* edges, is the matter of Topology, which implements this specification;  *)
(* the books the engine keeps about graphs extend it.                      *)
(***************************************************************************)
CONSTANTS
    Creature,
    GraphId,
    NoGraph     \* a creature that is in no graph

ASSUME NoGraphIsNoGraphId == NoGraph \notin GraphId

VARIABLES
    graphs,     \* the ids of the graphs there are
    graphOf     \* the graph every creature is in

partition == <<graphs, graphOf>>

PartitionInit ==
    /\ graphs = {}
    /\ graphOf = [c \in Creature |-> NoGraph]

In(g) == {c \in Creature : graphOf[c] = g}

NewGraph(g) ==
    /\ g \in GraphId \ graphs
    /\ graphs' = graphs \cup {g}
    /\ UNCHANGED graphOf

Join(c, g) ==
    /\ graphOf[c] = NoGraph
    /\ g \in GraphId
    /\ graphs' = graphs \cup {g}
    /\ graphOf' = [graphOf EXCEPT ![c] = g]

\* The creatures M of graph g are distributed over g and graphs that are new;
\* somebody stays in g.
Rehomed(g, M, base) ==
    \E home \in [M -> {g} \cup (GraphId \ graphs)] :
        /\ M # {} => \E c \in M : home[c] = g
        /\ graphs' = graphs \cup {home[c] : c \in M}
        /\ graphOf' = [c \in Creature |-> IF c \in M THEN home[c] ELSE base[c]]

Split(g) ==
    /\ g \in graphs
    /\ Rehomed(g, In(g), graphOf)

\* The last creature takes its graph along.
Leave(c) ==
    LET g == graphOf[c]
        M == In(g) \ {c}
        without == [graphOf EXCEPT ![c] = NoGraph]
    IN  /\ g # NoGraph
        /\ \/ /\ M = {}
              /\ graphs' = graphs \ {g}
              /\ graphOf' = without
           \/ /\ M # {}
              /\ Rehomed(g, M, without)

\* Graph b is merged into graph a.
Merge(a, b) ==
    /\ a \in graphs /\ b \in graphs
    /\ a # b
    /\ graphs' = graphs \ {b}
    /\ graphOf' = [c \in Creature |-> IF graphOf[c] = b THEN a ELSE graphOf[c]]

PartitionNext ==
    \/ \E g \in GraphId : NewGraph(g) \/ Split(g) \/ \E c \in Creature : Join(c, g)
    \/ \E c \in Creature : Leave(c)
    \/ \E a, b \in GraphId : Merge(a, b)

PartitionSpec == PartitionInit /\ [][PartitionNext]_partition

PartitionTypeOK ==
    /\ graphs \subseteq GraphId
    /\ graphOf \in [Creature -> graphs \cup {NoGraph}]
=============================================================================

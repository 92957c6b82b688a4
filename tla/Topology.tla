------------------------------ MODULE Topology ------------------------------
(***************************************************************************)
(* The topology of the Terrarium engine (terrarium/topology.py): which     *)
(* graph every creature is in, which channels each graph declares, who     *)
(* listens and who sends on them.  The functions of the module run to      *)
(* completion without an await, so each one is one action.  Every caller   *)
(* that mutates the state is here: the engine's connect, disconnect,       *)
(* add/remove operations, ensure_same_graph (a merge without a channel),   *)
(* a recipe's empty graph, and the group_channel tool's one-sided unwire,  *)
(* which toggles an edge and re-normalises.                                *)
(*                                                                         *)
(* A call that raises (an unknown id, a duplicate, a channel collision)    *)
(* leaves the state as it was; it is the absence of a step.                *)
(***************************************************************************)
EXTENDS Naturals, FiniteSets

CONSTANTS
    Creature,   \* creature ids
    Channel,    \* channel names, unique inside one graph only
    GraphId,    \* what new_graph_id mints
    NoGraph     \* a creature that is in no graph

ASSUME CreatureAssumption == IsFiniteSet(Creature)
ASSUME NoGraphAssumption  == NoGraph \notin GraphId

VARIABLES
    graphs,     \* the keys of TopologyState.graphs
    creatures,  \* GraphTopology.creature_ids, per graph
    channels,   \* GraphTopology.channels, per graph
    listen,     \* GraphTopology.listen_edges, per graph and creature
    send,       \* GraphTopology.send_edges, per graph and creature
    graphOf     \* TopologyState.creature_to_graph

vars == <<graphs, creatures, channels, listen, send, graphOf>>

NoEdges == [c \in Creature |-> {}]

\* Mutant of FreshIds: the empty id is handed out too.
FreshIdsOrNone == (GraphId \cup {NoGraph}) \ graphs

\* A graph id that is not in use: uuid4 never repeats, and the topology keeps
\* no reference to a dropped graph, so an id may be taken again once dropped.
FreshIds == GraphId \ graphs

Init ==
    /\ graphs = {}
    /\ creatures = [g \in GraphId |-> {}]
    /\ channels = [g \in GraphId |-> {}]
    /\ listen = [g \in GraphId |-> NoEdges]
    /\ send = [g \in GraphId |-> NoEdges]
    /\ graphOf = [c \in Creature |-> NoGraph]

-----------------------------------------------------------------------------
(* Connected components.                                                   *)

\* The channels the edges of the creatures in C mention.
ChannelsUsedBy(C, ls, sn) == UNION {ls[c] \cup sn[c] : c \in C}

\* Mutant of Closed: only listeners count as attached.
ClosedByListen(M, chs, ls, sn, S) ==
    ChannelsUsedBy(S, ls, NoEdges) \cap ChannelsUsedBy(M \ S, ls, NoEdges) \cap chs = {}

\* No declared channel has an edge both from inside S and from the rest of M.
Closed(M, chs, ls, sn, S) ==
    ChannelsUsedBy(S, ls, sn) \cap ChannelsUsedBy(M \ S, ls, sn) \cap chs = {}

\* One component per creature: what the search started there visits, the least
\* closed set it is in.
find_components(M, chs, ls, sn) ==
    LET closed == {S \in SUBSET M : Closed(M, chs, ls, sn, S)}
    IN  {{b \in M : \A S \in closed : a \in S => b \in S} : a \in M}

Only(C, edges) == [c \in Creature |-> IF c \in C THEN edges[c] ELSE {}]

-----------------------------------------------------------------------------
(* _normalize_components, called last by every operation that removes      *)
(* something from graph g, whose contents are then M, chs, ls, sn.         *)

\* Mutant of Homes: whatever does not stay in g moves out in one piece.
HomesInTwo(g, M, chs, ls, sn) ==
    LET comps == find_components(M, chs, ls, sn)
    IN  {home \in [M -> {g} \cup FreshIds] :
            \E keep \in comps, x \in FreshIds :
               \A a \in M : home[a] = IF a \in keep THEN g ELSE x}

\* Mutant of Homes: nobody has to stay in g.
HomesElsewhere(g, M, chs, ls, sn) ==
    LET comps == find_components(M, chs, ls, sn)
    IN  {home \in [M -> {g} \cup FreshIds] :
            \A a, b \in M : home[a] = home[b] <=> \E C \in comps : {a, b} \subseteq C}

\* The ways to place the creatures: one graph per component, a largest component
\* stays in g (ties fall as the set's iteration order has them), the others get
\* fresh ids.  In one piece everybody stays.
Homes(g, M, chs, ls, sn) ==
    LET comps == find_components(M, chs, ls, sn)
    IN  {home \in [M -> {g} \cup FreshIds] :
            /\ \A a, b \in M : home[a] = home[b] <=> \E C \in comps : {a, b} \subseteq C
            /\ \A keep \in comps : (\A a \in keep : home[a] = g) =>
                  \A C \in comps : Cardinality(C) <= Cardinality(keep)
            /\ M # {} => \E a \in M : home[a] = g}

\* base is creature_to_graph after the caller's own change to it.  A channel
\* nobody uses is dropped by a split, and kept as long as the graph is whole.
Normalize(g, M, chs, ls, sn, base) ==
    \E home \in Homes(g, M, chs, ls, sn) :
        LET part(x) == {c \in M : home[c] = x}
            touched == {g} \cup {home[c] : c \in M}
        IN  /\ graphs' = graphs \cup touched
            /\ creatures' = [x \in GraphId |->
                   IF x \in touched THEN part(x) ELSE creatures[x]]
            /\ channels' = [x \in GraphId |->
                   IF touched = {g} /\ x = g THEN chs
                   ELSE IF x \in touched THEN chs \cap ChannelsUsedBy(part(x), ls, sn)
                   ELSE channels[x]]
            /\ listen' = [x \in GraphId |->
                   IF x \in touched THEN Only(part(x), ls) ELSE listen[x]]
            /\ send' = [x \in GraphId |->
                   IF x \in touched THEN Only(part(x), sn) ELSE send[x]]
            /\ graphOf' = [c \in Creature |-> IF c \in M THEN home[c] ELSE base[c]]

-----------------------------------------------------------------------------
(* Operations.                                                             *)

AddCreatureNew(c) ==
    /\ graphOf[c] = NoGraph
    /\ \E g \in FreshIds :
          /\ graphs' = graphs \cup {g}
          /\ creatures' = [creatures EXCEPT ![g] = {c}]
          /\ graphOf' = [graphOf EXCEPT ![c] = g]
    /\ UNCHANGED <<channels, listen, send>>

AddCreatureTo(c, g) ==
    /\ graphOf[c] = NoGraph
    /\ g \in graphs
    /\ creatures' = [creatures EXCEPT ![g] = @ \cup {c}]
    /\ graphOf' = [graphOf EXCEPT ![c] = g]
    /\ UNCHANGED <<graphs, channels, listen, send>>

\* apply_recipe mints its graph before it has a creature to put in it.
NewEmptyGraph ==
    /\ \E g \in FreshIds : graphs' = graphs \cup {g}
    /\ UNCHANGED <<creatures, channels, listen, send, graphOf>>

RemoveCreature(c) ==
    LET g    == graphOf[c]
        rest == creatures[g] \ {c}
    IN  /\ g # NoGraph
        /\ \/ /\ rest = {}
              /\ graphs' = graphs \ {g}
              /\ creatures' = [creatures EXCEPT ![g] = {}]
              /\ channels' = [channels EXCEPT ![g] = {}]
              /\ listen' = [listen EXCEPT ![g] = NoEdges]
              /\ send' = [send EXCEPT ![g] = NoEdges]
              /\ graphOf' = [graphOf EXCEPT ![c] = NoGraph]
           \/ /\ rest # {}
              /\ Normalize(g, rest, channels[g],
                           [listen[g] EXCEPT ![c] = {}],
                           [send[g] EXCEPT ![c] = {}],
                           [graphOf EXCEPT ![c] = NoGraph])

AddChannel(g, n) ==
    /\ g \in graphs
    /\ n \notin channels[g]
    /\ channels' = [channels EXCEPT ![g] = @ \cup {n}]
    /\ UNCHANGED <<graphs, creatures, listen, send, graphOf>>

\* Mutant of RemoveChannel: the listeners keep their edge.
RemoveChannelKeepingListeners(g, n) ==
    /\ g \in graphs
    /\ n \in channels[g]
    /\ Normalize(g, creatures[g], channels[g] \ {n}, listen[g],
                 [c \in Creature |-> send[g][c] \ {n}], graphOf)

RemoveChannel(g, n) ==
    /\ g \in graphs
    /\ n \in channels[g]
    /\ Normalize(g, creatures[g], channels[g] \ {n},
                 [c \in Creature |-> listen[g][c] \ {n}],
                 [c \in Creature |-> send[g][c] \ {n}],
                 graphOf)

Toggled(edges, c, n, on) ==
    [edges EXCEPT ![c] = IF on THEN @ \cup {n} ELSE @ \ {n}]

\* set_listen and set_send alone: no component check follows.
SetListen(c, n, on) ==
    LET g == graphOf[c]
    IN  /\ g # NoGraph
        /\ n \in channels[g]
        /\ listen' = [listen EXCEPT ![g] = Toggled(@, c, n, on)]
        /\ UNCHANGED <<graphs, creatures, channels, send, graphOf>>

SetSend(c, n, on) ==
    LET g == graphOf[c]
    IN  /\ g # NoGraph
        /\ n \in channels[g]
        /\ send' = [send EXCEPT ![g] = Toggled(@, c, n, on)]
        /\ UNCHANGED <<graphs, creatures, channels, listen, graphOf>>

\* group_channel(action="unwire"): one direction of an edge, then the check.
Unwire(c, n, side) ==
    LET g == graphOf[c]
    IN  /\ g # NoGraph
        /\ n \in channels[g]
        /\ Normalize(g, creatures[g], channels[g],
               IF side = "listen" THEN Toggled(listen[g], c, n, FALSE) ELSE listen[g],
               IF side = "send"   THEN Toggled(send[g], c, n, FALSE)   ELSE send[g],
               graphOf)

\* Mutant of Mergeable: no collision check.
MergeableAlways(a, b) == TRUE

Mergeable(a, b) == a # b => channels[a] \cap channels[b] = {}

\* Mutant of MergedEdges: the edges of the dropped graph are not copied.
MergedEdgesOfOne(field, a, b) ==
    [x \in GraphId |-> IF a # b /\ x = b THEN NoEdges ELSE field[x]]

\* What graph a holds of field once b has been merged into it; a = b changes
\* nothing, and the dropped graph keeps nothing.
MergedEdges(field, a, b) ==
    [x \in GraphId |->
        IF x = a THEN [c \in Creature |-> field[a][c] \cup field[b][c]]
        ELSE IF x = b THEN NoEdges ELSE field[x]]

MergedSets(field, a, b) ==
    [x \in GraphId |-> IF x = a THEN field[a] \cup field[b]
                       ELSE IF x = b THEN {} ELSE field[x]]

\* Mutant of MergeGraphs: the reverse index still points at the dropped graph.
MergeGraphsStaleIndex(a, b, extra, ls, sn) ==
    /\ Mergeable(a, b)
    /\ graphs' = IF a = b THEN graphs ELSE graphs \ {b}
    /\ creatures' = MergedSets(creatures, a, b)
    /\ channels' = [MergedSets(channels, a, b) EXCEPT ![a] = @ \cup extra]
    /\ listen' = ls
    /\ send' = sn
    /\ UNCHANGED graphOf

MergeGraphs(a, b, extra, ls, sn) ==
    /\ Mergeable(a, b)
    /\ graphs' = IF a = b THEN graphs ELSE graphs \ {b}
    /\ creatures' = MergedSets(creatures, a, b)
    /\ channels' = [MergedSets(channels, a, b) EXCEPT ![a] = @ \cup extra]
    /\ listen' = ls
    /\ send' = sn
    /\ graphOf' = [c \in Creature |-> IF graphOf[c] = b THEN a ELSE graphOf[c]]

\* n is the name given, or a uuid-bearing one that no graph declares.
Connect(s, r, n) ==
    LET a == graphOf[s]
        b == graphOf[r]
    IN  /\ a # NoGraph
        /\ b # NoGraph
        /\ MergeGraphs(a, b, {n},
               [MergedEdges(listen, a, b) EXCEPT ![a] = Toggled(@, r, n, TRUE)],
               [MergedEdges(send, a, b) EXCEPT ![a] = Toggled(@, s, n, TRUE)])

EnsureSameGraph(x, y) ==
    LET a == graphOf[x]
        b == graphOf[y]
    IN  /\ a # NoGraph
        /\ b # NoGraph
        /\ a # b
        /\ MergeGraphs(a, b, {}, MergedEdges(listen, a, b), MergedEdges(send, a, b))

\* Without a channel every channel s sends on and r listens to is unwired.
DisconnectTargets(s, r, named) ==
    IF named = {} THEN send[graphOf[s]][s] \cap listen[graphOf[s]][r]
                  ELSE named \cap channels[graphOf[s]]

Disconnect(s, r, named) ==
    LET g == graphOf[s]
        T == DisconnectTargets(s, r, named)
    IN  /\ g # NoGraph
        /\ graphOf[r] = g
        /\ Normalize(g, creatures[g], channels[g],
                     [listen[g] EXCEPT ![r] = @ \ T],
                     [send[g] EXCEPT ![s] = @ \ T],
                     graphOf)

Next ==
    \/ \E c \in Creature :
          \/ AddCreatureNew(c)
          \/ RemoveCreature(c)
          \/ \E g \in GraphId : AddCreatureTo(c, g)
    \/ NewEmptyGraph
    \/ \E g \in GraphId, n \in Channel : AddChannel(g, n) \/ RemoveChannel(g, n)
    \/ \E c \in Creature, n \in Channel :
          \/ \E on \in BOOLEAN : SetListen(c, n, on) \/ SetSend(c, n, on)
          \/ \E side \in {"listen", "send"} : Unwire(c, n, side)
    \/ \E s, r \in Creature :
          \/ \E n \in Channel : Connect(s, r, n)
          \/ EnsureSameGraph(s, r)
          \/ \E named \in {{}} \cup {{n} : n \in Channel} : Disconnect(s, r, named)

Spec == Init /\ [][Next]_vars

-----------------------------------------------------------------------------
(* Properties.                                                             *)

\* Every table has its shape.
TypeOK ==
    /\ graphs \subseteq GraphId
    /\ creatures \in [GraphId -> SUBSET Creature]
    /\ channels \in [GraphId -> SUBSET Channel]
    /\ listen \in [GraphId -> [Creature -> SUBSET Channel]]
    /\ send \in [GraphId -> [Creature -> SUBSET Channel]]
    /\ graphOf \in [Creature -> GraphId \cup {NoGraph}]

\* The reverse index creature_to_graph and the creature_ids of the graphs say
\* the same thing after any history of merges and splits: no creature is in two
\* graphs, in a dropped graph, or lost by a split.
IndexConsistent ==
    /\ \A c \in Creature, g \in GraphId : c \in creatures[g] <=> graphOf[c] = g
    /\ \A g \in GraphId \ graphs : creatures[g] = {} /\ channels[g] = {}

\* An edge is always of a creature of its graph and names a channel the graph
\* declares; otherwise find_components raises KeyError on the foreign id, and
\* the wiring code looks up a channel that is not there.
EdgesDeclared ==
    \A g \in GraphId, c \in Creature :
        /\ listen[g][c] \cup send[g][c] \subseteq channels[g]
        /\ c \notin creatures[g] => listen[g][c] \cup send[g][c] = {}

\* What a creature hears and says, whichever graph it is in.
Hears(c) == IF graphOf[c] = NoGraph THEN {} ELSE listen[graphOf[c]][c]
Says(c)  == IF graphOf[c] = NoGraph THEN {} ELSE send[graphOf[c]][c]
Attached(c) == Hears(c) \cup Says(c)

Together(c, d) == graphOf[c] = graphOf[d] /\ graphOf[c] # NoGraph

\* Names are scoped by graph.  Two creatures attached to equally named channels
\* of different graphs never find themselves on one channel because the graphs
\* merged around them (the collision check of _merge_graphs): a step that joins
\* the graphs is not one that leaves both on that name.
NoAliasing ==
    [][\A c, d \in Creature :
          (/\ Attached(c) \cap Attached(d) # {}
           /\ graphOf[c] # graphOf[d])
          => ~ Together(c, d)']_vars

\* Two creatures that share a channel before and after a step stay together: no
\* split, however many pieces it makes, cuts through a channel in use.
SharersStayTogether ==
    [][\A c, d \in Creature :
          (/\ Together(c, d)
           /\ Attached(c) \cap Attached(d) \cap Attached(c)' \cap Attached(d)' # {})
          => Together(c, d)']_vars

GraphConnected(g) ==
    find_components(creatures[g], channels[g], listen[g], send[g])
        \subseteq {creatures[g]}

CleanlyApart(c, d) ==
    /\ channels[graphOf[c]] \cap channels[graphOf[d]] = {}
    /\ GraphConnected(graphOf[c])

\* When a graph falls apart, its pieces are connected, each within its own
\* channels, and no name is left in two of them: the next connect between any
\* two of the pieces cannot be refused for a collision.
SplitIsClean ==
    [][\A c, d \in Creature :
          (/\ Together(c, d)
           /\ graphOf[c]' # NoGraph /\ graphOf[d]' # NoGraph
           /\ ~ Together(c, d)')
          => CleanlyApart(c, d)']_vars

\* Merging and splitting graphs, minting and dropping them, is invisible to a
\* creature: its own edges change only as Wiring says.
Wired == INSTANCE Wiring WITH
    present <- {c \in Creature : graphOf[c] # NoGraph},
    hears <- [c \in Creature |-> Hears(c)],
    says <- [c \in Creature |-> Says(c)]

ImplementsWiring == Wired!Spec

\* To the rest of the engine the topology is a partition of the creatures: the
\* index and the set of graphs change as Partition says, whatever the channels,
\* and whoever remains of a graph remains under its id.
Grouped == INSTANCE Partition

ImplementsPartition == Grouped!PartitionSpec

\* What the documentation promises at all times: the creatures of a graph are
\* connected through channels.
GraphIsComponent ==
    \A g \in graphs : GraphConnected(g)
=============================================================================

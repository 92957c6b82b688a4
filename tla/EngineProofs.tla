---------------------------- MODULE EngineProofs ----------------------------
(***************************************************************************)
(* The engine's books follow the graphs, for any creatures, graph ids and  *)
(* number of starts.  What could break them is a removal, which uses a     *)
(* graph id it read before it awaited the stop: the invariant says when    *)
(* that id is still the right one.                                         *)
(***************************************************************************)
EXTENDS Engine, TLAPS

BookTypes ==
    /\ PartitionTypeOK
    /\ table \subseteq born
    /\ {graph_id, bound, leaving} \subseteq [Creature -> GraphId \cup {NoGraph}]
    /\ stops \in [Creature -> [Caller -> {"none", "notify", "modules", "reap"}]]
    /\ raced \in BOOLEAN

\* A removal that awaits the stop is of a creature that was added, and has its
\* graph id right unless somebody raced it.
ReadsAreCurrent == \A c \in Creature : stops[c]["remove"] # "none" =>
    /\ c \in born
    /\ ~ raced => leaving[c] = graphOf[c]

Books ==
    /\ BookTypes
    /\ BooksAgree
    /\ EnvironmentsFollowGraphs
    /\ ReadsAreCurrent

USE NoGraphIsNoGraphId

-----------------------------------------------------------------------------
(* What a split and a departure do to the creatures of a graph and leave   *)
(* alone elsewhere.                                                        *)

LEMMA RehomedKeepsTypes ==
    ASSUME PartitionTypeOK, NEW g \in GraphId, NEW M \in SUBSET Creature,
           NEW base \in [Creature -> GraphId \cup {NoGraph}], Rehomed(g, M, base),
           M # {} \/ g \in graphs,
           \A c \in Creature \ M : base[c] \in graphs \cup {NoGraph}
    PROVE  /\ PartitionTypeOK'
           /\ graphs \subseteq graphs'
           /\ graphOf' \in [Creature -> GraphId \cup {NoGraph}]
           /\ \A c \in M : graphOf'[c] \in GraphId /\ graphOf'[c] \in {g} \cup (graphs' \ graphs)
           /\ \A c \in Creature \ M : graphOf'[c] = base[c]
           /\ graphs' \ graphs = {} /\ g \in graphs => \A c \in M : graphOf'[c] = g
<1>1. PICK home \in [M -> {g} \cup (GraphId \ graphs)] :
          /\ graphs' = graphs \cup {home[c] : c \in M}
          /\ graphOf' = [c \in Creature |-> IF c \in M THEN home[c] ELSE base[c]]
  BY DEF Rehomed
<1>2. \A c \in M : /\ home[c] \in GraphId /\ home[c] \in graphs'
                   /\ home[c] \in {g} \cup (graphs' \ graphs)
  BY <1>1
<1>3. graphs \subseteq graphs' /\ graphs' \subseteq GraphId
  BY <1>1, <1>2 DEF PartitionTypeOK
<1>4. graphOf' \in [Creature -> graphs' \cup {NoGraph}]
  BY <1>1, <1>2, <1>3
<1>5. graphs' \ graphs = {} /\ g \in graphs => \A c \in M : graphOf'[c] = g
  BY <1>1, <1>2
<1> QED BY <1>1, <1>2, <1>3, <1>4, <1>5 DEF PartitionTypeOK

\* A split: nobody outside the graph is touched, and nobody leaves.
LEMMA SplitMoves ==
    ASSUME PartitionTypeOK, NEW g \in GraphId, Split(g)
    PROVE  /\ PartitionTypeOK'
           /\ graphs \subseteq graphs'
           /\ \A c \in Creature : graphOf[c] = g =>
                 graphOf'[c] \in GraphId /\ graphOf'[c] \in {g} \cup (graphs' \ graphs)
           /\ \A c \in Creature : graphOf[c] # g => graphOf'[c] = graphOf[c]
           /\ graphs' \ graphs = {} => graphOf' = graphOf
<1>1. /\ PartitionTypeOK'
      /\ graphs \subseteq graphs'
      /\ graphOf' \in [Creature -> GraphId \cup {NoGraph}]
      /\ \A c \in In(g) : graphOf'[c] \in GraphId /\ graphOf'[c] \in {g} \cup (graphs' \ graphs)
      /\ \A c \in Creature \ In(g) : graphOf'[c] = graphOf[c]
      /\ graphs' \ graphs = {} => \A c \in In(g) : graphOf'[c] = g
  <2>1. graphOf \in [Creature -> GraphId \cup {NoGraph}]
    BY DEF PartitionTypeOK
  <2>2. \A c \in Creature \ In(g) : graphOf[c] \in graphs \cup {NoGraph}
    BY DEF PartitionTypeOK
  <2>3. In(g) \in SUBSET Creature
    BY DEF In
  <2>4. Rehomed(g, In(g), graphOf) /\ g \in graphs
    BY DEF Split
  <2> QED BY ONLY <2>1, <2>2, <2>3, <2>4, RehomedKeepsTypes, PartitionTypeOK, g \in GraphId
<1>2. graphs' \ graphs = {} => graphOf' = graphOf
  BY <1>1 DEF In, PartitionTypeOK
<1> QED BY <1>1, <1>2 DEF In

\* A creature leaves: of its graph nothing is left, or its others are split.
LEMMA LeaveMoves ==
    ASSUME PartitionTypeOK, NEW c \in Creature, Leave(c)
    PROVE  /\ PartitionTypeOK'
           /\ graphOf[c] \in graphs
           /\ graphOf'[c] = NoGraph
           /\ \A d \in Creature \ {c} :
                 /\ graphOf[d] = graphOf[c] =>
                       graphOf'[d] \in GraphId /\ graphOf'[d] \in {graphOf[c]} \cup (graphs' \ graphs)
                 /\ graphOf[d] # graphOf[c] => graphOf'[d] = graphOf[d]
                 /\ graphs' \ graphs = {} => graphOf'[d] = graphOf[d]
           /\ \/ graphs' = graphs \ {graphOf[c]}
              \/ graphs \subseteq graphs'
<1> DEFINE g == graphOf[c]
           M == In(g) \ {c}
           without == [graphOf EXCEPT ![c] = NoGraph]
<1>1. g \in graphs /\ g \in GraphId /\ g # NoGraph
  BY DEF Leave, PartitionTypeOK
<1>2. CASE M = {} /\ graphs' = graphs \ {g} /\ graphOf' = without
  BY <1>1, <1>2 DEF PartitionTypeOK, In
<1>3. CASE M # {} /\ Rehomed(g, M, without)
  <2>1. /\ without \in [Creature -> GraphId \cup {NoGraph}]
        /\ \A d \in Creature \ M : without[d] \in graphs \cup {NoGraph}
        /\ M \in SUBSET Creature
    BY DEF PartitionTypeOK, In
  <2>2. /\ PartitionTypeOK'
        /\ graphs \subseteq graphs'
        /\ \A d \in M : graphOf'[d] \in GraphId /\ graphOf'[d] \in {g} \cup (graphs' \ graphs)
        /\ \A d \in Creature \ M : graphOf'[d] = without[d]
        /\ graphs' \ graphs = {} => \A d \in M : graphOf'[d] = g
    <3> HIDE DEF without, M, g
    <3> QED BY <1>1, <1>3, <2>1, RehomedKeepsTypes
  <2>3. without[c] = NoGraph /\ \A d \in Creature \ {c} : without[d] = graphOf[d]
    BY DEF PartitionTypeOK
  <2> QED BY <1>1, <2>2, <2>3 DEF In
<1> QED BY <1>2, <1>3 DEF Leave

-----------------------------------------------------------------------------
(* The operations that move creatures.                                     *)

\* Where the reads of the removals go: a move that is not a removal races them.
LEMMA MovesRace ==
    ASSUME Books, Races, BookTypes', born \subseteq born',
           \A c \in Creature : stops'[c]["remove"] # "none" =>
              /\ stops[c]["remove"] # "none"
              /\ leaving'[c] = leaving[c]
    PROVE  ReadsAreCurrent'
BY DEF Books, ReadsAreCurrent, Races

LEMMA MergingKeepsBooks ==
    ASSUME Books, NEW a \in GraphId, NEW b \in GraphId, Merging(a, b)
    PROVE  Books'
<1> USE DEF Books, BookTypes
<1>1. /\ PartitionTypeOK'
      /\ \A c \in Creature : graphOf'[c] = IF graphOf[c] = b THEN a ELSE graphOf[c]
      /\ graphs' = graphs \ {b} /\ a \in graphs
      /\ graphOf' \in [Creature -> GraphId \cup {NoGraph}]
  BY DEF Merging, Merge, PartitionTypeOK
<1>2. BookTypes' /\ UNCHANGED <<born, table, stops, leaving>> /\ Races
  <2>1. UNCHANGED <<born, table, stops, leaving>> /\ Races
    BY DEF Merging
  <2>2. {graph_id', bound'} \subseteq [Creature -> GraphId \cup {NoGraph}]
    BY <1>1 DEF Merging, MergedBindings
  <2>3. raced' \in BOOLEAN
    BY <2>1 DEF Races
  <2> QED BY <1>1, <2>1, <2>2, <2>3
<1>3. BooksAgree'
  BY <1>1, <1>2 DEF Merging, MergedBindings, BooksAgree
<1>4. EnvironmentsFollowGraphs'
  BY <1>1 DEF Merging, Races, EnvironmentsFollowGraphs
<1> QED BY <1>2, <1>3, <1>4, MovesRace

LEMMA BookkeepingKeepsTypes ==
    ASSUME BookTypes, PartitionTypeOK', NEW g, NEW left, NEW kept,
           SplitBookkeeping(g, left, kept)
    PROVE  {graph_id', bound'} \subseteq [Creature -> GraphId \cup {NoGraph}]
<1>1. graphOf' \in [Creature -> GraphId \cup {NoGraph}]
  BY DEF PartitionTypeOK
<1> QED BY <1>1 DEF SplitBookkeeping, BookTypes

LEMMA SplittingKeepsBooks ==
    ASSUME Books, NEW g \in GraphId, Splitting(g)
    PROVE  Books'
<1> USE DEF Books, BookTypes
<1>1. /\ PartitionTypeOK'
      /\ graphs \subseteq graphs'
      /\ \A c \in Creature : graphOf[c] = g => graphOf'[c] \in GraphId
      /\ \A c \in Creature : graphOf[c] # g => graphOf'[c] = graphOf[c]
      /\ graphs' \ graphs = {} => graphOf' = graphOf
  BY SplitMoves DEF Splitting
<1>2. UNCHANGED <<born, table, stops, leaving>> /\ Races /\ SplitBookkeeping(g, table, envs)
  BY DEF Splitting
<1>3. BookTypes'
  BY <1>1, <1>2, BookkeepingKeepsTypes DEF Races
<1>4. BooksAgree'
  BY <1>1, <1>2 DEF SplitBookkeeping, BooksAgree
<1>5. EnvironmentsFollowGraphs'
  BY <1>1, <1>2 DEF SplitBookkeeping, Races, EnvironmentsFollowGraphs
<1> QED BY <1>2, <1>3, <1>4, <1>5, MovesRace

\* The rest of a removal, for what the caller knows of the graph it read.
LEMMA UnregisterKeepsBooks ==
    ASSUME Books, NEW c \in Creature, NEW old, Unregister(c, old),
           ~ raced /\ graphOf[c] # NoGraph => old = graphOf[c],
           stops' \in [Creature -> [Caller -> {"none", "notify", "modules", "reap"}]],
           leaving' \in [Creature -> GraphId \cup {NoGraph}],
           \A d \in Creature : stops'[d]["remove"] # "none" =>
              stops[d]["remove"] # "none" /\ leaving'[d] = leaving[d]
    PROVE  Books'
<1> USE DEF Books, BookTypes
<1>1. CASE Leave(c) /\ graphOf[c] # NoGraph
  <2>1. /\ PartitionTypeOK'
        /\ graphOf[c] \in graphs
        /\ graphOf'[c] = NoGraph
        /\ \A d \in Creature \ {c} :
              /\ graphOf[d] = graphOf[c] => graphOf'[d] \in GraphId
              /\ graphOf[d] # graphOf[c] => graphOf'[d] = graphOf[d]
              /\ graphs' \ graphs = {} => graphOf'[d] = graphOf[d]
        /\ \/ graphs' = graphs \ {graphOf[c]}
           \/ graphs \subseteq graphs'
    BY <1>1, LeaveMoves
  <2>2. /\ table' = table \ {c} /\ born' = born
        /\ SplitBookkeeping(graphOf[c], table \ {c}, envs \ Shed(c, old))
        /\ Races
    BY <1>1 DEF Unregister
  <2>3. BookTypes'
    BY <2>1, <2>2, BookkeepingKeepsTypes DEF Races
  <2>4. BooksAgree'
    <3>1. ASSUME NEW d \in Creature, d # c
          PROVE  /\ d \in table' <=> graphOf'[d] # NoGraph
                 /\ d \in table' => graph_id'[d] = graphOf'[d] /\ bound'[d] = graphOf'[d]
      <4>1. /\ d \in table' <=> d \in table
            /\ d \in table <=> graphOf[d] # NoGraph
            /\ d \in table => graph_id[d] = graphOf[d] /\ bound[d] = graphOf[d]
            /\ graphOf[c] \in GraphId
        BY <2>1, <2>2, <3>1 DEF BooksAgree, PartitionTypeOK
      <4>2. CASE graphOf[d] = graphOf[c]
        BY <2>1, <2>2, <3>1, <4>1, <4>2 DEF SplitBookkeeping
      <4>3. CASE graphOf[d] # graphOf[c]
        BY <2>1, <2>2, <3>1, <4>1, <4>3 DEF SplitBookkeeping
      <4> QED BY <4>2, <4>3
    <3>2. c \notin table' /\ graphOf'[c] = NoGraph
      BY <2>1, <2>2
    <3> QED BY <3>1, <3>2 DEF BooksAgree
  <2>5. EnvironmentsFollowGraphs'
    <3>1. envs' = (envs \ Shed(c, old)) \cup (graphs' \ graphs)
      BY <2>2 DEF SplitBookkeeping
    <3>2. graphs' \subseteq envs'
      BY <2>1, <3>1 DEF Shed, EnvironmentsFollowGraphs
    <3>3. ASSUME ~ raced' PROVE envs' = graphs'
      <4>1. envs = graphs /\ old = graphOf[c]
        BY <1>1, <2>2, <3>3 DEF Races, EnvironmentsFollowGraphs
      <4> QED BY <2>1, <3>1, <4>1 DEF Shed
    <3> QED BY <3>2, <3>3 DEF EnvironmentsFollowGraphs
  <2> QED BY <2>2, <2>3, <2>4, <2>5, MovesRace
<1>2. CASE graphOf[c] = NoGraph /\ UNCHANGED <<partition, books, raced>>
  BY <1>2 DEF partition, books, PartitionTypeOK, BooksAgree, EnvironmentsFollowGraphs,
              ReadsAreCurrent
<1> QED BY <1>1, <1>2 DEF Unregister, Leave

\* A creature is added with everything in the books.
LEMMA AddKeepsBooks ==
    ASSUME Books, NEW c \in Creature, NEW g \in GraphId, NEW start \in BOOLEAN,
           Add(c, g, start)
    PROVE  Books'
<1> USE DEF Books, BookTypes
<1>1. /\ graphOf[c] = NoGraph
      /\ graphs' = graphs \cup {g}
      /\ graphOf' = [graphOf EXCEPT ![c] = g]
      /\ c \notin born
      /\ born' = born \cup {c} /\ table' = table \cup {c}
      /\ graph_id' = [graph_id EXCEPT ![c] = g] /\ bound' = [bound EXCEPT ![c] = g]
      /\ envs' = envs \cup {g}
      /\ UNCHANGED <<stops, leaving, raced>>
  BY DEF Add, Join
<1>2. BookTypes'
  BY <1>1 DEF PartitionTypeOK
<1>3. BooksAgree'
  BY <1>1 DEF PartitionTypeOK, BooksAgree
<1>4. EnvironmentsFollowGraphs'
  BY <1>1 DEF EnvironmentsFollowGraphs
<1>5. ReadsAreCurrent'
  BY <1>1 DEF PartitionTypeOK, ReadsAreCurrent
<1> QED BY <1>2, <1>3, <1>4, <1>5

-----------------------------------------------------------------------------
(* The rest leaves graphs and tables alone.                                *)

\* Starts, stops and the shutdown, as far as the books see them.
LEMMA LifeKeepsBooks ==
    ASSUME Books, UNCHANGED <<partition, books, leaving, raced>>,
           stops' \in [Creature -> [Caller -> {"none", "notify", "modules", "reap"}]],
           \A c \in Creature : stops'[c]["remove"] # "none" => stops[c]["remove"] # "none"
    PROVE  Books'
BY DEF Books, BookTypes, partition, books, PartitionTypeOK, BooksAgree,
       EnvironmentsFollowGraphs, ReadsAreCurrent

LEMMA StopStepKeepsBooks ==
    ASSUME Books, NEW c \in Creature, StopStep(c)
    PROVE  Books'
<1> USE DEF Caller
<1>1. ASSUME NEW w \in Caller, AgentDown(c, w) \/ ModulesDown(c, w) PROVE Books'
  <2>1. /\ UNCHANGED <<partition, books, leaving, raced>>
        /\ stops[c][w] # "none"
        /\ stops' = [stops EXCEPT ![c][w] = "modules"] \/ stops' = [stops EXCEPT ![c][w] = "reap"]
    BY <1>1 DEF AgentDown, ModulesDown
  <2>2. /\ stops' \in [Creature -> [Caller -> {"none", "notify", "modules", "reap"}]]
        /\ \A d \in Creature : stops'[d]["remove"] # "none" => stops[d]["remove"] # "none"
    BY <2>1 DEF Books, BookTypes
  <2> QED BY <2>1, <2>2, LifeKeepsBooks
<1>2. ASSUME NEW w \in Caller, stops' = [stops EXCEPT ![c][w] = "none"]
      PROVE  /\ stops' \in [Creature -> [Caller -> {"none", "notify", "modules", "reap"}]]
             /\ \A d \in Creature : stops'[d]["remove"] # "none" =>
                    stops[d]["remove"] # "none" /\ (w = "remove" => d # c)
  BY <1>2 DEF Books, BookTypes
<1>3. CASE Stopped(c)
  BY <1>2, <1>3, LifeKeepsBooks DEF Stopped, StopReturns
<1>4. CASE Removed(c)
  <2>1. /\ stops[c]["remove"] # "none"
        /\ stops' = [stops EXCEPT ![c]["remove"] = "none"]
        /\ Unregister(c, leaving[c])
        /\ leaving' = [leaving EXCEPT ![c] = NoGraph]
    BY <1>4 DEF Removed, StopReturns
  <2>2. ~ raced => leaving[c] = graphOf[c]
    BY <2>1 DEF Books, ReadsAreCurrent
  <2>3. /\ leaving' \in [Creature -> GraphId \cup {NoGraph}]
        /\ \A d \in Creature \ {c} : leaving'[d] = leaving[d]
    BY <2>1 DEF Books, BookTypes
  <2> QED BY <1>2, <2>1, <2>2, <2>3, UnregisterKeepsBooks
<1> QED BY <1>1, <1>3, <1>4 DEF StopStep

LEMMA RemoveKeepsBooks ==
    ASSUME Books, NEW c \in Creature, Remove(c)
    PROVE  Books'
<1>1. c \in table /\ graph_id[c] = graphOf[c]
  BY DEF Remove, Books, BooksAgree
<1>2. CASE BeginStop(c, "remove") /\ leaving' = [leaving EXCEPT ![c] = graph_id[c]]
           /\ UNCHANGED <<partition, books, raced>>
  <2>1. stops' = [stops EXCEPT ![c]["remove"] = "notify"]
    BY <1>2 DEF BeginStop
  <2> QED BY <1>1, <1>2, <2>1
          DEF Books, BookTypes, partition, books, PartitionTypeOK, BooksAgree,
              EnvironmentsFollowGraphs, ReadsAreCurrent, Caller
<1>3. CASE Unregister(c, graph_id[c]) /\ UNCHANGED <<stops, leaving>>
  BY <1>1, <1>3, UnregisterKeepsBooks DEF Books, BookTypes
<1> QED BY <1>2, <1>3 DEF Remove

\* Every step keeps the books, whoever else is in the middle of whatever.
LEMMA BooksStep == Books /\ [EngineNext]_evars => Books'
<1> SUFFICES ASSUME Books, [EngineNext]_evars PROVE Books'
    OBVIOUS
<1>1. ASSUME NEW a \in GraphId, NEW b \in GraphId, Merging(a, b) PROVE Books'
  BY <1>1, MergingKeepsBooks
<1>2. ASSUME NEW g \in GraphId, Splitting(g) PROVE Books'
  BY <1>2, SplittingKeepsBooks
<1>3. ASSUME NEW g \in GraphId, RecipeGraph(g) PROVE Books'
  BY <1>3 DEF RecipeGraph, NewGraph, Books, BookTypes, PartitionTypeOK, BooksAgree,
              EnvironmentsFollowGraphs, ReadsAreCurrent
<1>4. ASSUME NEW g \in GraphId, NEW c \in Creature, NEW start \in BOOLEAN, Add(c, g, start)
      PROVE  Books'
  BY <1>4, AddKeepsBooks
<1>5. ASSUME UNCHANGED <<partition, books, leaving, raced, stops>> PROVE Books'
  BY <1>5, LifeKeepsBooks DEF Books, BookTypes
<1>6. ASSUME NEW c \in Creature,
             \/ Start(c) \/ StartStep(c) \/ StartFails(c) \/ Terminates(c)
             \/ \E t \in Task : LoopEnds(c, t)
      PROVE  Books'
  BY <1>5, <1>6 DEF Start, StartStep, AgentUp, Started, StartFails, Terminates, LoopEnds
<1>7. ASSUME NEW c \in Creature, NEW w \in Caller, w # "remove", BeginStop(c, w),
             UNCHANGED <<partition, books, leaving, raced>>
      PROVE  Books'
  <2>1. stops' = [stops EXCEPT ![c][w] = "notify"]
    BY <1>7 DEF BeginStop
  <2>2. /\ stops' \in [Creature -> [Caller -> {"none", "notify", "modules", "reap"}]]
        /\ \A d \in Creature : stops'[d]["remove"] # "none" => stops[d]["remove"] # "none"
    BY <1>7, <2>1 DEF Books, BookTypes, Caller
  <2> QED BY <1>7, <2>2, LifeKeepsBooks
<1>8. ASSUME NEW c \in Creature, Stop(c) PROVE Books'
  BY <1>7, <1>8 DEF Stop, Caller
<1>9. ASSUME NEW c \in Creature, StopStep(c) PROVE Books'
  BY <1>9, StopStepKeepsBooks
<1>10. ASSUME NEW c \in Creature, Remove(c) PROVE Books'
  BY <1>10, RemoveKeepsBooks
<1>11. ASSUME NEW c \in Creature, Visit(c) PROVE Books'
  BY <1>5, <1>7, <1>11 DEF Visit, Caller
<1>12. CASE Shutdown \/ ShutdownReturns
  BY <1>5, <1>12 DEF Shutdown, ShutdownReturns
<1>13. CASE UNCHANGED evars
  BY <1>5, <1>13 DEF evars
<1> QED
  BY <1>1, <1>2, <1>3, <1>4, <1>6, <1>8, <1>9, <1>10, <1>11, <1>12, <1>13 DEF EngineNext

LEMMA BooksInit == EngineInit => Books
<1> SUFFICES ASSUME EngineInit PROVE Books
    OBVIOUS
<1> USE DEF EngineInit, PartitionInit, Caller
<1>1. BookTypes
  BY DEF BookTypes, PartitionTypeOK
<1>2. BooksAgree
  BY DEF BooksAgree
<1>3. EnvironmentsFollowGraphs
  BY DEF EnvironmentsFollowGraphs
<1>4. ReadsAreCurrent
  BY DEF ReadsAreCurrent
<1> QED BY <1>1, <1>2, <1>3, <1>4 DEF Books

-----------------------------------------------------------------------------
\* The creature table, each creature's own graph id and the environment its tools
\* see follow the topology, whatever adds, removals, merges and splits overlap
\* (engine.py: add_creature, remove_creature; channels.py, channel_lifecycle.py).
THEOREM BooksAlwaysAgree == EngineSpec => []BooksAgree
<1>1. Books => BooksAgree
  BY DEF Books
<1> QED BY <1>1, BooksInit, BooksStep, PTL DEF EngineSpec

\* Every graph has an environment, and no environment outlives its graph unless a
\* removal was overtaken while it awaited the stop (engine.py: remove_creature).
THEOREM EveryGraphHasAnEnvironment == EngineSpec => []EnvironmentsFollowGraphs
<1>1. Books => EnvironmentsFollowGraphs
  BY DEF Books
<1> QED BY <1>1, BooksInit, BooksStep, PTL DEF EngineSpec

-----------------------------------------------------------------------------
(* The lifecycle of a creature that no two callers were at work on at once: *)
(* how far the one caller is tells what is up, and where that is less than  *)
(* all and more than nothing, what befell the creature tells why.           *)

LifeTypes ==
    /\ {running, agent, modules} \subseteq [Creature -> BOOLEAN]
    /\ begun \in [Creature -> Nat]
    /\ starts \in [Creature -> [{"modules", "tail"} -> Nat]]
    /\ loops \in [Creature -> SUBSET Int]
    /\ input \in [Creature -> Int]
    /\ stops \in [Creature -> [Caller -> {"none", "notify", "modules", "reap"}]]
    /\ reaped \in [Creature -> [Caller -> Int]]
    /\ overlapped \subseteq Creature
    /\ mishap \in [Creature -> {"none", "failed", "quit", "terminated"}]

Up(c) ==
    /\ mishap[c] = "none"
    /\ running[c] /\ agent[c] /\ modules[c]
    /\ loops[c] = {input[c]}
    /\ c \in table

Down(c) ==
    /\ ~ running[c] /\ ~ agent[c] /\ ~ modules[c]
    /\ loops[c] = {}

\* What a failed start, an input loop's own end or a termination leaves.
Half(c) ==
    /\ mishap[c] # "none"
    /\ running[c] \/ agent[c] => modules[c]
    /\ running[c] => ~ agent[c] /\ mishap[c] = "terminated"
    /\ loops[c] = IF running[c] THEN {input[c]} ELSE {}

Settled(c) == Up(c) \/ Down(c) \/ Half(c)

\* A start under way, before and after the agent is up.
Rising(c) ==
    /\ ~ Stopping(c)
    /\ c \in table
    /\ ~ running[c] /\ loops[c] = {}
    /\ \/ /\ starts[c]["modules"] = 1 /\ starts[c]["tail"] = 0
          /\ agent[c] => modules[c]
       \/ /\ starts[c]["modules"] = 0 /\ starts[c]["tail"] = 1
          /\ modules[c]
          /\ mishap[c] = IF agent[c] THEN "none" ELSE "terminated"

\* A stop under way for caller w.
Falling(c, w) ==
    /\ ~ Starting(c)
    /\ \A v \in Caller \ {w} : stops[c][v] = "none"
    /\ ~ running[c]
    /\ \/ stops[c][w] = "notify" /\ modules[c] /\ loops[c] \subseteq {input[c]}
       \/ stops[c][w] = "modules" /\ ~ agent[c] /\ modules[c] /\ loops[c] \subseteq {input[c]}
       \/ stops[c][w] = "reap" /\ ~ agent[c] /\ ~ modules[c] /\ loops[c] \subseteq {reaped[c][w]}

Regular(c) ==
    \/ Quiet(c) /\ Settled(c)
    \/ Rising(c)
    \/ \E w \in Caller : Falling(c, w)

Lifecycle ==
    /\ LifeTypes
    /\ \A c \in Creature : c \notin overlapped => Regular(c)

\* What a step does to a creature that it is not about.
Leaves(d) ==
    /\ running'[d] = running[d] /\ agent'[d] = agent[d] /\ modules'[d] = modules[d]
    /\ starts'[d] = starts[d] /\ stops'[d] = stops[d]
    /\ loops'[d] = loops[d] /\ input'[d] = input[d] /\ reaped'[d] = reaped[d]
    /\ mishap'[d] = mishap[d]
    /\ d \in overlapped' <=> d \in overlapped
    /\ d \in table' <=> d \in table

Others(c) == \A d \in Creature \ {c} : Leaves(d)

LEMMA LeftAloneStaysRegular ==
    ASSUME NEW d \in Creature, Leaves(d), Regular(d)
    PROVE  Regular(d)'
<1>1. Quiet(d) => Quiet(d)'
  BY DEF Leaves, Quiet, Starting, Stopping
<1>2. Settled(d) => Settled(d)'
  <2>1. Up(d) => Up(d)'
    BY DEF Leaves, Up
  <2>2. Down(d) => Down(d)'
    BY DEF Leaves, Down
  <2>3. Half(d) => Half(d)'
    BY DEF Leaves, Half
  <2> QED BY <2>1, <2>2, <2>3 DEF Settled
<1>3. Rising(d) => Rising(d)'
  BY DEF Leaves, Rising, Stopping
<1>4. ASSUME NEW w \in Caller, Falling(d, w) PROVE Falling(d, w)'
  BY <1>4 DEF Leaves, Falling, Starting
<1> QED BY <1>1, <1>2, <1>3, <1>4 DEF Regular

LEMMA OthersStayRegular ==
    ASSUME Lifecycle, LifeTypes', NEW c \in Creature, Others(c),
           c \notin overlapped' => Regular(c)'
    PROVE  Lifecycle'
<1>1. ASSUME NEW d \in Creature \ {c}, d \notin overlapped' PROVE Regular(d)'
  BY <1>1, LeftAloneStaysRegular DEF Lifecycle, Others, Leaves
<1> QED BY <1>1 DEF Lifecycle

\* When nobody is at work on it a regular creature is settled.
LEMMA QuietIsSettled ==
    ASSUME LifeTypes, NEW c \in Creature, Regular(c), Quiet(c)
    PROVE  Settled(c)
<1>1. starts[c]["modules"] = 0 /\ starts[c]["tail"] = 0
  BY DEF Quiet, Starting, LifeTypes
<1>2. ~ Rising(c)
  BY <1>1 DEF Rising
<1>3. \A w \in Caller : ~ Falling(c, w)
  BY DEF Falling, Quiet, Stopping
<1> QED BY <1>2, <1>3 DEF Regular

\* Only one creature is marked, and one that a step leaves unmarked was unmarked
\* before it, and without the other caller the step asks about.
LEMMA OverlapMarks ==
    ASSUME LifeTypes, NEW c \in Creature, NEW other \in BOOLEAN, Overlap(c, other)
    PROVE  /\ overlapped \subseteq overlapped' /\ overlapped' \subseteq overlapped \cup {c}
           /\ overlapped' \subseteq Creature
           /\ c \notin overlapped' => ~ other
BY DEF Overlap, LifeTypes

LEMMA BeginIsRegular ==
    ASSUME Lifecycle, NEW c \in Creature, Begin(c), UNCHANGED <<stops, reaped>>,
           c \in table', \A d \in Creature \ {c} : d \in table' <=> d \in table
    PROVE  Lifecycle'
<1> USE DEF Lifecycle, LifeTypes
<1>1. /\ ~ running[c]
      /\ begun' = [begun EXCEPT ![c] = @ + 1]
      /\ starts' = [starts EXCEPT ![c]["modules"] = @ + 1]
      /\ Overlap(c, Starting(c) \/ Stopping(c))
      /\ UNCHANGED <<running, agent, modules, loops, input, mishap>>
  BY DEF Begin
<1>2. /\ overlapped \subseteq overlapped' /\ overlapped' \subseteq overlapped \cup {c}
      /\ overlapped' \subseteq Creature
      /\ c \notin overlapped' => Quiet(c)
  <2>1. (Starting(c) \/ Stopping(c)) \in BOOLEAN
    BY DEF Starting, Stopping
  <2> QED BY <1>1, <2>1, OverlapMarks DEF Quiet
<1>3. LifeTypes' /\ Others(c)
  <2>1. starts' \in [Creature -> [{"modules", "tail"} -> Nat]]
    BY <1>1
  <2>2. begun' \in [Creature -> Nat]
    BY <1>1
  <2>3. LifeTypes'
    BY <1>1, <1>2, <2>1, <2>2
  <2> QED BY <1>1, <1>2, <2>3 DEF Others, Leaves
<1>4. ASSUME c \notin overlapped' PROVE Rising(c)'
  <2>1. Quiet(c) /\ c \notin overlapped
    BY <1>2, <1>4
  <2>2. /\ ~ Stopping(c) /\ c \in table'
        /\ loops[c] = {}
        /\ agent[c] => modules[c]
    BY <1>1, <2>1, QuietIsSettled DEF Settled, Up, Down, Half, Quiet
  <2>3. starts[c]["modules"] = 0 /\ starts[c]["tail"] = 0
    BY <2>1 DEF Quiet, Starting
  <2>4. starts'[c]["modules"] = 1 /\ starts'[c]["tail"] = 0
    BY <1>1, <2>3
  <2> QED BY <1>1, <2>2, <2>4 DEF Rising, Stopping
<1> QED BY <1>3, <1>4, OthersStayRegular DEF Regular

LEMMA BeginStopIsRegular ==
    ASSUME Lifecycle, NEW c \in Creature, NEW w \in Caller, BeginStop(c, w), UNCHANGED table
    PROVE  Lifecycle'
<1> USE DEF Lifecycle, LifeTypes
<1>1. /\ is_running(c)
      /\ running' = [running EXCEPT ![c] = FALSE]
      /\ stops' = [stops EXCEPT ![c][w] = "notify"]
      /\ Overlap(c, Starting(c) \/ Stopping(c))
      /\ UNCHANGED <<agent, modules, begun, starts, loops, input, mishap, reaped>>
  BY DEF BeginStop
<1>2. /\ overlapped \subseteq overlapped' /\ overlapped' \subseteq overlapped \cup {c}
      /\ overlapped' \subseteq Creature
      /\ c \notin overlapped' => Quiet(c)
  <2>1. (Starting(c) \/ Stopping(c)) \in BOOLEAN
    BY DEF Starting, Stopping
  <2> QED BY <1>1, <2>1, OverlapMarks DEF Quiet
<1>3. LifeTypes' /\ Others(c)
  <2>1. LifeTypes'
    BY <1>1, <1>2
  <2> QED BY <1>1, <1>2, <2>1 DEF Others, Leaves
<1>4. ASSUME c \notin overlapped' PROVE Falling(c, w)'
  <2>1. Quiet(c) /\ c \notin overlapped
    BY <1>2, <1>4
  <2>2. Up(c)
    BY <1>1, <2>1, QuietIsSettled DEF Settled, Half, Down, is_running
  <2> QED BY <1>1, <2>1, <2>2 DEF Falling, Up, Quiet, Starting, Stopping
<1> QED BY <1>3, <1>4, OthersStayRegular DEF Regular

\* The steps of a start.
LEMMA StartStepIsRegular ==
    ASSUME Lifecycle, NEW c \in Creature, StartStep(c) \/ StartFails(c)
    PROVE  Lifecycle'
<1> USE DEF Lifecycle, LifeTypes
<1>1. CASE AgentUp(c)
  <2>1. /\ starts[c]["modules"] > 0
        /\ starts' = [starts EXCEPT ![c]["modules"] = @ - 1, ![c]["tail"] = @ + 1]
        /\ modules' = [modules EXCEPT ![c] = TRUE]
        /\ agent' = [agent EXCEPT ![c] = TRUE]
        /\ mishap' = [mishap EXCEPT ![c] = "none"]
        /\ UNCHANGED <<running, begun, loops, input, overlapped, table, stops, reaped>>
    BY <1>1 DEF AgentUp, Befalls, books
  <2>2. starts' \in [Creature -> [{"modules", "tail"} -> Nat]]
    BY <2>1
  <2>3. LifeTypes' /\ Others(c)
    BY <2>1, <2>2 DEF Others, Leaves
  <2>4. ASSUME c \notin overlapped PROVE Rising(c)'
    <3>1. Rising(c)
      BY <2>1, <2>4 DEF Regular, Quiet, Falling, Starting
    <3>2. starts[c]["modules"] = 1 /\ starts[c]["tail"] = 0
      BY <2>1, <3>1 DEF Rising
    <3>3. starts'[c]["modules"] = 0 /\ starts'[c]["tail"] = 1
      BY <2>1, <3>2
    <3> QED BY <2>1, <3>1, <3>3 DEF Rising, Stopping
  <2> QED BY <2>1, <2>3, <2>4, OthersStayRegular DEF Regular
<1>2. CASE Started(c)
  <2>1. /\ starts[c]["tail"] > 0
        /\ starts' = [starts EXCEPT ![c]["tail"] = @ - 1]
        /\ running' = [running EXCEPT ![c] = TRUE]
        /\ loops' = [loops EXCEPT ![c] = @ \cup {NewTask(c)}]
        /\ input' = [input EXCEPT ![c] = NewTask(c)]
        /\ UNCHANGED <<agent, modules, begun, overlapped, mishap, table, stops, reaped>>
    BY <1>2 DEF Started, books
  <2>2. starts' \in [Creature -> [{"modules", "tail"} -> Nat]]
    BY <2>1
  <2>3. NewTask(c) \in Int
    BY DEF NewTask
  <2>4. LifeTypes' /\ Others(c)
    BY <2>1, <2>2, <2>3 DEF Others, Leaves
  <2>5. ASSUME c \notin overlapped PROVE Quiet(c)' /\ Settled(c)'
    <3>1. Rising(c)
      BY <2>1, <2>5 DEF Regular, Quiet, Falling, Starting
    <3>2. starts[c]["tail"] = 1 /\ starts[c]["modules"] = 0
      BY <2>1, <3>1 DEF Rising
    <3>3. starts'[c]["modules"] = 0 /\ starts'[c]["tail"] = 0
      BY <2>1, <3>2
    <3>4. Quiet(c)'
      BY <2>1, <3>1, <3>3 DEF Quiet, Starting, Stopping, Rising
    <3>5. c \in table /\ modules[c] /\ loops[c] = {}
          /\ mishap[c] = IF agent[c] THEN "none" ELSE "terminated"
      BY <3>1, <3>2 DEF Rising
    <3>6. running'[c] /\ loops'[c] = {input'[c]} /\ modules'[c] /\ c \in table'
      BY <2>1, <2>3, <3>5
    <3>7. CASE agent[c]
      <4>1. agent'[c] /\ mishap'[c] = "none"
        BY <2>1, <3>5, <3>7
      <4> QED BY <3>4, <3>6, <4>1 DEF Settled, Up
    <3>8. CASE ~ agent[c]
      <4>1. ~ agent'[c] /\ mishap'[c] = "terminated"
        BY <2>1, <3>5, <3>8
      <4> QED BY <3>4, <3>6, <4>1 DEF Settled, Half
    <3> QED BY <3>7, <3>8
  <2> QED BY <2>1, <2>4, <2>5, OthersStayRegular DEF Regular
<1>3. CASE StartFails(c)
  <2>1. /\ mishap' = [mishap EXCEPT ![c] = "failed"]
        /\ UNCHANGED <<running, agent, begun, loops, input, overlapped, table, stops, reaped>>
    BY <1>3 DEF StartFails, Befalls, books
  <2>2. PICK p \in {"modules", "tail"} :
           starts[c][p] > 0 /\ starts' = [starts EXCEPT ![c][p] = @ - 1]
    BY <1>3 DEF StartFails
  <2>3. PICK up \in {modules[c], TRUE} : modules' = [modules EXCEPT ![c] = up]
    BY <1>3 DEF StartFails
  <2>4. starts' \in [Creature -> [{"modules", "tail"} -> Nat]]
    BY <2>2
  <2>5. LifeTypes' /\ Others(c)
    <3>1. modules' \in [Creature -> BOOLEAN]
      BY <2>3
    <3>2. mishap' \in [Creature -> {"none", "failed", "quit", "terminated"}]
      BY <2>1
    <3>3. LifeTypes'
      BY <2>1, <2>4, <3>1, <3>2
    <3> QED BY <2>1, <2>2, <2>3, <3>3 DEF Others, Leaves
  <2>6. ASSUME c \notin overlapped PROVE Quiet(c)' /\ Half(c)'
    <3>1. Rising(c)
      BY <2>2, <2>6 DEF Regular, Quiet, Falling, Starting
    <3>2. starts'[c]["modules"] = 0 /\ starts'[c]["tail"] = 0
      BY <2>2, <3>1 DEF Rising
    <3>3. Quiet(c)'
      BY <2>1, <3>1, <3>2 DEF Quiet, Starting, Stopping, Rising
    <3>4. agent[c] => modules'[c]
      BY <2>3, <3>1 DEF Rising
    <3> QED BY <2>1, <3>1, <3>3, <3>4 DEF Rising, Half
  <2> QED BY <2>1, <2>5, <2>6, OthersStayRegular DEF Regular, Settled
<1> QED BY <1>1, <1>2, <1>3 DEF StartStep

LEMMA LoopEndsIsRegular ==
    ASSUME Lifecycle, NEW c \in Creature, NEW t \in Task, LoopEnds(c, t)
    PROVE  Lifecycle'
<1> USE DEF Lifecycle, LifeTypes
<1>1. /\ t \in loops[c]
      /\ loops' = [loops EXCEPT ![c] = @ \ {t}]
      /\ running' = [running EXCEPT ![c] = FALSE]
      /\ \/ mishap' = [mishap EXCEPT ![c] = "quit"]
         \/ ~ agent[c] /\ mishap' = mishap
      /\ UNCHANGED <<agent, modules, begun, starts, input, overlapped, table, stops, reaped>>
  BY DEF LoopEnds, Befalls, books
<1>2. LifeTypes' /\ Others(c)
  <2>1. loops' \in [Creature -> SUBSET Int] /\ running' \in [Creature -> BOOLEAN]
    BY <1>1
  <2>2. mishap' \in [Creature -> {"none", "failed", "quit", "terminated"}]
    BY <1>1
  <2>3. LifeTypes'
    BY <1>1, <2>1, <2>2
  <2> QED BY <1>1, <2>3 DEF Others, Leaves
<1>3. ASSUME c \notin overlapped PROVE Regular(c)'
  <2>1. ~ Rising(c)
    BY <1>1 DEF Rising
  <2>2. CASE Quiet(c) /\ Settled(c)
    <3>1. running[c] /\ loops[c] = {t}
      BY <1>1, <2>2 DEF Settled, Up, Down, Half
    <3>2. ~ running'[c] /\ loops'[c] = {} /\ modules'[c]
      BY <1>1, <2>2, <3>1 DEF Settled, Up, Down, Half
    <3>3. mishap'[c] # "none"
      <4>1. CASE mishap' = [mishap EXCEPT ![c] = "quit"]
        BY <4>1
      <4>2. CASE ~ agent[c] /\ mishap' = mishap
        BY <2>2, <3>1, <4>2 DEF Settled, Up, Down, Half
      <4> QED BY <1>1, <4>1, <4>2
    <3>4. Half(c)'
      BY <3>2, <3>3 DEF Half
    <3>5. Quiet(c)'
      BY <1>1, <2>2 DEF Quiet, Starting, Stopping
    <3> QED BY <3>4, <3>5 DEF Regular, Settled
  <2>3. ASSUME NEW w \in Caller, Falling(c, w) PROVE Falling(c, w)'
    BY <1>1, <2>3 DEF Falling, Starting
  <2> QED BY <1>3, <2>1, <2>2, <2>3 DEF Regular
<1> QED BY <1>1, <1>2, <1>3, OthersStayRegular

\* A turn that terminates the agent, in the midst of whatever.
LEMMA TerminatesIsRegular ==
    ASSUME Lifecycle, NEW c \in Creature, Terminates(c)
    PROVE  Lifecycle'
<1> USE DEF Lifecycle, LifeTypes
<1>1. /\ agent[c]
      /\ agent' = [agent EXCEPT ![c] = FALSE]
      /\ mishap' = [mishap EXCEPT ![c] = "terminated"]
      /\ UNCHANGED <<running, modules, begun, starts, loops, input, overlapped, table, stops,
                     reaped>>
  BY DEF Terminates, Befalls, books
<1>2. LifeTypes' /\ Others(c)
  BY <1>1 DEF Others, Leaves
<1>3. ASSUME c \notin overlapped PROVE Regular(c)'
  <2>1. CASE Quiet(c) /\ Settled(c)
    <3>1. Half(c)'
      BY <1>1, <2>1 DEF Settled, Up, Down, Half
    <3>2. Quiet(c)'
      BY <1>1, <2>1 DEF Quiet, Starting, Stopping
    <3> QED BY <3>1, <3>2 DEF Regular, Settled
  <2>2. CASE Rising(c)
    <3>1. Rising(c)'
      BY <1>1, <2>2 DEF Rising, Stopping
    <3> QED BY <3>1 DEF Regular
  <2>3. ASSUME NEW w \in Caller, Falling(c, w) PROVE Falling(c, w)'
    BY <1>1, <2>3 DEF Falling, Starting
  <2> QED BY <1>3, <2>1, <2>2, <2>3 DEF Regular
<1> QED BY <1>1, <1>2, <1>3, OthersStayRegular

\* The steps of a stop up to its return.
LEMMA StopGoesOn ==
    ASSUME Lifecycle, NEW c \in Creature, NEW w \in Caller, AgentDown(c, w) \/ ModulesDown(c, w)
    PROVE  Lifecycle'
<1> USE DEF Lifecycle, LifeTypes
<1>1. CASE AgentDown(c, w)
  <2>1. /\ stops[c][w] = "notify"
        /\ stops' = [stops EXCEPT ![c][w] = "modules"]
        /\ agent' = [agent EXCEPT ![c] = FALSE]
        /\ UNCHANGED <<running, modules, begun, starts, loops, input, overlapped, mishap, table, reaped>>
    BY <1>1 DEF AgentDown, books
  <2>2. LifeTypes' /\ Others(c)
    BY <2>1 DEF Others, Leaves
  <2>3. ASSUME c \notin overlapped PROVE Falling(c, w)'
    <3>1. Falling(c, w)
      BY <2>1, <2>3 DEF Regular, Quiet, Rising, Stopping, Falling
    <3> QED BY <2>1, <3>1 DEF Falling, Starting
  <2> QED BY <2>1, <2>2, <2>3, OthersStayRegular DEF Regular
<1>2. CASE ModulesDown(c, w)
  <2>1. /\ stops[c][w] = "modules"
        /\ stops' = [stops EXCEPT ![c][w] = "reap"]
        /\ modules' = [modules EXCEPT ![c] = FALSE]
        /\ reaped' = [reaped EXCEPT ![c][w] = input[c]]
        /\ input' = [input EXCEPT ![c] = NoTask]
        /\ mishap' = [mishap EXCEPT ![c] = "none"]
        /\ UNCHANGED <<running, agent, begun, starts, loops, overlapped, table>>
    BY <1>2 DEF ModulesDown, Befalls, books
  <2>2. LifeTypes' /\ Others(c)
    BY <2>1 DEF Others, Leaves, NoTask
  <2>3. ASSUME c \notin overlapped PROVE Falling(c, w)'
    <3>1. Falling(c, w)
      BY <2>1, <2>3 DEF Regular, Quiet, Rising, Stopping, Falling
    <3> QED BY <2>1, <3>1 DEF Falling, Starting
  <2> QED BY <2>1, <2>2, <2>3, OthersStayRegular DEF Regular
<1> QED BY <1>1, <1>2

\* A stop returns, whether or not the creature leaves the table with that.
LEMMA StopReturnsIsRegular ==
    ASSUME Lifecycle, NEW c \in Creature, NEW w \in Caller, StopReturns(c, w),
           \A d \in Creature \ {c} : d \in table' <=> d \in table
    PROVE  Lifecycle'
<1> USE DEF Lifecycle, LifeTypes
<1>1. /\ stops[c][w] = "reap"
      /\ stops' = [stops EXCEPT ![c][w] = "none"]
      /\ reaped' = [reaped EXCEPT ![c][w] = NoTask]
      /\ UNCHANGED <<agent, modules, begun, starts, input, overlapped, mishap>>
      /\ \/ /\ reaped[c][w] \notin loops[c]
            /\ UNCHANGED <<loops, running>>
         \/ /\ reaped[c][w] \in loops[c]
            /\ loops' = [loops EXCEPT ![c] = @ \ {reaped[c][w]}]
            /\ running' = [running EXCEPT ![c] = FALSE]
  BY DEF StopReturns, ReapedLoop
<1>2. LifeTypes' /\ Others(c)
  <2>1. /\ stops' \in [Creature -> [Caller -> {"none", "notify", "modules", "reap"}]]
        /\ reaped' \in [Creature -> [Caller -> Int]]
    BY <1>1 DEF NoTask
  <2>2. loops' \in [Creature -> SUBSET Int] /\ running' \in [Creature -> BOOLEAN]
    <3>1. CASE UNCHANGED <<loops, running>>
      BY <3>1
    <3>2. CASE /\ loops' = [loops EXCEPT ![c] = @ \ {reaped[c][w]}]
               /\ running' = [running EXCEPT ![c] = FALSE]
      BY <3>2
    <3> QED BY <1>1, <3>1, <3>2
  <2>3. LifeTypes'
    BY <1>1, <2>1, <2>2
  <2> QED BY <1>1, <2>3 DEF Others, Leaves
<1>3. ASSUME c \notin overlapped PROVE Quiet(c)' /\ Down(c)'
  <2>1. Falling(c, w)
    BY <1>1, <1>3 DEF Regular, Quiet, Rising, Stopping, Falling
  <2>2. Quiet(c)'
    BY <1>1, <2>1 DEF Falling, Quiet, Starting, Stopping
  <2>3. ~ running[c] /\ ~ agent[c] /\ ~ modules[c] /\ loops[c] \subseteq {reaped[c][w]}
    BY <1>1, <2>1 DEF Falling
  <2> QED BY <1>1, <2>2, <2>3 DEF Down
<1> QED BY <1>1, <1>2, <1>3, OthersStayRegular DEF Regular, Settled

LEMMA UnregisterTakesOne ==
    ASSUME NEW c \in Creature, NEW old, Unregister(c, old)
    PROVE  \A d \in Creature \ {c} : d \in table' <=> d \in table
BY DEF Unregister, books

LEMMA RemoveIsRegular ==
    ASSUME Lifecycle, NEW c \in Creature, Remove(c)
    PROVE  Lifecycle'
<1>1. CASE BeginStop(c, "remove") /\ UNCHANGED books
  BY <1>1, BeginStopIsRegular DEF Caller, books
<1>2. CASE /\ ~ is_running(c)
           /\ Unregister(c, graph_id[c])
           /\ Overlap(c, Starting(c) \/ Stopping(c))
           /\ UNCHANGED <<running, agent, modules, begun, starts, loops, input, mishap, stops,
                          reaped>>
  <2>1. (Starting(c) \/ Stopping(c)) \in BOOLEAN
    BY DEF Starting, Stopping
  <2>2. /\ overlapped \subseteq overlapped' /\ overlapped' \subseteq overlapped \cup {c}
        /\ overlapped' \subseteq Creature
        /\ c \notin overlapped' => Quiet(c)
    BY <1>2, <2>1, OverlapMarks DEF Quiet, Lifecycle
  <2>3. LifeTypes' /\ Others(c)
    BY <1>2, <2>2, UnregisterTakesOne DEF Others, Leaves, Lifecycle, LifeTypes
  <2>4. ASSUME c \notin overlapped' PROVE Quiet(c)' /\ Settled(c)'
    <3>1. Quiet(c) /\ Regular(c)
      BY <2>2, <2>4 DEF Lifecycle
    <3>2. Down(c) \/ Half(c)
      BY <1>2, <3>1, QuietIsSettled DEF Lifecycle, Settled, Up, is_running
    <3>3. Quiet(c)'
      BY <1>2, <3>1 DEF Quiet, Starting, Stopping
    <3> QED BY <1>2, <3>2, <3>3 DEF Settled, Down, Half
  <2> QED BY <2>3, <2>4, OthersStayRegular DEF Regular
<1> QED BY <1>1, <1>2 DEF Remove

\* Steps that are about no creature's life.
LEMMA LifeUnchanged ==
    ASSUME Lifecycle, UNCHANGED <<life, stops, reaped, table>>
    PROVE  Lifecycle'
<1>1. LifeTypes' /\ \A d \in Creature : Leaves(d)
  BY DEF Lifecycle, LifeTypes, life, Leaves
<1> QED BY <1>1, LeftAloneStaysRegular DEF Lifecycle, Leaves

LEMMA LifecycleStep == Lifecycle /\ [EngineNext]_evars => Lifecycle'
<1> SUFFICES ASSUME Lifecycle, [EngineNext]_evars PROVE Lifecycle'
    OBVIOUS
<1>1. ASSUME NEW a \in GraphId, NEW b \in GraphId, Merging(a, b) PROVE Lifecycle'
  BY <1>1, LifeUnchanged DEF Merging
<1>2. ASSUME NEW g \in GraphId, Splitting(g) \/ RecipeGraph(g) PROVE Lifecycle'
  BY <1>2, LifeUnchanged DEF Splitting, RecipeGraph
<1>3. ASSUME NEW g \in GraphId, NEW c \in Creature, NEW start \in BOOLEAN, Add(c, g, start)
      PROVE  Lifecycle'
  <2>1. table' = table \cup {c} /\ UNCHANGED <<stops, reaped>>
    BY <1>3 DEF Add
  <2>2. CASE Begin(c)
    BY <2>1, <2>2, BeginIsRegular
  <2>3. CASE UNCHANGED life
    <3>1. LifeTypes' /\ Others(c)
      BY <2>1, <2>3 DEF Lifecycle, LifeTypes, life, Others, Leaves
    <3>2. Quiet(c) => Quiet(c)'
      BY <2>1, <2>3 DEF life, Quiet, Starting, Stopping
    <3>3. Settled(c) => Settled(c)'
      BY <2>1, <2>3 DEF life, Settled, Up, Down, Half
    <3>4. Rising(c) => Rising(c)'
      BY <2>1, <2>3 DEF life, Rising, Stopping
    <3>5. ASSUME NEW w \in Caller, Falling(c, w) PROVE Falling(c, w)'
      BY <2>1, <2>3, <3>5 DEF life, Falling, Starting
    <3>6. c \notin overlapped' => Regular(c)'
      BY <2>3, <3>2, <3>3, <3>4, <3>5 DEF Lifecycle, Regular, life
    <3> QED BY <3>1, <3>6, OthersStayRegular
  <2> QED BY <1>3, <2>2, <2>3 DEF Add
<1>4. ASSUME NEW c \in Creature, Start(c) PROVE Lifecycle'
  BY <1>4, BeginIsRegular DEF Start, books
<1>5. ASSUME NEW c \in Creature, StartStep(c) \/ StartFails(c) PROVE Lifecycle'
  BY <1>5, StartStepIsRegular
<1>13. ASSUME NEW c \in Creature, Terminates(c) PROVE Lifecycle'
  BY <1>13, TerminatesIsRegular
<1>6. ASSUME NEW c \in Creature, NEW t \in Task, LoopEnds(c, t) PROVE Lifecycle'
  BY <1>6, LoopEndsIsRegular
<1>7. ASSUME NEW c \in Creature, Stop(c) PROVE Lifecycle'
  BY <1>7, BeginStopIsRegular DEF Stop, books, Caller
<1>8. ASSUME NEW c \in Creature, StopStep(c) PROVE Lifecycle'
  <2>1. CASE Stopped(c)
    BY <2>1, StopReturnsIsRegular DEF Stopped, Caller, books
  <2>2. CASE Removed(c)
    BY <2>2, StopReturnsIsRegular, UnregisterTakesOne DEF Removed, Caller
  <2> QED BY <1>8, <2>1, <2>2, StopGoesOn DEF StopStep
<1>9. ASSUME NEW c \in Creature, Remove(c) PROVE Lifecycle'
  BY <1>9, RemoveIsRegular
<1>10. ASSUME NEW c \in Creature, Visit(c) PROVE Lifecycle'
  BY <1>10, BeginStopIsRegular, LifeUnchanged DEF Visit, books, Caller
<1>11. CASE Shutdown \/ ShutdownReturns
  <2>1. LifeTypes' /\ \A d \in Creature : Leaves(d)
    BY <1>11 DEF Shutdown, ShutdownReturns, life, books, Lifecycle, LifeTypes, Leaves
  <2> QED BY <2>1, LeftAloneStaysRegular DEF Lifecycle, Leaves
<1>12. CASE UNCHANGED evars
  BY <1>12, LifeUnchanged DEF evars, books
<1> QED
  BY <1>1, <1>2, <1>3, <1>4, <1>5, <1>6, <1>7, <1>8, <1>9, <1>10, <1>11, <1>12, <1>13 DEF EngineNext

LEMMA LifecycleInit == EngineInit => Lifecycle
<1> SUFFICES ASSUME EngineInit PROVE Lifecycle
    OBVIOUS
<1>1. LifeTypes
  BY DEF EngineInit, LifeTypes, NoTask
<1>2. \A c \in Creature : Quiet(c)
  <2>1. \A c \in Creature : \A p \in {"modules", "tail"} : starts[c][p] = 0
    BY DEF EngineInit
  <2>2. \A c \in Creature : \A w \in Caller : stops[c][w] = "none"
    BY DEF EngineInit
  <2>3. ASSUME NEW c \in Creature, NEW p \in {"modules", "tail"} PROVE ~ (starts[c][p] > 0)
    <3>1. starts[c][p] = 0
      BY <2>1
    <3> QED BY <3>1
  <2>4. \A c \in Creature : ~ Stopping(c)
    BY <2>2 DEF Stopping
  <2> QED BY <2>3, <2>4 DEF Quiet, Starting
<1>3. \A c \in Creature : Down(c)
  BY DEF EngineInit, Down
<1> QED BY <1>1, <1>2, <1>3 DEF Lifecycle, Regular, Settled

\* What is half up has failed to start, has quit or was terminated, and is half up
\* in no worse way than these leave it; everything else is wholly up or wholly down
\* whenever one caller at a time was at work on it (creature_host.py: start, stop;
\* agent.py: start, stop; agent_handlers.py: _check_termination).
THEOREM NeverHalfUp == EngineSpec => []WhollyUpOrDown
<1>1. Lifecycle => WhollyUpOrDown
  <2> SUFFICES ASSUME Lifecycle, NEW c \in Creature, c \notin overlapped, Quiet(c)
               PROVE  /\ mishap[c] = "none" => running[c] = agent[c] /\ running[c] = modules[c]
                      /\ running[c] \/ agent[c] => modules[c]
                      /\ running[c] /\ ~ agent[c] => mishap[c] = "terminated"
                      /\ loops[c] = IF running[c] THEN {input[c]} ELSE {}
                      /\ is_running(c) => c \in table
      BY DEF WhollyUpOrDown
  <2>1. Settled(c)
    BY QuietIsSettled DEF Lifecycle
  <2>2. running[c] \in BOOLEAN /\ agent[c] \in BOOLEAN /\ modules[c] \in BOOLEAN
    BY DEF Lifecycle, LifeTypes
  <2> QED BY <2>1, <2>2 DEF Settled, Up, Down, Half, is_running
<1> QED BY <1>1, LifecycleInit, LifecycleStep, PTL DEF EngineSpec

-----------------------------------------------------------------------------
(* The shutdown.                                                           *)

\* Who was up when the shutdown began and has not been started since is not being
\* started, and once the shutdown has looked at it, it is on its way down or was
\* terminated before.
Sweeping ==
    /\ table \subseteq Creature /\ swept \subseteq Creature
    /\ \A c \in swept \ overlapped :
          /\ ~ Starting(c)
          /\ mishap[c] # "failed"
          /\ c \in due \/ ~ running[c] \/ mishap[c] = "terminated"

\* A step that starts nobody, and makes nobody run.
LEMMA SweepingKept ==
    ASSUME Sweeping, table' \subseteq Creature, swept' \subseteq swept,
           overlapped \subseteq overlapped',
           \A c \in swept' :
              /\ ~ Starting(c) => ~ Starting(c)'
              /\ ~ Starting(c) /\ ~ running[c] => ~ running'[c]
              /\ ~ Starting(c) /\ mishap[c] # "failed" => mishap'[c] # "failed"
              /\ \/ mishap[c] = "terminated" => mishap'[c] = "terminated"
                 \/ ~ running'[c]
              /\ c \notin overlapped' /\ c \in due /\ c \notin due'
                    => ~ running'[c] \/ mishap'[c] = "terminated"
    PROVE  Sweeping'
BY DEF Sweeping

LEMMA BeginStopSweeps ==
    ASSUME LifeTypes, NEW c \in Creature, NEW w \in Caller, BeginStop(c, w)
    PROVE  /\ ~ running'[c]
           /\ \A d \in Creature : ~ running[d] => ~ running'[d]
           /\ overlapped \subseteq overlapped'
           /\ UNCHANGED <<starts, swept, mishap>>
<1>1. overlapped \subseteq overlapped'
  BY DEF BeginStop, Overlap
<1> QED BY <1>1 DEF BeginStop, LifeTypes

LEMMA SweepingStep == Lifecycle /\ Sweeping /\ [EngineNext]_evars => Sweeping'
<1> SUFFICES ASSUME Lifecycle, Sweeping, [EngineNext]_evars PROVE Sweeping'
    OBVIOUS
<1> USE DEF Lifecycle
<1>1. table' \subseteq Creature
  BY DEF Sweeping, EngineNext, Merging, Splitting, RecipeGraph, Add, Start, StartStep, AgentUp,
         Started, StartFails, Terminates, LoopEnds, Stop, StopStep, AgentDown, ModulesDown, Stopped, Removed,
         Remove, Unregister, Visit, Shutdown, ShutdownReturns, books, evars
<1>2. ASSUME UNCHANGED <<running, starts, overlapped, mishap, swept, due>> PROVE Sweeping'
  BY <1>1, <1>2, SweepingKept DEF Starting
<1>3. ASSUME NEW c \in Creature, Begin(c), UNCHANGED due PROVE Sweeping'
  <2>1. /\ swept' = swept \ {c} /\ UNCHANGED <<running, mishap>>
        /\ starts' = [starts EXCEPT ![c]["modules"] = @ + 1]
    BY <1>3 DEF Begin
  <2>2. overlapped \subseteq overlapped'
    BY <1>3 DEF Begin, Overlap
  <2>3. \A d \in Creature \ {c} : starts'[d] = starts[d]
    BY <2>1 DEF LifeTypes
  <2> QED BY <1>1, <1>3, <2>1, <2>2, <2>3, SweepingKept DEF Starting, Sweeping
<1>4. ASSUME NEW c \in Creature, StartStep(c) \/ StartFails(c) PROVE Sweeping'
  <2>1. /\ Starting(c)
        /\ UNCHANGED <<overlapped, swept, due>>
        /\ \A d \in Creature \ {c} :
              starts'[d] = starts[d] /\ running'[d] = running[d] /\ mishap'[d] = mishap[d]
    BY <1>4 DEF StartStep, AgentUp, Started, StartFails, Befalls, Starting, LifeTypes, shutting
  <2> QED BY <1>1, <2>1 DEF Starting, Sweeping
<1>5. ASSUME NEW c \in Creature, Terminates(c) PROVE Sweeping'
  <2>1. /\ UNCHANGED <<running, starts, overlapped, swept, due>>
        /\ \A d \in Creature : mishap'[d] \in {mishap[d], "terminated"}
    BY <1>5 DEF Terminates, Befalls, LifeTypes, shutting
  <2> QED BY <1>1, <2>1 DEF Sweeping, Starting
<1>6. ASSUME NEW c \in Creature, NEW t \in Task, LoopEnds(c, t) PROVE Sweeping'
  <2>1. /\ UNCHANGED <<starts, overlapped, swept, due>>
        /\ ~ running'[c]
        /\ \A d \in Creature : ~ running[d] => ~ running'[d]
        /\ mishap'[c] \in {mishap[c], "quit"}
        /\ \A d \in Creature \ {c} : mishap'[d] = mishap[d]
    BY <1>6 DEF LoopEnds, Befalls, LifeTypes, shutting
  <2> QED BY <1>1, <2>1, SweepingKept DEF Starting, Sweeping
<1>7. ASSUME NEW c \in Creature, NEW w \in Caller, BeginStop(c, w), due' \in {due, due \ {c}}
      PROVE  Sweeping'
  BY <1>1, <1>7, BeginStopSweeps, SweepingKept DEF Starting, Sweeping
<1>8. ASSUME NEW c \in Creature, StopStep(c) PROVE Sweeping'
  <2>1. ASSUME NEW w \in Caller, AgentDown(c, w) PROVE Sweeping'
    BY <1>1, <2>1, SweepingKept DEF AgentDown, LifeTypes, Starting, shutting
  <2>2. ASSUME NEW w \in Caller, ModulesDown(c, w) PROVE Sweeping'
    <3>1. /\ stops[c][w] = "modules"
          /\ mishap' = [mishap EXCEPT ![c] = "none"]
          /\ UNCHANGED <<running, starts, overlapped, swept, due>>
      BY <2>2 DEF ModulesDown, Befalls, shutting
    <3>2. c \notin overlapped => ~ running[c]
      BY <3>1 DEF Regular, Quiet, Rising, Stopping, Falling
    <3>3. mishap'[c] = "none" /\ \A d \in Creature \ {c} : mishap'[d] = mishap[d]
      BY <3>1 DEF LifeTypes
    <3> QED BY <1>1, <3>1, <3>2, <3>3 DEF Sweeping, Starting
  <2>3. ASSUME NEW w \in Caller, StopReturns(c, w), UNCHANGED shutting PROVE Sweeping'
    <3>1. /\ UNCHANGED <<starts, overlapped, mishap, swept, due>>
          /\ \A d \in Creature : ~ running[d] => ~ running'[d]
      BY <2>3 DEF StopReturns, ReapedLoop, LifeTypes, shutting
    <3> QED BY <1>1, <3>1, SweepingKept DEF Starting, Sweeping
  <2> QED BY <1>8, <2>1, <2>2, <2>3 DEF StopStep, Stopped, Removed, Caller
<1>9. ASSUME NEW c \in Creature, Remove(c) PROVE Sweeping'
  <2>1. CASE BeginStop(c, "remove") /\ UNCHANGED shutting
    BY <1>7, <2>1 DEF Caller, shutting
  <2>2. CASE Overlap(c, Starting(c) \/ Stopping(c))
             /\ UNCHANGED <<running, starts, mishap, swept, shutting>>
    <3>1. overlapped \subseteq overlapped'
      BY <2>2 DEF Overlap
    <3> QED BY <1>1, <2>2, <3>1, SweepingKept DEF Starting, Sweeping, shutting
  <2> QED BY <1>9, <2>1, <2>2 DEF Remove
<1>10. ASSUME NEW c \in Creature, Visit(c) PROVE Sweeping'
  <2>1. CASE BeginStop(c, "shutdown") /\ due' = due \ {c}
    BY <1>7, <2>1 DEF Caller
  <2>2. CASE ~ is_running(c) /\ due' = due \ {c} /\ UNCHANGED life
    <3>1. c \notin overlapped /\ ~ Starting(c) => ~ running[c] \/ mishap[c] = "terminated"
      BY <2>2 DEF Regular, Settled, Up, Down, Half, Rising, Falling, is_running
    <3> QED BY <1>1, <2>2, <3>1 DEF Starting, Sweeping, life
  <2> QED BY <1>10, <2>1, <2>2 DEF Visit, PassOver
<1>11. CASE Shutdown
  <2>1. /\ due' = table /\ swept' = {c \in table : is_running(c)}
        /\ UNCHANGED <<running, starts, overlapped, mishap, table>>
    BY <1>11 DEF Shutdown, books
  <2>2. ASSUME NEW c \in table \ overlapped, is_running(c)
        PROVE  ~ Starting(c) /\ mishap[c] # "failed"
    BY <2>2 DEF Sweeping, Regular, Quiet, Settled, Up, Down, Half, Rising, Falling, is_running
  <2> QED BY <1>1, <2>1, <2>2 DEF Sweeping, Starting
<1>12. CASE UNCHANGED evars \/ ShutdownReturns
  BY <1>2, <1>12 DEF evars, life, shutting, ShutdownReturns
<1>13. ASSUME UNCHANGED <<life, shutting>> PROVE Sweeping'
  BY <1>2, <1>13 DEF life, shutting
<1>14. ASSUME NEW g \in GraphId, NEW c \in Creature, NEW start \in BOOLEAN, Add(c, g, start)
       PROVE  Sweeping'
  BY <1>3, <1>13, <1>14 DEF Add, shutting
<1> QED
  BY <1>3, <1>4, <1>5, <1>6, <1>7, <1>8, <1>9, <1>10, <1>11, <1>12, <1>13, <1>14
     DEF EngineNext, Merging, Splitting, RecipeGraph, Start, Stop, Caller, shutting

LEMMA SweepingInit == EngineInit => Sweeping
BY DEF EngineInit, Sweeping

\* Whoever was up when the shutdown was called is down when it returns, unless it
\* was started again, another caller is still stopping it, or it had quit or was
\* terminated when the shutdown came to it (engine.py: shutdown).
THEOREM NobodyIsLeftUp == EngineSpec => ShutdownLeavesNobody
<1>1. Lifecycle /\ Sweeping /\ [EngineNext]_evars
        => [closing /\ ~ closing' =>
              \A c \in (table \cap swept) \ overlapped :
                 modules[c] => Stopping(c) \/ mishap[c] \in {"quit", "terminated"}]_evars
  <2> SUFFICES ASSUME Lifecycle, Sweeping, EngineNext, closing, ~ closing',
                      NEW c \in (table \cap swept) \ overlapped, modules[c], ~ Stopping(c)
               PROVE  mishap[c] \in {"quit", "terminated"}
    OBVIOUS
  <2>1. ShutdownReturns
    BY DEF EngineNext, Merging, Splitting, RecipeGraph, Add, Start, StartStep, AgentUp,
           Started, StartFails, Terminates, LoopEnds, Stop, StopStep, AgentDown, ModulesDown,
           Stopped, Removed, Remove, Visit, Shutdown, shutting
  <2>2. /\ c \in Creature /\ ~ Starting(c) /\ mishap[c] # "failed"
        /\ ~ running[c] \/ mishap[c] = "terminated"
    BY <2>1 DEF ShutdownReturns, Sweeping
  <2>3. Settled(c) /\ mishap[c] \in {"none", "failed", "quit", "terminated"}
    BY <2>2, QuietIsSettled DEF Lifecycle, LifeTypes, Quiet
  <2> QED BY <2>2, <2>3 DEF Settled, Up, Down, Half
<1> QED BY <1>1, LifecycleInit, LifecycleStep, SweepingInit, SweepingStep, PTL
        DEF EngineSpec, ShutdownLeavesNobody

-----------------------------------------------------------------------------
(* The tables that neither the books nor the lifecycle speak of.           *)

Tables ==
    /\ graphs \subseteq minted /\ minted \subseteq GraphId
    /\ born \subseteq Creature
    /\ envs \subseteq GraphId
    /\ due \cup swept \subseteq Creature
    /\ closing \in BOOLEAN

LEMMA UnregisterKeepsTables ==
    ASSUME PartitionTypeOK, PartitionTypeOK', Tables, due' = due, swept' = swept, closing' = closing,
           NEW c \in Creature, NEW g, Unregister(c, g)
    PROVE  Tables'
BY DEF Unregister, SplitBookkeeping, Shed, Minting, Tables, PartitionTypeOK, partition, books

LEMMA TablesStep ==
    ASSUME Books, Books', Tables, [EngineNext]_evars
    PROVE  Tables'
<1> USE DEF Tables
<1>1. PartitionTypeOK /\ PartitionTypeOK' /\ table \subseteq Creature
  BY DEF Books, BookTypes
<1>2. ASSUME UNCHANGED <<partition, books, shutting>>, swept' \subseteq swept PROVE Tables'
  BY <1>2 DEF partition, books, shutting
<1>3. ASSUME NEW a \in GraphId, NEW b \in GraphId, Merging(a, b) PROVE Tables'
  BY <1>3 DEF Merging, Merge, life, shutting
<1>4. ASSUME NEW g \in GraphId, Splitting(g) \/ RecipeGraph(g) PROVE Tables'
  BY <1>1, <1>4 DEF Splitting, RecipeGraph, SplitBookkeeping, Minting, PartitionTypeOK, life, shutting
<1>5. ASSUME NEW g \in GraphId, NEW c \in Creature, NEW start \in BOOLEAN, Add(c, g, start)
      PROVE  Tables'
  BY <1>1, <1>5 DEF Add, Begin, Minting, PartitionTypeOK, life, shutting
<1>6. ASSUME NEW c \in Creature,
             Start(c) \/ StartStep(c) \/ StartFails(c) \/ Terminates(c) \/ Stop(c)
      PROVE  Tables'
  BY <1>2, <1>6 DEF Start, Begin, StartStep, AgentUp, Started, StartFails, Terminates, Stop, BeginStop
<1>7. ASSUME NEW c \in Creature, NEW t \in Task, LoopEnds(c, t) PROVE Tables'
  BY <1>2, <1>7 DEF LoopEnds
<1>8. ASSUME NEW c \in Creature, StopStep(c), ~ Removed(c) PROVE Tables'
  BY <1>2, <1>8 DEF StopStep, AgentDown, ModulesDown, Stopped, StopReturns
<1>9. ASSUME NEW c \in Creature, Removed(c) PROVE Tables'
  BY <1>1, <1>9, UnregisterKeepsTables DEF Removed, StopReturns, shutting
<1>10. ASSUME NEW c \in Creature, Remove(c) PROVE Tables'
  BY <1>1, <1>2, <1>10, UnregisterKeepsTables DEF Remove, BeginStop, shutting
<1>11. ASSUME NEW c \in Creature, Visit(c) PROVE Tables'
  BY <1>11 DEF Visit, BeginStop, PassOver, life, partition, books
<1>12. CASE Shutdown \/ ShutdownReturns \/ UNCHANGED evars
  BY <1>1, <1>12 DEF Shutdown, ShutdownReturns, evars, life, partition, books, shutting
<1> QED
  BY <1>3, <1>4, <1>5, <1>6, <1>7, <1>8, <1>9, <1>10, <1>11, <1>12 DEF EngineNext

\* With any number of starts the engine's tables keep their shape.
THEOREM EngineTypes == EngineSpec => []EngineTypeOK
<1>1. EngineInit => Tables
  BY DEF EngineInit, PartitionInit, Tables
<1>2. Books /\ Tables /\ [EngineNext]_evars => Tables'
  BY BooksStep, TablesStep
<1>3. Books /\ Lifecycle /\ Tables => EngineTypeOK
  BY DEF EngineTypeOK, Books, BookTypes, Lifecycle, LifeTypes, Tables
<1> QED
  BY <1>1, <1>2, <1>3, BooksInit, BooksStep, LifecycleInit, LifecycleStep, PTL DEF EngineSpec
=============================================================================

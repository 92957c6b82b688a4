------------------------ MODULE SessionStoresProofs ------------------------
(***************************************************************************)
(* Graphs and their stores, for any creatures, graphs, events and number   *)
(* of copies.  The invariant says whose files the engine's table and the    *)
(* studio's may name: a graph's entries are the graph's own file or files   *)
(* of creatures that were attached, which no other graph has in either.    *)
(* That much is true though the two tables disagree; a creature's own       *)
(* store is its graph's as long as nobody was attached by the older entry.  *)
(***************************************************************************)
EXTENDS SessionStores, FiniteSetTheorems, TLAPS

USE NoGraphIsNoGraphId, EventsAssumption, FileAssumption

\* A graph's entries are a file of its own or of a creature.
OwnFiles == \A g \in GraphId :
    /\ stores[g] \in {g, NoStore} \cup Creature
    /\ studio[g] \in {g, NoStore} \cup Creature

\* No entry names the file of a creature that has not been attached yet.
FreshFiles == \A c \in Creature : c \notin born \/ c \in starting =>
    \A g \in GraphId : stores[g] # c /\ studio[g] # c

\* Graphs of the past included, no two have a file in common.
OneGraphEach == \A g, h \in GraphId : g # h =>
    {stores[g], studio[g]} \cap {stores[h], studio[h]} \subseteq {NoStore}

\* Who was never added has nothing.
UnbornHaveNothing == \A c \in Creature \ born :
    graphOf[c] = NoGraph /\ attached[c] = NoStore /\ recorded[c] = 0

\* The studio is adding creatures that are there.
StartingAreThere == \A c \in starting : graphOf[c] # NoGraph

OwnStores == \A c \in Present \ misled : Known(attached[c]) => attached[c] = stores[graphOf[c]]

Books ==
    /\ SessionTypeOK
    /\ OwnFiles
    /\ FreshFiles
    /\ OneGraphEach
    /\ UnbornHaveNothing
    /\ StartingAreThere
    /\ OwnStores

LEMMA BooksGiveOneStore == Books => OneGraphOneStore
<1> SUFFICES ASSUME Books PROVE OneGraphOneStore
  OBVIOUS
<1>1. \A g, h \in GraphId : stores[g] = stores[h] /\ Known(stores[g]) => g = h
  BY DEF Books, OneGraphEach, Known
<1> QED BY <1>1 DEF Books, OwnStores, OneGraphOneStore, SessionTypeOK, PartitionTypeOK

-----------------------------------------------------------------------------
(* Rows.                                                                   *)

LEMMA CappedCounts ==
    ASSUME NEW n \in Nat
    PROVE  Capped(n) \in 0 .. MaxCopies /\ (n > 0 => Capped(n) > 0)
BY DEF Capped

\* Copying yields counts, keeps what is there, and brings over what is in a source.
LEMMA CopyingKeeps ==
    ASSUME rows \in [File -> [Event -> 0 .. MaxCopies]],
           NEW dst \in [Event -> 0 .. MaxCopies],
           NEW srcs \in SUBSET File, IsFiniteSet(srcs)
    PROVE  /\ WithCopies(dst, srcs) \in [Event -> 0 .. MaxCopies]
           /\ \A e \in Event :
                 dst[e] > 0 \/ (\E f \in srcs : rows[f][e] > 0)
                    => WithCopies(dst, srcs)[e] > 0
<1> DEFINE copied(e) == {r \in srcs \X (1 .. MaxCopies) : r[2] <= rows[r[1]][e]}
<1>1. ASSUME NEW e \in Event
      PROVE  /\ IsFiniteSet(copied(e)) /\ Cardinality(copied(e)) \in Nat
             /\ (\E f \in srcs : rows[f][e] > 0) => Cardinality(copied(e)) > 0
  <2>1. IsFiniteSet(srcs \X (1 .. MaxCopies))
    <3>1. IsFiniteSet(1 .. MaxCopies)
      BY FS_Interval
    <3> QED BY <3>1, FS_Product
  <2>2. copied(e) \subseteq srcs \X (1 .. MaxCopies)
    OBVIOUS
  <2>3. IsFiniteSet(copied(e)) /\ Cardinality(copied(e)) \in Nat
    <3> HIDE DEF copied
    <3> QED BY <2>1, <2>2, FS_Subset, FS_CardinalityType
  <2>4. ASSUME NEW f \in srcs, rows[f][e] > 0 PROVE copied(e) # {}
    <3>1. 1 \in 1 .. MaxCopies /\ 1 <= rows[f][e]
      BY <2>4
    <3>2. <<f, 1>> \in copied(e)
      BY <3>1
    <3> QED BY <3>2
  <2>5. copied(e) # {} => Cardinality(copied(e)) # 0
    <3> HIDE DEF copied
    <3> QED BY <2>3, FS_EmptySet
  <2> QED BY <2>3, <2>4, <2>5
<1>2. WithCopies(dst, srcs) = [e \in Event |-> Capped(dst[e] + Cardinality(copied(e)))]
  BY DEF WithCopies
<1>3. ASSUME NEW e \in Event
      PROVE  /\ Capped(dst[e] + Cardinality(copied(e))) \in 0 .. MaxCopies
             /\ dst[e] > 0 \/ (\E f \in srcs : rows[f][e] > 0)
                  => Capped(dst[e] + Cardinality(copied(e))) > 0
  <2> HIDE DEF copied
  <2>1. dst[e] \in Nat /\ Cardinality(copied(e)) \in Nat
    BY <1>1
  <2>2. dst[e] + Cardinality(copied(e)) \in Nat
    BY <2>1
  <2>3. dst[e] > 0 \/ (\E f \in srcs : rows[f][e] > 0) => dst[e] + Cardinality(copied(e)) > 0
    BY <1>1, <2>1
  <2> QED BY <2>2, <2>3, CappedCounts
<1> HIDE DEF copied
<1> QED BY <1>2, <1>3

-----------------------------------------------------------------------------
(* One lemma for each operation: the books are kept, and whatever could be *)
(* read still can.                                                         *)

KeptFor(c) == graphOf'[c] # NoGraph =>
    \A e \in Event : Known(stores[graphOf[c]]) /\ rows[stores[graphOf[c]]][e] > 0 =>
        Known(stores'[graphOf'[c]]) /\ rows'[stores'[graphOf'[c]]][e] > 0

Kept == \A c \in Present : KeptFor(c)

\* What a hot-plug leaves of that.
KeptByOthers == \A c \in Present :
    ~ GivenBack(graphOf[c]) \/ c \notin misled' => KeptFor(c)

\* Rows stay, and so do the stores of those who stay where they are.
LEMMA SameStores ==
    ASSUME SessionTypeOK, UNCHANGED <<stores, rows>>,
           \A c \in Present : graphOf'[c] # NoGraph => graphOf'[c] = graphOf[c]
    PROVE  Kept
BY DEF Kept, KeptFor

LEMMA AddKeepsBooks ==
    ASSUME Books, NEW c \in Creature, NEW byStudio \in BOOLEAN, Add(c, byStudio)
    PROVE  Books' /\ Kept
<1> USE DEF Books
<1>1. PICK g \in GraphId : Join(c, g)
  BY DEF Add
<1>2. /\ c \notin born /\ born' = born \cup {c}
      /\ graphOf[c] = NoGraph
      /\ graphs' = graphs \cup {g} /\ graphOf' = [graphOf EXCEPT ![c] = g]
      /\ minted' = minted \cup graphs'
      /\ starting' \in {starting, starting \cup {c}}
      /\ UNCHANGED <<stores, studio, attached, rows, recorded, misled>>
  BY <1>1 DEF Add, Join, Minting, books
<1>3. SessionTypeOK'
  BY <1>2 DEF SessionTypeOK, PartitionTypeOK
<1>4. OwnFiles' /\ FreshFiles' /\ OneGraphEach'
  BY <1>2 DEF OwnFiles, FreshFiles, OneGraphEach
<1>5. UnbornHaveNothing' /\ StartingAreThere' /\ OwnStores'
  BY <1>2 DEF UnbornHaveNothing, StartingAreThere, OwnStores, Present, Known, SessionTypeOK, PartitionTypeOK
<1>6. Kept
  BY <1>2, SameStores DEF Present, SessionTypeOK, PartitionTypeOK
<1> QED BY <1>3, <1>4, <1>5, <1>6

\* A creature is given the store its graph has, or opens one for a graph that has
\* none; or, its graph with it, one that the graph has left.
LEMMA AttachForCreatureKeepsBooks ==
    ASSUME Books, NEW c \in Creature, AttachForCreature(c)
    PROVE  Books' /\ KeptByOthers
<1> DEFINE g == graphOf[c]
           f == StoreFor(c)
<1> USE DEF Books
<1>1. /\ c \in starting /\ starting' = starting \ {c}
      /\ attached' = [attached EXCEPT ![c] = f]
      /\ stores' = [stores EXCEPT ![g] = f]
      /\ studio' = [studio EXCEPT ![g] = f]
      /\ misled' = IF Outdated(g) THEN misled \cup In(g) ELSE misled
      /\ UNCHANGED <<graphs, graphOf, minted, born, rows, recorded>>
  BY DEF AttachForCreature, partition
<1>2. g \in GraphId
  BY <1>1 DEF StartingAreThere, SessionTypeOK, PartitionTypeOK
<1>3. /\ f \in {stores[g], studio[g]} \/ f = c
      /\ f \in File /\ Known(f)
      /\ Known(stores[g]) /\ ~ Outdated(g) => f = stores[g]
      /\ Outdated(g) => f = studio[g]
  BY <1>1, <1>2 DEF StoreFor, Known, Outdated, SessionTypeOK, File
<1>4. \A d \in Creature : d \in In(g) <=> graphOf[d] = g
  BY DEF In
<1>5. \A h \in GraphId : h # g => stores'[h] = stores[h] /\ studio'[h] = studio[h]
  BY <1>1 DEF SessionTypeOK
<1>6. stores'[g] = f /\ studio'[g] = f
  BY <1>1, <1>2 DEF SessionTypeOK
<1>7. SessionTypeOK'
  <2>1. misled' \subseteq Creature
    BY <1>1 DEF In, SessionTypeOK
  <2> QED BY <1>1, <1>3, <2>1 DEF SessionTypeOK, PartitionTypeOK
<1> HIDE DEF f, g
<1>8. OwnFiles'
  BY <1>2, <1>3, <1>5, <1>6 DEF OwnFiles
<1>9. FreshFiles'
  BY <1>1, <1>2, <1>3, <1>5, <1>6 DEF FreshFiles, SessionTypeOK, Known
<1>10. OneGraphEach'
  <2>1. \A h \in GraphId : h # g => f \notin {stores[h], studio[h]}
    BY <1>1, <1>2, <1>3 DEF OneGraphEach, FreshFiles, Known
  <2> QED BY <1>2, <1>5, <1>6, <2>1 DEF OneGraphEach
<1>11. UnbornHaveNothing' /\ StartingAreThere'
  BY <1>1 DEF UnbornHaveNothing, StartingAreThere, SessionTypeOK
<1>12. ASSUME NEW d \in Present, d \notin misled', Known(attached'[d])
       PROVE  attached'[d] = stores'[graphOf'[d]]
  <2>1. d \in Creature /\ graphOf'[d] = graphOf[d] /\ graphOf[d] \in GraphId /\ d \notin misled
    BY <1>1, <1>12 DEF Present, SessionTypeOK, PartitionTypeOK
  <2>2. CASE d = c
    BY <1>1, <1>6, <2>1, <2>2 DEF SessionTypeOK, g
  <2>3. CASE d # c
    <3>1. attached'[d] = attached[d] /\ attached[d] = stores[graphOf[d]]
      BY <1>1, <1>12, <2>1, <2>3 DEF OwnStores, Present, SessionTypeOK
    <3>2. graphOf[d] = g => ~ Outdated(g)
      BY <1>1, <1>4, <1>12, <2>1
    <3> QED BY <1>3, <1>5, <1>6, <1>12, <2>1, <3>1, <3>2
  <2> QED BY <2>2, <2>3
<1>13. OwnStores'
  BY <1>1, <1>12 DEF OwnStores, Present
<1>14. ASSUME NEW d \in Present, ~ GivenBack(graphOf[d]) \/ d \notin misled'
       PROVE  KeptFor(d)
  <2>1. d \in Creature /\ graphOf'[d] = graphOf[d] /\ graphOf[d] \in GraphId /\ rows' = rows
    BY <1>1 DEF Present, SessionTypeOK, PartitionTypeOK
  <2>2. graphOf[d] = g => ~ Outdated(g)
    BY <1>1, <1>3, <1>4, <1>6, <1>14, <2>1 DEF GivenBack
  <2>3. Known(stores[graphOf[d]]) => stores'[graphOf[d]] = stores[graphOf[d]]
    BY <1>3, <1>5, <1>6, <2>1, <2>2
  <2> QED BY <2>1, <2>3 DEF KeptFor
<1> QED BY <1>7, <1>8, <1>9, <1>10, <1>11, <1>13, <1>14 DEF KeptByOthers

LEMMA AttachSessionKeepsBooks ==
    ASSUME Books, NEW g \in GraphId, AttachSession(g)
    PROVE  Books' /\ Kept
<1> USE DEF Books
<1>1. /\ ~ Known(stores[g])
      /\ stores' = [stores EXCEPT ![g] = g] /\ studio' = [studio EXCEPT ![g] = g]
      /\ attached' = [c \in Creature |-> IF graphOf[c] = g THEN g ELSE attached[c]]
      /\ UNCHANGED <<graphs, graphOf, minted, starting, born, rows, recorded, misled>>
  BY DEF AttachSession, Attach, In, partition
<1>2. SessionTypeOK'
  BY <1>1 DEF SessionTypeOK, PartitionTypeOK, File
<1>3. OwnFiles' /\ FreshFiles'
  BY <1>1 DEF OwnFiles, FreshFiles, SessionTypeOK
<1>4. OneGraphEach'
  BY <1>1 DEF OneGraphEach, OwnFiles, Known, SessionTypeOK
<1>5. UnbornHaveNothing' /\ StartingAreThere' /\ OwnStores'
  BY <1>1 DEF UnbornHaveNothing, StartingAreThere, OwnStores, Present, Known, SessionTypeOK
<1>6. Kept
  BY <1>1 DEF Kept, KeptFor, Present, SessionTypeOK, PartitionTypeOK
<1> QED BY <1>2, <1>3, <1>4, <1>5, <1>6

\* What a creature records is in its store, and nothing else changes.
LEMMA RecordKeepsBooks ==
    ASSUME Books, NEW c \in Creature, Record(c)
    PROVE  /\ Books' /\ Kept
           /\ c \notin misled => rows'[stores[graphOf[c]]][<<c, recorded[c] + 1>>] > 0
<1> DEFINE f == attached[c]
           x == <<c, recorded[c] + 1>>
<1> USE DEF Books
<1>1. /\ graphOf[c] # NoGraph /\ Known(f)
      /\ recorded[c] < MaxEvents
      /\ recorded' = [recorded EXCEPT ![c] = @ + 1]
      /\ rows' = [rows EXCEPT ![f][x] = Capped(@ + 1)]
      /\ UNCHANGED <<graphs, graphOf, minted, starting, born, stores, studio, attached, misled>>
  BY DEF Record, partition
<1>2. f \in File /\ x \in Event
  BY <1>1 DEF SessionTypeOK, Known, Event
<1>3. rows[f][x] \in 0 .. MaxCopies
  BY <1>2 DEF SessionTypeOK
<1>4. Capped(rows[f][x] + 1) \in 0 .. MaxCopies /\ Capped(rows[f][x] + 1) > 0
  BY <1>3, CappedCounts
<1> HIDE DEF f, x
<1>5. /\ rows' \in [File -> [Event -> 0 .. MaxCopies]]
      /\ rows'[f][x] > 0
      /\ \A g \in File, e \in Event : rows[g][e] > 0 => rows'[g][e] > 0
  BY <1>1, <1>2, <1>4 DEF SessionTypeOK
<1>6. recorded' \in [Creature -> 0 .. MaxEvents]
  BY <1>1 DEF SessionTypeOK
<1>7. SessionTypeOK'
  BY <1>1, <1>5, <1>6 DEF SessionTypeOK, PartitionTypeOK
<1>8. OwnFiles' /\ FreshFiles' /\ OneGraphEach' /\ OwnStores'
  BY <1>1 DEF OwnFiles, FreshFiles, OneGraphEach, OwnStores, Present
<1>9. UnbornHaveNothing' /\ StartingAreThere'
  BY <1>1 DEF UnbornHaveNothing, StartingAreThere, SessionTypeOK
<1>10. Kept
  BY <1>1, <1>5 DEF Kept, KeptFor, Present, Known, SessionTypeOK, PartitionTypeOK
<1>11. c \notin misled => rows'[stores[graphOf[c]]][x] > 0
  BY <1>1, <1>5 DEF OwnStores, Present, f
<1> QED BY <1>7, <1>8, <1>9, <1>10, <1>11 DEF x

\* A merge: everything of either store is in the kept graph's own file.
LEMMA MergingKeepsBooks ==
    ASSUME Books, NEW a \in GraphId, NEW b \in GraphId, Merging(a, b)
    PROVE  Books' /\ Kept
<1> USE DEF Books
<1>1. /\ a \in graphs /\ b \in graphs /\ a # b
      /\ graphs' = graphs \ {b}
      /\ graphOf' = [c \in Creature |-> IF graphOf[c] = b THEN a ELSE graphOf[c]]
      /\ UNCHANGED <<minted, starting, born, recorded>>
      /\ apply_merge(a, b)
  BY DEF Merging, Merge
<1>2. PartitionTypeOK' /\ graphs' \subseteq minted'
  BY <1>1 DEF PartitionTypeOK, SessionTypeOK
<1>3. CASE ~ Known(stores[a]) /\ ~ Known(stores[b])
  <2>1. UNCHANGED <<stores, studio, attached, rows, misled>>
    BY <1>1, <1>3 DEF apply_merge, books
  <2>2. SessionTypeOK'
    BY <1>1, <1>2, <2>1 DEF SessionTypeOK
  <2>3. OwnFiles' /\ FreshFiles' /\ OneGraphEach'
    BY <1>1, <2>1 DEF OwnFiles, FreshFiles, OneGraphEach
  <2>4. UnbornHaveNothing' /\ StartingAreThere' /\ OwnStores'
    <3>1. \A c \in Creature : /\ graphOf[c] = NoGraph <=> graphOf'[c] = NoGraph
                              /\ graphOf[c] = b => graphOf'[c] = a
                              /\ graphOf[c] # b => graphOf'[c] = graphOf[c]
      BY <1>1
    <3>2. UnbornHaveNothing'
      BY <1>1, <2>1, <3>1 DEF UnbornHaveNothing
    <3>3. StartingAreThere'
      BY <1>1, <3>1 DEF StartingAreThere, SessionTypeOK
    <3>4. OwnStores'
      BY <1>1, <1>3, <2>1, <3>1 DEF OwnStores, Present, Known, SessionTypeOK, PartitionTypeOK
    <3> QED BY <3>2, <3>3, <3>4
  <2>5. Kept
    BY <1>1, <1>3, <2>1 DEF Kept, KeptFor, Present, SessionTypeOK, PartitionTypeOK
  <2> QED BY <2>2, <2>3, <2>4, <2>5
<1>4. CASE Known(stores[a]) \/ Known(stores[b])
  <2>1. /\ rows' = [rows EXCEPT ![a] = MergedRows(a, b)]
        /\ stores' = [stores EXCEPT ![a] = a, ![b] = NoStore]
        /\ attached' = [c \in Creature |-> IF graphOf'[c] = a THEN a ELSE attached[c]]
        /\ studio' = studio
        /\ misled' = misled
    BY <1>1, <1>4 DEF apply_merge, Attach, Rewired
  <2> DEFINE srcs == {stores[a], stores[b]} \ {a, NoStore}
  <2>2. /\ srcs \in SUBSET File /\ IsFiniteSet(srcs)
        /\ rows[a] \in [Event -> 0 .. MaxCopies]
    <3>1. IsFiniteSet({stores[a]}) /\ IsFiniteSet({stores[b]})
      BY FS_Singleton
    <3>2. IsFiniteSet({stores[a], stores[b]})
      <4>1. {stores[a], stores[b]} = {stores[a]} \cup {stores[b]}
        OBVIOUS
      <4> QED BY ONLY <3>1, <4>1, FS_Union
    <3>3. IsFiniteSet(srcs)
      BY <3>2, FS_Subset
    <3> QED BY <3>3 DEF SessionTypeOK, File
  <2>3. /\ MergedRows(a, b) \in [Event -> 0 .. MaxCopies]
        /\ \A e \in Event : rows[a][e] > 0 \/ (\E f \in srcs : rows[f][e] > 0)
              => MergedRows(a, b)[e] > 0
    <3> HIDE DEF srcs
    <3>1. MergedRows(a, b) = WithCopies(rows[a], srcs)
      BY DEF MergedRows, srcs
    <3> QED BY <2>2, <3>1, CopyingKeeps DEF SessionTypeOK
  <2>4. SessionTypeOK'
    BY <1>1, <1>2, <2>1, <2>3 DEF SessionTypeOK, File
  <2>5. OwnFiles' /\ FreshFiles' /\ OneGraphEach'
    BY <1>1, <2>1 DEF OwnFiles, FreshFiles, OneGraphEach, SessionTypeOK, Known
  <2>6. UnbornHaveNothing' /\ StartingAreThere' /\ OwnStores'
    <3>1. \A c \in Creature : /\ graphOf[c] = NoGraph <=> graphOf'[c] = NoGraph
                              /\ graphOf[c] = b => graphOf'[c] = a
                              /\ graphOf[c] # b => graphOf'[c] = graphOf[c]
      BY <1>1
    <3>2. UnbornHaveNothing'
      BY <1>1, <2>1, <3>1 DEF UnbornHaveNothing
    <3>3. StartingAreThere'
      BY <1>1, <3>1 DEF StartingAreThere, SessionTypeOK
    <3>4. OwnStores'
      BY <1>1, <2>1, <3>1 DEF OwnStores, Present, Known, SessionTypeOK, PartitionTypeOK
    <3> QED BY <3>2, <3>3, <3>4
  <2>7. ASSUME NEW c \in Present, NEW e \in Event,
               Known(stores[graphOf[c]]), rows[stores[graphOf[c]]][e] > 0
        PROVE  Known(stores'[graphOf'[c]]) /\ rows'[stores'[graphOf'[c]]][e] > 0
    <3>1. graphOf[c] \in graphs
      BY DEF Present, SessionTypeOK, PartitionTypeOK
    <3>2. CASE graphOf[c] \in {a, b}
      <4>1. graphOf'[c] = a /\ stores'[a] = a /\ rows'[a] = MergedRows(a, b)
        BY <1>1, <2>1, <3>2 DEF Present, SessionTypeOK, File
      <4>2. stores[graphOf[c]] = a \/ stores[graphOf[c]] \in srcs
        BY <2>7, <3>2 DEF Known
      <4>3. MergedRows(a, b)[e] > 0
        BY <2>3, <2>7, <4>2
      <4> QED BY <4>1, <4>3 DEF Known
    <3>3. CASE graphOf[c] \notin {a, b}
      <4>1. /\ graphOf'[c] = graphOf[c]
            /\ stores'[graphOf[c]] = stores[graphOf[c]]
            /\ stores[graphOf[c]] # a
        BY <1>1, <2>1, <3>1, <3>3 DEF Present, SessionTypeOK, PartitionTypeOK, OwnFiles
      <4> QED BY <2>1, <2>7, <3>1, <4>1 DEF SessionTypeOK, PartitionTypeOK, Known
    <3> QED BY <3>2, <3>3
  <2> QED BY <2>4, <2>5, <2>6, <2>7 DEF Kept, KeptFor
<1> QED BY <1>3, <1>4

\* Creatures that a split distributes land in their graph or a new one.
LEMMA RehomedLand ==
    ASSUME PartitionTypeOK, NEW g \in graphs, NEW M \in SUBSET Creature,
           NEW base \in [Creature -> graphs \cup {NoGraph}], Rehomed(g, M, base)
    PROVE  /\ PartitionTypeOK' /\ graphs \subseteq graphs'
           /\ \A c \in M : graphOf'[c] # NoGraph /\ graphOf'[c] \in {g} \cup (graphs' \ graphs)
           /\ \A c \in Creature \ M : graphOf'[c] = base[c]
<1>1. PICK home \in [M -> {g} \cup (GraphId \ graphs)] :
          /\ graphs' = graphs \cup {home[c] : c \in M}
          /\ graphOf' = [c \in Creature |-> IF c \in M THEN home[c] ELSE base[c]]
  BY DEF Rehomed
<1>2. g \in GraphId /\ \A c \in M : home[c] \in GraphId /\ home[c] \in graphs'
  BY <1>1 DEF PartitionTypeOK
<1>3. /\ graphs \subseteq graphs' /\ graphs' \subseteq GraphId
      /\ graphOf' \in [Creature -> graphs' \cup {NoGraph}]
  BY <1>1, <1>2 DEF PartitionTypeOK
<1> QED BY <1>1, <1>2, <1>3 DEF PartitionTypeOK

\* What a split of graph g or a departure from it does, in one.
LEMMA SplittingMoves ==
    ASSUME Books, NEW g \in GraphId, Splitting(g)
    PROVE  /\ PartitionTypeOK' /\ graphs' \subseteq minted' /\ minted' \subseteq GraphId
           /\ (graphs' \ graphs) \cap graphs = {} /\ g \in graphs
           /\ \A c \in Creature :
                 /\ graphOf[c] = g => graphOf'[c] \in {g, NoGraph} \cup (graphs' \ graphs)
                 /\ graphOf[c] # g => graphOf'[c] = graphOf[c]
                 /\ graphs' \ graphs = {} => graphOf'[c] \in {graphOf[c], NoGraph}
                 /\ c \in starting => graphOf'[c] # NoGraph
<1> USE DEF Books, SessionTypeOK
<1>1. minted' = minted \cup graphs' /\ minted \subseteq GraphId /\ graphs \subseteq minted
  BY DEF Splitting, Minting
<1>2. PartitionTypeOK /\ graphOf \in [Creature -> graphs \cup {NoGraph}]
  BY DEF PartitionTypeOK
<1>3. CASE Split(g)
  <2>1. g \in graphs /\ In(g) \in SUBSET Creature /\ Rehomed(g, In(g), graphOf)
    BY <1>3 DEF Split, In
  <2>2. /\ PartitionTypeOK' /\ graphs \subseteq graphs'
        /\ \A c \in In(g) : graphOf'[c] # NoGraph /\ graphOf'[c] \in {g} \cup (graphs' \ graphs)
        /\ \A c \in Creature \ In(g) : graphOf'[c] = graphOf[c]
    BY ONLY <1>2, <2>1, RehomedLand
  <2> QED BY <1>1, <2>1, <2>2 DEF In, PartitionTypeOK, StartingAreThere
<1>4. ASSUME NEW c \in In(g) \ starting, Leave(c)
      PROVE  /\ PartitionTypeOK' /\ g \in graphs
             /\ \A d \in Creature :
                   /\ graphOf[d] = g => graphOf'[d] \in {g, NoGraph} \cup (graphs' \ graphs)
                   /\ graphOf[d] # g => graphOf'[d] = graphOf[d]
                   /\ graphs' \ graphs = {} => graphOf'[d] \in {graphOf[d], NoGraph}
                   /\ d \in starting => graphOf'[d] # NoGraph
  <2> DEFINE M == In(g) \ {c}
             without == [graphOf EXCEPT ![c] = NoGraph]
  <2>1. /\ c \in Creature /\ graphOf[c] = g /\ g \in graphs
        /\ \/ M = {} /\ graphs' = graphs \ {g} /\ graphOf' = without
           \/ Rehomed(g, M, without)
    BY <1>2, <1>4 DEF In, Leave
  <2>2. /\ without \in [Creature -> graphs \cup {NoGraph}]
        /\ without[c] = NoGraph
        /\ \A d \in Creature \ {c} : without[d] = graphOf[d]
        /\ M \in SUBSET Creature /\ c \notin M
        /\ \A d \in Creature \ {c} : d \in M <=> graphOf[d] = g
    BY <1>2, <2>1 DEF In
  <2> HIDE DEF M, without
  <2>3. CASE M = {} /\ graphs' = graphs \ {g} /\ graphOf' = without
    BY <1>4, <2>1, <2>2, <2>3 DEF PartitionTypeOK, StartingAreThere
  <2>4. CASE Rehomed(g, M, without)
    <3>1. /\ PartitionTypeOK' /\ graphs \subseteq graphs'
          /\ \A d \in M : graphOf'[d] # NoGraph /\ graphOf'[d] \in {g} \cup (graphs' \ graphs)
          /\ \A d \in Creature \ M : graphOf'[d] = without[d]
      BY ONLY <1>2, <2>1, <2>2, <2>4, RehomedLand
    <3> QED BY <1>4, <2>1, <2>2, <3>1 DEF StartingAreThere
  <2> QED BY <2>1, <2>3, <2>4
<1> QED BY <1>1, <1>3, <1>4 DEF Splitting, PartitionTypeOK

\* A split: every piece's file has everything of the store that was the graph's.
LEMMA SplittingKeepsBooks ==
    ASSUME Books, NEW g \in GraphId, Splitting(g)
    PROVE  Books' /\ Kept
<1> USE DEF Books
<1> DEFINE files == SplitFiles(g)
<1>1. /\ PartitionTypeOK' /\ graphs' \subseteq minted' /\ minted' \subseteq GraphId
      /\ (graphs' \ graphs) \cap graphs = {} /\ g \in graphs
      /\ \A c \in Creature :
            /\ graphOf[c] = g => graphOf'[c] \in {g, NoGraph} \cup (graphs' \ graphs)
            /\ graphOf[c] # g => graphOf'[c] = graphOf[c]
            /\ graphs' \ graphs = {} => graphOf'[c] \in {graphOf[c], NoGraph}
            /\ c \in starting => graphOf'[c] # NoGraph
  BY SplittingMoves
<1>2. UNCHANGED <<starting, born, recorded>> /\ apply_split(g)
  BY DEF Splitting
<1>3. StartingAreThere'
  BY <1>1, <1>2 DEF StartingAreThere, SessionTypeOK
<1>4. /\ files \subseteq GraphId
      /\ \A c \in Creature : graphOf[c] = g => graphOf'[c] \in files \cup {NoGraph}
      /\ \A c \in Creature : graphOf[c] # g => graphOf'[c] \notin files
  BY <1>1 DEF SplitFiles, SessionTypeOK, PartitionTypeOK
<1>5. \A c \in Creature : graphOf[c] = NoGraph => graphOf'[c] = NoGraph
  BY <1>1
<1>6. CASE (graphs' \ graphs = {} \/ ~ Known(stores[g])) /\ UNCHANGED books
  <2>1. UNCHANGED <<stores, studio, attached, rows, misled>>
    BY <1>6 DEF books
  <2>2. SessionTypeOK'
    BY <1>1, <1>2, <2>1 DEF SessionTypeOK
  <2>3. OwnFiles' /\ FreshFiles' /\ OneGraphEach'
    BY <1>2, <2>1 DEF OwnFiles, FreshFiles, OneGraphEach
  <2>4. UnbornHaveNothing'
    BY <1>2, <1>5, <2>1 DEF UnbornHaveNothing
  <2>5. ASSUME NEW c \in Creature, graphOf'[c] # NoGraph, graphOf'[c] # graphOf[c]
        PROVE  graphOf[c] = g /\ ~ Known(stores[g])
    BY <1>1, <1>6, <2>5
  <2>6. OwnStores'
    BY <1>5, <2>1, <2>5 DEF OwnStores, Present, Known
  <2>7. Kept
    BY <2>1, <2>5 DEF Kept, KeptFor, Present
  <2> QED BY <1>3, <2>2, <2>3, <2>4, <2>6, <2>7
<1>7. CASE graphs' \ graphs # {} /\ Known(stores[g])
  <2>1. PICK again \in BOOLEAN :
           rows' = [x \in File |-> IF x \in files THEN SplitRows(g, x, again) ELSE rows[x]]
    BY <1>2, <1>7 DEF apply_split
  <2>2. /\ stores' = [x \in GraphId |-> IF x \in files THEN x ELSE stores[x]]
        /\ attached' = [c \in Creature |-> IF graphOf'[c] \in files THEN graphOf'[c] ELSE attached[c]]
        /\ studio' = studio
        /\ misled' = misled
    BY <1>2, <1>7 DEF apply_split, Moved
  <2>3. ASSUME NEW x \in files
        PROVE  /\ SplitRows(g, x, again) \in [Event -> 0 .. MaxCopies]
               /\ \A e \in Event : rows[stores[g]][e] > 0 => SplitRows(g, x, again)[e] > 0
    <3> DEFINE f == stores[g]
    <3>1. f \in File /\ x \in File /\ IsFiniteSet({f})
      BY <1>4, <1>7, FS_Singleton DEF SessionTypeOK, Known, File
    <3>2. /\ WithCopies(rows[x], {f}) \in [Event -> 0 .. MaxCopies]
          /\ \A e \in Event : rows[f][e] > 0 => WithCopies(rows[x], {f})[e] > 0
      BY <3>1, CopyingKeeps DEF SessionTypeOK
    <3>3. ASSUME NEW e \in Event
          PROVE  /\ Capped(2 * rows[f][e]) \in 0 .. MaxCopies
                 /\ rows[f][e] > 0 => Capped(2 * rows[f][e]) > 0
      <4>1. rows[f][e] \in Nat
        BY <3>1 DEF SessionTypeOK
      <4>2. 2 * rows[f][e] \in Nat /\ (rows[f][e] > 0 => 2 * rows[f][e] > 0)
        BY <4>1
      <4> QED BY <4>2, CappedCounts
    <3> HIDE DEF f
    <3> QED BY <3>2, <3>3 DEF SplitRows, f
  <2> HIDE DEF files
  <2>4. rows' \in [File -> [Event -> 0 .. MaxCopies]]
    BY <2>1, <2>3 DEF SessionTypeOK
  <2>5. SessionTypeOK'
    BY <1>1, <1>2, <1>4, <2>2, <2>4 DEF SessionTypeOK, File
  <2>6. OwnFiles' /\ FreshFiles'
    BY <1>2, <1>4, <2>2 DEF OwnFiles, FreshFiles
  <2>7. OneGraphEach'
    BY <1>4, <2>2 DEF OneGraphEach, OwnFiles, Known
  <2>8. UnbornHaveNothing'
    BY <1>2, <1>4, <1>5, <2>2 DEF UnbornHaveNothing
  <2>9. OwnStores'
    BY <1>1, <1>4, <2>2 DEF OwnStores, Present, Known, SessionTypeOK, PartitionTypeOK
  <2>10. ASSUME NEW c \in Present, graphOf'[c] # NoGraph, NEW e \in Event,
                Known(stores[graphOf[c]]), rows[stores[graphOf[c]]][e] > 0
         PROVE  Known(stores'[graphOf'[c]]) /\ rows'[stores'[graphOf'[c]]][e] > 0
    <3>1. CASE graphOf[c] = g
      <4>1. graphOf'[c] \in files /\ graphOf'[c] \in File
        BY <1>4, <2>10, <3>1 DEF Present, File
      <4>2. stores'[graphOf'[c]] = graphOf'[c]
        BY <1>4, <2>2, <4>1
      <4>3. rows'[graphOf'[c]] = SplitRows(g, graphOf'[c], again)
        BY <2>1, <4>1
      <4> QED BY <1>4, <2>3, <2>10, <3>1, <4>1, <4>2, <4>3 DEF Known
    <3>2. CASE graphOf[c] # g
      <4>1. /\ graphOf'[c] = graphOf[c] /\ graphOf[c] \in GraphId
            /\ graphOf[c] \notin files
        BY <1>1, <1>4, <3>2 DEF Present, SessionTypeOK, PartitionTypeOK
      <4>2. stores'[graphOf[c]] = stores[graphOf[c]] /\ stores[graphOf[c]] \notin files
        BY <1>4, <2>2, <2>10, <4>1 DEF OwnFiles, Known
      <4>3. stores[graphOf[c]] \in File
        BY <2>10, <4>1 DEF SessionTypeOK, Known
      <4> QED BY <2>1, <2>10, <4>1, <4>2, <4>3
    <3> QED BY <3>1, <3>2
  <2> QED BY <1>3, <2>5, <2>6, <2>7, <2>8, <2>9, <2>10 DEF Kept, KeptFor
<1> QED BY <1>2, <1>6, <1>7 DEF apply_split

-----------------------------------------------------------------------------
(* Every step, and what follows.                                           *)

\* Nobody records but Record, and nobody comes but by Add, with nothing.
LEMMA StoresStep ==
    ASSUME Books, [SessionNext]_svars
    PROVE  Books' /\ KeptByOthers
<1>0. Kept => KeptByOthers
  BY DEF Kept, KeptByOthers
<1>1. ASSUME NEW c \in Creature, NEW byStudio \in BOOLEAN, Add(c, byStudio) PROVE Books' /\ Kept
  BY <1>1, AddKeepsBooks
<1>2. ASSUME NEW c \in Creature, AttachForCreature(c) PROVE Books' /\ KeptByOthers
  BY <1>2, AttachForCreatureKeepsBooks
<1>3. ASSUME NEW c \in Creature, Record(c) PROVE Books' /\ Kept
  BY <1>3, RecordKeepsBooks
<1>4. ASSUME NEW g \in GraphId, AttachSession(g) PROVE Books' /\ Kept
  BY <1>4, AttachSessionKeepsBooks
<1>5. ASSUME NEW g \in GraphId, Splitting(g) PROVE Books' /\ Kept
  BY <1>5, SplittingKeepsBooks
<1>6. ASSUME NEW a \in GraphId, NEW b \in GraphId, Merging(a, b) PROVE Books' /\ Kept
  BY <1>6, MergingKeepsBooks
<1>7. CASE UNCHANGED svars
  <2>1. UNCHANGED <<graphs, graphOf, minted, starting, born, stores, studio, attached, rows, misled, recorded>>
    BY <1>7 DEF svars, partition, books
  <2>2. Books'
    BY <2>1 DEF Books, SessionTypeOK, PartitionTypeOK, OwnFiles, FreshFiles, OneGraphEach,
                UnbornHaveNothing, StartingAreThere, OwnStores, Present
  <2>3. Kept
    BY <2>1 DEF Kept, KeptFor
  <2> QED BY <2>2, <2>3, <1>0
<1> QED BY <1>0, <1>1, <1>2, <1>3, <1>4, <1>5, <1>6, <1>7 DEF SessionNext

LEMMA StoresInit == SessionInit => Books
<1> SUFFICES ASSUME SessionInit PROVE Books
    OBVIOUS
<1> USE DEF SessionInit, PartitionInit
<1>1. SessionTypeOK
  BY DEF SessionTypeOK, PartitionTypeOK
<1>2. OwnFiles /\ FreshFiles /\ OneGraphEach
  BY DEF OwnFiles, FreshFiles, OneGraphEach, Known
<1>3. UnbornHaveNothing /\ StartingAreThere /\ OwnStores
  BY DEF UnbornHaveNothing, StartingAreThere, OwnStores, Present, Known
<1> QED BY <1>1, <1>2, <1>3 DEF Books

\* What a creature records goes to the store of its graph, and no two graphs have
\* the same one (session_coord.py: apply_merge, apply_split; lifecycle.py:
\* attach_session_store_for_creature), except that those to whose graph a store it
\* had left was given back may write to another one.
THEOREM OneStoreForEachGraph == SessionSpec => []OneGraphOneStore
<1>1. Books /\ [SessionNext]_svars => Books'
  BY StoresStep
<1> QED BY <1>1, StoresInit, BooksGiveOneStore, PTL DEF SessionSpec

\* No event becomes unreadable by a merge, a split or a hot-plug, except by one
\* that gives the graph back a store it had left
\* (session_coord.py: copy_events_into in apply_merge and apply_split).
THEOREM NothingBecomesUnreadable == SessionSpec => HistoryOnlyGrows
<1>1. Books /\ [SessionNext]_svars => Books'
  BY StoresStep
<1>2. Books /\ [SessionNext]_svars
        => [\A c \in Present : graphOf'[c] # NoGraph /\ ~ GivenBack(graphOf[c])
               => Readable(c) \subseteq Readable(c)']_svars
  <2> SUFFICES ASSUME Books, SessionNext, NEW c \in Present, graphOf'[c] # NoGraph,
                      ~ GivenBack(graphOf[c])
               PROVE  Readable(c) \subseteq Readable(c)'
    OBVIOUS
  <2> QED BY StoresStep DEF KeptByOthers, KeptFor, Readable
<1> QED BY <1>1, <1>2, StoresInit, PTL DEF SessionSpec, HistoryOnlyGrows

\* Only its own Record adds to what a creature has recorded.
LEMMA OwnHistoryStep ==
    ASSUME Books, OwnHistoryIsKept, [SessionNext]_svars
    PROVE  OwnHistoryIsKept'
<1> SUFFICES ASSUME NEW c \in Present' \ misled', NEW i \in 1 .. recorded'[c]
             PROVE  <<c, i>> \in Readable(c)'
    BY DEF OwnHistoryIsKept
<1>0. c \notin misled
  <2>1. \A d \in Creature : AttachForCreature(d) => misled \subseteq misled'
    BY DEF AttachForCreature
  <2>2. SessionNext => misled' = misled \/ \E d \in Creature : AttachForCreature(d)
    BY DEF SessionNext, Add, Record, AttachSession, Splitting, Merging,
           apply_merge, apply_split, books
  <2> QED BY <2>1, <2>2 DEF svars, books
<1>1. /\ Books' /\ c \in Creature /\ graphOf'[c] # NoGraph
      /\ c \in Present => KeptFor(c)
  BY StoresStep DEF KeptByOthers, Present
<1>2. /\ recorded[c] \in 0 .. MaxEvents
      /\ recorded'[c] \in 0 .. MaxEvents
  BY <1>1 DEF Books, SessionTypeOK
<1>3. <<c, i>> \in Event
  BY <1>1, <1>2 DEF Event
<1>4. ASSUME c \in Present, i \in 1 .. recorded[c] PROVE <<c, i>> \in Readable(c)'
  BY <1>0, <1>1, <1>3, <1>4 DEF OwnHistoryIsKept, KeptFor, Readable
<1>5. CASE Record(c)
  <2>1. /\ c \in Present
        /\ recorded'[c] = recorded[c] + 1
        /\ Known(attached[c])
        /\ UNCHANGED <<graphOf, stores>>
    BY <1>1, <1>5 DEF Record, Present, Books, SessionTypeOK, partition
  <2>2. i \in 1 .. recorded[c] \/ i = recorded[c] + 1
    BY <1>2, <2>1
  <2>3. CASE i = recorded[c] + 1
    <3>1. rows'[stores[graphOf[c]]][<<c, recorded[c] + 1>>] > 0
      BY <1>0, <1>1, <1>5, RecordKeepsBooks
    <3>2. Known(stores[graphOf[c]])
      BY <1>0, <2>1 DEF Books, OwnStores
    <3> QED BY <1>3, <2>1, <2>3, <3>1, <3>2 DEF Readable
  <2> QED BY <1>4, <2>1, <2>2, <2>3
<1>6. CASE recorded'[c] = recorded[c]
  <2>1. CASE c \in Present
    BY <1>4, <1>6, <2>1
  <2>2. CASE c \notin Present
    <3>1. c \notin born
      <4>1. graphOf[c] = NoGraph /\ graphOf'[c] # NoGraph
        BY <1>1, <2>2 DEF Present
      <4>2. ASSUME NEW d \in Creature, NEW byStudio \in BOOLEAN, Add(d, byStudio), c # d
            PROVE  FALSE
        BY <1>1, <4>1, <4>2 DEF Add, Join, Books, SessionTypeOK, PartitionTypeOK
      <4>3. ASSUME NEW g \in GraphId, Splitting(g) PROVE FALSE
        BY <1>1, <4>1, <4>3, SplittingMoves
      <4>4. ASSUME NEW a \in GraphId, NEW b \in GraphId, Merging(a, b) PROVE FALSE
        BY <1>1, <4>1, <4>4 DEF Merging, Merge
      <4>5. PICK byStudio \in BOOLEAN : Add(c, byStudio)
        BY <4>1, <4>2, <4>3, <4>4 DEF SessionNext, AttachForCreature, Record, AttachSession,
                                      svars, partition
      <4> QED BY <4>5 DEF Add
    <3> QED BY <1>1, <1>6, <3>1 DEF Books, UnbornHaveNothing
  <2> QED BY <2>1, <2>2
<1>7. recorded'[c] = recorded[c] \/ Record(c)
  BY <1>1 DEF SessionNext, Add, AttachForCreature, Record, AttachSession, Splitting, Merging,
              svars, Books, SessionTypeOK
<1> QED BY <1>5, <1>6, <1>7

\* What a creature has recorded can be read in the session it is in, after any
\* history of merges, splits and hot-plugs (session_coord.py, lifecycle.py).
THEOREM OwnHistoryIsReadable == SessionSpec => []OwnHistoryIsKept
<1>1. Books /\ [SessionNext]_svars => Books'
  BY StoresStep
<1>2. SessionInit => OwnHistoryIsKept
  BY DEF SessionInit, PartitionInit, OwnHistoryIsKept, Present
<1> QED BY <1>1, <1>2, StoresInit, OwnHistoryStep, PTL DEF SessionSpec
=============================================================================

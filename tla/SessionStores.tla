--------------------------- MODULE SessionStores ---------------------------
(***************************************************************************)
(* Which session store each graph of the engine writes to, and which events *)
(* the files hold, across merges and splits of graphs                      *)
(* (terrarium/session_coord.py, Terrarium.attach_session of                *)
(* terrarium/engine.py, the studio's own table of stores in                *)
(* studio/sessions/lifecycle.py).                                          *)
(*                                                                         *)
(* The module extends Partition, which Topology implements: an operation   *)
(* merges, splits, creates or drops graphs in one way or another, and what *)
(* the engine does to the stores in the same stretch of code depends on    *)
(* nothing else.  The engine has a session_dir, as the API's engines have, *)
(* so a graph has a file of its own to merge into or split into.           *)
(*                                                                         *)
(* A store is the file behind it: two SessionStore objects on one file are *)
(* one store here.  Only the events table is modelled; meta, channel       *)
(* messages, conversations and the rest are not copied by any of the code. *)
(***************************************************************************)
EXTENDS Partition, Naturals, FiniteSets

CONSTANTS
    NoStore,
    MaxEvents,  \* bound on the events each creature records
    MaxCopies   \* at so many copies of a row counting stops

ASSUME EventsAssumption == MaxEvents \in Nat /\ MaxCopies \in Nat \ {0}
ASSUME FileAssumption ==
    /\ Creature \cap GraphId = {}
    /\ NoStore \notin Creature \cup GraphId

\* <session_dir>/<graph_id>.kohakutr and <session_dir>/<creature_id>.kohakutr.
File == GraphId \cup Creature
Event == Creature \X (1 .. MaxEvents)

VARIABLES
    minted,     \* the graph ids ever used: a uuid does not come twice, and
                \* tables may still hold a dropped one
    starting,   \* creatures the studio is adding: no attach yet
    born,       \* creatures ever added
    stores,     \* Terrarium._session_stores
    studio,     \* the _session_stores of studio.sessions.lifecycle
    attached,   \* Agent.session_store
    rows,       \* per file and event, how many rows of the event it has
    recorded,   \* events each creature has recorded in some store
    misled      \* history: creatures whose graph was given back a store it no
                \* longer wrote to, from the studio's table

books == <<stores, studio, attached, rows, misled>>
svars == <<partition, minted, starting, born, books, recorded>>

Known(store) == store # NoStore

SessionInit ==
    /\ PartitionInit
    /\ minted = {}
    /\ starting = {}
    /\ born = {}
    /\ stores = [g \in GraphId |-> NoStore]
    /\ studio = [g \in GraphId |-> NoStore]
    /\ attached = [c \in Creature |-> NoStore]
    /\ rows = [f \in File |-> [e \in Event |-> 0]]
    /\ recorded = [c \in Creature |-> 0]
    /\ misled = {}

\* new_graph_id, in a step of the topology.
Minting ==
    /\ (graphs' \ graphs) \cap minted = {}
    /\ minted' = minted \cup graphs'

Capped(n) == IF n > MaxCopies THEN MaxCopies ELSE n

\* copy_events_into: every row of the files in srcs is appended to dst.
WithCopies(dst, srcs) ==
    [e \in Event |->
        Capped(dst[e] + Cardinality({r \in srcs \X (1 .. MaxCopies) : r[2] <= rows[r[1]][e]}))]

Attach(C, f) == attached' = [c \in Creature |-> IF c \in C THEN f ELSE attached[c]]

-----------------------------------------------------------------------------
(* apply_merge and apply_split, last in every operation on the topology.   *)

\* Mutant of MergedRows: the target is taken for the kept graph's own file.
MergedRowsOfOthers(a, b) ==
    WithCopies(rows[a], {stores[b]} \ {NoStore})

\* What the file of graph a holds after the merge.  The kept graph's store is
\* left alone if it is that file, and copied into it if it is another one.
MergedRows(a, b) ==
    WithCopies(rows[a], {stores[a], stores[b]} \ {a, NoStore})

\* Mutant of Rewired: those who were there already are forgotten.
RewiredNewcomers(a, b) == {c \in Creature : graphOf[c] = b}

\* The creatures _attach_store_to_graph goes through after a merge.
Rewired(a, b) == {c \in Creature : graphOf'[c] = a}

apply_merge(a, b) ==
    \/ /\ Known(stores[a]) \/ Known(stores[b])
       /\ rows' = [rows EXCEPT ![a] = MergedRows(a, b)]
       /\ stores' = [stores EXCEPT ![a] = a, ![b] = NoStore]
       /\ Attach(Rewired(a, b), a)
       /\ UNCHANGED <<studio, misled>>
    \/ /\ ~ Known(stores[a]) /\ ~ Known(stores[b])
       /\ UNCHANGED books

\* The files a split of graph g writes: one for each piece, g's own included.
SplitFiles(g) == {g} \cup (graphs' \ graphs)

\* Mutant of SplitRows: the graphs that are new start with an empty file.
SplitRowsOfOne(g, x, again) ==
    IF x = g THEN WithCopies(rows[x], {stores[g]}) ELSE rows[x]

\* Each piece x gets a file with everything in it.  If g's store is its own file
\* already that file is copied into itself, and what the others are given
\* depends on whether those rows are still in the cache of the new object.
SplitRows(g, x, again) ==
    LET f == stores[g]
    IN  IF x # f /\ f = g /\ again
        THEN [e \in Event |-> Capped(2 * rows[f][e])]
        ELSE WithCopies(rows[x], {f})

\* The store of creature c after a split into files.
Moved(c, files) == IF graphOf'[c] \in files THEN graphOf'[c] ELSE attached[c]

apply_split(g) ==
    \/ /\ graphs' \ graphs # {}
       /\ Known(stores[g])
       /\ \E again \in BOOLEAN :
             rows' = [x \in File |->
                IF x \in SplitFiles(g) THEN SplitRows(g, x, again) ELSE rows[x]]
       /\ stores' = [x \in GraphId |-> IF x \in SplitFiles(g) THEN x ELSE stores[x]]
       /\ attached' = [c \in Creature |-> Moved(c, SplitFiles(g))]
       /\ UNCHANGED <<studio, misled>>
    \/ /\ graphs' \ graphs = {} \/ ~ Known(stores[g])
       /\ UNCHANGED books

-----------------------------------------------------------------------------
(* Operations.                                                             *)

\* The studio adds a creature, to a graph of its own or to a running session; a
\* recipe adds its creatures to the graph it attaches a store to afterwards.
\* The start of the creature is awaited before it is attached.
Add(c, byStudio) ==
    /\ c \notin born
    /\ \E g \in GraphId : Join(c, g)
    /\ Minting
    /\ born' = born \cup {c}
    /\ starting' = IF byStudio THEN starting \cup {c} ELSE starting
    /\ UNCHANGED <<books, recorded>>

\* attach_session_store_for_creature: the studio's entry for the graph, else the
\* engine's, else a new file named after the creature.
StoreFor(c) ==
    LET g == graphOf[c]
    IN  IF Known(studio[g]) THEN studio[g]
        ELSE IF Known(stores[g]) THEN stores[g] ELSE c

\* No merge and no split touches the studio's entry, so it may name a store the
\* graph has left.
Outdated(g) == Known(stores[g]) /\ Known(studio[g]) /\ studio[g] # stores[g]

AttachForCreature(c) ==
    LET g == graphOf[c]
    IN  /\ c \in starting
        /\ attached' = [attached EXCEPT ![c] = StoreFor(c)]
        /\ stores' = [stores EXCEPT ![g] = StoreFor(c)]
        /\ studio' = [studio EXCEPT ![g] = StoreFor(c)]
        /\ starting' = starting \ {c}
        /\ misled' = IF Outdated(g) THEN misled \cup In(g) ELSE misled
        /\ UNCHANGED <<partition, minted, born, rows, recorded>>

\* start_terrarium: attach_session with a new store at the graph's own path.
AttachSession(g) ==
    /\ g \in graphs
    /\ ~ Known(stores[g]) /\ ~ Known(studio[g])
    /\ In(g) \cap starting = {}
    /\ stores' = [stores EXCEPT ![g] = g]
    /\ studio' = [studio EXCEPT ![g] = g]
    /\ Attach(In(g), g)
    /\ UNCHANGED <<partition, minted, starting, born, rows, recorded, misled>>

\* SessionOutput._record.
Record(c) ==
    /\ graphOf[c] # NoGraph
    /\ Known(attached[c])
    /\ recorded[c] < MaxEvents
    /\ recorded' = [recorded EXCEPT ![c] = @ + 1]
    /\ rows' = [rows EXCEPT ![attached[c]][<<c, recorded[c] + 1>>] = Capped(@ + 1)]
    /\ UNCHANGED <<partition, minted, starting, born, stores, studio, attached, misled>>

\* connect, ensure_same_graph between two graphs.
Merging(a, b) ==
    /\ Merge(a, b)
    /\ apply_merge(a, b)
    /\ UNCHANGED <<minted, starting, born, recorded>>

\* disconnect, remove_channel, unwire, remove_creature, whether or not the graph
\* falls apart.
Splitting(g) ==
    /\ Split(g) \/ \E c \in In(g) \ starting : Leave(c)
    /\ Minting
    /\ apply_split(g)
    /\ UNCHANGED <<starting, born, recorded>>

SessionNext ==
    \/ \E c \in Creature :
          \/ \E byStudio \in BOOLEAN : Add(c, byStudio)
          \/ AttachForCreature(c)
          \/ Record(c)
    \/ \E g \in GraphId : AttachSession(g) \/ Splitting(g)
    \/ \E a, b \in GraphId : Merging(a, b)

SessionSpec == SessionInit /\ [][SessionNext]_svars

-----------------------------------------------------------------------------
(* Properties.                                                             *)

SessionTypeOK ==
    /\ PartitionTypeOK
    /\ graphs \subseteq minted /\ minted \subseteq GraphId
    /\ starting \subseteq born /\ born \subseteq Creature
    /\ stores \in [GraphId -> File \cup {NoStore}]
    /\ studio \in [GraphId -> File \cup {NoStore}]
    /\ attached \in [Creature -> File \cup {NoStore}]
    /\ rows \in [File -> [Event -> 0 .. MaxCopies]]
    /\ recorded \in [Creature -> 0 .. MaxEvents]
    /\ misled \subseteq Creature

Present == {c \in Creature : graphOf[c] # NoGraph}

\* The events in the store of the graph creature c is in.
Readable(c) ==
    IF Known(stores[graphOf[c]]) THEN {e \in Event : rows[stores[graphOf[c]]][e] > 0} ELSE {}

\* One graph, one store: no two graphs have the same one, though merges, splits
\* and the studio hand the stores around by three tables, and what a creature
\* records goes to the store of the graph it is in, unless the graph was once
\* given back a store it had left.
OneGraphOneStore ==
    /\ \A c \in Present \ misled : Known(attached[c]) => attached[c] = stores[graphOf[c]]
    /\ \A g, h \in graphs : stores[g] = stores[h] /\ Known(stores[g]) => g = h

\* What a creature has recorded can be read in the session it is in now, after
\* any history of merges, splits and hot-plugs in which the studio's entry was not
\* used for its graph once it was out of date.
OwnHistoryIsKept ==
    \A c \in Present \ misled : \A i \in 1 .. recorded[c] : <<c, i>> \in Readable(c)

\* "Each graph has at most one session store" and a split duplicates the history
\* to every side: what a creature has recorded can be read in its session, no
\* matter which table a hot-plug looked the store up in.
EveryEventIsReadable ==
    \A c \in Present : \A i \in 1 .. recorded[c] : <<c, i>> \in Readable(c)

\* The studio's entry takes the place of the store graph g writes to.
GivenBack(g) == Outdated(g) /\ stores'[g] = studio[g]

\* No event becomes unreadable: whatever the session of a creature could show
\* before a merge, a split, or a hot-plug, it can show afterwards.  Only the step
\* that gives a graph back the store it had left is excepted; what comes after
\* such a step is not.
HistoryOnlyGrows ==
    [][\A c \in Present : graphOf'[c] # NoGraph /\ ~ GivenBack(graphOf[c])
          => Readable(c) \subseteq Readable(c)']_svars

\* What apply_merge is careful about: no row comes to be in a session twice.
NoRowTwice == \A c \in Present, e \in Event :
    Known(stores[graphOf[c]]) => rows[stores[graphOf[c]]][e] <= 1
=============================================================================

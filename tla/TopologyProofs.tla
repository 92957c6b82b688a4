--------------------------- MODULE TopologyProofs ---------------------------
(***************************************************************************)
(* The graphs of the topology and its reverse index stay in step, and no   *)
(* edge ever dangles, for any creatures, channels and graph ids.  The      *)
(* three state properties are inductive only together: that a dropped      *)
(* graph is empty is what lets a fresh id be populated, and that edges     *)
(* stay within their graph is what lets a merge and a split move them.     *)
(*                                                                         *)
(* On it rest the properties of steps: who shares a channel stays          *)
(* together, splits are clean, names never alias; and that the topology    *)
(* implements both Partition and Wiring.                                   *)
(***************************************************************************)
EXTENDS Topology, TLAPS

Inv == TypeOK /\ IndexConsistent /\ EdgesDeclared

EdgeMap == [Creature -> SUBSET Channel]

-----------------------------------------------------------------------------
(* What an edit of one graph hands to Normalize, and that Normalize keeps  *)
(* the invariant from there.                                               *)

\* base already agrees with M about graph g, and with creatures elsewhere.
Agrees(g, M, base) ==
    /\ \A c \in Creature : base[c] = g <=> c \in M
    /\ \A c \in Creature, x \in GraphId :
          x # g => (c \in creatures[x] <=> base[c] = x)

EdgesWithin(M, chs, edges) ==
    \A c \in Creature : edges[c] \subseteq chs /\ (c \notin M => edges[c] = {})

\* Graph g, whose contents are M, chs, ls and sn after an edit, is normalised.
Edit(g, M, chs, ls, sn, base) ==
    /\ g \in graphs
    /\ M \in SUBSET Creature /\ chs \in SUBSET Channel
    /\ ls \in EdgeMap /\ sn \in EdgeMap
    /\ base \in [Creature -> GraphId \cup {NoGraph}]
    /\ Agrees(g, M, base)
    /\ EdgesWithin(M, chs, ls) /\ EdgesWithin(M, chs, sn)
    /\ Normalize(g, M, chs, ls, sn, base)

LEMMA NormalizeKeepsInv ==
    ASSUME Inv,
           NEW g \in graphs, NEW M \in SUBSET Creature,
           NEW chs \in SUBSET Channel, NEW ls \in EdgeMap, NEW sn \in EdgeMap,
           NEW base \in [Creature -> GraphId \cup {NoGraph}],
           Agrees(g, M, base),
           EdgesWithin(M, chs, ls), EdgesWithin(M, chs, sn),
           Normalize(g, M, chs, ls, sn, base)
    PROVE  Inv'
<1> USE DEF EdgeMap
<1>1. g \in GraphId
  BY DEF Inv, TypeOK
<1>2. PICK home \in Homes(g, M, chs, ls, sn) :
        /\ graphs' = graphs \cup ({g} \cup {home[c] : c \in M})
        /\ creatures' = [x \in GraphId |->
             IF x \in ({g} \cup {home[c] : c \in M})
             THEN {c \in M : home[c] = x} ELSE creatures[x]]
        /\ channels' = [x \in GraphId |->
             IF ({g} \cup {home[c] : c \in M}) = {g} /\ x = g THEN chs
             ELSE IF x \in ({g} \cup {home[c] : c \in M})
             THEN chs \cap ChannelsUsedBy({c \in M : home[c] = x}, ls, sn)
             ELSE channels[x]]
        /\ listen' = [x \in GraphId |->
             IF x \in ({g} \cup {home[c] : c \in M})
             THEN Only({c \in M : home[c] = x}, ls) ELSE listen[x]]
        /\ send' = [x \in GraphId |->
             IF x \in ({g} \cup {home[c] : c \in M})
             THEN Only({c \in M : home[c] = x}, sn) ELSE send[x]]
        /\ graphOf' = [c \in Creature |-> IF c \in M THEN home[c] ELSE base[c]]
  BY DEF Normalize
<1> DEFINE touched == {g} \cup {home[c] : c \in M}
<1>3. home \in [M -> {g} \cup FreshIds]
  BY <1>2 DEF Homes
<1>4. touched \subseteq {g} \cup FreshIds /\ FreshIds \subseteq GraphId
  BY <1>3 DEF FreshIds
<1>5. \A x \in touched : x = g \/ (x \notin graphs /\ x # g)
  BY <1>4 DEF FreshIds
<1>6. TypeOK'
  <2>1. graphs' \subseteq GraphId
    BY <1>1, <1>2, <1>4 DEF Inv, TypeOK
  <2>2. creatures' \in [GraphId -> SUBSET Creature]
    BY <1>2 DEF Inv, TypeOK
  <2>3. channels' \in [GraphId -> SUBSET Channel]
    BY <1>2 DEF Inv, TypeOK
  <2>4. \A S : Only(S, ls) \in EdgeMap /\ Only(S, sn) \in EdgeMap
    BY DEF Only
  <2>5. listen' \in [GraphId -> EdgeMap] /\ send' \in [GraphId -> EdgeMap]
    BY <1>2, <2>4 DEF Inv, TypeOK
  <2>6. graphOf' \in [Creature -> GraphId \cup {NoGraph}]
    BY <1>1, <1>2, <1>3, <1>4
  <2> QED
    BY <2>1, <2>2, <2>3, <2>5, <2>6 DEF TypeOK
<1>7. IndexConsistent'
  <2>1. ASSUME NEW c \in Creature, NEW x \in GraphId
        PROVE  c \in creatures'[x] <=> graphOf'[c] = x
    <3>1. CASE x \in touched
      <4>1. c \in creatures'[x] <=> c \in M /\ home[c] = x
        BY <1>2, <3>1
      <4>2. c \notin M => base[c] # x
        BY <1>5, <3>1 DEF Agrees, Inv, IndexConsistent
      <4> QED
        BY <1>2, <4>1, <4>2
    <3>2. CASE x \notin touched
      <4>1. x # g /\ (c \in M => home[c] # x)
        BY <3>2
      <4>2. c \in creatures'[x] <=> base[c] = x
        BY <1>2, <3>2, <4>1 DEF Agrees
      <4>3. c \in M => base[c] = g
        BY DEF Agrees
      <4> QED
        BY <1>2, <4>1, <4>2, <4>3
    <3> QED
      BY <3>1, <3>2
  <2>2. ASSUME NEW x \in GraphId \ graphs'
        PROVE  creatures'[x] = {} /\ channels'[x] = {}
    <3>1. x \notin touched /\ x \in GraphId \ graphs
      BY <1>2
    <3> QED
      BY <1>2, <3>1 DEF Inv, IndexConsistent
  <2> QED
    BY <2>1, <2>2 DEF IndexConsistent
<1>8. EdgesDeclared'
  <2>1. ASSUME NEW x \in GraphId, NEW c \in Creature
        PROVE  /\ listen'[x][c] \cup send'[x][c] \subseteq channels'[x]
               /\ c \notin creatures'[x] => listen'[x][c] \cup send'[x][c] = {}
    <3>1. CASE x \in touched
      <4> DEFINE P == {d \in M : home[d] = x}
      <4>1. /\ creatures'[x] = P
            /\ listen'[x][c] = IF c \in P THEN ls[c] ELSE {}
            /\ send'[x][c] = IF c \in P THEN sn[c] ELSE {}
        BY <1>2, <3>1 DEF Only
      <4>2. ls[c] \cup sn[c] \subseteq chs
        BY DEF EdgesWithin
      <4>3. c \in P => ls[c] \cup sn[c] \subseteq ChannelsUsedBy(P, ls, sn)
        BY DEF ChannelsUsedBy
      <4>4. channels'[x] = chs \/ channels'[x] = chs \cap ChannelsUsedBy(P, ls, sn)
        BY <1>2, <3>1
      <4> QED
        BY <4>1, <4>2, <4>3, <4>4
    <3>2. CASE x \notin touched
      <4>1. /\ creatures'[x] = creatures[x] /\ channels'[x] = channels[x]
            /\ listen'[x] = listen[x] /\ send'[x] = send[x]
        BY <1>2, <3>2
      <4> QED
        BY <4>1 DEF Inv, EdgesDeclared
    <3> QED
      BY <3>1, <3>2
  <2> QED
    BY <2>1 DEF EdgesDeclared
<1> QED
  BY <1>6, <1>7, <1>8 DEF Inv

LEMMA EditKeepsInv ==
    ASSUME Inv, NEW g, NEW M, NEW chs, NEW ls, NEW sn, NEW base,
           Edit(g, M, chs, ls, sn, base)
    PROVE  Inv'
BY NormalizeKeepsInv DEF Edit

-----------------------------------------------------------------------------
(* The operations that go through Normalize.                               *)

LEMMA EdgesOf ==
    ASSUME Inv, NEW g \in graphs
    PROVE  /\ g \in GraphId
           /\ creatures[g] \in SUBSET Creature /\ channels[g] \in SUBSET Channel
           /\ listen[g] \in EdgeMap /\ send[g] \in EdgeMap
           /\ Agrees(g, creatures[g], graphOf)
           /\ EdgesWithin(creatures[g], channels[g], listen[g])
           /\ EdgesWithin(creatures[g], channels[g], send[g])
<1>1. g \in GraphId
  BY DEF Inv, TypeOK
<1>2. Agrees(g, creatures[g], graphOf)
  BY <1>1 DEF Inv, IndexConsistent, Agrees
<1>3. /\ EdgesWithin(creatures[g], channels[g], listen[g])
      /\ EdgesWithin(creatures[g], channels[g], send[g])
  BY <1>1 DEF Inv, EdgesDeclared, EdgesWithin
<1> QED
  BY <1>1, <1>2, <1>3 DEF Inv, TypeOK, EdgeMap

LEMMA GraphOfIsLive ==
    ASSUME Inv, NEW c \in Creature, graphOf[c] # NoGraph
    PROVE  graphOf[c] \in graphs /\ c \in creatures[graphOf[c]]
BY DEF Inv, TypeOK, IndexConsistent

LEMMA ToggledIsEdgeMap ==
    ASSUME NEW edges \in EdgeMap, NEW c \in Creature, NEW n \in Channel, NEW on
    PROVE  /\ Toggled(edges, c, n, on) \in EdgeMap
           /\ \A d \in Creature : Toggled(edges, c, n, on)[d] \subseteq
                  IF d = c THEN edges[d] \cup {n} ELSE edges[d]
BY DEF Toggled, EdgeMap

\* A creature that leaves others behind: what it leaves is normalised.
LEMMA RemoveCreatureEdits ==
    ASSUME Inv, NEW c \in Creature, RemoveCreature(c), creatures[graphOf[c]] \ {c} # {}
    PROVE  Edit(graphOf[c], creatures[graphOf[c]] \ {c}, channels[graphOf[c]],
                [listen[graphOf[c]] EXCEPT ![c] = {}], [send[graphOf[c]] EXCEPT ![c] = {}],
                [graphOf EXCEPT ![c] = NoGraph])
<1> DEFINE g == graphOf[c]
           rest == creatures[g] \ {c}
           ls == [listen[g] EXCEPT ![c] = {}]
           sn == [send[g] EXCEPT ![c] = {}]
           base == [graphOf EXCEPT ![c] = NoGraph]
<1>1. g \in graphs /\ c \in creatures[g]
  BY GraphOfIsLive DEF RemoveCreature
<1>2. /\ g \in GraphId
      /\ creatures[g] \in SUBSET Creature /\ channels[g] \in SUBSET Channel
      /\ listen[g] \in EdgeMap /\ send[g] \in EdgeMap
      /\ Agrees(g, creatures[g], graphOf)
      /\ EdgesWithin(creatures[g], channels[g], listen[g])
      /\ EdgesWithin(creatures[g], channels[g], send[g])
  BY <1>1, EdgesOf
<1>3. Normalize(g, rest, channels[g], ls, sn, base)
  BY DEF RemoveCreature
<1>4. ls \in EdgeMap /\ sn \in EdgeMap
  BY <1>2 DEF EdgeMap
<1>5. base \in [Creature -> GraphId \cup {NoGraph}]
  BY DEF Inv, TypeOK
<1>6. Agrees(g, rest, base)
  <2>1. \A d \in Creature : base[d] = g <=> d \in rest
    BY <1>2, NoGraphAssumption DEF Agrees, Inv, TypeOK
  <2>2. ASSUME NEW d \in Creature, NEW x \in GraphId, x # g
        PROVE  d \in creatures[x] <=> base[d] = x
    BY <1>1, <2>2, NoGraphAssumption DEF Inv, TypeOK, IndexConsistent
  <2> QED
    BY <2>1, <2>2 DEF Agrees
<1>7. EdgesWithin(rest, channels[g], ls) /\ EdgesWithin(rest, channels[g], sn)
  BY <1>2 DEF EdgesWithin, EdgeMap
<1>8. rest \in SUBSET Creature
  BY <1>2
<1>9. Edit(g, rest, channels[g], ls, sn, base)
  <2> HIDE DEF ls, sn, base, rest, g
  <2> QED
    BY <1>1, <1>2, <1>3, <1>4, <1>5, <1>6, <1>7, <1>8 DEF Edit
<1> QED
  BY <1>9

LEMMA RemoveCreatureKeepsInv ==
    ASSUME Inv, NEW c \in Creature, RemoveCreature(c)
    PROVE  Inv'
<1> DEFINE g == graphOf[c]
           rest == creatures[g] \ {c}
<1>1. g \in graphs /\ c \in creatures[g]
  BY GraphOfIsLive DEF RemoveCreature
<1>2. /\ g \in GraphId
      /\ creatures[g] \in SUBSET Creature /\ channels[g] \in SUBSET Channel
      /\ listen[g] \in EdgeMap /\ send[g] \in EdgeMap
      /\ Agrees(g, creatures[g], graphOf)
      /\ EdgesWithin(creatures[g], channels[g], listen[g])
      /\ EdgesWithin(creatures[g], channels[g], send[g])
  BY <1>1, EdgesOf
<1>3. CASE rest = {}
  <2>1. /\ graphs' = graphs \ {g}
        /\ creatures' = [creatures EXCEPT ![g] = {}]
        /\ channels' = [channels EXCEPT ![g] = {}]
        /\ listen' = [listen EXCEPT ![g] = NoEdges]
        /\ send' = [send EXCEPT ![g] = NoEdges]
        /\ graphOf' = [graphOf EXCEPT ![c] = NoGraph]
    BY <1>3 DEF RemoveCreature
  <2>2. TypeOK'
    BY <2>1, <1>2 DEF Inv, TypeOK, NoEdges
  <2>3. IndexConsistent'
    <3>1. ASSUME NEW d \in Creature, NEW x \in GraphId
          PROVE  d \in creatures'[x] <=> graphOf'[d] = x
      <4>1. CASE d = c
        BY <4>1, <2>1, <1>1, NoGraphAssumption DEF Inv, TypeOK, IndexConsistent
      <4>2. CASE d # c
        BY <4>2, <2>1, <1>3 DEF Inv, TypeOK, IndexConsistent
      <4> QED
        BY <4>1, <4>2
    <3>2. ASSUME NEW x \in GraphId \ graphs'
          PROVE  creatures'[x] = {} /\ channels'[x] = {}
      BY <2>1 DEF Inv, TypeOK, IndexConsistent
    <3> QED
      BY <3>1, <3>2 DEF IndexConsistent
  <2>4. EdgesDeclared'
    BY <2>1 DEF Inv, TypeOK, EdgesDeclared, NoEdges
  <2> QED
    BY <2>2, <2>3, <2>4 DEF Inv
<1>4. CASE rest # {}
  BY <1>4, RemoveCreatureEdits, EditKeepsInv
<1> QED
  BY <1>3, <1>4

LEMMA RemoveChannelEdits ==
    ASSUME Inv, NEW g \in GraphId, NEW n \in Channel, RemoveChannel(g, n)
    PROVE  Edit(g, creatures[g], channels[g] \ {n},
                [c \in Creature |-> listen[g][c] \ {n}],
                [c \in Creature |-> send[g][c] \ {n}], graphOf)
<1> DEFINE ls == [c \in Creature |-> listen[g][c] \ {n}]
           sn == [c \in Creature |-> send[g][c] \ {n}]
<1>1. g \in graphs /\ Normalize(g, creatures[g], channels[g] \ {n}, ls, sn, graphOf)
  BY DEF RemoveChannel
<1>2. /\ creatures[g] \in SUBSET Creature /\ channels[g] \in SUBSET Channel
      /\ listen[g] \in EdgeMap /\ send[g] \in EdgeMap
      /\ Agrees(g, creatures[g], graphOf)
      /\ EdgesWithin(creatures[g], channels[g], listen[g])
      /\ EdgesWithin(creatures[g], channels[g], send[g])
  BY <1>1, EdgesOf
<1>3. ls \in EdgeMap /\ sn \in EdgeMap
  BY <1>2 DEF EdgeMap
<1>4. /\ EdgesWithin(creatures[g], channels[g] \ {n}, ls)
      /\ EdgesWithin(creatures[g], channels[g] \ {n}, sn)
  BY <1>2 DEF EdgesWithin
<1>5. graphOf \in [Creature -> GraphId \cup {NoGraph}] /\ channels[g] \ {n} \in SUBSET Channel
  BY <1>2 DEF Inv, TypeOK
<1>6. Edit(g, creatures[g], channels[g] \ {n}, ls, sn, graphOf)
  <2> HIDE DEF ls, sn
  <2> QED
    BY <1>1, <1>2, <1>3, <1>4, <1>5 DEF Edit
<1> QED
  BY <1>6

\* Unwire and Disconnect only take edges away from creatures of g.
LEMMA FewerEdgesEdits ==
    ASSUME Inv, NEW g \in graphs, NEW ls \in EdgeMap, NEW sn \in EdgeMap,
           \A c \in Creature : ls[c] \subseteq listen[g][c] /\ sn[c] \subseteq send[g][c],
           Normalize(g, creatures[g], channels[g], ls, sn, graphOf)
    PROVE  Edit(g, creatures[g], channels[g], ls, sn, graphOf)
<1>1. /\ creatures[g] \in SUBSET Creature /\ channels[g] \in SUBSET Channel
      /\ Agrees(g, creatures[g], graphOf)
      /\ EdgesWithin(creatures[g], channels[g], listen[g])
      /\ EdgesWithin(creatures[g], channels[g], send[g])
  BY EdgesOf
<1>2. /\ EdgesWithin(creatures[g], channels[g], ls)
      /\ EdgesWithin(creatures[g], channels[g], sn)
  BY <1>1 DEF EdgesWithin
<1>3. graphOf \in [Creature -> GraphId \cup {NoGraph}]
  BY DEF Inv, TypeOK
<1> QED
  BY <1>1, <1>2, <1>3 DEF Edit

LEMMA UnwireEdits ==
    ASSUME Inv, NEW c \in Creature, NEW n \in Channel, NEW side, Unwire(c, n, side)
    PROVE  Edit(graphOf[c], creatures[graphOf[c]], channels[graphOf[c]],
                IF side = "listen" THEN Toggled(listen[graphOf[c]], c, n, FALSE)
                                   ELSE listen[graphOf[c]],
                IF side = "send" THEN Toggled(send[graphOf[c]], c, n, FALSE)
                                 ELSE send[graphOf[c]],
                graphOf)
<1> DEFINE g == graphOf[c]
           ls == IF side = "listen" THEN Toggled(listen[g], c, n, FALSE) ELSE listen[g]
           sn == IF side = "send" THEN Toggled(send[g], c, n, FALSE) ELSE send[g]
<1>1. Normalize(g, creatures[g], channels[g], ls, sn, graphOf)
  BY DEF Unwire
<1>2. g \in graphs
  BY GraphOfIsLive DEF Unwire
<1>3. listen[g] \in EdgeMap /\ send[g] \in EdgeMap
  BY <1>2, EdgesOf
<1>4. ls \in EdgeMap /\ sn \in EdgeMap
  BY <1>3 DEF EdgeMap, Toggled
<1>5. \A d \in Creature : ls[d] \subseteq listen[g][d] /\ sn[d] \subseteq send[g][d]
  BY <1>3 DEF EdgeMap, Toggled
<1>6. Edit(g, creatures[g], channels[g], ls, sn, graphOf)
  <2> HIDE DEF ls, sn, g
  <2> QED
    BY <1>1, <1>2, <1>4, <1>5, FewerEdgesEdits
<1> QED
  BY <1>6

LEMMA DisconnectEdits ==
    ASSUME Inv, NEW s \in Creature, NEW r \in Creature, NEW named, Disconnect(s, r, named)
    PROVE  Edit(graphOf[s], creatures[graphOf[s]], channels[graphOf[s]],
                [listen[graphOf[s]] EXCEPT ![r] = @ \ DisconnectTargets(s, r, named)],
                [send[graphOf[s]] EXCEPT ![s] = @ \ DisconnectTargets(s, r, named)],
                graphOf)
<1> DEFINE g == graphOf[s]
           T == DisconnectTargets(s, r, named)
           ls == [listen[g] EXCEPT ![r] = @ \ T]
           sn == [send[g] EXCEPT ![s] = @ \ T]
<1>1. Normalize(g, creatures[g], channels[g], ls, sn, graphOf)
  BY DEF Disconnect
<1>2. g \in graphs
  BY GraphOfIsLive DEF Disconnect
<1>3. listen[g] \in EdgeMap /\ send[g] \in EdgeMap
  BY <1>2, EdgesOf
<1>4. ls \in EdgeMap /\ sn \in EdgeMap
  <2> HIDE DEF g, T
  <2> QED
    BY <1>3 DEF EdgeMap
<1>5. \A d \in Creature : ls[d] \subseteq listen[g][d] /\ sn[d] \subseteq send[g][d]
  <2> HIDE DEF g, T
  <2> QED
    BY <1>3 DEF EdgeMap
<1>6. Edit(g, creatures[g], channels[g], ls, sn, graphOf)
  <2> HIDE DEF ls, sn, g, T
  <2> QED
    BY <1>1, <1>2, <1>4, <1>5, FewerEdgesEdits
<1> QED
  BY <1>6

-----------------------------------------------------------------------------
(* The operations that do not.                                             *)

LEMMA AddCreatureNewKeepsInv ==
    ASSUME Inv, NEW c \in Creature, AddCreatureNew(c)
    PROVE  Inv'
<1>1. PICK g \in FreshIds :
        /\ graphs' = graphs \cup {g}
        /\ creatures' = [creatures EXCEPT ![g] = {c}]
        /\ graphOf' = [graphOf EXCEPT ![c] = g]
  BY DEF AddCreatureNew
<1>2. UNCHANGED <<channels, listen, send>> /\ graphOf[c] = NoGraph
  BY DEF AddCreatureNew
<1>3. g \in GraphId /\ g \notin graphs /\ creatures[g] = {}
  BY DEF FreshIds, Inv, IndexConsistent
<1>4. TypeOK'
  BY <1>1, <1>2, <1>3 DEF Inv, TypeOK
<1>5. IndexConsistent'
  BY <1>1, <1>2, <1>3, NoGraphAssumption DEF Inv, TypeOK, IndexConsistent
<1>6. EdgesDeclared'
  BY <1>1, <1>2, <1>3 DEF Inv, TypeOK, EdgesDeclared
<1> QED
  BY <1>4, <1>5, <1>6 DEF Inv

LEMMA AddCreatureToKeepsInv ==
    ASSUME Inv, NEW c \in Creature, NEW g \in GraphId, AddCreatureTo(c, g)
    PROVE  Inv'
<1>1. TypeOK'
  BY DEF Inv, TypeOK, AddCreatureTo
<1>2. IndexConsistent'
  BY NoGraphAssumption DEF Inv, TypeOK, IndexConsistent, AddCreatureTo
<1>3. EdgesDeclared'
  BY DEF Inv, TypeOK, EdgesDeclared, AddCreatureTo
<1> QED
  BY <1>1, <1>2, <1>3 DEF Inv

LEMMA NewEmptyGraphKeepsInv ==
    ASSUME Inv, NewEmptyGraph
    PROVE  Inv'
BY DEF Inv, TypeOK, IndexConsistent, EdgesDeclared, NewEmptyGraph, FreshIds

LEMMA AddChannelKeepsInv ==
    ASSUME Inv, NEW g \in GraphId, NEW n \in Channel, AddChannel(g, n)
    PROVE  Inv'
BY DEF Inv, TypeOK, IndexConsistent, EdgesDeclared, AddChannel

LEMMA SetEdgeKeepsInv ==
    ASSUME Inv, NEW c \in Creature, NEW n \in Channel, NEW on \in BOOLEAN,
           SetListen(c, n, on) \/ SetSend(c, n, on)
    PROVE  Inv'
<1> DEFINE g == graphOf[c]
<1>1. g \in graphs /\ c \in creatures[g] /\ n \in channels[g]
  BY GraphOfIsLive DEF SetListen, SetSend
<1>2. g \in GraphId /\ listen[g] \in EdgeMap /\ send[g] \in EdgeMap
  BY <1>1, EdgesOf
<1>3. /\ Toggled(listen[g], c, n, on) \in EdgeMap
      /\ Toggled(send[g], c, n, on) \in EdgeMap
      /\ \A d \in Creature :
            /\ Toggled(listen[g], c, n, on)[d] \subseteq
                   IF d = c THEN listen[g][d] \cup {n} ELSE listen[g][d]
            /\ Toggled(send[g], c, n, on)[d] \subseteq
                   IF d = c THEN send[g][d] \cup {n} ELSE send[g][d]
  BY <1>2, ToggledIsEdgeMap
<1>4. /\ UNCHANGED <<graphs, creatures, channels, graphOf>>
      /\ \/ /\ listen' = [listen EXCEPT ![g] = Toggled(listen[g], c, n, on)]
            /\ send' = send
         \/ /\ send' = [send EXCEPT ![g] = Toggled(send[g], c, n, on)]
            /\ listen' = listen
  BY DEF SetListen, SetSend
<1> HIDE DEF g
<1>5. TypeOK'
  BY <1>2, <1>3, <1>4 DEF Inv, TypeOK, EdgeMap
<1>6. IndexConsistent'
  BY <1>4 DEF Inv, IndexConsistent
<1>7. EdgesDeclared'
  <2>1. ASSUME NEW x \in GraphId, NEW d \in Creature
        PROVE  /\ listen'[x][d] \cup send'[x][d] \subseteq channels[x]
               /\ d \notin creatures[x] => listen'[x][d] \cup send'[x][d] = {}
    <3>1. /\ listen[x][d] \cup send[x][d] \subseteq channels[x]
          /\ d \notin creatures[x] => listen[x][d] \cup send[x][d] = {}
      BY DEF Inv, EdgesDeclared
    <3>2. /\ listen'[x][d] = listen[x][d] \/ (x = g /\ listen'[x][d] = Toggled(listen[g], c, n, on)[d])
          /\ send'[x][d] = send[x][d] \/ (x = g /\ send'[x][d] = Toggled(send[g], c, n, on)[d])
      BY <1>4 DEF Inv, TypeOK
    <3>3. /\ x = g => Toggled(listen[g], c, n, on)[d] \subseteq
                          IF d = c THEN listen[x][d] \cup {n} ELSE listen[x][d]
          /\ x = g => Toggled(send[g], c, n, on)[d] \subseteq
                          IF d = c THEN send[x][d] \cup {n} ELSE send[x][d]
      BY <1>3
    <3>4. /\ listen'[x][d] \subseteq listen[x][d] \cup (IF x = g /\ d = c THEN {n} ELSE {})
          /\ send'[x][d] \subseteq send[x][d] \cup (IF x = g /\ d = c THEN {n} ELSE {})
      BY <3>2, <3>3
    <3> QED
      BY <1>1, <3>1, <3>4
  <2> QED
    BY <1>4, <2>1 DEF EdgesDeclared
<1> QED
  BY <1>5, <1>6, <1>7 DEF Inv

-----------------------------------------------------------------------------
(* Merges.                                                                 *)

\* ls and sn hold what the merged graphs held and, in graph a, edges on
\* channels of extra of creatures of the merged graph.
LEMMA MergeKeepsInv ==
    ASSUME Inv, NEW a \in graphs, NEW b \in graphs,
           NEW extra \in SUBSET Channel, NEW ls \in [GraphId -> EdgeMap],
           NEW sn \in [GraphId -> EdgeMap],
           \A x \in GraphId, c \in Creature :
               /\ ls[x][c] \subseteq MergedEdges(listen, a, b)[x][c]
                     \cup (IF x = a /\ c \in creatures[a] \cup creatures[b] THEN extra ELSE {})
               /\ sn[x][c] \subseteq MergedEdges(send, a, b)[x][c]
                     \cup (IF x = a /\ c \in creatures[a] \cup creatures[b] THEN extra ELSE {}),
           MergeGraphs(a, b, extra, ls, sn)
    PROVE  Inv'
<1>1. a \in GraphId /\ b \in GraphId
  BY DEF Inv, TypeOK
<1>2. /\ graphs' = IF a = b THEN graphs ELSE graphs \ {b}
      /\ creatures' = MergedSets(creatures, a, b)
      /\ channels' = [MergedSets(channels, a, b) EXCEPT ![a] = @ \cup extra]
      /\ listen' = ls
      /\ send' = sn
      /\ graphOf' = [c \in Creature |-> IF graphOf[c] = b THEN a ELSE graphOf[c]]
  BY DEF MergeGraphs
<1>3. creatures' \in [GraphId -> SUBSET Creature]
  BY <1>1, <1>2 DEF MergedSets, Inv, TypeOK
<1>4. channels' \in [GraphId -> SUBSET Channel]
  BY <1>1, <1>2 DEF MergedSets, Inv, TypeOK
<1>5. \A x \in GraphId :
        /\ creatures'[x] = IF x = a THEN creatures[a] \cup creatures[b]
                           ELSE IF x = b THEN {} ELSE creatures[x]
        /\ channels'[x] = IF x = a THEN channels[a] \cup channels[b] \cup extra
                          ELSE IF x = b THEN {} ELSE channels[x]
  BY <1>1, <1>2 DEF MergedSets
<1>6. TypeOK'
  BY <1>1, <1>2, <1>3, <1>4 DEF Inv, TypeOK, EdgeMap
<1>7. IndexConsistent'
  <2>1. ASSUME NEW c \in Creature, NEW x \in GraphId
        PROVE  c \in creatures'[x] <=> graphOf'[c] = x
    <3>1. graphOf'[c] = IF graphOf[c] = b THEN a ELSE graphOf[c]
      BY <1>2
    <3>2. \A y \in GraphId : c \in creatures[y] <=> graphOf[c] = y
      BY DEF Inv, IndexConsistent
    <3> QED
      BY <1>1, <1>5, <3>1, <3>2
  <2>2. ASSUME NEW x \in GraphId \ graphs'
        PROVE  creatures'[x] = {} /\ channels'[x] = {}
    BY <1>2, <1>5 DEF Inv, IndexConsistent
  <2> QED
    BY <2>1, <2>2 DEF IndexConsistent
<1>8. EdgesDeclared'
  <2>1. ASSUME NEW x \in GraphId, NEW c \in Creature
        PROVE  /\ listen'[x][c] \cup send'[x][c] \subseteq channels'[x]
               /\ c \notin creatures'[x] => listen'[x][c] \cup send'[x][c] = {}
    <3>1. \A y \in GraphId :
            /\ listen[y][c] \cup send[y][c] \subseteq channels[y]
            /\ c \notin creatures[y] => listen[y][c] \cup send[y][c] = {}
      BY DEF Inv, EdgesDeclared
    <3>2. /\ MergedEdges(listen, a, b)[x][c] =
                IF x = a THEN listen[a][c] \cup listen[b][c]
                ELSE IF x = b THEN {} ELSE listen[x][c]
          /\ MergedEdges(send, a, b)[x][c] =
                IF x = a THEN send[a][c] \cup send[b][c]
                ELSE IF x = b THEN {} ELSE send[x][c]
      BY DEF MergedEdges, NoEdges
    <3>3. /\ listen'[x][c] \subseteq MergedEdges(listen, a, b)[x][c]
               \cup (IF x = a /\ c \in creatures[a] \cup creatures[b] THEN extra ELSE {})
          /\ send'[x][c] \subseteq MergedEdges(send, a, b)[x][c]
               \cup (IF x = a /\ c \in creatures[a] \cup creatures[b] THEN extra ELSE {})
      BY <1>2
    <3>4. CASE x = a
      BY <1>1, <1>5, <3>1, <3>2, <3>3, <3>4
    <3>5. CASE x # a
      BY <1>1, <1>5, <3>1, <3>2, <3>3, <3>5
    <3> QED
      BY <3>4, <3>5
  <2> QED
    BY <2>1 DEF EdgesDeclared
<1> QED
  BY <1>6, <1>7, <1>8 DEF Inv

LEMMA ConnectKeepsInv ==
    ASSUME Inv, NEW s \in Creature, NEW r \in Creature, NEW n \in Channel, Connect(s, r, n)
    PROVE  Inv'
<1> DEFINE a == graphOf[s]
           b == graphOf[r]
           ls == [MergedEdges(listen, a, b) EXCEPT ![a] = Toggled(@, r, n, TRUE)]
           sn == [MergedEdges(send, a, b) EXCEPT ![a] = Toggled(@, s, n, TRUE)]
<1>1. MergeGraphs(a, b, {n}, ls, sn)
  BY DEF Connect
<1>2. a \in graphs /\ b \in graphs /\ s \in creatures[a] /\ r \in creatures[b]
  BY GraphOfIsLive DEF Connect
<1>3. a \in GraphId /\ b \in GraphId
  BY <1>2 DEF Inv, TypeOK
<1>4. /\ MergedEdges(listen, a, b) \in [GraphId -> EdgeMap]
      /\ MergedEdges(send, a, b) \in [GraphId -> EdgeMap]
  BY <1>3 DEF MergedEdges, NoEdges, EdgeMap, Inv, TypeOK
<1> HIDE DEF a, b
<1>5. ls \in [GraphId -> EdgeMap] /\ sn \in [GraphId -> EdgeMap]
  BY <1>3, <1>4, ToggledIsEdgeMap
<1>6. ASSUME NEW x \in GraphId, NEW c \in Creature
      PROVE  /\ ls[x][c] \subseteq MergedEdges(listen, a, b)[x][c]
                   \cup (IF x = a /\ c \in creatures[a] \cup creatures[b] THEN {n} ELSE {})
             /\ sn[x][c] \subseteq MergedEdges(send, a, b)[x][c]
                   \cup (IF x = a /\ c \in creatures[a] \cup creatures[b] THEN {n} ELSE {})
  BY <1>2, <1>3, <1>4 DEF Toggled, EdgeMap
<1> HIDE DEF ls, sn
<1> QED
  BY <1>1, <1>2, <1>5, <1>6, MergeKeepsInv

LEMMA EnsureSameGraphKeepsInv ==
    ASSUME Inv, NEW x \in Creature, NEW y \in Creature, EnsureSameGraph(x, y)
    PROVE  Inv'
<1> DEFINE a == graphOf[x]
           b == graphOf[y]
           ls == MergedEdges(listen, a, b)
           sn == MergedEdges(send, a, b)
<1>1. MergeGraphs(a, b, {}, ls, sn)
  BY DEF EnsureSameGraph
<1>2. a \in graphs /\ b \in graphs
  BY GraphOfIsLive DEF EnsureSameGraph
<1>3. ls \in [GraphId -> EdgeMap] /\ sn \in [GraphId -> EdgeMap]
  BY <1>2 DEF MergedEdges, NoEdges, EdgeMap, Inv, TypeOK
<1> HIDE DEF a, b
<1> QED
  BY <1>1, <1>2, <1>3, MergeKeepsInv

-----------------------------------------------------------------------------
(* The theorems.                                                           *)

LEMMA InitInv == Init => Inv
BY NoGraphAssumption
   DEF Init, Inv, TypeOK, IndexConsistent, EdgesDeclared, NoEdges

LEMMA StepKeepsInv == Inv /\ [Next]_vars => Inv'
<1> SUFFICES ASSUME Inv, [Next]_vars PROVE Inv'
  OBVIOUS
<1>1. ASSUME NEW c \in Creature, AddCreatureNew(c) PROVE Inv'
  BY <1>1, AddCreatureNewKeepsInv
<1>2. ASSUME NEW c \in Creature, RemoveCreature(c) PROVE Inv'
  BY <1>2, RemoveCreatureKeepsInv
<1>3. ASSUME NEW c \in Creature, NEW g \in GraphId, AddCreatureTo(c, g) PROVE Inv'
  BY <1>3, AddCreatureToKeepsInv
<1>4. CASE NewEmptyGraph
  BY <1>4, NewEmptyGraphKeepsInv
<1>5. ASSUME NEW g \in GraphId, NEW n \in Channel, AddChannel(g, n) PROVE Inv'
  BY <1>5, AddChannelKeepsInv
<1>6. ASSUME NEW g \in GraphId, NEW n \in Channel, RemoveChannel(g, n) PROVE Inv'
  BY <1>6, RemoveChannelEdits, EditKeepsInv
<1>7. ASSUME NEW c \in Creature, NEW n \in Channel, NEW on \in BOOLEAN,
             SetListen(c, n, on) \/ SetSend(c, n, on)
      PROVE  Inv'
  BY <1>7, SetEdgeKeepsInv
<1>8. ASSUME NEW c \in Creature, NEW n \in Channel, NEW side, Unwire(c, n, side) PROVE Inv'
  BY <1>8, UnwireEdits, EditKeepsInv
<1>9. ASSUME NEW s \in Creature, NEW r \in Creature, NEW n \in Channel, Connect(s, r, n)
      PROVE  Inv'
  BY <1>9, ConnectKeepsInv
<1>10. ASSUME NEW s \in Creature, NEW r \in Creature, EnsureSameGraph(s, r) PROVE Inv'
  BY <1>10, EnsureSameGraphKeepsInv
<1>11. ASSUME NEW s \in Creature, NEW r \in Creature, NEW named, Disconnect(s, r, named)
       PROVE  Inv'
  BY <1>11, DisconnectEdits, EditKeepsInv
<1>12. CASE UNCHANGED vars
  BY <1>12 DEF vars, Inv, TypeOK, IndexConsistent, EdgesDeclared
<1> QED
  BY <1>1, <1>2, <1>3, <1>4, <1>5, <1>6, <1>7, <1>8, <1>9, <1>10, <1>11, <1>12 DEF Next

LEMMA Invariance == Spec => []Inv
<1> QED
  BY InitInv, StepKeepsInv, PTL DEF Spec

\* Every operation of topology.py leaves every table in its shape, for any
\* creatures, channels and graph ids.
THEOREM TypeCorrect == Spec => []TypeOK
<1>1. Inv => TypeOK
  BY DEF Inv
<1> QED
  BY <1>1, Invariance, PTL

\* creature_to_graph and the graphs' creature_ids never disagree: through any
\* history of merges and splits no creature is lost, doubled or left in a
\* dropped graph.
THEOREM IndexStaysConsistent == Spec => []IndexConsistent
<1>1. Inv => IndexConsistent
  BY DEF Inv
<1> QED
  BY <1>1, Invariance, PTL

\* No operation leaves a dangling edge: one that names an undeclared channel,
\* or that belongs to a creature of another graph.
THEOREM EdgesStayDeclared == Spec => []EdgesDeclared
<1>1. Inv => EdgesDeclared
  BY DEF Inv
<1> QED
  BY <1>1, Invariance, PTL

-----------------------------------------------------------------------------
(* Channel names never come to mean one channel by accident.               *)

\* Two creatures of different graphs, attached to equally named channels.
Aliases(c, d) ==
    /\ Attached(c) \cap Attached(d) # {}
    /\ graphOf[c] # graphOf[d]

LEMMA AliasesAreApart ==
    ASSUME Inv, NEW c \in Creature, NEW d \in Creature, Aliases(c, d)
    PROVE  /\ graphOf[c] \in graphs /\ graphOf[d] \in graphs
           /\ channels[graphOf[c]] \cap channels[graphOf[d]] # {}
<1>1. graphOf[c] # NoGraph /\ graphOf[d] # NoGraph
  BY DEF Aliases, Attached, Hears, Says
<1>2. graphOf[c] \in graphs /\ graphOf[d] \in graphs
  BY <1>1, GraphOfIsLive
<1>3. Attached(c) \subseteq channels[graphOf[c]] /\ Attached(d) \subseteq channels[graphOf[d]]
  BY <1>1, <1>2 DEF Attached, Hears, Says, Inv, TypeOK, EdgesDeclared
<1> QED
  BY <1>2, <1>3 DEF Aliases

\* A split only scatters: creatures outside g stay, those of g go to g or a
\* graph that was not there.
LEMMA NormalizeNeverJoins ==
    ASSUME Inv, NEW g \in graphs, NEW M \in SUBSET creatures[g],
           NEW chs, NEW ls, NEW sn, NEW base,
           \A c \in Creature \ M : base[c] \in {graphOf[c], NoGraph},
           Normalize(g, M, chs, ls, sn, base),
           NEW c \in Creature, NEW d \in Creature,
           graphOf[c] \in graphs, graphOf[d] \in graphs, graphOf[c] # graphOf[d]
    PROVE  ~ Together(c, d)'
<1>1. PICK home \in Homes(g, M, chs, ls, sn) :
        graphOf' = [x \in Creature |-> IF x \in M THEN home[x] ELSE base[x]]
  BY DEF Normalize
<1>2. home \in [M -> {g} \cup FreshIds]
  BY <1>1 DEF Homes
<1>3. \A x \in M : graphOf[x] = g
  BY DEF Inv, TypeOK, IndexConsistent
<1>4. \A x \in Creature : \/ x \in M /\ graphOf'[x] \in {g} \cup FreshIds
                          \/ x \notin M /\ graphOf'[x] \in {graphOf[x], NoGraph}
  BY <1>1, <1>2
<1> QED
  BY <1>3, <1>4 DEF Together, FreshIds

LEMMA MergeNeverAliases ==
    ASSUME Inv, NEW a, NEW b, NEW extra, NEW ls, NEW sn, MergeGraphs(a, b, extra, ls, sn),
           NEW c \in Creature, NEW d \in Creature,
           channels[graphOf[c]] \cap channels[graphOf[d]] # {}, graphOf[c] # graphOf[d]
    PROVE  ~ Together(c, d)'
<1>1. graphOf' = [x \in Creature |-> IF graphOf[x] = b THEN a ELSE graphOf[x]]
  BY DEF MergeGraphs
<1>2. a # b => channels[a] \cap channels[b] = {}
  BY DEF MergeGraphs, Mergeable
<1> QED
  BY <1>1, <1>2 DEF Together

LEMMA StepNeverAliases ==
    ASSUME Inv, [Next]_vars, NEW c \in Creature, NEW d \in Creature, Aliases(c, d)
    PROVE  ~ Together(c, d)'
<1>1. /\ graphOf[c] \in graphs /\ graphOf[d] \in graphs /\ graphOf[c] # graphOf[d]
      /\ channels[graphOf[c]] \cap channels[graphOf[d]] # {}
  BY AliasesAreApart DEF Aliases
<1>2. NoGraph \notin graphs
  BY NoGraphAssumption DEF Inv, TypeOK
<1>3. ASSUME graphOf'[c] = graphOf[c], graphOf'[d] = graphOf[d] PROVE ~ Together(c, d)'
  BY <1>1, <1>3 DEF Together
<1>4. ASSUME NEW e \in Creature, AddCreatureNew(e) \/ \E g \in GraphId : AddCreatureTo(e, g)
      PROVE  ~ Together(c, d)'
  <2>1. e # c /\ e # d
    BY <1>1, <1>2, <1>4 DEF AddCreatureNew, AddCreatureTo
  <2>2. \E g : graphOf' = [graphOf EXCEPT ![e] = g]
    BY <1>4 DEF AddCreatureNew, AddCreatureTo
  <2> QED
    BY <1>3, <2>1, <2>2 DEF Inv, TypeOK
<1>5. ASSUME NEW e \in Creature, RemoveCreature(e) PROVE ~ Together(c, d)'
  <2> DEFINE g == graphOf[e]
             base == [graphOf EXCEPT ![e] = NoGraph]
  <2>1. g \in graphs
    BY <1>5, GraphOfIsLive DEF RemoveCreature
  <2>2. \A x \in Creature : base[x] \in {graphOf[x], NoGraph}
    BY DEF Inv, TypeOK
  <2>3. CASE creatures[g] \ {e} = {}
    <3>1. graphOf' = base
      BY <1>5, <2>3 DEF RemoveCreature
    <3> QED
      BY <1>1, <2>2, <3>1 DEF Together
  <2>4. CASE creatures[g] \ {e} # {}
    <3>1. \E ls, sn : Normalize(g, creatures[g] \ {e}, channels[g], ls, sn, base)
      BY <1>5, <2>4 DEF RemoveCreature
    <3>2. creatures[g] \ {e} \in SUBSET creatures[g]
      OBVIOUS
    <3> HIDE DEF g, base
    <3> QED
      BY <1>1, <2>1, <2>2, <3>1, <3>2, NormalizeNeverJoins
  <2> QED
    BY <2>3, <2>4
<1>6. ASSUME NEW g \in graphs, NEW chs, NEW ls, NEW sn,
             Normalize(g, creatures[g], chs, ls, sn, graphOf)
      PROVE  ~ Together(c, d)'
  BY <1>1, <1>6, NormalizeNeverJoins
<1>7. ASSUME NEW g \in GraphId, NEW n \in Channel, RemoveChannel(g, n) PROVE ~ Together(c, d)'
  BY <1>6, <1>7 DEF RemoveChannel
<1>8. ASSUME NEW e \in Creature, NEW n \in Channel, NEW side, Unwire(e, n, side)
      PROVE  ~ Together(c, d)'
  BY <1>6, <1>8, GraphOfIsLive DEF Unwire
<1>9. ASSUME NEW s \in Creature, NEW r \in Creature, NEW named, Disconnect(s, r, named)
      PROVE  ~ Together(c, d)'
  BY <1>6, <1>9, GraphOfIsLive DEF Disconnect
<1>10. ASSUME NEW s \in Creature, NEW r \in Creature,
              EnsureSameGraph(s, r) \/ \E n \in Channel : Connect(s, r, n)
       PROVE  ~ Together(c, d)'
  BY <1>1, <1>10, MergeNeverAliases DEF Connect, EnsureSameGraph
<1>11. CASE \/ NewEmptyGraph
            \/ \E g \in GraphId, n \in Channel : AddChannel(g, n)
            \/ \E e \in Creature, n \in Channel, on \in BOOLEAN :
                  SetListen(e, n, on) \/ SetSend(e, n, on)
            \/ UNCHANGED vars
  BY <1>3, <1>11 DEF NewEmptyGraph, AddChannel, SetListen, SetSend, vars
<1> QED
  BY <1>4, <1>5, <1>7, <1>8, <1>9, <1>10, <1>11 DEF Next

\* Two creatures attached to equally named channels of different graphs are
\* never put on one channel by the graphs merging around them, however the
\* graphs came about.
THEOREM NamesNeverAlias == Spec => NoAliasing
<1>1. Inv /\ [Next]_vars =>
        [\A c, d \in Creature :
            (/\ Attached(c) \cap Attached(d) # {}
             /\ graphOf[c] # graphOf[d])
            => ~ Together(c, d)']_vars
  BY StepNeverAliases DEF Aliases
<1> QED
  BY <1>1, Invariance, PTL DEF Spec, NoAliasing

-----------------------------------------------------------------------------
(***************************************************************************)
(* The topology implements Partition.  Components, channels and edges only *)
(* decide which creatures go where: what a normalisation does is Rehomed,  *)
(* because Homes keeps somebody under the old id.                          *)
(***************************************************************************)
LEMMA InIsMembers ==
    ASSUME Inv, NEW g \in GraphId
    PROVE  Grouped!In(g) = creatures[g]
BY DEF Inv, TypeOK, IndexConsistent, Grouped!In

LEMMA NormalizeRehomes ==
    ASSUME NEW g \in graphs, NEW M, NEW chs, NEW ls, NEW sn, NEW base,
           Normalize(g, M, chs, ls, sn, base)
    PROVE  Grouped!Rehomed(g, M, base)
<1>1. PICK home \in Homes(g, M, chs, ls, sn) :
        /\ graphs' = graphs \cup ({g} \cup {home[c] : c \in M})
        /\ graphOf' = [c \in Creature |-> IF c \in M THEN home[c] ELSE base[c]]
  BY DEF Normalize
<1>2. home \in [M -> {g} \cup (GraphId \ graphs)] /\ (M # {} => \E c \in M : home[c] = g)
  BY <1>1 DEF Homes, FreshIds
<1>3. graphs' = graphs \cup {home[c] : c \in M}
  BY <1>1
<1> QED
  BY <1>1, <1>2, <1>3 DEF Grouped!Rehomed

LEMMA NormalizeSplits ==
    ASSUME Inv, NEW g \in graphs, NEW chs, NEW ls, NEW sn,
           Normalize(g, creatures[g], chs, ls, sn, graphOf)
    PROVE  Grouped!PartitionNext
<1>1. g \in GraphId
  BY DEF Inv, TypeOK
<1>2. Grouped!Split(g)
  BY <1>1, InIsMembers, NormalizeRehomes DEF Grouped!Split
<1> QED
  BY <1>1, <1>2 DEF Grouped!PartitionNext

LEMMA RemovalLeaves ==
    ASSUME Inv, NEW c \in Creature, RemoveCreature(c)
    PROVE  Grouped!PartitionNext
<1> DEFINE g == graphOf[c]
           without == [graphOf EXCEPT ![c] = NoGraph]
<1>1. g \in graphs /\ g \in GraphId /\ g # NoGraph
  BY GraphOfIsLive DEF RemoveCreature, Inv, TypeOK
<1>2. Grouped!In(g) = creatures[g]
  BY <1>1, InIsMembers
<1>3. \/ /\ creatures[g] \ {c} = {}
         /\ graphs' = graphs \ {g}
         /\ graphOf' = without
      \/ /\ creatures[g] \ {c} # {}
         /\ Normalize(g, creatures[g] \ {c}, channels[g], [listen[g] EXCEPT ![c] = {}],
                      [send[g] EXCEPT ![c] = {}], without)
  BY DEF RemoveCreature
<1>4. \/ /\ creatures[g] \ {c} = {}
         /\ graphs' = graphs \ {g}
         /\ graphOf' = without
      \/ /\ creatures[g] \ {c} # {}
         /\ Grouped!Rehomed(g, creatures[g] \ {c}, without)
  BY <1>1, <1>3, NormalizeRehomes
<1>5. Grouped!Leave(c)
  BY <1>1, <1>2, <1>4, Zenon DEF Grouped!Leave
<1> QED
  BY <1>5 DEF Grouped!PartitionNext

LEMMA MergeMerges ==
    ASSUME Inv, NEW a \in graphs, NEW b \in graphs, NEW extra, NEW ls, NEW sn,
           MergeGraphs(a, b, extra, ls, sn)
    PROVE  Grouped!PartitionNext \/ UNCHANGED <<graphs, graphOf>>
<1>1. CASE a = b
  BY <1>1 DEF MergeGraphs, Inv, TypeOK
<1>2. CASE a # b
  <2>1. Grouped!Merge(a, b)
    BY <1>2 DEF MergeGraphs, Grouped!Merge
  <2>2. a \in GraphId /\ b \in GraphId
    BY DEF Inv, TypeOK
  <2> QED BY <2>1, <2>2 DEF Grouped!PartitionNext
<1> QED
  BY <1>1, <1>2

LEMMA StepRefines ==
    ASSUME Inv, [Next]_vars
    PROVE  [Grouped!PartitionNext]_(Grouped!partition)
<1> USE DEF Grouped!partition
<1>1. ASSUME NEW c \in Creature, AddCreatureNew(c) PROVE Grouped!PartitionNext
  BY <1>1 DEF AddCreatureNew, FreshIds, Grouped!Join, Grouped!PartitionNext
<1>2. ASSUME NEW c \in Creature, NEW g \in GraphId, AddCreatureTo(c, g) PROVE Grouped!PartitionNext
  <2>1. Grouped!Join(c, g)
    BY <1>2 DEF AddCreatureTo, Grouped!Join
  <2> QED BY <2>1 DEF Grouped!PartitionNext
<1>3. CASE NewEmptyGraph
  BY <1>3 DEF NewEmptyGraph, FreshIds, Grouped!NewGraph, Grouped!PartitionNext
<1>4. ASSUME NEW c \in Creature, RemoveCreature(c) PROVE Grouped!PartitionNext
  BY <1>4, RemovalLeaves
<1>5. ASSUME NEW g \in GraphId, NEW n \in Channel, AddChannel(g, n) \/ RemoveChannel(g, n)
      PROVE  [Grouped!PartitionNext]_(Grouped!partition)
  BY <1>5, NormalizeSplits DEF AddChannel, RemoveChannel
<1>6. ASSUME NEW c \in Creature, NEW n \in Channel, NEW on, SetListen(c, n, on) \/ SetSend(c, n, on)
      PROVE  UNCHANGED Grouped!partition
  BY <1>6 DEF SetListen, SetSend
<1>7. ASSUME NEW c \in Creature, NEW n \in Channel, NEW side, Unwire(c, n, side)
      PROVE  Grouped!PartitionNext
  BY <1>7, GraphOfIsLive, NormalizeSplits DEF Unwire
<1>8. ASSUME NEW s \in Creature, NEW r \in Creature, NEW named, Disconnect(s, r, named)
      PROVE  Grouped!PartitionNext
  BY <1>8, GraphOfIsLive, NormalizeSplits DEF Disconnect
<1>9. ASSUME NEW s \in Creature, NEW r \in Creature, NEW n, Connect(s, r, n)
      PROVE  [Grouped!PartitionNext]_(Grouped!partition)
  BY <1>9, GraphOfIsLive, MergeMerges DEF Connect
<1>10. ASSUME NEW s \in Creature, NEW r \in Creature, EnsureSameGraph(s, r)
       PROVE  [Grouped!PartitionNext]_(Grouped!partition)
  BY <1>10, GraphOfIsLive, MergeMerges DEF EnsureSameGraph
<1>11. CASE UNCHANGED vars
  BY <1>11 DEF vars
<1> QED
  BY <1>1, <1>2, <1>3, <1>4, <1>5, <1>6, <1>7, <1>8, <1>9, <1>10, <1>11 DEF Next

\* Whatever the channels and edges do, creatures come, leave, merge and fall apart
\* as the books of the engine assume: a graph is merged into one that stays, and
\* whoever remains of a graph remains under its id (_merge_graphs,
\* _normalize_components, remove_creature).
THEOREM PartitionRefined == Spec => ImplementsPartition
<1>1. Init => Grouped!PartitionInit
  BY DEF Init, Grouped!PartitionInit
<1> QED
  BY <1>1, StepRefines, Invariance, PTL DEF Spec, ImplementsPartition, Grouped!PartitionSpec

-----------------------------------------------------------------------------
(***************************************************************************)
(* What a normalisation does to the creatures of the graph: everybody      *)
(* keeps the edges the edit left, and the pieces are the components, so    *)
(* two creatures that share a channel are in one piece.                    *)
(***************************************************************************)
LEMMA SharersShareAComponent ==
    ASSUME NEW M, NEW chs, NEW ls, NEW sn, NEW c \in M, NEW d \in M,
           (ls[c] \cup sn[c]) \cap (ls[d] \cup sn[d]) \cap chs # {}
    PROVE  \E C \in find_components(M, chs, ls, sn) : {c, d} \subseteq C
<1> DEFINE closed == {S \in SUBSET M : Closed(M, chs, ls, sn, S)}
           C == {b \in M : \A S \in closed : c \in S => b \in S}
<1>1. ASSUME NEW S \in closed, c \in S, d \notin S PROVE FALSE
  <2>1. ls[c] \cup sn[c] \subseteq ChannelsUsedBy(S, ls, sn)
    BY <1>1 DEF ChannelsUsedBy
  <2>2. ls[d] \cup sn[d] \subseteq ChannelsUsedBy(M \ S, ls, sn)
    BY <1>1 DEF ChannelsUsedBy
  <2>3. ChannelsUsedBy(S, ls, sn) \cap ChannelsUsedBy(M \ S, ls, sn) \cap chs = {}
    BY <1>1 DEF Closed
  <2> QED
    BY <2>1, <2>2, <2>3
<1>2. {c, d} \subseteq C
  BY <1>1
<1>3. C \in find_components(M, chs, ls, sn)
  BY DEF find_components
<1> QED
  BY <1>2, <1>3

\* The choice of homes that a normalisation makes.
LEMMA HomesOfPieces ==
    ASSUME NEW g \in graphs, NEW M, NEW chs, NEW ls, NEW sn,
           NEW home \in Homes(g, M, chs, ls, sn)
    PROVE  /\ home \in [M -> {g} \cup FreshIds]
           /\ \A c, d \in M : (ls[c] \cup sn[c]) \cap (ls[d] \cup sn[d]) \cap chs # {}
                 => home[c] = home[d]
           /\ \A c, d \in M : home[c] = home[d] =>
                 \E C \in find_components(M, chs, ls, sn) : {c, d} \subseteq C
<1>1. /\ home \in [M -> {g} \cup FreshIds]
      /\ \A c, d \in M : home[c] = home[d]
            <=> \E C \in find_components(M, chs, ls, sn) : {c, d} \subseteq C
  BY DEF Homes
<1> QED
  BY <1>1, SharersShareAComponent

LEMMA EditKeepsEdges ==
    ASSUME Inv, NEW g, NEW M, NEW chs, NEW ls, NEW sn, NEW base,
           Edit(g, M, chs, ls, sn, base)
    PROVE  /\ \A c \in M : /\ graphOf'[c] # NoGraph
                           /\ Hears(c)' = ls[c] /\ Says(c)' = sn[c]
           /\ \A c \in Creature \ M :
                 /\ graphOf'[c] = base[c]
                 /\ base[c] = NoGraph => Hears(c)' = {} /\ Says(c)' = {}
                 /\ base[c] # NoGraph =>
                       base[c] = graphOf[c] /\ Hears(c)' = Hears(c) /\ Says(c)' = Says(c)
           /\ \A c, d \in M : (ls[c] \cup sn[c]) \cap (ls[d] \cup sn[d]) # {}
                 => graphOf'[c] = graphOf'[d]
<1> DEFINE touched(home) == {g} \cup {home[c] : c \in M}
<1>1. PICK home \in Homes(g, M, chs, ls, sn) :
        /\ listen' = [x \in GraphId |->
             IF x \in touched(home)
             THEN Only({c \in M : home[c] = x}, ls) ELSE listen[x]]
        /\ send' = [x \in GraphId |->
             IF x \in touched(home)
             THEN Only({c \in M : home[c] = x}, sn) ELSE send[x]]
        /\ graphOf' = [c \in Creature |-> IF c \in M THEN home[c] ELSE base[c]]
  BY DEF Edit, Normalize
<1>2. /\ g \in graphs /\ g \in GraphId /\ M \subseteq Creature
      /\ Agrees(g, M, base) /\ base \in [Creature -> GraphId \cup {NoGraph}]
      /\ EdgesWithin(M, chs, ls) /\ EdgesWithin(M, chs, sn)
  BY DEF Edit, Inv, TypeOK
<1>3. /\ home \in [M -> {g} \cup FreshIds]
      /\ \A c, d \in M : (ls[c] \cup sn[c]) \cap (ls[d] \cup sn[d]) \cap chs # {}
            => home[c] = home[d]
  BY <1>2, HomesOfPieces
<1>4. \A x \in touched(home) : x \in GraphId /\ (x = g \/ x \notin graphs)
  BY <1>2, <1>3 DEF FreshIds
<1>5. ASSUME NEW c \in M
      PROVE  /\ graphOf'[c] # NoGraph
             /\ Hears(c)' = ls[c] /\ Says(c)' = sn[c]
  <2>1. home[c] \in touched(home) /\ home[c] \in GraphId /\ home[c] # NoGraph
    BY <1>4, NoGraphAssumption
  <2>2. graphOf'[c] = home[c] /\ c \in Creature
    BY <1>1, <1>2
  <2>3. listen'[home[c]][c] = ls[c] /\ send'[home[c]][c] = sn[c]
    BY <1>1, <1>2, <2>1 DEF Only
  <2> QED
    BY <2>1, <2>2, <2>3 DEF Hears, Says
<1>6. ASSUME NEW c \in Creature \ M
      PROVE  /\ graphOf'[c] = base[c]
             /\ base[c] = NoGraph => Hears(c)' = {} /\ Says(c)' = {}
             /\ base[c] # NoGraph =>
                   base[c] = graphOf[c] /\ Hears(c)' = Hears(c) /\ Says(c)' = Says(c)
  <2>1. graphOf'[c] = base[c]
    BY <1>1
  <2>2. ASSUME base[c] # NoGraph
        PROVE  base[c] = graphOf[c] /\ Hears(c)' = Hears(c) /\ Says(c)' = Says(c)
    <3>1. base[c] \in GraphId /\ base[c] # g
      BY <1>2, <2>2 DEF Agrees
    <3>2. c \in creatures[base[c]]
      BY <1>2, <3>1 DEF Agrees
    <3>3. base[c] = graphOf[c] /\ base[c] \in graphs
      BY <3>1, <3>2 DEF Inv, IndexConsistent
    <3>4. base[c] \notin touched(home)
      BY <1>4, <3>1, <3>3
    <3>5. listen'[base[c]] = listen[base[c]] /\ send'[base[c]] = send[base[c]]
      BY <1>1, <3>1, <3>4
    <3> QED
      BY <2>1, <2>2, <3>3, <3>5 DEF Hears, Says
  <2> QED
    BY <2>1, <2>2 DEF Hears, Says
<1>7. ASSUME NEW c \in M, NEW d \in M, (ls[c] \cup sn[c]) \cap (ls[d] \cup sn[d]) # {}
      PROVE  graphOf'[c] = graphOf'[d]
  <2>1. ls[c] \cup sn[c] \subseteq chs
    BY <1>2 DEF EdgesWithin
  <2>2. home[c] = home[d]
    BY <1>3, <1>7, <2>1
  <2> QED
    BY <1>1, <1>2, <2>2
<1> QED
  BY <1>5, <1>6, <1>7

\* What connect and ensure_same_graph leave creatures with: the graphs of their
\* edges change, and nothing else.
LEMMA MergeKeepsEdges ==
    ASSUME Inv, NEW a \in graphs, NEW b \in graphs, NEW c \in Creature
    PROVE  LET x == IF graphOf[c] = b THEN a ELSE graphOf[c]
           IN  /\ graphOf[c] = NoGraph => x = NoGraph
               /\ graphOf[c] # NoGraph =>
                     /\ x \in GraphId /\ x # NoGraph
                     /\ MergedEdges(listen, a, b)[x][c] = Hears(c)
                     /\ MergedEdges(send, a, b)[x][c] = Says(c)
<1>1. a \in GraphId /\ b \in GraphId /\ a # NoGraph /\ b # NoGraph
  BY NoGraphAssumption DEF Inv, TypeOK
<1>2. \A y \in GraphId : graphOf[c] # y => listen[y][c] = {} /\ send[y][c] = {}
  BY DEF Inv, IndexConsistent, EdgesDeclared
<1>3. CASE graphOf[c] = NoGraph
  BY <1>1, <1>3
<1>4. CASE graphOf[c] # NoGraph
  <2>1. graphOf[c] \in GraphId
    BY <1>4 DEF Inv, TypeOK
  <2>2. Hears(c) = listen[graphOf[c]][c] /\ Says(c) = send[graphOf[c]][c]
    BY <1>4 DEF Hears, Says
  <2>3. CASE graphOf[c] \in {a, b}
    BY <1>1, <1>2, <1>4, <2>1, <2>2, <2>3 DEF MergedEdges
  <2>4. CASE graphOf[c] \notin {a, b}
    BY <1>1, <1>2, <1>4, <2>1, <2>2, <2>4 DEF MergedEdges
  <2> QED
    BY <2>3, <2>4
<1> QED
  BY <1>3, <1>4

-----------------------------------------------------------------------------
(* No split cuts through a channel in use.                                 *)

LEMMA EditKeepsSharers ==
    ASSUME Inv, NEW g, NEW M, NEW chs, NEW ls, NEW sn, NEW base,
           Edit(g, M, chs, ls, sn, base),
           NEW c \in Creature, NEW d \in Creature, Together(c, d),
           Attached(c)' \cap Attached(d)' # {}
    PROVE  Together(c, d)'
<1>1. /\ \A e \in M : /\ graphOf'[e] # NoGraph
                      /\ Hears(e)' = ls[e] /\ Says(e)' = sn[e]
      /\ \A e \in Creature \ M :
            /\ graphOf'[e] = base[e]
            /\ base[e] = NoGraph => Hears(e)' = {} /\ Says(e)' = {}
            /\ base[e] # NoGraph => base[e] = graphOf[e]
      /\ \A x, y \in M : (ls[x] \cup sn[x]) \cap (ls[y] \cup sn[y]) # {}
            => graphOf'[x] = graphOf'[y]
  BY EditKeepsEdges
<1>2. g \in GraphId /\ Agrees(g, M, base)
  BY DEF Edit, Inv, TypeOK
<1>3. \A e \in Creature : graphOf[e] # NoGraph /\ graphOf[e] # g =>
         e \notin M /\ base[e] = graphOf[e]
  BY <1>2 DEF Agrees, Inv, TypeOK, IndexConsistent
<1>4. CASE c \in M /\ d \in M
  BY <1>1, <1>4 DEF Attached, Together
<1>5. ASSUME NEW e \in {c, d}, e \notin M PROVE Together(c, d)'
  <2>1. base[e] # NoGraph
    BY <1>1, <1>5 DEF Attached
  <2>2. graphOf[e] # g
    BY <1>1, <1>2, <1>5, <2>1 DEF Agrees
  <2>3. \A x \in {c, d} : x \notin M /\ base[x] = graphOf[x]
    BY <1>3, <2>2 DEF Together
  <2> QED
    BY <1>1, <2>3 DEF Together
<1> QED
  BY <1>4, <1>5

\* The steps that are not edits: creatures of one graph are of one graph after
\* it, or one of them has left.
LEMMA OthersKeepTogether ==
    ASSUME Inv, NEW c \in Creature, NEW d \in Creature, Together(c, d),
           \/ \E e \in Creature : AddCreatureNew(e) \/ \E g \in GraphId : AddCreatureTo(e, g)
           \/ \E e \in Creature : RemoveCreature(e) /\ creatures[graphOf[e]] \ {e} = {}
           \/ NewEmptyGraph
           \/ \E g \in GraphId, n \in Channel : AddChannel(g, n)
           \/ \E e \in Creature, n \in Channel, on \in BOOLEAN :
                 SetListen(e, n, on) \/ SetSend(e, n, on)
           \/ \E s, r \in Creature : EnsureSameGraph(s, r) \/ \E n \in Channel : Connect(s, r, n)
           \/ UNCHANGED vars
    PROVE  graphOf'[c] = NoGraph \/ Together(c, d)'
<1>1. ASSUME NEW e \in Creature, AddCreatureNew(e) \/ \E g \in GraphId : AddCreatureTo(e, g)
      PROVE  Together(c, d)'
  <2>1. e # c /\ e # d
    BY <1>1 DEF AddCreatureNew, AddCreatureTo, Together
  <2>2. \E g : graphOf' = [graphOf EXCEPT ![e] = g]
    BY <1>1 DEF AddCreatureNew, AddCreatureTo
  <2> QED
    BY <2>1, <2>2 DEF Together, Inv, TypeOK
<1>2. ASSUME NEW e \in Creature, RemoveCreature(e), creatures[graphOf[e]] \ {e} = {}
      PROVE  graphOf'[c] = NoGraph \/ Together(c, d)'
  <2>1. graphOf' = [graphOf EXCEPT ![e] = NoGraph]
    BY <1>2 DEF RemoveCreature
  <2>2. graphOf[e] = graphOf[c] => c = e /\ d = e
    BY <1>2, GraphOfIsLive DEF Together
  <2> QED
    BY <2>1, <2>2 DEF Together, Inv, TypeOK
<1>3. ASSUME NEW s \in Creature, NEW r \in Creature,
             EnsureSameGraph(s, r) \/ \E n \in Channel : Connect(s, r, n)
      PROVE  Together(c, d)'
  <2>1. graphOf[s] # NoGraph
    BY <1>3 DEF EnsureSameGraph, Connect
  <2>2. graphOf' = [x \in Creature |-> IF graphOf[x] = graphOf[r] THEN graphOf[s] ELSE graphOf[x]]
    BY <1>3 DEF EnsureSameGraph, Connect, MergeGraphs
  <2> QED
    BY <2>1, <2>2 DEF Together
<1>4. ASSUME UNCHANGED graphOf PROVE Together(c, d)'
  BY <1>4 DEF Together
<1> QED
  BY <1>1, <1>2, <1>3, <1>4 DEF NewEmptyGraph, AddChannel, SetListen, SetSend, vars

\* Every step is an edit that is normalised, or one of those.
LEMMA StepsAndEdits ==
    ASSUME Inv, [Next]_vars
    PROVE  \/ \E g, M, chs, ls, sn, base : Edit(g, M, chs, ls, sn, base)
           \/ \E e \in Creature : AddCreatureNew(e) \/ \E g \in GraphId : AddCreatureTo(e, g)
           \/ \E e \in Creature : RemoveCreature(e) /\ creatures[graphOf[e]] \ {e} = {}
           \/ NewEmptyGraph
           \/ \E g \in GraphId, n \in Channel : AddChannel(g, n)
           \/ \E e \in Creature, n \in Channel, on \in BOOLEAN :
                 SetListen(e, n, on) \/ SetSend(e, n, on)
           \/ \E s, r \in Creature : EnsureSameGraph(s, r) \/ \E n \in Channel : Connect(s, r, n)
           \/ UNCHANGED vars
<1>1. ASSUME NEW e \in Creature, RemoveCreature(e)
      PROVE  \/ \E g, M, chs, ls, sn, base : Edit(g, M, chs, ls, sn, base)
             \/ RemoveCreature(e) /\ creatures[graphOf[e]] \ {e} = {}
  BY <1>1, RemoveCreatureEdits
<1>2. ASSUME NEW g \in GraphId, NEW n \in Channel, RemoveChannel(g, n)
      PROVE  \E h, M, chs, ls, sn, base : Edit(h, M, chs, ls, sn, base)
  BY <1>2, RemoveChannelEdits
<1>3. ASSUME NEW e \in Creature, NEW n \in Channel, NEW side, Unwire(e, n, side)
      PROVE  \E g, M, chs, ls, sn, base : Edit(g, M, chs, ls, sn, base)
  BY <1>3, UnwireEdits
<1>4. ASSUME NEW s \in Creature, NEW r \in Creature, NEW named, Disconnect(s, r, named)
      PROVE  \E g, M, chs, ls, sn, base : Edit(g, M, chs, ls, sn, base)
  BY <1>4, DisconnectEdits
<1>5. CASE \E e \in Creature : RemoveCreature(e)
  BY <1>1, <1>5
<1>6. CASE \/ \E g \in GraphId, n \in Channel : RemoveChannel(g, n)
           \/ \E e \in Creature, n \in Channel : \E side \in {"listen", "send"} : Unwire(e, n, side)
           \/ \E s, r \in Creature : \E named \in {{}} \cup {{n} : n \in Channel} :
                 Disconnect(s, r, named)
  BY <1>2, <1>3, <1>4, <1>6
<1> QED
  BY <1>5, <1>6 DEF Next

LEMMA StepKeepsSharers ==
    ASSUME Inv, [Next]_vars, NEW c \in Creature, NEW d \in Creature, Together(c, d),
           Attached(c)' \cap Attached(d)' # {}
    PROVE  Together(c, d)'
<1>1. graphOf'[c] # NoGraph
  BY DEF Attached, Hears, Says
<1>2. ASSUME NEW g, NEW M, NEW chs, NEW ls, NEW sn, NEW base, Edit(g, M, chs, ls, sn, base)
      PROVE  Together(c, d)'
  BY <1>2, EditKeepsSharers
<1> QED
  BY <1>1, <1>2, StepsAndEdits, OthersKeepTogether

\* A channel that two creatures of a graph use still joins them after any call:
\* _normalize_components never puts them in different pieces.
THEOREM SharersAreNeverParted == Spec => SharersStayTogether
<1>1. Inv /\ [Next]_vars =>
        [\A c, d \in Creature :
            (/\ Together(c, d)
             /\ Attached(c) \cap Attached(d) \cap Attached(c)' \cap Attached(d)' # {})
            => Together(c, d)']_vars
  <2>1. ASSUME NEW c, NEW d, Attached(c) \cap Attached(d) \cap Attached(c)' \cap Attached(d)' # {}
        PROVE  Attached(c)' \cap Attached(d)' # {}
    BY <2>1
  <2> QED
    BY <2>1, StepKeepsSharers
<1> QED
  BY <1>1, Invariance, PTL DEF Spec, SharersStayTogether

-----------------------------------------------------------------------------
(* When a graph falls apart, the pieces share no channel and each is in    *)
(* one component: a set closed within a piece is closed in the graph, and  *)
(* so is what it leaves of the graph.                                      *)

LEMMA PieceIsConnected ==
    ASSUME NEW g \in graphs, NEW M \in SUBSET Creature, NEW chs, NEW ls, NEW sn,
           NEW home \in Homes(g, M, chs, ls, sn), NEW z \in M,
           NEW P \in SUBSET M, \A c \in M : c \in P <=> home[c] = home[z]
    PROVE  find_components(P, chs \cap ChannelsUsedBy(P, ls, sn), Only(P, ls), Only(P, sn))
              \subseteq {P}
<1> DEFINE own == chs \cap ChannelsUsedBy(P, ls, sn)
           lp == Only(P, ls)
           np == Only(P, sn)
           closed == {S \in SUBSET P : Closed(P, own, lp, np, S)}
<1>1. /\ \A c, d \in M : (ls[c] \cup sn[c]) \cap (ls[d] \cup sn[d]) \cap chs # {}
            => home[c] = home[d]
      /\ \A c, d \in M : home[c] = home[d] =>
            \E C \in find_components(M, chs, ls, sn) : {c, d} \subseteq C
  BY HomesOfPieces
<1>2. \A c \in P : c \in M /\ home[c] = home[z] /\ lp[c] = ls[c] /\ np[c] = sn[c]
  BY DEF Only
<1>3. ASSUME NEW a \in P, NEW b \in P, NEW S \in closed, a \in S PROVE b \in S
  <2>1. S \subseteq P /\ S \subseteq M /\ Closed(P, own, lp, np, S)
    BY <1>2
  <2>2. ASSUME NEW u \in S, NEW v \in M \ S, NEW n \in chs,
               n \in ls[u] \cup sn[u], n \in ls[v] \cup sn[v]
        PROVE  FALSE
    <3>1. u \in M /\ v \in M /\ u \in P
      BY <2>1
    <3>2. home[u] = home[v]
      BY <1>1, <2>2, <3>1
    <3>3. v \in P \ S
      BY <1>2, <3>1, <3>2
    <3> HIDE DEF lp, np
    <3>4. n \in ChannelsUsedBy(S, lp, np) /\ n \in ChannelsUsedBy(P \ S, lp, np)
      BY <1>2, <2>2, <3>1, <3>3 DEF ChannelsUsedBy
    <3>5. n \in own
      BY <2>2, <3>1 DEF ChannelsUsedBy
    <3> QED
      BY <2>1, <3>4, <3>5 DEF Closed
  <2>3. Closed(M, chs, ls, sn, S) /\ Closed(M, chs, ls, sn, M \ S)
    <3>1. M \ (M \ S) = S
      BY <2>1
    <3>2. ChannelsUsedBy(S, ls, sn) \cap ChannelsUsedBy(M \ S, ls, sn) \cap chs = {}
      BY <2>2 DEF ChannelsUsedBy
    <3> QED
      BY <3>1, <3>2 DEF Closed
  <2>4. PICK C \in find_components(M, chs, ls, sn) : {a, b} \subseteq C
    BY <1>1, <1>2
  <2>5. PICK e \in M : C = {c \in M : \A T \in {U \in SUBSET M : Closed(M, chs, ls, sn, U)} :
                                          e \in T => c \in T}
    BY DEF find_components
  <2>6. CASE e \in S
    BY <2>1, <2>3, <2>4, <2>5, <2>6
  <2>7. CASE e \notin S
    <3>1. M \ S \in SUBSET M /\ e \in M \ S
      BY <2>7
    <3>2. a \in M \ S
      BY <2>3, <2>4, <2>5, <3>1
    <3> QED
      BY <1>3, <3>2
  <2> QED
    BY <2>6, <2>7
<1>4. \A a \in P : {b \in P : \A S \in closed : a \in S => b \in S} = P
  BY <1>3
<1> QED
  BY <1>4 DEF find_components

LEMMA EditSplitsCleanly ==
    ASSUME Inv, NEW g, NEW M, NEW chs, NEW ls, NEW sn, NEW base,
           Edit(g, M, chs, ls, sn, base),
           NEW c \in Creature, NEW d \in Creature, Together(c, d),
           graphOf'[c] # NoGraph, graphOf'[d] # NoGraph, graphOf'[c] # graphOf'[d]
    PROVE  CleanlyApart(c, d)'
<1> DEFINE touched(home) == {g} \cup {home[e] : e \in M}
           part(home, x) == {e \in M : home[e] = x}
<1>1. PICK home \in Homes(g, M, chs, ls, sn) :
        /\ creatures' = [x \in GraphId |->
             IF x \in touched(home) THEN part(home, x) ELSE creatures[x]]
        /\ channels' = [x \in GraphId |->
             IF touched(home) = {g} /\ x = g THEN chs
             ELSE IF x \in touched(home) THEN chs \cap ChannelsUsedBy(part(home, x), ls, sn)
             ELSE channels[x]]
        /\ listen' = [x \in GraphId |->
             IF x \in touched(home) THEN Only(part(home, x), ls) ELSE listen[x]]
        /\ send' = [x \in GraphId |->
             IF x \in touched(home) THEN Only(part(home, x), sn) ELSE send[x]]
        /\ graphOf' = [e \in Creature |-> IF e \in M THEN home[e] ELSE base[e]]
  BY DEF Edit, Normalize
<1>2. /\ g \in graphs /\ g \in GraphId /\ M \in SUBSET Creature /\ Agrees(g, M, base)
  BY DEF Edit, Inv, TypeOK
<1>3. /\ home \in [M -> {g} \cup FreshIds]
      /\ \A e, f \in M : (ls[e] \cup sn[e]) \cap (ls[f] \cup sn[f]) \cap chs # {}
            => home[e] = home[f]
  BY <1>2, HomesOfPieces
<1>4. c \in M /\ d \in M
  <2>1. \A e \in Creature \ M : graphOf'[e] = base[e] /\ (base[e] # NoGraph => base[e] = graphOf[e])
    BY EditKeepsEdges
  <2>2. \A e \in Creature : graphOf[e] # NoGraph /\ graphOf[e] # g =>
           e \notin M /\ base[e] = graphOf[e]
    BY <1>2 DEF Agrees, Inv, TypeOK, IndexConsistent
  <2>3. ASSUME NEW e \in {c, d}, e \notin M PROVE FALSE
    <3>1. graphOf[e] # g
      BY <1>2, <2>1, <2>3 DEF Agrees
    <3>2. \A f \in {c, d} : f \notin M /\ base[f] = graphOf[f]
      BY <2>2, <3>1 DEF Together
    <3> QED
      BY <2>1, <3>2 DEF Together
  <2> QED
    BY <2>3
<1>5. /\ graphOf'[c] = home[c] /\ graphOf'[d] = home[d] /\ home[c] # home[d]
      /\ home[c] \in touched(home) /\ home[d] \in touched(home)
      /\ home[c] \in GraphId /\ home[d] \in GraphId
      /\ touched(home) # {g}
  <2>1. graphOf'[c] = home[c] /\ graphOf'[d] = home[d] /\ home[c] # home[d]
    BY <1>1, <1>4
  <2>2. home[c] \in GraphId /\ home[d] \in GraphId
    BY <1>2, <1>3, <1>4 DEF FreshIds
  <2>3. home[c] \in touched(home) /\ home[d] \in touched(home)
    BY <1>4
  <2> QED
    BY <2>1, <2>2, <2>3
<1>6. \A x \in {home[c], home[d]} :
         /\ creatures'[x] = part(home, x)
         /\ channels'[x] = chs \cap ChannelsUsedBy(part(home, x), ls, sn)
         /\ listen'[x] = Only(part(home, x), ls)
         /\ send'[x] = Only(part(home, x), sn)
  BY <1>1, <1>5
<1>7. channels'[home[c]] \cap channels'[home[d]] = {}
  <2>1. ASSUME NEW n \in channels'[home[c]], n \in channels'[home[d]] PROVE FALSE
    <3>1. PICK e \in part(home, home[c]) : n \in ls[e] \cup sn[e]
      BY <1>6 DEF ChannelsUsedBy
    <3>2. PICK f \in part(home, home[d]) : n \in ls[f] \cup sn[f]
      BY <1>6, <2>1 DEF ChannelsUsedBy
    <3>3. n \in chs
      BY <1>6
    <3> QED
      BY <1>3, <1>5, <3>1, <3>2, <3>3
  <2> QED
    BY <2>1
<1>8. find_components(creatures'[home[c]], channels'[home[c]], listen'[home[c]], send'[home[c]])
         \subseteq {creatures'[home[c]]}
  <2> DEFINE P == part(home, home[c])
  <2>1. P \in SUBSET M /\ \A e \in M : e \in P <=> home[e] = home[c]
    OBVIOUS
  <2>2. home \in Homes(g, M, chs, ls, sn)
    BY <1>1
  <2>3. find_components(P, chs \cap ChannelsUsedBy(P, ls, sn), Only(P, ls), Only(P, sn))
           \subseteq {P}
    <3> HIDE DEF P
    <3> QED
      BY <1>2, <1>4, <2>1, <2>2, PieceIsConnected
  <2> QED
    BY <1>6, <2>3
<1> QED
  BY <1>5, <1>7, <1>8 DEF CleanlyApart, GraphConnected

LEMMA StepSplitsCleanly ==
    ASSUME Inv, [Next]_vars, NEW c \in Creature, NEW d \in Creature, Together(c, d),
           graphOf'[c] # NoGraph, graphOf'[d] # NoGraph, ~ Together(c, d)'
    PROVE  CleanlyApart(c, d)'
<1>1. graphOf'[c] # graphOf'[d]
  BY DEF Together
<1>2. ASSUME NEW g, NEW M, NEW chs, NEW ls, NEW sn, NEW base, Edit(g, M, chs, ls, sn, base)
      PROVE  CleanlyApart(c, d)'
  BY <1>1, <1>2, EditSplitsCleanly
<1> QED
  BY <1>2, StepsAndEdits, OthersKeepTogether

\* However many pieces a graph falls into, each is connected and no channel name
\* is left in two of them, so no later connect between them is refused.
THEOREM SplitsAreClean == Spec => SplitIsClean
<1>1. Inv /\ [Next]_vars =>
        [\A c, d \in Creature :
            (/\ Together(c, d)
             /\ graphOf[c]' # NoGraph /\ graphOf[d]' # NoGraph
             /\ ~ Together(c, d)')
            => CleanlyApart(c, d)']_vars
  <2>1. \A c : graphOf[c]' = graphOf'[c]
    OBVIOUS
  <2> QED
    BY <2>1, StepSplitsCleanly
<1> QED
  BY <1>1, Invariance, PTL DEF Spec, SplitIsClean

-----------------------------------------------------------------------------
(***************************************************************************)
(* The topology implements Wiring.  A creature's edges are looked up in    *)
(* the graph it is in; a merge and a split move both together, so that all *)
(* a creature can notice is what was asked of it.                          *)
(***************************************************************************)
SamePresent == \A c \in Creature : graphOf'[c] = NoGraph <=> graphOf[c] = NoGraph

LEMMA Linked ==
    ASSUME NEW S \in SUBSET Creature, NEW R \in SUBSET Creature, NEW n,
           \A c \in S \cup R : graphOf[c] # NoGraph, SamePresent,
           \A c \in Creature :
              /\ Says(c)' = IF c \in S THEN Says(c) \cup {n} ELSE Says(c)
              /\ Hears(c)' = IF c \in R THEN Hears(c) \cup {n} ELSE Hears(c)
    PROVE  Wired!Link(S, R, n)
BY DEF Wired!Link, SamePresent

LEMMA Unlinked ==
    ASSUME NEW S \in SUBSET Creature, NEW R \in SUBSET Creature, NEW T,
           \A c \in S \cup R : graphOf[c] # NoGraph, SamePresent,
           \A c \in Creature :
              /\ Says(c)' = IF c \in S THEN Says(c) \ T ELSE Says(c)
              /\ Hears(c)' = IF c \in R THEN Hears(c) \ T ELSE Hears(c)
    PROVE  Wired!Unlink(S, R, T)
BY DEF Wired!Unlink, SamePresent

LEMMA NothingNoticed ==
    ASSUME SamePresent, \A c \in Creature : Says(c)' = Says(c) /\ Hears(c)' = Hears(c)
    PROVE  UNCHANGED Wired!wiring
BY DEF Wired!wiring, SamePresent

LEMMA Pairs == {} \in Wired!Pair /\ \A c \in Creature : {c} \in Wired!Pair
BY DEF Wired!Pair

\* The edges of who is in no graph, or not in graph x.
LEMMA ElsewhereNoEdges ==
    ASSUME Inv, NEW c \in Creature
    PROVE  /\ graphOf[c] = NoGraph => Hears(c) = {} /\ Says(c) = {}
           /\ graphOf[c] # NoGraph => /\ graphOf[c] \in GraphId
                                      /\ Hears(c) = listen[graphOf[c]][c]
                                      /\ Says(c) = send[graphOf[c]][c]
           /\ \A x \in GraphId : graphOf[c] # x => listen[x][c] = {} /\ send[x][c] = {}
           /\ Hears(c) \in SUBSET Channel /\ Says(c) \in SUBSET Channel
BY DEF Inv, TypeOK, IndexConsistent, EdgesDeclared, Hears, Says

LEMMA ArrivalArrives ==
    ASSUME Inv, NEW c \in Creature, NEW g \in GraphId,
           graphOf[c] = NoGraph, graphOf' = [graphOf EXCEPT ![c] = g],
           UNCHANGED <<listen, send>>
    PROVE  Wired!Arrive(c)
<1>1. g # NoGraph
  BY NoGraphAssumption
<1>2. \A d \in Creature : graphOf'[d] = IF d = c THEN g ELSE graphOf[d]
  BY DEF Inv, TypeOK
<1>3. ASSUME NEW d \in Creature PROVE Hears(d)' = Hears(d) /\ Says(d)' = Says(d)
  <2>1. CASE d = c
    BY <1>1, <1>2, <2>1, ElsewhereNoEdges DEF Hears, Says
  <2>2. CASE d # c
    BY <1>2, <2>2 DEF Hears, Says
  <2> QED
    BY <2>1, <2>2
<1> QED
  BY <1>1, <1>2, <1>3 DEF Wired!Arrive

\* What is left of an edit of the whole of graph g.
LEMMA EditNoticed ==
    ASSUME Inv, NEW g, NEW chs, NEW ls, NEW sn,
           Edit(g, creatures[g], chs, ls, sn, graphOf)
    PROVE  /\ SamePresent
           /\ \A c \in Creature :
                 /\ graphOf[c] = g => Hears(c) = listen[g][c] /\ Says(c) = send[g][c]
                 /\ graphOf[c] = g => Hears(c)' = ls[c] /\ Says(c)' = sn[c]
                 /\ graphOf[c] # g => Hears(c)' = Hears(c) /\ Says(c)' = Says(c)
           /\ g \in GraphId /\ g # NoGraph
           /\ listen[g] \in EdgeMap /\ send[g] \in EdgeMap /\ creatures[g] \subseteq Creature
<1>1. g \in graphs /\ g \in GraphId /\ g # NoGraph
  BY NoGraphAssumption DEF Edit, Inv, TypeOK
<1>2. \A c \in Creature : c \in creatures[g] <=> graphOf[c] = g
  BY <1>1 DEF Inv, IndexConsistent
<1>3. ASSUME NEW c \in Creature
      PROVE  /\ graphOf[c] = g => Hears(c)' = ls[c] /\ Says(c)' = sn[c]
             /\ graphOf[c] # g => Hears(c)' = Hears(c) /\ Says(c)' = Says(c)
             /\ graphOf'[c] = NoGraph <=> graphOf[c] = NoGraph
  <2>1. CASE c \in creatures[g]
    BY <1>1, <1>2, <2>1, EditKeepsEdges
  <2>2. CASE c \notin creatures[g]
    <3>1. /\ graphOf'[c] = graphOf[c]
          /\ graphOf[c] = NoGraph => Hears(c)' = {} /\ Says(c)' = {}
          /\ graphOf[c] # NoGraph => Hears(c)' = Hears(c) /\ Says(c)' = Says(c)
      BY <2>2, EditKeepsEdges
    <3> QED
      BY <1>2, <2>2, <3>1, ElsewhereNoEdges
  <2> QED
    BY <2>1, <2>2
<1> QED
  BY <1>1, <1>3, EdgesOf DEF SamePresent, Hears, Says

LEMMA RemoveChannelUnlinks ==
    ASSUME Inv, NEW g \in GraphId, NEW n \in Channel, RemoveChannel(g, n)
    PROVE  Wired!Next
<1> DEFINE M == creatures[g]
           ls == [c \in Creature |-> listen[g][c] \ {n}]
           sn == [c \in Creature |-> send[g][c] \ {n}]
<1>1. Edit(g, M, channels[g] \ {n}, ls, sn, graphOf)
  BY RemoveChannelEdits
<1>2. /\ SamePresent
      /\ \A c \in Creature :
            /\ graphOf[c] = g => Hears(c) = listen[g][c] /\ Says(c) = send[g][c]
            /\ graphOf[c] = g => Hears(c)' = ls[c] /\ Says(c)' = sn[c]
            /\ graphOf[c] # g => Hears(c)' = Hears(c) /\ Says(c)' = Says(c)
      /\ g # NoGraph /\ M \in SUBSET Creature
  BY <1>1, EditNoticed
<1>3. \A c \in Creature : c \in M <=> graphOf[c] = g
  BY DEF Inv, IndexConsistent
<1> HIDE DEF M
<1>4. Wired!Unlink(M, M, {n})
  BY <1>2, <1>3, Unlinked
<1> QED
  BY <1>2, <1>4 DEF Wired!Next

LEMMA UnwireUnlinks ==
    ASSUME Inv, NEW c \in Creature, NEW n \in Channel, NEW side \in {"listen", "send"},
           Unwire(c, n, side)
    PROVE  Wired!Next
<1> DEFINE g == graphOf[c]
           ls == IF side = "listen" THEN Toggled(listen[g], c, n, FALSE) ELSE listen[g]
           sn == IF side = "send" THEN Toggled(send[g], c, n, FALSE) ELSE send[g]
           S == IF side = "send" THEN {c} ELSE {}
           R == IF side = "listen" THEN {c} ELSE {}
<1>1. Edit(g, creatures[g], channels[g], ls, sn, graphOf)
  BY UnwireEdits
<1>2. /\ SamePresent
      /\ \A d \in Creature :
            /\ graphOf[d] = g => Hears(d) = listen[g][d] /\ Says(d) = send[g][d]
            /\ graphOf[d] = g => Hears(d)' = ls[d] /\ Says(d)' = sn[d]
            /\ graphOf[d] # g => Hears(d)' = Hears(d) /\ Says(d)' = Says(d)
      /\ g # NoGraph /\ listen[g] \in EdgeMap /\ send[g] \in EdgeMap
  <2> HIDE DEF ls, sn, g
  <2> QED
    BY <1>1, EditNoticed
<1>3. \A d \in Creature : /\ ls[d] = IF d \in R THEN listen[g][d] \ {n} ELSE listen[g][d]
                          /\ sn[d] = IF d \in S THEN send[g][d] \ {n} ELSE send[g][d]
  <2>1. \A d \in Creature :
           /\ Toggled(listen[g], c, n, FALSE)[d] = IF d = c THEN listen[g][d] \ {n} ELSE listen[g][d]
           /\ Toggled(send[g], c, n, FALSE)[d] = IF d = c THEN send[g][d] \ {n} ELSE send[g][d]
    BY <1>2 DEF Toggled, EdgeMap
  <2> QED
    BY <2>1
<1>4. /\ S \in SUBSET Creature /\ R \in SUBSET Creature
      /\ S \in Wired!Pair /\ R \in Wired!Pair
      /\ \A d \in S \cup R : d = c
  BY Pairs
<1>5. ASSUME NEW d \in Creature
      PROVE  /\ Says(d)' = IF d \in S THEN Says(d) \ {n} ELSE Says(d)
             /\ Hears(d)' = IF d \in R THEN Hears(d) \ {n} ELSE Hears(d)
  <2> HIDE DEF ls, sn, S, R
  <2> QED
    BY <1>2, <1>3, <1>4
<1>6. Wired!Unlink(S, R, {n})
  <2> HIDE DEF S, R
  <2> QED
    BY <1>2, <1>4, <1>5, Unlinked
<1> QED
  BY <1>4, <1>6 DEF Wired!Next

LEMMA DisconnectUnlinks ==
    ASSUME Inv, NEW s \in Creature, NEW r \in Creature,
           NEW named \in {{}} \cup {{n} : n \in Channel}, Disconnect(s, r, named)
    PROVE  Wired!Next
<1> DEFINE g == graphOf[s]
           T == DisconnectTargets(s, r, named)
           ls == [listen[g] EXCEPT ![r] = @ \ T]
           sn == [send[g] EXCEPT ![s] = @ \ T]
<1>1. Edit(g, creatures[g], channels[g], ls, sn, graphOf)
  BY DisconnectEdits
<1>2. /\ SamePresent
      /\ \A d \in Creature :
            /\ graphOf[d] = g => Hears(d) = listen[g][d] /\ Says(d) = send[g][d]
            /\ graphOf[d] = g => Hears(d)' = ls[d] /\ Says(d)' = sn[d]
            /\ graphOf[d] # g => Hears(d)' = Hears(d) /\ Says(d)' = Says(d)
      /\ g # NoGraph /\ g \in GraphId /\ listen[g] \in EdgeMap /\ send[g] \in EdgeMap
  <2> HIDE DEF ls, sn, g
  <2> QED
    BY <1>1, EditNoticed
<1>3. T \in SUBSET Channel
  BY <1>2 DEF DisconnectTargets, EdgeMap
<1>4. graphOf[r] = g
  BY DEF Disconnect
<1> HIDE DEF T
<1>5. \A d \in Creature : /\ ls[d] = IF d \in {r} THEN listen[g][d] \ T ELSE listen[g][d]
                          /\ sn[d] = IF d \in {s} THEN send[g][d] \ T ELSE send[g][d]
  <2> HIDE DEF g
  <2> QED
    BY <1>2 DEF EdgeMap
<1>6. ASSUME NEW d \in Creature
      PROVE  /\ Says(d)' = IF d \in {s} THEN Says(d) \ T ELSE Says(d)
             /\ Hears(d)' = IF d \in {r} THEN Hears(d) \ T ELSE Hears(d)
  <2> HIDE DEF ls, sn
  <2> QED
    BY <1>2, <1>4, <1>5
<1>7. Wired!Unlink({s}, {r}, T)
  <2>1. {s} \in SUBSET Creature /\ {r} \in SUBSET Creature /\ \A d \in {s} \cup {r} : graphOf[d] # NoGraph
    BY <1>2, <1>4
  <2> QED
    BY <1>2, <1>6, <2>1, Unlinked
<1> QED
  BY <1>3, <1>7, Pairs DEF Wired!Next

LEMMA SetEdgeLinks ==
    ASSUME Inv, NEW c \in Creature, NEW n \in Channel, NEW on \in BOOLEAN,
           SetListen(c, n, on) \/ SetSend(c, n, on)
    PROVE  Wired!Next
<1> DEFINE g == graphOf[c]
           Set(E) == IF on THEN E \cup {n} ELSE E \ {n}
<1>1. g \in GraphId /\ g # NoGraph /\ SamePresent /\ graphOf' = graphOf
  BY DEF SetListen, SetSend, SamePresent, Inv, TypeOK
<1>2. \A d \in Creature :
         /\ Toggled(listen[g], c, n, on)[d] = IF d = c THEN Set(listen[g][d]) ELSE listen[g][d]
         /\ Toggled(send[g], c, n, on)[d] = IF d = c THEN Set(send[g][d]) ELSE send[g][d]
  BY <1>1 DEF Toggled, Inv, TypeOK
<1>3. \/ /\ \A x \in GraphId : listen'[x] = IF x = g THEN Toggled(listen[g], c, n, on) ELSE listen[x]
         /\ send' = send
      \/ /\ \A x \in GraphId : send'[x] = IF x = g THEN Toggled(send[g], c, n, on) ELSE send[x]
         /\ listen' = listen
  BY <1>1 DEF SetListen, SetSend, Inv, TypeOK
<1> HIDE DEF Set
<1>4. ASSUME NEW d \in Creature
      PROVE  /\ graphOf[d] # NoGraph => graphOf[d] \in GraphId
             /\ graphOf[d] = NoGraph => Hears(d)' = {} /\ Says(d)' = {}
             /\ graphOf[d] # NoGraph =>
                   Hears(d)' = listen'[graphOf[d]][d] /\ Says(d)' = send'[graphOf[d]][d]
  BY <1>1 DEF Hears, Says, Inv, TypeOK
<1>5. \/ /\ \A d \in Creature : Hears(d)' = IF d \in {c} THEN Set(Hears(d)) ELSE Hears(d)
         /\ \A d \in Creature : Says(d)' = Says(d)
      \/ /\ \A d \in Creature : Says(d)' = IF d \in {c} THEN Set(Says(d)) ELSE Says(d)
         /\ \A d \in Creature : Hears(d)' = Hears(d)
  <2>1. CASE /\ \A x \in GraphId : listen'[x] = IF x = g THEN Toggled(listen[g], c, n, on) ELSE listen[x]
             /\ send' = send
    <3>1. ASSUME NEW d \in Creature
          PROVE  Hears(d)' = (IF d \in {c} THEN Set(Hears(d)) ELSE Hears(d)) /\ Says(d)' = Says(d)
      <4>1. CASE graphOf[d] = NoGraph
        BY <1>1, <1>4, <4>1, ElsewhereNoEdges
      <4>2. CASE graphOf[d] # NoGraph
        <5>1. /\ graphOf[d] \in GraphId
              /\ Hears(d) = listen[graphOf[d]][d] /\ Says(d) = send[graphOf[d]][d]
              /\ Hears(d)' = listen'[graphOf[d]][d] /\ Says(d)' = send[graphOf[d]][d]
          BY <1>4, <2>1, <4>2, ElsewhereNoEdges
        <5>2. CASE graphOf[d] = g
          <6>1. listen'[graphOf[d]][d] = IF d = c THEN Set(listen[graphOf[d]][d]) ELSE listen[graphOf[d]][d]
            BY <1>1, <1>2, <2>1, <5>2
          <6> QED
            BY <5>1, <6>1
        <5>3. CASE graphOf[d] # g
          BY <2>1, <5>1, <5>3
        <5> QED
          BY <5>2, <5>3
      <4> QED
        BY <4>1, <4>2
    <3> QED
      BY <3>1
  <2>2. CASE /\ \A x \in GraphId : send'[x] = IF x = g THEN Toggled(send[g], c, n, on) ELSE send[x]
             /\ listen' = listen
    <3>1. ASSUME NEW d \in Creature
          PROVE  Says(d)' = (IF d \in {c} THEN Set(Says(d)) ELSE Says(d)) /\ Hears(d)' = Hears(d)
      <4>1. CASE graphOf[d] = NoGraph
        BY <1>1, <1>4, <4>1, ElsewhereNoEdges
      <4>2. CASE graphOf[d] # NoGraph
        <5>1. /\ graphOf[d] \in GraphId
              /\ Says(d) = send[graphOf[d]][d] /\ Hears(d) = listen[graphOf[d]][d]
              /\ Says(d)' = send'[graphOf[d]][d] /\ Hears(d)' = listen[graphOf[d]][d]
          BY <1>4, <2>2, <4>2, ElsewhereNoEdges
        <5>2. CASE graphOf[d] = g
          <6>1. send'[graphOf[d]][d] = IF d = c THEN Set(send[graphOf[d]][d]) ELSE send[graphOf[d]][d]
            BY <1>1, <1>2, <2>2, <5>2
          <6> QED
            BY <5>1, <6>1
        <5>3. CASE graphOf[d] # g
          BY <2>2, <5>1, <5>3
        <5> QED
          BY <5>2, <5>3
      <4> QED
        BY <4>1, <4>2
    <3> QED
      BY <3>1
  <2> QED
    BY <1>3, <2>1, <2>2
<1>6. /\ {c} \in SUBSET Creature /\ {} \in SUBSET Creature
      /\ \A d \in {c} \cup {} : graphOf[d] # NoGraph
      /\ \A E : Set(E) = IF on THEN E \cup {n} ELSE E \ {n}
  BY <1>1 DEF Set
<1>7. CASE on
  <2>1. Wired!Link({}, {c}, n) \/ Wired!Link({c}, {}, n)
    <3>1. CASE /\ \A d \in Creature : Hears(d)' = IF d \in {c} THEN Set(Hears(d)) ELSE Hears(d)
               /\ \A d \in Creature : Says(d)' = Says(d)
      BY <1>1, <1>6, <1>7, <3>1, Linked
    <3>2. CASE /\ \A d \in Creature : Says(d)' = IF d \in {c} THEN Set(Says(d)) ELSE Says(d)
               /\ \A d \in Creature : Hears(d)' = Hears(d)
      BY <1>1, <1>6, <1>7, <3>2, Linked
    <3> QED
      BY <1>5, <3>1, <3>2
  <2> QED
    BY <2>1, Pairs DEF Wired!Next
<1>8. CASE ~ on
  <2>1. Wired!Unlink({}, {c}, {n}) \/ Wired!Unlink({c}, {}, {n})
    <3>1. CASE /\ \A d \in Creature : Hears(d)' = IF d \in {c} THEN Set(Hears(d)) ELSE Hears(d)
               /\ \A d \in Creature : Says(d)' = Says(d)
      BY <1>1, <1>6, <1>8, <3>1, Unlinked
    <3>2. CASE /\ \A d \in Creature : Says(d)' = IF d \in {c} THEN Set(Says(d)) ELSE Says(d)
               /\ \A d \in Creature : Hears(d)' = Hears(d)
      BY <1>1, <1>6, <1>8, <3>2, Unlinked
    <3> QED
      BY <1>5, <3>1, <3>2
  <2> QED
    BY <2>1, Pairs DEF Wired!Next
<1> QED
  BY <1>7, <1>8

\* The merge itself is not noticed.
LEMMA MergeNoticed ==
    ASSUME Inv, NEW a \in graphs, NEW b \in graphs, NEW extra, NEW ls, NEW sn,
           MergeGraphs(a, b, extra, ls, sn)
    PROVE  /\ SamePresent
           /\ \A c \in Creature :
                 /\ graphOf[c] = NoGraph => Hears(c)' = {} /\ Says(c)' = {}
                 /\ graphOf[c] # NoGraph => /\ graphOf'[c] \in GraphId
                                            /\ Hears(c)' = ls[graphOf'[c]][c]
                                            /\ Says(c)' = sn[graphOf'[c]][c]
                                            /\ MergedEdges(listen, a, b)[graphOf'[c]][c] = Hears(c)
                                            /\ MergedEdges(send, a, b)[graphOf'[c]][c] = Says(c)
<1>1. /\ listen' = ls /\ send' = sn
      /\ \A c \in Creature : graphOf'[c] = IF graphOf[c] = b THEN a ELSE graphOf[c]
  BY DEF MergeGraphs
<1>2. ASSUME NEW c \in Creature
      PROVE  /\ graphOf[c] = NoGraph => graphOf'[c] = NoGraph
             /\ graphOf[c] # NoGraph => /\ graphOf'[c] \in GraphId
                                        /\ graphOf'[c] # NoGraph
                                        /\ MergedEdges(listen, a, b)[graphOf'[c]][c] = Hears(c)
                                        /\ MergedEdges(send, a, b)[graphOf'[c]][c] = Says(c)
  BY <1>1, MergeKeepsEdges
<1> QED
  BY <1>1, <1>2 DEF SamePresent, Hears, Says

LEMMA ConnectLinks ==
    ASSUME Inv, NEW s \in Creature, NEW r \in Creature, NEW n \in Channel, Connect(s, r, n)
    PROVE  Wired!Next
<1> DEFINE a == graphOf[s]
           b == graphOf[r]
           ml == MergedEdges(listen, a, b)
           ms == MergedEdges(send, a, b)
           ls == [ml EXCEPT ![a] = Toggled(@, r, n, TRUE)]
           sn == [ms EXCEPT ![a] = Toggled(@, s, n, TRUE)]
<1>1. MergeGraphs(a, b, {n}, ls, sn) /\ a # NoGraph /\ b # NoGraph
  BY DEF Connect
<1>2. a \in graphs /\ b \in graphs /\ a \in GraphId
  BY <1>1, GraphOfIsLive DEF Inv, TypeOK
<1>3. graphOf'[s] = a /\ graphOf'[r] = a
  BY <1>1 DEF MergeGraphs
<1>4. /\ ml \in [GraphId -> EdgeMap]
      /\ ms \in [GraphId -> EdgeMap]
  BY <1>2 DEF MergedEdges, NoEdges, EdgeMap, Inv, TypeOK
<1>5. /\ SamePresent
      /\ \A c \in Creature :
            /\ graphOf[c] = NoGraph => Hears(c)' = {} /\ Says(c)' = {}
            /\ graphOf[c] # NoGraph => /\ graphOf'[c] \in GraphId
                                       /\ Hears(c)' = ls[graphOf'[c]][c]
                                       /\ Says(c)' = sn[graphOf'[c]][c]
                                       /\ ml[graphOf'[c]][c] = Hears(c)
                                       /\ ms[graphOf'[c]][c] = Says(c)
  <2> HIDE DEF a, b, ls, sn
  <2> QED
    BY <1>1, <1>2, MergeNoticed
<1> HIDE DEF a, b, ml, ms
<1>6. \A x \in GraphId, c \in Creature :
         /\ ls[x][c] = IF x = a /\ c = r THEN ml[x][c] \cup {n} ELSE ml[x][c]
         /\ sn[x][c] = IF x = a /\ c = s THEN ms[x][c] \cup {n} ELSE ms[x][c]
  BY <1>2, <1>4 DEF Toggled, EdgeMap
<1> HIDE DEF ls, sn
<1>7. ASSUME NEW c \in Creature
      PROVE  /\ Says(c)' = IF c \in {s} THEN Says(c) \cup {n} ELSE Says(c)
             /\ Hears(c)' = IF c \in {r} THEN Hears(c) \cup {n} ELSE Hears(c)
  <2>1. CASE graphOf[c] = NoGraph
    BY <1>1, <1>5, <2>1, ElsewhereNoEdges DEF a, b
  <2>2. CASE graphOf[c] # NoGraph
    <3>1. /\ graphOf'[c] \in GraphId
          /\ Hears(c)' = ls[graphOf'[c]][c] /\ Says(c)' = sn[graphOf'[c]][c]
          /\ ml[graphOf'[c]][c] = Hears(c) /\ ms[graphOf'[c]][c] = Says(c)
      BY <1>5, <2>2
    <3>2. /\ ls[graphOf'[c]][c] = IF graphOf'[c] = a /\ c = r
                                  THEN ml[graphOf'[c]][c] \cup {n} ELSE ml[graphOf'[c]][c]
          /\ sn[graphOf'[c]][c] = IF graphOf'[c] = a /\ c = s
                                  THEN ms[graphOf'[c]][c] \cup {n} ELSE ms[graphOf'[c]][c]
      BY <1>6, <3>1
    <3> QED
      BY <1>3, <3>1, <3>2
  <2> QED
    BY <2>1, <2>2
<1>8. Wired!Link({s}, {r}, n)
  <2>1. {s} \in SUBSET Creature /\ {r} \in SUBSET Creature /\ \A c \in {s} \cup {r} : graphOf[c] # NoGraph
    BY <1>1 DEF a, b
  <2> QED
    BY <1>5, <1>7, <2>1, Linked
<1> QED
  BY <1>8, Pairs DEF Wired!Next

LEMMA EnsureSameGraphNotNoticed ==
    ASSUME Inv, NEW x \in Creature, NEW y \in Creature, EnsureSameGraph(x, y)
    PROVE  UNCHANGED Wired!wiring
<1> DEFINE a == graphOf[x]
           b == graphOf[y]
<1>1. MergeGraphs(a, b, {}, MergedEdges(listen, a, b), MergedEdges(send, a, b))
  BY DEF EnsureSameGraph
<1>2. a \in graphs /\ b \in graphs
  BY GraphOfIsLive DEF EnsureSameGraph
<1> HIDE DEF a, b
<1>3. SamePresent /\ \A c \in Creature : Says(c)' = Says(c) /\ Hears(c)' = Hears(c)
  <2>1. /\ SamePresent
        /\ \A c \in Creature :
              /\ graphOf[c] = NoGraph => Hears(c)' = {} /\ Says(c)' = {}
              /\ graphOf[c] # NoGraph => Hears(c)' = Hears(c) /\ Says(c)' = Says(c)
    BY <1>1, <1>2, MergeNoticed
  <2> QED
    BY <2>1, ElsewhereNoEdges
<1> QED
  BY <1>3, NothingNoticed

LEMMA RemovalIsNoticedByNobodyElse ==
    ASSUME Inv, NEW c \in Creature, RemoveCreature(c)
    PROVE  Wired!Leave(c)
<1> DEFINE g == graphOf[c]
           rest == creatures[g] \ {c}
           without == [graphOf EXCEPT ![c] = NoGraph]
<1>1. g \in graphs /\ g \in GraphId /\ g # NoGraph
  BY GraphOfIsLive DEF RemoveCreature, Inv, TypeOK
<1>2. /\ \A d \in Creature : d \in rest <=> graphOf[d] = g /\ d # c
      /\ \A d \in Creature : without[d] = IF d = c THEN NoGraph ELSE graphOf[d]
  BY <1>1 DEF Inv, TypeOK, IndexConsistent
<1>3. ASSUME NEW d \in Creature
      PROVE  /\ graphOf'[d] = NoGraph <=> d = c \/ graphOf[d] = NoGraph
             /\ Hears(d)' = IF d = c THEN {} ELSE Hears(d)
             /\ Says(d)' = IF d = c THEN {} ELSE Says(d)
  <2>1. CASE rest = {}
    <3>1. /\ graphOf' = without
          /\ listen' = [listen EXCEPT ![g] = NoEdges]
          /\ send' = [send EXCEPT ![g] = NoEdges]
      BY <2>1 DEF RemoveCreature
    <3>2. CASE d = c
      BY <1>2, <3>1, <3>2 DEF Hears, Says
    <3>3. CASE d # c
      <4>1. graphOf[d] # g /\ graphOf'[d] = graphOf[d]
        BY <1>2, <2>1, <3>1, <3>3
      <4>2. graphOf[d] # NoGraph => listen'[graphOf[d]] = listen[graphOf[d]] /\ send'[graphOf[d]] = send[graphOf[d]]
        BY <3>1, <4>1 DEF Inv, TypeOK
      <4> QED
        BY <3>3, <4>1, <4>2 DEF Hears, Says
    <3> QED
      BY <3>2, <3>3
  <2>2. CASE rest # {}
    <3> DEFINE ls == [listen[g] EXCEPT ![c] = {}]
               sn == [send[g] EXCEPT ![c] = {}]
    <3>1. Edit(g, rest, channels[g], ls, sn, without)
      BY <2>2, RemoveCreatureEdits
    <3>2. \A e \in Creature \ {c} : ls[e] = listen[g][e] /\ sn[e] = send[g][e]
      BY <1>1 DEF Inv, TypeOK
    <3>3. /\ \A e \in rest : /\ graphOf'[e] # NoGraph
                             /\ Hears(e)' = ls[e] /\ Says(e)' = sn[e]
          /\ \A e \in Creature \ rest :
                /\ graphOf'[e] = without[e]
                /\ without[e] = NoGraph => Hears(e)' = {} /\ Says(e)' = {}
                /\ without[e] # NoGraph => Hears(e)' = Hears(e) /\ Says(e)' = Says(e)
      <4> HIDE DEF ls, sn, g, rest, without
      <4> QED
        BY <3>1, EditKeepsEdges
    <3> HIDE DEF ls, sn, rest, without
    <3>4. CASE d \in rest
      BY <1>1, <1>2, <3>2, <3>3, <3>4, ElsewhereNoEdges
    <3>5. CASE d \notin rest
      BY <1>2, <3>3, <3>5, ElsewhereNoEdges
    <3> QED
      BY <3>4, <3>5
  <2> QED
    BY <2>1, <2>2
<1>4. c \in {d \in Creature : graphOf[d] # NoGraph}
  BY <1>1
<1> HIDE DEF g, rest, without
<1> QED
  BY <1>3, <1>4 DEF Wired!Leave

LEMMA StepWires ==
    ASSUME Inv, [Next]_vars
    PROVE  [Wired!Next]_(Wired!wiring)
<1>1. ASSUME NEW c \in Creature, AddCreatureNew(c) \/ \E g \in GraphId : AddCreatureTo(c, g)
      PROVE  Wired!Next
  <2>1. Wired!Arrive(c)
    BY <1>1, ArrivalArrives DEF AddCreatureNew, AddCreatureTo, FreshIds
  <2> QED
    BY <2>1 DEF Wired!Next
<1>2. ASSUME NEW c \in Creature, RemoveCreature(c) PROVE Wired!Next
  BY <1>2, RemovalIsNoticedByNobodyElse DEF Wired!Next
<1>3. ASSUME NEW c \in Creature, NEW n \in Channel, NEW on \in BOOLEAN,
             SetListen(c, n, on) \/ SetSend(c, n, on)
      PROVE  Wired!Next
  BY <1>3, SetEdgeLinks
<1>4. ASSUME NEW c \in Creature, NEW n \in Channel, NEW side \in {"listen", "send"}, Unwire(c, n, side)
      PROVE  Wired!Next
  BY <1>4, UnwireUnlinks
<1>5. ASSUME NEW g \in GraphId, NEW n \in Channel, RemoveChannel(g, n) PROVE Wired!Next
  BY <1>5, RemoveChannelUnlinks
<1>6. ASSUME NEW s \in Creature, NEW r \in Creature, NEW n \in Channel, Connect(s, r, n)
      PROVE  Wired!Next
  BY <1>6, ConnectLinks
<1>7. ASSUME NEW s \in Creature, NEW r \in Creature, EnsureSameGraph(s, r)
      PROVE  UNCHANGED Wired!wiring
  BY <1>7, EnsureSameGraphNotNoticed
<1>8. ASSUME NEW s \in Creature, NEW r \in Creature,
             NEW named \in {{}} \cup {{n} : n \in Channel}, Disconnect(s, r, named)
      PROVE  Wired!Next
  BY <1>8, DisconnectUnlinks
<1>9. CASE \/ NewEmptyGraph
           \/ \E g \in GraphId, n \in Channel : AddChannel(g, n)
           \/ UNCHANGED vars
  <2>1. UNCHANGED <<listen, send, graphOf>>
    BY <1>9 DEF NewEmptyGraph, AddChannel, vars
  <2>2. SamePresent /\ \A c \in Creature : Says(c)' = Says(c) /\ Hears(c)' = Hears(c)
    BY <2>1 DEF SamePresent, Hears, Says
  <2> QED
    BY <2>2, NothingNoticed
<1> QED
  BY <1>1, <1>2, <1>3, <1>4, <1>5, <1>6, <1>7, <1>8, <1>9 DEF Next

\* Graphs merging, splitting, being minted and dropped never show in a creature's
\* own edges (listen_edges and send_edges of whichever graph it is in): they
\* change when it is wired or unwired itself, when a channel it is on is removed,
\* and when it goes.
THEOREM WiringRefined == Spec => ImplementsWiring
<1>1. Init => Wired!Init
  BY DEF Init, Wired!Init, Hears, Says
<1> QED
  BY <1>1, StepWires, Invariance, PTL DEF Spec, ImplementsWiring, Wired!Spec
=============================================================================

------------------------------- MODULE Wiring -------------------------------
(***************************************************************************)
(* What the topology promises to a creature, without graphs: it hears and  *)
(* says on some channels, and its edges change only when it is asked to    *)
(* change, when it is linked or unlinked, or when a channel it is attached *)
(* to is removed.  Graphs merging, splitting, being minted or dropped are  *)
(* invisible here.                                                         *)
(***************************************************************************)
CONSTANTS Creature, Channel

VARIABLES
    present,    \* the creatures there are
    hears,      \* the channel names each listens to
    says        \* the channel names each sends on

wiring == <<present, hears, says>>

Init ==
    /\ present = {}
    /\ hears = [c \in Creature |-> {}]
    /\ says = [c \in Creature |-> {}]

Arrive(c) ==
    /\ c \notin present
    /\ present' = present \cup {c}
    /\ UNCHANGED <<hears, says>>

\* Nobody else's edges go with a creature that leaves.
Leave(c) ==
    /\ c \in present
    /\ present' = present \ {c}
    /\ hears' = [hears EXCEPT ![c] = {}]
    /\ says' = [says EXCEPT ![c] = {}]

\* At most one new channel for s to say and r to hear; s or r may be the same.
Link(S, R, n) ==
    /\ S \cup R \subseteq present
    /\ says' = [c \in Creature |-> IF c \in S THEN says[c] \cup {n} ELSE says[c]]
    /\ hears' = [c \in Creature |-> IF c \in R THEN hears[c] \cup {n} ELSE hears[c]]
    /\ UNCHANGED present

\* Unwire s as a sender and r as a listener of the channels in T, or of one
\* channel every creature attached to it.
Unlink(S, R, T) ==
    /\ S \cup R \subseteq present
    /\ says' = [c \in Creature |-> IF c \in S THEN says[c] \ T ELSE says[c]]
    /\ hears' = [c \in Creature |-> IF c \in R THEN hears[c] \ T ELSE hears[c]]
    /\ UNCHANGED present

Pair == {{}} \cup {{c} : c \in Creature}

Next ==
    \/ \E c \in Creature : Arrive(c) \/ Leave(c)
    \/ \E S, R \in Pair, n \in Channel : Link(S, R, n)
    \/ \E S, R \in Pair, T \in SUBSET Channel : Unlink(S, R, T)
    \/ \E S \in SUBSET Creature, n \in Channel : Unlink(S, S, {n})

Spec == Init /\ [][Next]_wiring
=============================================================================

------------------------- MODULE ConversationProofs -------------------------
(***************************************************************************)
(* A splice loses nothing, and a resume knows what was said and forgets    *)
(* what was cut, for conversations of any length and any number of cuts,   *)
(* compactions and restarts.                                               *)
(*                                                                         *)
(* The splice needs that the conversation stays a sequence through all     *)
(* that replaces it, and that the boundary a job took is a position after  *)
(* the first.  The resume needs what the watermark promises of the         *)
(* snapshot (Saved), that the saved conversation knows what a request to    *)
(* the model would show (SanitizedShows), and that a log that speaks of    *)
(* anything has something live (SomethingIsLive): otherwise the empty      *)
(* replay of a log that was cut would bring an old snapshot back.          *)
(***************************************************************************)
EXTENDS Conversation, FiniteSetTheorems, SequenceTheorems, TLAPS

USE ConfigAssumption

-----------------------------------------------------------------------------
(* The greatest of a bounded set of numbers.  Below it are as many numbers *)
(* as there are with a member of the set at or above them.                 *)

LEMMA MaxOfBounded ==
    ASSUME NEW n \in Nat, NEW S \in SUBSET (1 .. n), S # {}
    PROVE  Max(S) \in S /\ \A i \in S : i <= Max(S)
<1> DEFINE T == {i \in 1 .. n : \E s \in S : i <= s}
           k == Cardinality(T)
<1>1. IsFiniteSet(T) /\ k \in Nat
  <2>1. IsFiniteSet(1 .. n)
    BY FS_Interval
  <2>2. T \in SUBSET (1 .. n)
    OBVIOUS
  <2>3. IsFiniteSet(T)
    <3> HIDE DEF T
    <3> QED BY <2>1, <2>2, FS_Subset
  <2> HIDE DEF T
  <2> QED BY <2>3, FS_CardinalityType
<1>2. \A i \in T : 1 .. i \subseteq T
  OBVIOUS
<1>3. \A i \in T : i <= k
  <2> SUFFICES ASSUME NEW i \in T PROVE i <= k
    OBVIOUS
  <2>1. i \in Nat /\ i >= 1 /\ 1 .. i \subseteq T
    BY <1>2
  <2>2. IsFiniteSet(1 .. i) /\ Cardinality(1 .. i) = i
    BY <2>1, FS_Interval
  <2> HIDE DEF T
  <2>3. Cardinality(1 .. i) <= Cardinality(T)
    BY <1>1, <2>1, FS_Subset
  <2> QED BY <2>2, <2>3
<1>4. k \in T
  <2> SUFFICES ASSUME k \notin T PROVE FALSE
    OBVIOUS
  <2>1. T # {}
    <3>1. PICK s \in S : TRUE
      OBVIOUS
    <3>2. s \in T
      BY <3>1
    <3> QED BY <3>2
  <2>2. k # 0
    <3> HIDE DEF T
    <3> QED BY <1>1, <2>1, FS_EmptySet
  <2>3. T \subseteq 1 .. (k - 1)
    <3> SUFFICES ASSUME NEW i \in T PROVE i \in 1 .. (k - 1)
      OBVIOUS
    <3>1. i \in Nat /\ i >= 1 /\ i <= k
      BY <1>3
    <3>2. i # k
      OBVIOUS
    <3> HIDE DEF T, k
    <3> QED BY <1>1, <3>1, <3>2
  <2> HIDE DEF T
  <2>4. IsFiniteSet(1 .. (k - 1)) /\ Cardinality(1 .. (k - 1)) = k - 1
    <3> HIDE DEF k
    <3>1. k - 1 \in Int /\ 1 \in Int /\ (1 > k - 1 => k = 1)
      BY <1>1, <2>2
    <3> QED BY <1>1, <2>2, <3>1, FS_Interval
  <2>5. k <= k - 1
    BY <2>3, <2>4, FS_Subset
  <2> QED BY <1>1, <2>5
<1>5. k \in S /\ \A i \in S : i <= k
  <2>1. \A i \in S : i \in T
    OBVIOUS
  <2>2. \A i \in S : i <= k
    BY <1>3, <2>1
  <2>3. PICK s \in S : k <= s
    BY <1>4
  <2>4. s <= k /\ s \in Nat
    BY <2>2
  <2> HIDE DEF k
  <2> QED BY <1>1, <2>2, <2>3, <2>4
<1> HIDE DEF k, T
<1>6. \E m \in S : \A i \in S : m >= i
  BY <1>1, <1>5
<1>7. Max(S) \in S /\ \A i \in S : Max(S) >= i
  BY <1>6 DEF Max
<1> QED BY <1>7

LEMMA MinOfTwo ==
    ASSUME NEW a \in Int, NEW b \in Int
    PROVE  Min({a, b}) = IF a <= b THEN a ELSE b
<1> DEFINE m == IF a <= b THEN a ELSE b
<1>1. m \in {a, b} /\ \A y \in {a, b} : m <= y
  OBVIOUS
<1>2. \A x \in {a, b} : (\A y \in {a, b} : x <= y) => x = m
  OBVIOUS
<1>3. Min({a, b}) \in {a, b} /\ \A y \in {a, b} : Min({a, b}) <= y
  BY <1>1 DEF Min
<1> QED BY <1>2, <1>3

-----------------------------------------------------------------------------
(* Sequences of whatever.                                                  *)

IsSequence(s) == \E S : s \in Seq(S)

LEMMA Sequences ==
    ASSUME NEW s, IsSequence(s)
    PROVE  /\ Len(s) \in Nat /\ DOMAIN s = 1 .. Len(s)
           /\ \A x : IsSequence(Append(s, x)) /\ Len(Append(s, x)) = Len(s) + 1
           /\ \A n \in 0 .. Len(s) : IsSequence(SubSeq(s, 1, n)) /\ Len(SubSeq(s, 1, n)) = n
<1>1. PICK S : s \in Seq(S)
  BY DEF IsSequence
<1>2. Len(s) \in Nat /\ DOMAIN s = 1 .. Len(s) /\ s \in [1 .. Len(s) -> S]
  BY <1>1, LenProperties
<1>3. ASSUME NEW x PROVE IsSequence(Append(s, x)) /\ Len(Append(s, x)) = Len(s) + 1
  <2>1. s \in Seq(S \cup {x})
    BY <1>1, SeqMonotonic
  <2>2. Append(s, x) \in Seq(S \cup {x}) /\ Len(Append(s, x)) = Len(s) + 1
    BY <2>1, AppendProperties
  <2> QED BY <2>2 DEF IsSequence
<1>4. ASSUME NEW n \in 0 .. Len(s)
      PROVE  IsSequence(SubSeq(s, 1, n)) /\ Len(SubSeq(s, 1, n)) = n
  <2>1. \A i \in 1 .. n : s[i] \in S
    BY <1>2
  <2>2. SubSeq(s, 1, n) \in Seq(S) /\ Len(SubSeq(s, 1, n)) = n
    <3>1. n \in Int /\ 1 \in Int
      BY <1>2
    <3>2. /\ SubSeq(s, 1, n) \in Seq(S)
          /\ Len(SubSeq(s, 1, n)) = IF 1 <= n THEN n - 1 + 1 ELSE 0
      BY <2>1, <3>1, SubSeqProperties
    <3> QED BY <1>2, <3>2
  <2> QED BY <2>2 DEF IsSequence
<1> QED BY <1>2, <1>3, <1>4

LEMMA EmptySequence == IsSequence(<<>>) /\ Len(<<>>) = 0
BY EmptySeq DEF IsSequence

-----------------------------------------------------------------------------
(* What the operators on conversations and logs return.                    *)

LEMMA UsersAreEntries ==
    ASSUME NEW c, IsSequence(c)
    PROVE  Users(c) \subseteq 1 .. Len(c) /\ Len(c) \in Nat
BY Sequences DEF Users

\* Where the live zone starts is the position of an entry, or counted from them.
LEMMA BoundaryIsAPosition ==
    ASSUME NEW c, IsSequence(c)
    PROVE  Boundary(c) \in Int
<1> DEFINE from(i) == {j \in Users(c) : j >= i}
           enough == {i \in Users(c) : Cardinality(from(i)) = KeepTurns}
           n == Len(c) + 1
<1>1. Users(c) \subseteq 1 .. Len(c) /\ Len(c) \in Nat
  BY UsersAreEntries
<1>2. enough \subseteq 1 .. Len(c)
  BY <1>1
<1>3. Boundary(c) = IF enough # {} THEN Max(enough)
                    ELSE IF n < MinCompactable THEN 1 ELSE n - (n \div 2)
  BY DEF Boundary
<1>4. n \in Nat
  BY <1>1
<1> HIDE DEF enough, n
<1>5. enough # {} => Max(enough) \in 1 .. Len(c)
  BY <1>1, <1>2, MaxOfBounded
<1>6. enough # {} => Max(enough) \in Int
  BY <1>1, <1>5
<1>7. n \div 2 \in Int
  BY <1>4
<1>8. n - (n \div 2) \in Int
  BY <1>4, <1>7
<1> QED BY <1>3, <1>6, <1>8

LEMMA ReplayedIsASequence ==
    ASSUME NEW l, IsSequence(l), NEW view
    PROVE  IsSequence(Replayed(l, view))
<1> DEFINE rows == {i \in Live(l, view) : l[i].msg # 0}
           entry(k) == [role |-> l[Nth(rows, k)].role, of |-> {l[Nth(rows, k)].msg}]
           n == Cardinality(rows)
<1>1. n \in Nat
  <2>1. IsFiniteSet(DOMAIN l)
    BY Sequences, FS_Interval
  <2>2. rows \in SUBSET DOMAIN l
    BY DEF Live
  <2> HIDE DEF rows
  <2> QED BY <2>1, <2>2, FS_Subset, FS_CardinalityType
<1>2. Replayed(l, view) = [k \in 1 .. n |-> entry(k)]
  BY DEF Replayed
<1> HIDE DEF n, rows, entry
<1> DEFINE S == {entry(k) : k \in 1 .. n}
           f == [k \in 1 .. n |-> entry(k)]
<1>3. f \in [1 .. n -> S]
  OBVIOUS
<1> HIDE DEF S, f
<1>4. f \in Seq(S)
  BY <1>1, <1>3
<1> QED BY <1>2, <1>4 DEF IsSequence, f

\* So is what is saved of a conversation.
LEMMA SanitizedIsASequence ==
    ASSUME NEW c, IsSequence(c)
    PROVE  IsSequence(Sanitized(c))
<1> DEFINE rows == DOMAIN c \ Orphans(c)
           answered(i) == i + 1 \in DOMAIN c /\ c[i + 1].role = "result"
           entry(i) == IF c[i].role = "reply" /\ ~ answered(i)
                       THEN [role |-> "text", of |-> c[i].of] ELSE c[i]
           n == Cardinality(rows)
<1>1. n \in Nat
  <2>1. IsFiniteSet(DOMAIN c)
    BY Sequences, FS_Interval
  <2>2. rows \in SUBSET DOMAIN c
    OBVIOUS
  <2> HIDE DEF rows
  <2> QED BY <2>1, <2>2, FS_Subset, FS_CardinalityType
<1>2. Sanitized(c) = [k \in 1 .. n |-> entry(Nth(rows, k))]
  BY DEF Sanitized
<1> HIDE DEF n, rows, entry
<1> DEFINE S == {entry(Nth(rows, k)) : k \in 1 .. n}
           f == [k \in 1 .. n |-> entry(Nth(rows, k))]
<1>3. f \in [1 .. n -> S]
  OBVIOUS
<1> HIDE DEF S, f
<1>4. f \in Seq(S)
  BY <1>1, <1>3
<1> QED BY <1>2, <1>4 DEF IsSequence, f

\* An edit starts from a sequence, whatever view it comes with.
LEMMA LoadedIsASequence ==
    ASSUME IsSequence(conv), IsSequence(log), NEW view
    PROVE  IsSequence(Loaded(view))
BY ReplayedIsASequence DEF Loaded

LEMMA ResumedIsASequence ==
    ASSUME NEW l, IsSequence(l), NEW saved, saved = None \/ IsSequence(saved), NEW mark
    PROVE  IsSequence(Resumed(l, saved, mark))
BY ReplayedIsASequence, EmptySequence DEF Resumed

-----------------------------------------------------------------------------
(* The invariant.                                                          *)

Shapes ==
    /\ IsSequence(conv) /\ IsSequence(log)
    /\ kept \in 0 .. Len(log)
    /\ snapshot = None \/ IsSequence(snapshot)
    /\ job.stage = "summarizing" => job.boundary \in Nat /\ job.boundary > 1
    /\ unstamped \in BOOLEAN

LEMMA ShapesInit == Init => Shapes
<1> SUFFICES ASSUME Init PROVE Shapes
  OBVIOUS
<1>1. unstamped \in BOOLEAN
  BY DEF Init
<1>2. conv = <<>> /\ log = <<>> /\ kept = 0 /\ snapshot = None /\ job.stage = "none"
  BY DEF Init, NoJob
<1> QED BY <1>1, <1>2, EmptySequence DEF Shapes

LEMMA SplicedIsASequence ==
    ASSUME NEW c, IsSequence(c), NEW b \in Nat \ {0}, NEW e
    PROVE  IsSequence(<<e>> \o LiveZone(c, b))
<1>1. PICK S : c \in Seq(S)
  BY DEF IsSequence
<1> DEFINE T == S \cup {e}
<1>2. c \in Seq(T) /\ <<e>> \in Seq(T) /\ Len(c) \in Nat
  BY <1>1, SeqMonotonic, LenProperties
<1>3. \A i \in b .. Len(c) : c[i] \in T
  BY <1>2, ElementOfSeq
<1> HIDE DEF T
<1>4. LiveZone(c, b) \in Seq(T)
  BY <1>2, <1>3, SubSeqProperties DEF LiveZone
<1>5. <<e>> \o LiveZone(c, b) \in Seq(T)
  BY <1>2, <1>4, ConcatProperties
<1> QED BY <1>5 DEF IsSequence

LEMMA ShapesStep == Shapes /\ [Next]_vars => Shapes'
<1> SUFFICES ASSUME Shapes, [Next]_vars PROVE Shapes'
    OBVIOUS
<1> USE DEF Shapes
<1>1. /\ Len(conv) \in Nat /\ Len(log) \in Nat
      /\ \A x : IsSequence(Append(log, x)) /\ Len(Append(log, x)) = Len(log) + 1
      /\ \A x : IsSequence(Append(conv, x))
      /\ \A n \in 0 .. Len(conv) : IsSequence(SubSeq(conv, 1, n))
      /\ \A n \in 0 .. Len(log) : IsSequence(SubSeq(log, 1, n)) /\ Len(SubSeq(log, 1, n)) = n
  BY Sequences
<1>2. CASE BeginUser
  BY <1>1, <1>2 DEF BeginUser
<1>3. CASE BeginTold \/ Reply \/ ToolResult
  <2>1. /\ UNCHANGED <<conv, kept, snapshot, job, unstamped>>
        /\ \E x : log' = Append(log, x)
    BY <1>3 DEF BeginTold, Reply, ToolResult
  <2> QED BY <1>1, <2>1
<1>4. CASE Join
  BY <1>1, <1>4 DEF Join
<1>5. CASE End
  BY <1>1, <1>5, SanitizedIsASequence DEF End
<1>6. ASSUME NEW t \in 1 .. MaxMessages, NEW view, Edit(t, view) PROVE Shapes'
  <2>1. PICK i \in Targets(t, view) : conv' = SubSeq(Loaded(view), 1, i - 1)
    BY <1>6 DEF Edit
  <2>2. IsSequence(Loaded(view))
    BY LoadedIsASequence
  <2>3. i \in 1 .. Len(Loaded(view)) /\ Len(Loaded(view)) \in Nat
    BY <2>1, <2>2, UsersAreEntries DEF Targets
  <2>4. IsSequence(conv')
    BY <2>1, <2>2, <2>3, Sequences
  <2> QED BY <1>1, <1>6, <2>4 DEF Edit, Cut
<1>17. ASSUME NEW view, EditMissing(view) PROVE Shapes'
  BY <1>1, <1>17, LoadedIsASequence DEF EditMissing, Cut
<1>7. CASE Regenerate
  <2>1. Users(conv) # {} /\ conv' = SubSeq(conv, 1, Max(Users(conv)))
    BY <1>7 DEF Regenerate
  <2>2. Max(Users(conv)) \in Users(conv) /\ Users(conv) \subseteq 1 .. Len(conv)
    BY <2>1, UsersAreEntries, MaxOfBounded
  <2>3. Max(Users(conv)) \in 0 .. Len(conv)
    BY <1>1, <2>2
  <2>4. IsSequence(conv')
    BY <1>1, <2>1, <2>3
  <2> QED BY <1>1, <1>7, <2>4 DEF Regenerate, Cut
<1>8. ASSUME NEW i \in 1 .. MaxMessages, Rewind(i) PROVE Shapes'
  <2>1. i \in 1 .. Len(conv) /\ conv' = SubSeq(conv, 1, i - 1)
    BY <1>8, Sequences DEF Rewind
  <2>2. IsSequence(conv')
    BY <1>1, <2>1
  <2> QED BY <1>8, <2>2, SanitizedIsASequence DEF Rewind, Cut
<1>9. CASE Clear
  BY <1>1, <1>9, EmptySequence, SanitizedIsASequence DEF Clear, Cut
<1>10. CASE Trigger
  BY <1>1, <1>10 DEF Trigger, NoJob
<1>11. CASE StartJob
  <2>1. Boundary(conv) \in Int
    BY BoundaryIsAPosition
  <2> QED BY <1>11, <2>1 DEF StartJob, NoJob
<1>12. CASE GiveUp
  BY <1>1, <1>12 DEF GiveUp, NoJob
<1>13. CASE Splice
  <2>1. IsSequence(conv')
    BY <1>13, SplicedIsASequence DEF Splice
  <2> QED BY <1>1, <1>13, <2>1, SanitizedIsASequence DEF Splice, NoJob
<1>14. CASE Flush \/ Stamp
  <2>1. unstamped' \in BOOLEAN
    BY <1>14 DEF Flush, Stamp
  <2>2. UNCHANGED <<conv, log, snapshot, job>> /\ kept' = Len(log)
    BY <1>14 DEF Flush, Stamp
  <2> QED BY <1>1, <2>1, <2>2
<1>15. CASE Restart
  <2>1. IsSequence(log') /\ Len(log') = kept
    BY <1>1, <1>15 DEF Restart
  <2>2. IsSequence(conv')
    BY <1>15, <2>1, ResumedIsASequence DEF Restart
  <2>3. unstamped' \in BOOLEAN
    BY <1>15 DEF Restart
  <2>4. kept' = kept /\ snapshot' = snapshot /\ job'.stage = "none"
    BY <1>15 DEF Restart, NoJob
  <2> QED BY <1>1, <2>1, <2>2, <2>3, <2>4
<1>16. CASE UNCHANGED vars
  BY <1>16 DEF vars
<1> QED
  BY <1>2, <1>3, <1>4, <1>5, <1>6, <1>7, <1>8, <1>9, <1>10, <1>11, <1>12, <1>13, <1>14,
     <1>15, <1>16, <1>17 DEF Next, Act, Revise

-----------------------------------------------------------------------------
(* The splice.                                                             *)

\* What is known of a sequence is what its beginning and its rest know.
LEMMA KnownOfParts ==
    ASSUME NEW c, IsSequence(c), NEW b \in Nat, b > 1
    PROVE  Known(c) = Known(Zone(c, b)) \cup Known(LiveZone(c, b))
<1>1. PICK S : c \in Seq(S)
  BY DEF IsSequence
<1>2. Len(c) \in Nat /\ DOMAIN c = 1 .. Len(c) /\ \A i \in 1 .. Len(c) : c[i] \in S
  BY <1>1, LenProperties, ElementOfSeq
<1> DEFINE z == IF b - 1 <= Len(c) THEN b - 1 ELSE Len(c)
<1>3. z \in 0 .. Len(c) /\ z < b
  BY <1>2
<1>4. Min({b - 1, Len(c)}) = z
  BY <1>2, MinOfTwo
<1> HIDE DEF z
<1>5. /\ DOMAIN Zone(c, b) = 1 .. z
      /\ \A i \in 1 .. z : Zone(c, b)[i] = c[i]
  <2>1. \A i \in 1 .. z : c[i] \in S
    BY <1>2, <1>3
  <2>2. z \in Int /\ 1 \in Int
    BY <1>3
  <2>3. /\ SubSeq(c, 1, z) \in Seq(S)
        /\ Len(SubSeq(c, 1, z)) = IF 1 <= z THEN z - 1 + 1 ELSE 0
        /\ \A i \in 1 .. z - 1 + 1 : SubSeq(c, 1, z)[i] = c[1 + i - 1]
    BY <2>1, <2>2, SubSeqProperties
  <2>4. DOMAIN SubSeq(c, 1, z) = 1 .. Len(SubSeq(c, 1, z))
    BY <2>3, LenProperties
  <2>5. Len(SubSeq(c, 1, z)) = z
    BY <1>3, <2>3
  <2>6. \A i \in 1 .. z : SubSeq(c, 1, z)[i] = c[i]
    BY <1>3, <2>3
  <2> QED BY <1>4, <2>4, <2>5, <2>6 DEF Zone
<1>6. /\ DOMAIN LiveZone(c, b) = 1 .. (IF b <= Len(c) THEN Len(c) - b + 1 ELSE 0)
      /\ \A i \in 1 .. Len(c) - b + 1 : LiveZone(c, b)[i] = c[b + i - 1]
  <2>1. \A i \in b .. Len(c) : c[i] \in S
    BY <1>2
  <2>2. /\ SubSeq(c, b, Len(c)) \in Seq(S)
        /\ Len(SubSeq(c, b, Len(c))) = IF b <= Len(c) THEN Len(c) - b + 1 ELSE 0
        /\ \A i \in 1 .. Len(c) - b + 1 : SubSeq(c, b, Len(c))[i] = c[b + i - 1]
    BY <1>2, <2>1, SubSeqProperties
  <2> QED BY <2>2, LenProperties DEF LiveZone
<1>7. ASSUME NEW m \in Known(c) PROVE m \in Known(Zone(c, b)) \cup Known(LiveZone(c, b))
  <2>1. PICK i \in 1 .. Len(c) : m \in c[i].of
    BY <1>2, <1>7 DEF Known
  <2>2. CASE i <= z
    <3>1. i \in 1 .. z
      BY <1>3, <2>2
    <3> QED BY <1>5, <2>1, <3>1 DEF Known
  <2>3. CASE i >= b
    <3>1. i - b + 1 \in 1 .. Len(c) - b + 1 /\ b <= Len(c) /\ b + (i - b + 1) - 1 = i
      BY <1>2, <2>1, <2>3
    <3>2. LiveZone(c, b)[i - b + 1] = c[i] /\ i - b + 1 \in DOMAIN LiveZone(c, b)
      BY <1>6, <3>1
    <3> QED BY <2>1, <3>2 DEF Known
  <2> QED BY <1>2, <2>1, <2>2, <2>3 DEF z
<1>8. ASSUME NEW m \in Known(Zone(c, b)) PROVE m \in Known(c)
  BY <1>2, <1>3, <1>5, <1>8 DEF Known
<1>9. ASSUME NEW m \in Known(LiveZone(c, b)) PROVE m \in Known(c)
  <2>1. PICK i \in DOMAIN LiveZone(c, b) : m \in LiveZone(c, b)[i].of
    BY <1>9 DEF Known
  <2>2. i \in 1 .. Len(c) - b + 1 /\ b + i - 1 \in 1 .. Len(c)
    BY <1>2, <1>6, <2>1
  <2> QED BY <1>2, <1>6, <2>1, <2>2 DEF Known
<1> QED BY <1>7, <1>8, <1>9

\* A summary put before a sequence.
LEMMA KnownOfSpliced ==
    ASSUME NEW c, IsSequence(c), NEW e
    PROVE  Known(<<e>> \o c) = e.of \cup Known(c)
<1>1. PICK S : c \in Seq(S)
  BY DEF IsSequence
<1> DEFINE T == S \cup {e}
<1>2. c \in Seq(T) /\ <<e>> \in Seq(T) /\ Len(c) \in Nat /\ Len(<<e>>) = 1
      /\ DOMAIN c = 1 .. Len(c)
  BY <1>1, SeqMonotonic, LenProperties
<1> HIDE DEF T
<1> DEFINE d == <<e>> \o c
<1>3. /\ d \in Seq(T) /\ Len(d) = 1 + Len(c)
      /\ \A i \in 1 .. 1 + Len(c) : d[i] = IF i <= 1 THEN e ELSE c[i - 1]
  <2>1. \A i \in 1 .. Len(<<e>>) + Len(c) :
           d[i] = IF i <= Len(<<e>>) THEN <<e>>[i] ELSE c[i - Len(<<e>>)]
    BY <1>2, ConcatProperties
  <2>2. \A i \in 1 .. 1 + Len(c) : d[i] = IF i <= 1 THEN <<e>>[i] ELSE c[i - 1]
    BY <1>2, <2>1
  <2>3. \A i \in 1 .. 1 + Len(c) : i <= 1 => <<e>>[i] = e
    BY <1>2
  <2> HIDE DEF d
  <2>4. \A i \in 1 .. 1 + Len(c) : d[i] = IF i <= 1 THEN e ELSE c[i - 1]
    BY <2>2, <2>3
  <2> QED BY <1>2, <2>4, ConcatProperties DEF d
<1> HIDE DEF d
<1>4. DOMAIN d = 1 .. 1 + Len(c)
  BY <1>3, LenProperties
<1>5. d[1] = e /\ \A i \in 1 .. Len(c) : i + 1 \in DOMAIN d /\ d[i + 1] = c[i]
  BY <1>2, <1>3, <1>4
<1>6. \A i \in DOMAIN d : i = 1 \/ (i - 1 \in 1 .. Len(c) /\ d[i] = c[i - 1])
  BY <1>2, <1>3, <1>4
<1>7. Known(d) \subseteq e.of \cup Known(c)
  BY <1>2, <1>5, <1>6 DEF Known
<1>8. e.of \cup Known(c) \subseteq Known(d)
  BY <1>2, <1>4, <1>5 DEF Known
<1> QED BY <1>7, <1>8 DEF d

\* When the compact zone is still the beginning of the conversation the splice
\* loses nothing that was said, however much was said while the summary was made
\* (compact.py: _splice_conversation).
THEOREM NothingSaidIsLost == Spec => SpliceLosesNothing
<1>1. ASSUME Shapes, Splice, Known(Zone(conv, job.boundary)) = job.zone
      PROVE  Known(conv') = Known(conv)
  <2> DEFINE b == job.boundary
  <2>1. b \in Nat /\ b > 1 /\ IsSequence(conv)
    BY <1>1 DEF Splice, Shapes
  <2>2. conv' = <<[role |-> "summary", of |-> job.zone]>> \o LiveZone(conv, b)
    BY <1>1 DEF Splice
  <2>3. IsSequence(LiveZone(conv, b))
    <3>1. PICK S : conv \in Seq(S)
      BY <2>1 DEF IsSequence
    <3>2. Len(conv) \in Nat /\ \A i \in b .. Len(conv) : conv[i] \in S
      BY <2>1, <3>1, LenProperties, ElementOfSeq
    <3> HIDE DEF b
    <3> QED BY <2>1, <3>2, SubSeqProperties DEF LiveZone, IsSequence
  <2> HIDE DEF b
  <2>4. Known(conv') = job.zone \cup Known(LiveZone(conv, b))
    BY <2>2, <2>3, KnownOfSpliced
  <2>5. Known(conv) = Known(Zone(conv, b)) \cup Known(LiveZone(conv, b))
    BY <2>1, KnownOfParts
  <2> QED BY <1>1, <2>4, <2>5 DEF b
<1>2. Shapes /\ [Next]_vars
        => [Splice /\ Known(Zone(conv, job.boundary)) = job.zone
              => Known(conv') = Known(conv)]_vars
  BY <1>1
<1> QED BY <1>2, ShapesInit, ShapesStep, PTL DEF Spec, SpliceLosesNothing

-----------------------------------------------------------------------------
(* Counting up, and the greatest of a set that may hold 0.                 *)

LEMMA MaxOfNaturals ==
    ASSUME NEW n \in Nat, NEW S \in SUBSET (0 .. n), S # {}
    PROVE  Max(S) \in S /\ Max(S) \in 0 .. n /\ \A i \in S : i <= Max(S)
<1> DEFINE T == S \ {0}
<1>1. \E m \in S : \A i \in S : m >= i
  <2>1. CASE T = {}
    <3>1. S = {0}
      BY <2>1
    <3> QED BY <3>1
  <2>2. CASE T # {}
    <3>1. T \in SUBSET (1 .. n)
      OBVIOUS
    <3>2. T \subseteq S /\ S \subseteq T \cup {0} /\ \A x \in T : x \in S /\ x \in Nat
      OBVIOUS
    <3> HIDE DEF T
    <3>3. Max(T) \in T /\ \A i \in T : i <= Max(T)
      BY <2>2, <3>1, MaxOfBounded
    <3>4. Max(T) \in S /\ Max(T) \in Nat
      BY <3>2, <3>3, Zenon
    <3>5. \A i \in S : i \in T \/ i = 0
      BY <3>2
    <3>6. \A i \in T : i \in Nat
      BY <3>1
    <3>7. \A i \in S : Max(T) >= i
      BY <3>3, <3>4, <3>5, <3>6
    <3> QED BY <3>4, <3>7
  <2> QED BY <2>1, <2>2
<1> HIDE DEF T
<1>2. Max(S) \in S /\ \A i \in S : Max(S) >= i
  BY <1>1 DEF Max
<1> QED BY <1>2

LEMMA CountingUp ==
    ASSUME NEW n \in Nat, NEW S, 0 \in S,
           \A i \in 0 .. n : i < n /\ i \in S => i + 1 \in S
    PROVE  \A i \in 0 .. n : i \in S
<1> DEFINE T == {i \in 0 .. n : \A j \in 0 .. i : j \in S}
           k == Max(T)
<1>1. 0 \in T
  OBVIOUS
<1>2. k \in T /\ k \in 0 .. n /\ \A i \in T : i <= k
  <2>1. T \in SUBSET (0 .. n) /\ T # {}
    BY <1>1
  <2> HIDE DEF T
  <2> QED BY <2>1, MaxOfNaturals
<1> HIDE DEF k
<1>3. k = n
  <2> SUFFICES ASSUME k < n PROVE FALSE
    BY <1>2
  <2>1. \A j \in 0 .. k : j \in S
    BY <1>2
  <2>2. k + 1 \in S
    BY <1>2, <2>1
  <2>3. \A j \in 0 .. (k + 1) : j \in S
    BY <1>2, <2>1, <2>2
  <2>4. k + 1 \in T
    BY <1>2, <2>3
  <2> QED BY <1>2, <2>4
<1> QED BY <1>2, <1>3

-----------------------------------------------------------------------------
(* Enumerating positions.                                                  *)

Rank(M, i) == Cardinality({j \in M : j <= i})

\* Nth enumerates a set of positions: every rank is taken, and by one position.
LEMMA Ranking ==
    ASSUME NEW n \in Nat, NEW M \in SUBSET (1 .. n)
    PROVE  /\ Cardinality(M) \in Nat
           /\ \A k \in 1 .. Cardinality(M) : Nth(M, k) \in M /\ Rank(M, Nth(M, k)) = k
           /\ \A i \in M : \E k \in 1 .. Cardinality(M) : Nth(M, k) = i
<1> DEFINE m == Cardinality(M)
           Upto(i) == {j \in M : j <= i}
           rank == [i \in M |-> Rank(M, i)]
<1>1. IsFiniteSet(M) /\ m \in Nat
  <2>1. IsFiniteSet(1 .. n)
    BY FS_Interval
  <2> QED BY <2>1, FS_Subset, FS_CardinalityType
<1>2. \A i \in M : IsFiniteSet(Upto(i)) /\ Rank(M, i) \in Nat /\ Rank(M, i) <= m /\ Rank(M, i) # 0
  <2> SUFFICES ASSUME NEW i \in M
               PROVE  IsFiniteSet(Upto(i)) /\ Rank(M, i) \in Nat /\ Rank(M, i) <= m /\ Rank(M, i) # 0
      OBVIOUS
  <2>1. Upto(i) \in SUBSET M /\ i \in Upto(i) /\ Rank(M, i) = Cardinality(Upto(i))
    BY DEF Rank
  <2> HIDE DEF Upto
  <2>2. IsFiniteSet(Upto(i)) /\ Cardinality(Upto(i)) <= m
    BY <1>1, <2>1, FS_Subset
  <2>3. Cardinality(Upto(i)) \in Nat /\ Cardinality(Upto(i)) # 0
    BY <2>1, <2>2, FS_CardinalityType, FS_EmptySet
  <2> QED BY <2>1, <2>2, <2>3
<1>3. \A i, j \in M : Rank(M, i) = Rank(M, j) => i = j
  <2>1. ASSUME NEW i \in M, NEW j \in M, i < j PROVE Rank(M, i) # Rank(M, j)
    <3>1. Upto(i) \in SUBSET Upto(j) /\ j \notin Upto(i) /\ j \in Upto(j)
      <4>1. i \in Nat /\ j \in Nat /\ \A x \in M : x \in Nat
        OBVIOUS
      <4>2. \A x \in Upto(i) : x \in Upto(j)
        BY <2>1, <4>1
      <4>3. ~ (j <= i) /\ j <= j
        BY <2>1, <4>1
      <4> QED BY <4>2, <4>3
    <3>2. Rank(M, i) = Cardinality(Upto(i)) /\ Rank(M, j) = Cardinality(Upto(j))
      BY DEF Rank
    <3>3. IsFiniteSet(Upto(j))
      BY <1>2
    <3> HIDE DEF Upto
    <3>4. Cardinality(Upto(j)) = Cardinality(Upto(i)) => Upto(j) = Upto(i)
      BY <3>1, <3>3, FS_Subset
    <3> QED BY <3>1, <3>2, <3>4
  <2>2. \A i, j \in M : i < j \/ i = j \/ j < i
    OBVIOUS
  <2> QED BY <2>1, <2>2
<1>4. rank \in Injection(M, 1 .. m)
  <2>1. \A i \in M : rank[i] \in 1 .. m
    <3> SUFFICES ASSUME NEW i \in M PROVE Rank(M, i) \in 1 .. m
        OBVIOUS
    <3>1. Rank(M, i) \in Nat /\ Rank(M, i) <= m /\ Rank(M, i) # 0
      BY <1>2
    <3> HIDE DEF m
    <3> QED BY <1>1, <3>1
  <2>2. rank \in [M -> 1 .. m]
    BY <2>1
  <2>3. \A i, j \in M : rank[i] = rank[j] => i = j
    BY <1>3
  <2> QED BY <2>2, <2>3 DEF Injection, IsInjective
<1>5. rank \in Surjection(M, 1 .. m)
  <2>1. IsFiniteSet(1 .. m) /\ Cardinality(1 .. m) = m
    <3> HIDE DEF m
    <3>1. m \in Int /\ 1 \in Int /\ (1 > m => m = 0)
      BY <1>1
    <3> QED BY <1>1, <3>1, FS_Interval
  <2> HIDE DEF rank
  <2> QED BY <1>4, <2>1, FS_Injection
<1>6. \A k \in 1 .. m : Nth(M, k) \in M /\ Rank(M, Nth(M, k)) = k
  <2> SUFFICES ASSUME NEW k \in 1 .. m PROVE Nth(M, k) \in M /\ Rank(M, Nth(M, k)) = k
      OBVIOUS
  <2>1. \E i \in M : rank[i] = k
    BY <1>5 DEF Surjection
  <2>2. \E i \in M : Cardinality({j \in M : j <= i}) = k
    BY <2>1 DEF Rank
  <2> QED BY <2>2 DEF Nth, Rank
<1>7. \A i \in M : \E k \in 1 .. m : Nth(M, k) = i
  <2> SUFFICES ASSUME NEW i \in M PROVE \E k \in 1 .. m : Nth(M, k) = i
      OBVIOUS
  <2>1. Rank(M, i) \in 1 .. m
    <3>1. Rank(M, i) \in Nat /\ Rank(M, i) <= m /\ Rank(M, i) # 0
      BY <1>2
    <3> HIDE DEF m
    <3> QED BY <1>1, <3>1
  <2>2. Nth(M, Rank(M, i)) = i
    BY <1>3, <1>6, <2>1
  <2> QED BY <2>1, <2>2
<1> QED BY <1>1, <1>6, <1>7
-----------------------------------------------------------------------------
(* The branch chosen for the first turn.  Chosen is defined turn by turn;  *)
(* what it has chosen for a turn it keeps.                                 *)

LastTurn(l) == Max({0} \cup {l[i].turn : i \in DOMAIN l})
Opens(l, i) ==
    \A j \in 1 .. i - 1 : <<l[j].turn, l[j].branch>> # <<l[i].turn, l[i].branch>>

IsChoice(l, view, n, f) ==
    f = [t \in 0 .. n |-> IF t = 0 THEN <<>> ELSE Append(f[t - 1], Choice(l, t, f[t - 1], view))]

LEMMA ChoicesExist ==
    ASSUME NEW l, NEW view, NEW n \in Nat
    PROVE  \E f : IsChoice(l, view, n, f)
<1> DEFINE S == {k \in Nat : \E f : IsChoice(l, view, k, f)}
<1>1. 0 \in S
  <2> DEFINE f == [t \in 0 .. 0 |-> <<>>]
  <2>1. f = [t \in 0 .. 0 |-> IF t = 0 THEN <<>> ELSE Append(f[t - 1], Choice(l, t, f[t - 1], view))]
    OBVIOUS
  <2> QED BY <2>1 DEF IsChoice
<1>2. ASSUME NEW k \in Nat, k \in S PROVE k + 1 \in S
  <2>1. PICK f : IsChoice(l, view, k, f)
    BY <1>2
  <2> DEFINE g == [t \in 0 .. k + 1 |-> IF t <= k THEN f[t]
                                        ELSE Append(f[k], Choice(l, k + 1, f[k], view))]
             h(t) == IF t = 0 THEN <<>> ELSE Append(g[t - 1], Choice(l, t, g[t - 1], view))
  <2>2. \A t \in 0 .. k : f[t] = IF t = 0 THEN <<>>
                                 ELSE Append(f[t - 1], Choice(l, t, f[t - 1], view))
    BY <2>1 DEF IsChoice
  <2>3. /\ \A t \in 0 .. k : g[t] = f[t]
        /\ g[k + 1] = Append(f[k], Choice(l, k + 1, f[k], view))
    OBVIOUS
  <2>4. \A t \in 0 .. k + 1 : g[t] = h(t)
    <3> SUFFICES ASSUME NEW t \in 0 .. k + 1 PROVE g[t] = h(t)
      OBVIOUS
    <3>1. CASE t = 0
      BY <2>2, <2>3, <3>1
    <3>2. CASE t # 0 /\ t <= k
      <4>1. t - 1 \in 0 .. k /\ t \in 0 .. k
        BY <3>2
      <4> QED BY <2>2, <2>3, <3>2, <4>1
    <3>3. CASE t = k + 1
      <4>1. t - 1 = k /\ k \in 0 .. k /\ t # 0
        BY <3>3
      <4> QED BY <2>3, <3>3, <4>1
    <3> QED BY <3>1, <3>2, <3>3
  <2>5. g = [t \in 0 .. k + 1 |-> h(t)]
    <3>1. DOMAIN g = 0 .. k + 1 /\ g = [t \in 0 .. k + 1 |-> g[t]]
      OBVIOUS
    <3> HIDE DEF g
    <3> QED BY <2>4, <3>1
  <2>6. IsChoice(l, view, k + 1, g)
    BY <2>5, Zenon DEF IsChoice
  <2> HIDE DEF g, h
  <2> QED BY <2>6
<1> HIDE DEF S
<1>3. \A i \in 0 .. n : i \in S
  BY <1>1, <1>2, CountingUp
<1> QED BY <1>3 DEF S

LEMMA ChosenIsAChoice ==
    ASSUME NEW l, NEW view, LastTurn(l) \in Nat
    PROVE  \E f : IsChoice(l, view, LastTurn(l), f) /\ Chosen(l, view) = f[LastTurn(l)]
<1> DEFINE g == CHOOSE f : IsChoice(l, view, LastTurn(l), f)
<1>1. Chosen(l, view) = g[LastTurn(l)]
  BY Zenon DEF Chosen, IsChoice, LastTurn
<1>2. \E f : IsChoice(l, view, LastTurn(l), f)
  BY ChoicesExist
<1>3. IsChoice(l, view, LastTurn(l), g)
  BY <1>2
<1> HIDE DEF g
<1> QED BY <1>1, <1>3

LEMMA FirstChoice ==
    ASSUME NEW l, NEW view, LastTurn(l) \in Nat, LastTurn(l) # 0
    PROVE  IsSequence(Chosen(l, view)) /\ Len(Chosen(l, view)) >= 1 /\ Chosen(l, view)[1] = Choice(l, 1, <<>>, view)
<1> DEFINE n == LastTurn(l)
<1>1. PICK f : IsChoice(l, view, n, f) /\ Chosen(l, view) = f[n]
  BY ChosenIsAChoice
<1>2. \A t \in 0 .. n : f[t] = IF t = 0 THEN <<>>
                               ELSE Append(f[t - 1], Choice(l, t, f[t - 1], view))
  BY <1>1 DEF IsChoice
<1> DEFINE good(s) == IsSequence(s) /\ Len(s) >= 1 /\ s[1] = Choice(l, 1, <<>>, view)
           S == {0} \cup {t \in 1 .. n : good(f[t])}
<1>3. n \in Nat /\ n # 0
  OBVIOUS
<1> HIDE DEF n
<1>4. good(f[1])
  <2>1. 0 \in 0 .. n /\ 1 \in 0 .. n /\ 1 - 1 = 0
    BY <1>3
  <2>2. f[0] = <<>> /\ f[1] = Append(f[1 - 1], Choice(l, 1, f[1 - 1], view))
    <3>1. f[0] = IF 0 = 0 THEN <<>> ELSE Append(f[0 - 1], Choice(l, 0, f[0 - 1], view))
      BY <1>2, <2>1, Zenon
    <3>2. f[1] = IF 1 = 0 THEN <<>> ELSE Append(f[1 - 1], Choice(l, 1, f[1 - 1], view))
      BY <1>2, <2>1, Zenon
    <3>3. 1 # 0
      OBVIOUS
    <3> QED BY <3>1, <3>2, <3>3, Zenon
  <2>3. f[1] = Append(<<>>, Choice(l, 1, <<>>, view))
    BY <2>1, <2>2, Zenon
  <2>4. /\ IsSequence(Append(<<>>, Choice(l, 1, <<>>, view)))
        /\ Len(Append(<<>>, Choice(l, 1, <<>>, view))) = 1
        /\ Append(<<>>, Choice(l, 1, <<>>, view))[1] = Choice(l, 1, <<>>, view)
    <3> DEFINE c == Choice(l, 1, <<>>, view)
    <3> HIDE DEF c
    <3>1. <<>> \in Seq({c}) /\ Len(<<>>) = 0 /\ c \in {c}
      BY EmptySeq
    <3>2. Append(<<>>, c) \in Seq({c}) /\ Len(Append(<<>>, c)) = 0 + 1 /\ Append(<<>>, c)[0 + 1] = c
      BY <3>1, AppendProperties
    <3>3. IsSequence(Append(<<>>, c)) /\ Len(Append(<<>>, c)) = 1 /\ Append(<<>>, c)[1] = c
      <4>1. 0 + 1 = 1
        OBVIOUS
      <4>2. Len(Append(<<>>, c)) = 1 /\ Append(<<>>, c)[1] = c
        BY <3>2, <4>1, Zenon
      <4> QED BY <3>2, <4>2, Zenon DEF IsSequence
    <3> QED BY <3>3 DEF c
  <2> QED BY <2>3, <2>4
<1>5. ASSUME NEW s, good(s), NEW x PROVE good(Append(s, x))
  <2>1. PICK T : s \in Seq(T)
    BY <1>5 DEF IsSequence
  <2>2. s \in Seq(T \cup {x}) /\ x \in T \cup {x}
    BY <2>1, SeqMonotonic
  <2>3. /\ Append(s, x) \in Seq(T \cup {x}) /\ Len(Append(s, x)) = Len(s) + 1
        /\ \A i \in 1 .. Len(s) : Append(s, x)[i] = s[i]
    BY <2>2, AppendProperties
  <2>4. Len(s) \in Nat
    BY <2>1, LenProperties
  <2>5. Append(s, x)[1] = s[1]
    BY <1>5, <2>3, <2>4
  <2> QED BY <1>5, <2>3, <2>4, <2>5 DEF IsSequence
<1> HIDE DEF good
<1>6. \A t \in 0 .. n : t < n /\ t \in S => t + 1 \in S
  <2> SUFFICES ASSUME NEW t \in 0 .. n, t < n, t \in S PROVE t + 1 \in S
    OBVIOUS
  <2>1. t + 1 \in 1 .. n /\ t + 1 \in 0 .. n /\ t + 1 # 0 /\ (t + 1) - 1 = t
    BY <1>3
  <2>2. CASE t = 0
    <3>1. t + 1 = 1
      BY <2>2
    <3> QED BY <1>4, <2>1, <3>1
  <2>3. CASE t # 0
    <3>1. good(f[t])
      BY <2>3
    <3>2. f[t + 1] = Append(f[t], Choice(l, t + 1, f[t], view))
      BY <1>2, <2>1
    <3>3. good(f[t + 1])
      BY <1>5, <3>1, <3>2
    <3> QED BY <2>1, <3>3
  <2> QED BY <2>2, <2>3
<1>7. n \in S
  <2>1. 0 \in S
    OBVIOUS
  <2> HIDE DEF S
  <2>2. \A i \in 0 .. n : i \in S
    BY <1>3, <1>6, <2>1, CountingUp
  <2> QED BY <1>3, <2>2
<1>8. good(f[n])
  BY <1>3, <1>7
<1> QED BY <1>1, <1>8 DEF good

-----------------------------------------------------------------------------
(* Logs.  Turns are numbered from 1 as they begin, and a branch begins     *)
(* with a user_message.                                                    *)

Opened(l, t, b, n) ==
    /\ b # 0
    /\ \E j \in 1 .. n : l[j].turn = t /\ l[j].branch = b /\ l[j].role = "user"

Begun(l, n) == \E j \in 1 .. n : l[j].turn = 1

\* What row n of a log may be after the rows before it.
IsRow(l, e, n) ==
    /\ e.turn \in 0 .. n /\ e.branch \in 0 .. n
    /\ e.role = "user" => e.msg # 0
    /\ e.turn # 0 => Opened(l, e.turn, e.branch, n) /\ Begun(l, n)

WellFormed(l) == IsSequence(l) /\ \A i \in DOMAIN l : IsRow(l, l[i], i)

LEMMA Rows ==
    ASSUME NEW l, IsSequence(l)
    PROVE  /\ Len(l) \in Nat /\ DOMAIN l = 1 .. Len(l)
           /\ \A e : /\ IsSequence(Append(l, e))
                     /\ DOMAIN Append(l, e) = 1 .. Len(l) + 1
                     /\ \A i \in 1 .. Len(l) : Append(l, e)[i] = l[i]
                     /\ Append(l, e)[Len(l) + 1] = e
           /\ \A n \in 0 .. Len(l) : /\ IsSequence(SubSeq(l, 1, n))
                                     /\ DOMAIN SubSeq(l, 1, n) = 1 .. n
                                     /\ \A i \in 1 .. n : SubSeq(l, 1, n)[i] = l[i]
<1>1. PICK S : l \in Seq(S)
  BY DEF IsSequence
<1>2. Len(l) \in Nat /\ DOMAIN l = 1 .. Len(l) /\ \A i \in 1 .. Len(l) : l[i] \in S
  BY <1>1, LenProperties, ElementOfSeq
<1>3. ASSUME NEW e
      PROVE  /\ DOMAIN Append(l, e) = 1 .. Len(l) + 1
             /\ \A i \in 1 .. Len(l) : Append(l, e)[i] = l[i]
             /\ Append(l, e)[Len(l) + 1] = e
  <2>1. l \in Seq(S \cup {e}) /\ e \in S \cup {e}
    BY <1>1, SeqMonotonic
  <2>2. /\ Append(l, e) \in Seq(S \cup {e}) /\ Len(Append(l, e)) = Len(l) + 1
        /\ \A i \in 1 .. Len(l) : Append(l, e)[i] = l[i]
        /\ Append(l, e)[Len(l) + 1] = e
    BY <2>1, AppendProperties
  <2>3. DOMAIN Append(l, e) = 1 .. Len(Append(l, e))
    BY <2>2, LenProperties
  <2> QED BY <2>2, <2>3
<1>4. ASSUME NEW n \in 0 .. Len(l)
      PROVE  /\ DOMAIN SubSeq(l, 1, n) = 1 .. n
             /\ \A i \in 1 .. n : SubSeq(l, 1, n)[i] = l[i]
  <2>1. \A i \in 1 .. n : l[i] \in S
    BY <1>2
  <2>2. n \in Int /\ 1 \in Int
    BY <1>2
  <2>3. /\ SubSeq(l, 1, n) \in Seq(S)
        /\ Len(SubSeq(l, 1, n)) = IF 1 <= n THEN n - 1 + 1 ELSE 0
        /\ \A i \in 1 .. n - 1 + 1 : SubSeq(l, 1, n)[i] = l[1 + i - 1]
    BY <2>1, <2>2, SubSeqProperties
  <2>4. DOMAIN SubSeq(l, 1, n) = 1 .. Len(SubSeq(l, 1, n))
    BY <2>3, LenProperties
  <2>5. Len(SubSeq(l, 1, n)) = n /\ n - 1 + 1 = n
    BY <1>2, <2>3
  <2>6. \A i \in 1 .. n : 1 + i - 1 = i
    BY <2>2
  <2> QED BY <2>3, <2>4, <2>5, <2>6
<1> QED BY <1>2, <1>3, <1>4, Sequences

LEMMA LogsGrow ==
    ASSUME NEW l, WellFormed(l), NEW e, IsRow(Append(l, e), e, Len(l) + 1)
    PROVE  WellFormed(Append(l, e))
<1> DEFINE k == Append(l, e)
<1>1. /\ IsSequence(k) /\ Len(l) \in Nat /\ DOMAIN l = 1 .. Len(l)
      /\ DOMAIN k = 1 .. Len(l) + 1 /\ k[Len(l) + 1] = e
      /\ \A i \in 1 .. Len(l) : k[i] = l[i]
  BY Rows DEF WellFormed
<1>2. IsRow(k, e, Len(l) + 1)
  OBVIOUS
<1> HIDE DEF k
<1>3. ASSUME NEW i \in 1 .. Len(l) PROVE IsRow(k, k[i], i)
  <2>1. IsRow(l, l[i], i) /\ k[i] = l[i] /\ 1 .. i \subseteq 1 .. Len(l)
    BY <1>1 DEF WellFormed
  <2>2. \A j \in 1 .. i : k[j] = l[j]
    BY <1>1, <2>1
  <2> QED BY <2>1, <2>2 DEF IsRow, Opened, Begun
<1>4. \A i \in DOMAIN k : i \in 1 .. Len(l) \/ i = Len(l) + 1
  BY <1>1
<1>5. WellFormed(k)
  BY <1>1, <1>2, <1>3, <1>4 DEF WellFormed
<1> QED BY <1>5 DEF k

LEMMA LogsAreCut ==
    ASSUME NEW l, WellFormed(l), NEW n \in 0 .. Len(l)
    PROVE  WellFormed(SubSeq(l, 1, n))
<1> DEFINE k == SubSeq(l, 1, n)
<1>1. /\ IsSequence(k) /\ Len(l) \in Nat /\ DOMAIN l = 1 .. Len(l)
      /\ DOMAIN k = 1 .. n
      /\ \A i \in 1 .. n : k[i] = l[i]
  BY Rows DEF WellFormed
<1> HIDE DEF k
<1>2. ASSUME NEW i \in 1 .. n PROVE IsRow(k, k[i], i)
  <2>1. IsRow(l, l[i], i) /\ k[i] = l[i] /\ 1 .. i \subseteq 1 .. n
    BY <1>1 DEF WellFormed
  <2>2. \A j \in 1 .. i : k[j] = l[j]
    BY <1>1, <2>1
  <2> QED BY <2>1, <2>2 DEF IsRow, Opened, Begun
<1>3. WellFormed(k)
  BY <1>1, <1>2 DEF WellFormed
<1> QED BY <1>3 DEF k

LEMMA LastTurnOfLog ==
    ASSUME NEW l, WellFormed(l)
    PROVE  /\ LastTurn(l) \in 0 .. Len(l) /\ Len(l) \in Nat
           /\ \A i \in DOMAIN l : l[i].turn <= LastTurn(l)
<1> DEFINE S == {0} \cup {l[i].turn : i \in DOMAIN l}
<1>1. Len(l) \in Nat /\ DOMAIN l = 1 .. Len(l)
  BY Rows DEF WellFormed
<1>2. \A i \in DOMAIN l : l[i].turn \in 0 .. Len(l)
  BY <1>1 DEF WellFormed, IsRow
<1>3. S \in SUBSET (0 .. Len(l)) /\ S # {} /\ \A i \in DOMAIN l : l[i].turn \in S
  BY <1>1, <1>2
<1> HIDE DEF S
<1>4. Max(S) \in 0 .. Len(l) /\ \A x \in S : x <= Max(S)
  BY <1>1, <1>3, MaxOfNaturals
<1> QED BY <1>1, <1>3, <1>4 DEF LastTurn, S

\* The highest branch of a turn that is in the log is one of its branches.
LEMMA TopBranchOfLog ==
    ASSUME NEW l, WellFormed(l), NEW t
    PROVE  /\ TopBranch(l, t) \in 0 .. Len(l)
           /\ \A i \in DOMAIN l : l[i].turn = t => l[i].branch <= TopBranch(l, t)
           /\ TopBranch(l, t) # 0
                => \E i \in DOMAIN l : l[i].turn = t /\ l[i].branch = TopBranch(l, t)
<1> DEFINE S == {0} \cup {l[i].branch : i \in {j \in DOMAIN l : l[j].turn = t}}
<1>1. Len(l) \in Nat /\ DOMAIN l = 1 .. Len(l)
  BY Rows DEF WellFormed
<1>2. \A i \in DOMAIN l : l[i].branch \in 0 .. Len(l)
  BY <1>1 DEF WellFormed, IsRow
<1>3. /\ S \in SUBSET (0 .. Len(l)) /\ S # {}
      /\ \A i \in DOMAIN l : l[i].turn = t => l[i].branch \in S
      /\ \A b \in S : b # 0 => \E i \in DOMAIN l : l[i].turn = t /\ l[i].branch = b
  BY <1>1, <1>2
<1> HIDE DEF S
<1>4. Max(S) \in S /\ Max(S) \in 0 .. Len(l) /\ \A x \in S : x <= Max(S)
  BY <1>1, <1>3, MaxOfNaturals
<1> QED BY <1>3, <1>4 DEF TopBranch, S

LEMMA FirstPosition ==
    ASSUME NEW n \in Nat, NEW M \in SUBSET (1 .. n), M # {}
    PROVE  \E i \in M : \A j \in M : i <= j
<1> SUFFICES ASSUME \A i \in M : \E j \in M : j < i PROVE FALSE
  OBVIOUS
<1> DEFINE S == {k \in 0 .. n : \A i \in 1 .. k : i \notin M}
<1>1. 0 \in S
  OBVIOUS
<1>2. \A k \in 0 .. n : k < n /\ k \in S => k + 1 \in S
  <2> SUFFICES ASSUME NEW k \in 0 .. n, k < n, k \in S PROVE k + 1 \in S
    OBVIOUS
  <2>1. k + 1 \notin M
    OBVIOUS
  <2> QED BY <2>1
<1> HIDE DEF S
<1>3. \A k \in 0 .. n : k \in S
  BY <1>1, <1>2, CountingUp
<1>4. n \in S
  BY <1>3
<1> QED BY <1>4 DEF S

LEMMA NothingAgreesWithNothing == \A path : Agrees(path, <<>>)
BY DEF Agrees

\* The first turn of a log has a branch that is chosen for it.
LEMMA FirstTurnIsChosen ==
    ASSUME NEW l, WellFormed(l), NEW i \in DOMAIN l, l[i].turn # 0
    PROVE  \E j \in DOMAIN l : /\ l[j].turn = 1 /\ l[j].branch = Choice(l, 1, <<>>, {})
                               /\ l[j].branch # 0
<1> DEFINE M == {j \in DOMAIN l : l[j].turn = 1}
           O == {j \in DOMAIN l : l[j].turn = 1 /\ Opens(l, j) /\ Agrees(l[j].path, <<>>)}
           C == {l[j].branch : j \in O}
           S == {0} \cup C
<1>1. /\ Len(l) \in Nat /\ DOMAIN l = 1 .. Len(l)
      /\ \A j \in DOMAIN l : l[j].branch \in 0 .. Len(l)
  BY Rows DEF WellFormed, IsRow
<1>2. M \in SUBSET (1 .. Len(l)) /\ M # {}
  BY <1>1 DEF WellFormed, IsRow, Begun
<1>3. PICK j \in M : \A k \in M : j <= k
  <2> HIDE DEF M
  <2> QED BY <1>1, <1>2, FirstPosition
<1>4. Opens(l, j)
  <2> SUFFICES ASSUME NEW k \in 1 .. j - 1 PROVE l[k].turn # 1
    BY <1>3 DEF Opens
  <2>1. k \in DOMAIN l /\ ~ (j <= k)
    BY <1>1, <1>3
  <2> QED BY <1>3, <2>1
<1>5. j \in O /\ l[j].branch # 0
  BY <1>3, <1>4, NothingAgreesWithNothing DEF WellFormed, IsRow, Opened
<1>6. /\ S \in SUBSET (0 .. Len(l)) /\ S # {} /\ l[j].branch \in S /\ l[j].branch \in Nat
      /\ \A b \in S : b # 0 => \E k \in DOMAIN l : l[k].turn = 1 /\ l[k].branch = b
  BY <1>1, <1>5
<1>7. Choice(l, 1, <<>>, {}) = Max(S)
  <2>1. C = Candidates(l, 1, <<>>)
    BY Zenon DEF Candidates, Opens
  <2> HIDE DEF C
  <2>2. {b \in C : <<1, b>> \in {}} = {}
    OBVIOUS
  <2> QED BY <2>1, <2>2, Zenon DEF Choice
<1> HIDE DEF S
<1>8. Max(S) \in S /\ Max(S) \in Nat /\ l[j].branch <= Max(S)
  BY <1>1, <1>6, MaxOfNaturals
<1>9. Max(S) # 0
  BY <1>5, <1>6, <1>8
<1> QED BY <1>6, <1>7, <1>8, <1>9

\* A log that speaks of a message has one on its live branch: the branch chosen
\* for the first turn begins with what the user said.
LEMMA SomethingIsLive ==
    ASSUME NEW l, WellFormed(l), NEW i \in DOMAIN l, l[i].msg # 0
    PROVE  \E j \in Live(l, {}) : l[j].msg # 0
<1>1. CASE l[i].turn = 0
  <2>1. i \in Live(l, {})
    BY <1>1 DEF Live
  <2> QED BY <2>1
<1>2. CASE l[i].turn # 0
  <2>1. PICK k \in DOMAIN l : /\ l[k].turn = 1 /\ l[k].branch = Choice(l, 1, <<>>, {})
                              /\ l[k].branch # 0
    BY <1>2, FirstTurnIsChosen
  <2>2. PICK j \in 1 .. k : l[j].turn = 1 /\ l[j].branch = l[k].branch /\ l[j].role = "user"
    BY <2>1 DEF WellFormed, IsRow, Opened
  <2>3. DOMAIN l = 1 .. Len(l) /\ Len(l) \in Nat
    BY Rows DEF WellFormed
  <2>4. j \in DOMAIN l /\ l[j].msg # 0
    BY <2>2, <2>3 DEF WellFormed, IsRow
  <2>5. LastTurn(l) \in Nat /\ LastTurn(l) # 0
    BY <2>1, <2>3, LastTurnOfLog
  <2>6. IsSequence(Chosen(l, {})) /\ Chosen(l, {})[1] = Choice(l, 1, <<>>, {})
    BY <2>5, FirstChoice
  <2>7. SubSeq(Chosen(l, {}), 1, 1 - 1) = <<>>
    <3>1. 1 \in Int /\ 1 - 1 \in Int /\ 1 - 1 < 1
      OBVIOUS
    <3> QED BY <3>1, SubSeqEmpty
  <2>8. j \in Live(l, {})
    BY <2>1, <2>2, <2>4, <2>6, <2>7, NothingAgreesWithNothing, Zenon DEF Live
  <2> QED BY <2>4, <2>8
<1> QED BY <1>1, <1>2

-----------------------------------------------------------------------------
(* What a resume knows.                                                    *)

\* A replay knows the messages of the live events and nothing else.
LEMMA ReplayKnowsTheLive ==
    ASSUME NEW l, IsSequence(l), NEW view
    PROVE  /\ Known(Replayed(l, view)) = OnRecord(l, Live(l, view))
           /\ Replayed(l, view) = <<>> => OnRecord(l, Live(l, view)) = {}
<1> DEFINE M == {i \in Live(l, view) : l[i].msg # 0}
           entry(k) == [role |-> l[Nth(M, k)].role, of |-> {l[Nth(M, k)].msg}]
           n == Cardinality(M)
<1>1. Len(l) \in Nat /\ M \in SUBSET (1 .. Len(l))
  BY Rows DEF Live
<1>2. OnRecord(l, Live(l, view)) = {l[i].msg : i \in M}
  BY DEF OnRecord
<1>3. Replayed(l, view) = [k \in 1 .. n |-> entry(k)]
  BY DEF Replayed
<1> HIDE DEF M
<1>4. /\ n \in Nat
      /\ \A k \in 1 .. n : Nth(M, k) \in M
      /\ \A i \in M : \E k \in 1 .. n : Nth(M, k) = i
  BY <1>1, Ranking
<1> HIDE DEF n
<1>5. /\ DOMAIN Replayed(l, view) = 1 .. n
      /\ \A k \in 1 .. n : Replayed(l, view)[k].of = {l[Nth(M, k)].msg}
  BY <1>3
<1>6. Known(Replayed(l, view)) = {l[i].msg : i \in M}
  <2>1. ASSUME NEW m \in Known(Replayed(l, view)) PROVE m \in {l[i].msg : i \in M}
    BY <1>4, <1>5, <2>1 DEF Known
  <2>2. ASSUME NEW i \in M PROVE l[i].msg \in Known(Replayed(l, view))
    BY <1>4, <1>5, <2>2 DEF Known
  <2> QED BY <2>1, <2>2
<1>7. Known(<<>>) = {}
  BY DEF Known
<1> QED BY <1>2, <1>6, <1>7

-----------------------------------------------------------------------------
(* The log and the place in it.                                            *)

\* A turn and branch that the log has, or no turn.
IsPlace(l, p) ==
    /\ p.turn \in 0 .. Len(l) /\ p.branch \in 0 .. Len(l)
    /\ p.turn # 0 => Opened(l, p.turn, p.branch, Len(l)) /\ Begun(l, Len(l))

Place == [turn : Nat, branch : Nat, path : SUBSET (Nat \X Nat)]

Numbered ==
    /\ IsSequence(said)
    /\ flight \in 0 .. Len(said)
    /\ \A i \in DOMAIN log : log[i].msg \in 0 .. Len(said)

Recorded ==
    /\ Shapes
    /\ WellFormed(log)
    /\ at \in Place
    /\ IsPlace(log, at)
    /\ Numbered

LEMMA RecordedInit == Init => Recorded
<1> SUFFICES ASSUME Init PROVE Recorded
  OBVIOUS
<1>1. DOMAIN <<>> = {} /\ IsSequence(<<>>) /\ Len(<<>>) = 0
  BY EmptySequence
<1> QED BY <1>1, ShapesInit
     DEF Init, Recorded, WellFormed, Place, IsPlace, Fresh, Numbered

\* A row may be of a branch the log has, or open one.
LEMMA RowsOfPlaces ==
    ASSUME NEW l, WellFormed(l), NEW e,
           e.turn \in 0 .. Len(l) + 1, e.branch \in 0 .. Len(l) + 1,
           e.role = "user" => e.msg # 0,
           e.turn # 0 => /\ e.branch # 0
                         /\ e.role = "user" \/ Opened(l, e.turn, e.branch, Len(l))
                         /\ e.turn = 1 \/ Begun(l, Len(l))
    PROVE  WellFormed(Append(l, e)) /\ IsPlace(Append(l, e), e)
<1> DEFINE k == Append(l, e)
           n == Len(l) + 1
<1>1. /\ Len(l) \in Nat /\ k[n] = e /\ Len(k) = n
      /\ \A i \in 1 .. Len(l) : k[i] = l[i]
  BY Rows, Sequences DEF WellFormed
<1>2. /\ n \in 1 .. n /\ 1 .. Len(l) \subseteq 1 .. n
      /\ e.turn \in 0 .. n /\ e.branch \in 0 .. n
  BY <1>1
<1> HIDE DEF k, n
<1>3. ASSUME e.turn # 0 PROVE Opened(k, e.turn, e.branch, n)
  <2>1. CASE e.role = "user"
    BY <1>1, <1>2, <1>3, <2>1 DEF Opened
  <2>2. CASE Opened(l, e.turn, e.branch, Len(l))
    BY <1>1, <1>2, <2>2 DEF Opened
  <2> QED BY <1>3, <2>1, <2>2
<1>4. ASSUME e.turn # 0 PROVE Begun(k, n)
  BY <1>1, <1>2, <1>4 DEF Begun
<1>5. IsRow(k, e, n)
  BY <1>2, <1>3, <1>4 DEF IsRow
<1>6. WellFormed(k)
  BY <1>5, LogsGrow DEF k, n
<1>7. IsPlace(k, e)
  BY <1>1, <1>2, <1>3, <1>4 DEF IsPlace
<1> QED BY <1>6, <1>7 DEF k

\* What a row leaves of the invariant, for the place it is recorded at.
LEMMA RowKeepsLog ==
    ASSUME Recorded, NEW e, log' = Append(log, e), at' \in Place,
           e.turn = at'.turn, e.branch = at'.branch,
           at'.turn \in 0 .. Len(log) + 1, at'.branch \in 0 .. Len(log) + 1,
           e.role = "user" => e.msg # 0,
           at'.turn # 0 => /\ at'.branch # 0
                           /\ e.role = "user" \/ Opened(log, at'.turn, at'.branch, Len(log))
                           /\ at'.turn = 1 \/ Begun(log, Len(log))
    PROVE  WellFormed(log)' /\ (at \in Place)' /\ IsPlace(log, at)'
<1>1. WellFormed(Append(log, e)) /\ IsPlace(Append(log, e), e)
  BY RowsOfPlaces DEF Recorded
<1> QED BY <1>1 DEF IsPlace

LEMMA NoteKeepsLog ==
    ASSUME Recorded, at' = at, NEW e, log' = Append(log, e), e.turn = at.turn, e.branch = at.branch,
           e.role # "user"
    PROVE  WellFormed(log)' /\ (at \in Place)' /\ IsPlace(log, at)'
<1>1. Len(log) \in Nat
  BY Rows DEF Recorded, WellFormed
<1>2. /\ at.turn \in 0 .. Len(log) + 1 /\ at.branch \in 0 .. Len(log) + 1
      /\ at.turn # 0 => at.branch # 0 /\ Opened(log, at.turn, at.branch, Len(log))
                        /\ Begun(log, Len(log))
  BY <1>1 DEF Recorded, IsPlace, Opened
<1> QED BY <1>2, RowKeepsLog DEF Recorded

\* Numbers of messages, when a row is added.
LEMMA RowKeepsNumbers ==
    ASSUME Recorded, NEW e, log' = Append(log, e), e.msg \in 0 .. Len(said'),
           IsSequence(said'), Len(said') >= Len(said), flight' \in 0 .. Len(said')
    PROVE  Numbered'
<1>1. /\ Len(log) \in Nat /\ DOMAIN log' = 1 .. Len(log) + 1 /\ log'[Len(log) + 1] = e
      /\ \A i \in 1 .. Len(log) : log'[i] = log[i]
      /\ DOMAIN log = 1 .. Len(log)
  BY Rows DEF Recorded, WellFormed
<1>2. Len(said) \in Nat /\ Len(said') \in Nat
  BY Sequences DEF Recorded, Numbered
<1>3. ASSUME NEW i \in DOMAIN log' PROVE log'[i].msg \in 0 .. Len(said')
  <2>1. CASE i \in 1 .. Len(log)
    BY <1>1, <1>2, <2>1 DEF Recorded, Numbered
  <2>2. CASE i = Len(log) + 1
    BY <1>1, <2>2
  <2> QED BY <1>1, <2>1, <2>2
<1> QED BY <1>3 DEF Numbered

LEMMA RestoredIsAPlace ==
    ASSUME NEW l, WellFormed(l)
    PROVE  Restored(l) \in Place /\ IsPlace(l, Restored(l))
<1> DEFINE turns == {l[i].turn : i \in DOMAIN l} \ {0}
           last == Max(turns)
           top == TopBranch(l, last)
           path == {<<t, TopBranch(l, t)>> : t \in turns \ {last}}
<1>1. Len(l) \in Nat /\ DOMAIN l = 1 .. Len(l)
  BY Rows DEF WellFormed
<1>2. \A i \in DOMAIN l : IsRow(l, l[i], i)
  BY DEF WellFormed
<1>3. Restored(l) = IF turns = {} THEN Fresh
                    ELSE [turn |-> last, branch |-> top, path |-> path]
  BY DEF Restored
<1>4. /\ turns \in SUBSET (0 .. Len(l)) /\ turns \subseteq Nat
      /\ \A t \in turns : t # 0 /\ \E i \in DOMAIN l : l[i].turn = t
  BY <1>1, <1>2 DEF IsRow
<1> HIDE DEF turns
<1>5. CASE turns = {}
  BY <1>1, <1>3, <1>5 DEF Fresh, Place, IsPlace
<1>6. CASE turns # {}
  <2>1. last \in turns /\ last \in 0 .. Len(l)
    BY <1>1, <1>4, <1>6, MaxOfNaturals
  <2> HIDE DEF last
  <2>2. PICK i \in DOMAIN l : l[i].turn = last
    BY <1>4, <2>1
  <2>3. l[i].branch # 0 /\ l[i].branch \in Nat
    BY <1>1, <1>2, <1>4, <2>1, <2>2 DEF IsRow, Opened
  <2>4. top \in 0 .. Len(l) /\ l[i].branch <= top
    BY <2>2, TopBranchOfLog
  <2>5. top # 0
    BY <1>1, <2>3, <2>4
  <2>6. PICK j \in DOMAIN l : l[j].turn = last /\ l[j].branch = top
    BY <2>5, TopBranchOfLog
  <2>7. Opened(l, last, top, j) /\ Begun(l, j)
    BY <1>2, <1>4, <2>1, <2>6 DEF IsRow
  <2>8. 1 .. j \subseteq 1 .. Len(l)
    BY <1>1, <2>6
  <2>9. Opened(l, last, top, Len(l)) /\ Begun(l, Len(l))
    BY <2>7, <2>8 DEF Opened, Begun
  <2>10. \A t \in turns : TopBranch(l, t) \in Nat
    <3> SUFFICES ASSUME NEW t \in turns PROVE TopBranch(l, t) \in Nat
      OBVIOUS
    <3>1. TopBranch(l, t) \in 0 .. Len(l)
      BY TopBranchOfLog
    <3> QED BY <1>1, <3>1
  <2>11. path \in SUBSET (Nat \X Nat)
    BY <1>4, <2>10
  <2> HIDE DEF top, path
  <2>12. Restored(l) = [turn |-> last, branch |-> top, path |-> path]
    BY <1>3, <1>6
  <2> QED BY <1>1, <2>1, <2>4, <2>9, <2>11, <2>12 DEF Place, IsPlace
<1> QED BY <1>5, <1>6

\* A branch of turn t that the log has, or none.
IsBranch(l, t, b) ==
    /\ b \in 0 .. Len(l)
    /\ b # 0 => \E i \in DOMAIN l : l[i].turn = t /\ l[i].branch = b

LEMMA ChoiceIsABranch ==
    ASSUME NEW l, WellFormed(l), NEW t, NEW before, NEW view
    PROVE  IsBranch(l, t, Choice(l, t, before, view))
<1> DEFINE C == Candidates(l, t, before)
           asked == {b \in C : <<t, b>> \in view}
           S == {0} \cup IF asked # {} THEN asked ELSE C
<1>1. Len(l) \in Nat /\ DOMAIN l = 1 .. Len(l)
  BY Rows DEF WellFormed
<1>2. \A i \in DOMAIN l : l[i].branch \in 0 .. Len(l)
  BY <1>1 DEF WellFormed, IsRow
<1>3. /\ C \in SUBSET (0 .. Len(l))
      /\ \A b \in C : \E i \in DOMAIN l : l[i].turn = t /\ l[i].branch = b
  BY <1>1, <1>2 DEF Candidates
<1>7. 0 \in 0 .. Len(l)
  BY <1>1
<1>4. Choice(l, t, before, view) = Max(S)
  BY DEF Choice
<1> HIDE DEF C
<1>5. S \in SUBSET (0 .. Len(l)) /\ S # {} /\ \A b \in S : b = 0 \/ b \in C
  BY <1>3, <1>7
<1> HIDE DEF S
<1>6. Max(S) \in S /\ Max(S) \in 0 .. Len(l)
  BY <1>1, <1>5, MaxOfNaturals
<1> QED BY <1>3, <1>4, <1>5, <1>6 DEF IsBranch

\* What is chosen for a turn is a branch of it, or none.
LEMMA ChosenAreBranches ==
    ASSUME NEW l, WellFormed(l), NEW view
    PROVE  /\ IsSequence(Chosen(l, view)) /\ Len(Chosen(l, view)) = LastTurn(l)
           /\ \A t \in 1 .. LastTurn(l) : IsBranch(l, t, Chosen(l, view)[t])
<1> DEFINE n == LastTurn(l)
<1>1. n \in Nat
  BY LastTurnOfLog
<1>2. PICK f : IsChoice(l, view, n, f) /\ Chosen(l, view) = f[n]
  BY <1>1, ChosenIsAChoice
<1> DEFINE good(s, t) == IsSequence(s) /\ Len(s) = t /\ \A u \in 1 .. t : IsBranch(l, u, s[u])
           S == {t \in 0 .. n : good(f[t], t)}
<1>3. \A t \in 0 .. n : f[t] = IF t = 0 THEN <<>>
                               ELSE Append(f[t - 1], Choice(l, t, f[t - 1], view))
  BY <1>2 DEF IsChoice
<1> HIDE DEF n
<1>4. 0 \in S
  <2>1. 0 \in 0 .. n /\ f[0] = <<>>
    BY <1>1, <1>3
  <2>2. good(<<>>, 0)
    BY EmptySequence
  <2> QED BY <2>1, <2>2
<1>5. \A t \in 0 .. n : t < n /\ t \in S => t + 1 \in S
  <2> SUFFICES ASSUME NEW t \in 0 .. n, t < n, t \in S PROVE t + 1 \in S
    OBVIOUS
  <2> DEFINE c == Choice(l, t + 1, f[t], view)
  <2>1. t + 1 \in 0 .. n /\ t + 1 # 0 /\ (t + 1) - 1 = t /\ t \in Nat
    BY <1>1
  <2>2. f[t + 1] = Append(f[t], c)
    BY <1>3, <2>1
  <2>3. IsBranch(l, t + 1, c)
    BY ChoiceIsABranch
  <2> HIDE DEF c
  <2>4. IsSequence(f[t]) /\ Len(f[t]) = t /\ \A u \in 1 .. t : IsBranch(l, u, f[t][u])
    OBVIOUS
  <2>5. /\ IsSequence(f[t + 1]) /\ Len(f[t + 1]) = t + 1
        /\ \A u \in 1 .. t : f[t + 1][u] = f[t][u]
        /\ f[t + 1][t + 1] = c
    BY <2>2, <2>4, Rows, Sequences
  <2>6. \A u \in 1 .. t + 1 : IsBranch(l, u, f[t + 1][u])
    <3> SUFFICES ASSUME NEW u \in 1 .. t + 1 PROVE IsBranch(l, u, f[t + 1][u])
      OBVIOUS
    <3>1. CASE u \in 1 .. t
      BY <2>4, <2>5, <3>1
    <3>2. CASE u = t + 1
      BY <2>3, <2>5, <3>2
    <3> QED BY <2>1, <3>1, <3>2
  <2> QED BY <2>1, <2>5, <2>6
<1> HIDE DEF S
<1>6. \A t \in 0 .. n : t \in S
  BY <1>1, <1>4, <1>5, CountingUp
<1>7. good(f[n], n)
  BY <1>1, <1>6 DEF S
<1> QED BY <1>2, <1>7 DEF n

\* A branch that the log has is open in it.
LEMMA BranchesArePlaces ==
    ASSUME NEW l, WellFormed(l), NEW t, NEW b, IsBranch(l, t, b), t # 0, b # 0
    PROVE  Opened(l, t, b, Len(l)) /\ Begun(l, Len(l))
<1>1. Len(l) \in Nat /\ DOMAIN l = 1 .. Len(l)
  BY Rows DEF WellFormed
<1>2. PICK i \in DOMAIN l : l[i].turn = t /\ l[i].branch = b
  BY DEF IsBranch
<1>3. Opened(l, t, b, i) /\ Begun(l, i)
  BY <1>2 DEF WellFormed, IsRow
<1>4. 1 .. i \subseteq 1 .. Len(l)
  BY <1>1, <1>2
<1> QED BY <1>3, <1>4 DEF Opened, Begun

\* The last turn a view shows.
LEMMA LeafIsAPlace ==
    ASSUME NEW l, WellFormed(l), NEW view
    PROVE  Leaf(l, view) \in Place /\ IsPlace(l, Leaf(l, view))
<1> DEFINE chosen == Chosen(l, view)
           turns == {t \in DOMAIN chosen : chosen[t] # 0}
           last == Max(turns)
           path == {<<t, chosen[t]>> : t \in turns \ {last}}
<1>1. Len(l) \in Nat /\ LastTurn(l) \in 0 .. Len(l)
  BY LastTurnOfLog
<1>2. DOMAIN chosen = 1 .. LastTurn(l) /\ \A t \in 1 .. LastTurn(l) : IsBranch(l, t, chosen[t])
  BY ChosenAreBranches, Sequences
<1>3. Leaf(l, view) = IF turns = {} THEN Fresh
                      ELSE [turn |-> last, branch |-> chosen[last], path |-> path]
  BY DEF Leaf
<1> HIDE DEF chosen
<1>4. /\ turns \in SUBSET (1 .. Len(l)) /\ turns \subseteq Nat
      /\ \A t \in turns : /\ t # 0 /\ IsBranch(l, t, chosen[t]) /\ chosen[t] # 0
                           /\ chosen[t] \in Nat
  BY <1>1, <1>2 DEF IsBranch
<1> HIDE DEF turns
<1>5. CASE turns = {}
  BY <1>1, <1>3, <1>5 DEF Fresh, Place, IsPlace
<1>6. CASE turns # {}
  <2>1. last \in turns
    BY <1>1, <1>4, <1>6, MaxOfBounded
  <2> HIDE DEF last
  <2>6. last \in 0 .. Len(l)
    BY <1>1, <1>4, <2>1
  <2>2. Opened(l, last, chosen[last], Len(l)) /\ Begun(l, Len(l))
    BY <1>4, <2>1, BranchesArePlaces
  <2>3. chosen[last] \in 0 .. Len(l) /\ chosen[last] \in Nat /\ last \in Nat
    BY <1>1, <1>4, <2>1 DEF IsBranch
  <2>4. path \in SUBSET (Nat \X Nat)
    BY <1>4
  <2> HIDE DEF path
  <2>5. Leaf(l, view) = [turn |-> last, branch |-> chosen[last], path |-> path]
    BY <1>3, <1>6
  <2> QED BY <1>1, <2>2, <2>3, <2>4, <2>5, <2>6 DEF Place, IsPlace
<1> QED BY <1>5, <1>6

\* What an edit starts from is a place of the log.
LEMMA SeatedIsAPlace ==
    ASSUME Recorded, NEW view
    PROVE  Seated(view) \in Place /\ IsPlace(log, Seated(view))
BY LeafIsAPlace DEF Seated, Recorded

\* A turn or branch begins with a row of role "user".
LEMMA BeginningKeepsLog ==
    ASSUME Recorded, NEW e, log' = Append(log, e), at' \in Place,
           e.turn = at'.turn, e.branch = at'.branch, e.role = "user", e.msg # 0,
           at'.turn \in 1 .. Len(log) + 1,
           at'.branch = TopBranch(log, at'.turn) + 1,
           at'.turn = 1 \/ Begun(log, Len(log))
    PROVE  WellFormed(log)' /\ (at \in Place)' /\ IsPlace(log, at)'
<1>1. Len(log) \in Nat /\ TopBranch(log, at'.turn) \in 0 .. Len(log)
  BY Rows, TopBranchOfLog DEF Recorded, WellFormed
<1>2. at'.branch \in 0 .. Len(log) + 1 /\ at'.branch # 0 /\ at'.turn \in 0 .. Len(log) + 1
  BY <1>1
<1> QED BY <1>2, RowKeepsLog

LEMMA BeginUserKeepsLog ==
    ASSUME Recorded, BeginUser
    PROVE  WellFormed(log)' /\ (at \in Place)' /\ IsPlace(log, at)' /\ Numbered'
<1> DEFINE e == Event(at', flight', "user")
<1>1. /\ Len(log) \in Nat /\ Len(said) \in Nat /\ at.turn \in 0 .. Len(log)
      /\ at.turn # 0 => Begun(log, Len(log))
  BY Sequences DEF Recorded, WellFormed, Numbered, IsPlace
<1>2. TopBranch(log, at.turn + 1) \in 0 .. Len(log)
  BY TopBranchOfLog DEF Recorded
<1>3. /\ at' = NextTurn /\ log' = Append(log, e) /\ flight' = Len(said) + 1
      /\ IsSequence(said') /\ Len(said') = Len(said) + 1
  BY Sequences DEF BeginUser, Say, Recorded, Numbered
<1>4. NextTurn \in Place
  BY <1>1, <1>2 DEF NextTurn, Place, Recorded
<1>5. at'.turn = at.turn + 1 /\ at'.branch = TopBranch(log, at'.turn) + 1
  BY <1>3 DEF NextTurn
<1>6. /\ e.turn = at'.turn /\ e.branch = at'.branch /\ e.role = "user" /\ e.msg = flight'
  BY DEF Event
<1> HIDE DEF e
<1>7. at'.turn \in 1 .. Len(log) + 1 /\ (at'.turn = 1 \/ Begun(log, Len(log)))
  BY <1>1, <1>5
<1>8. e.msg # 0 /\ e.msg \in 0 .. Len(said') /\ flight' \in 0 .. Len(said') /\ Len(said') >= Len(said)
  BY <1>1, <1>3, <1>6
<1>9. Numbered'
  BY <1>3, <1>8, RowKeepsNumbers
<1> QED BY <1>3, <1>4, <1>5, <1>6, <1>7, <1>8, <1>9, BeginningKeepsLog

LEMMA EditKeepsLog ==
    ASSUME Recorded, NEW t \in 1 .. MaxMessages, NEW view, Edit(t, view)
    PROVE  WellFormed(log)' /\ (at \in Place)' /\ IsPlace(log, at)' /\ Numbered'
<1> DEFINE e == Event(at', flight', "user")
<1>1. Len(log) \in Nat /\ Len(said) \in Nat /\ DOMAIN log = 1 .. Len(log)
  BY Sequences DEF Recorded, WellFormed, Numbered
<1>2. TopBranch(log, t) \in 0 .. Len(log)
  BY TopBranchOfLog DEF Recorded
<1>3. PICK i \in DOMAIN log : log[i].turn = t
  BY DEF Edit, LiveTurns, Live
<1>4. t \in 1 .. Len(log) + 1 /\ Begun(log, Len(log))
  <2>1. IsRow(log, log[i], i) /\ t # 0
    BY <1>3 DEF Recorded, WellFormed
  <2>2. t \in 0 .. i /\ Begun(log, i)
    BY <1>3, <2>1 DEF IsRow
  <2>3. 1 .. i \subseteq 1 .. Len(log)
    BY <1>1, <1>3
  <2> QED BY <1>1, <1>3, <2>2, <2>3 DEF Begun
<1>11. Seated(view).path \in SUBSET (Nat \X Nat)
  BY SeatedIsAPlace DEF Place
<1>5. /\ at' = [turn |-> t, branch |-> TopBranch(log, t) + 1,
                path |-> {p \in Seated(view).path : p[1] < t}]
      /\ log' = Append(log, e) /\ flight' = Len(said) + 1
      /\ IsSequence(said') /\ Len(said') = Len(said) + 1
  BY Sequences DEF Edit, Say, Recorded, Numbered
<1>6. at' \in Place
  BY <1>1, <1>2, <1>5, <1>11 DEF Place
<1>7. at'.turn = t /\ at'.branch = TopBranch(log, at'.turn) + 1
  BY <1>5
<1>8. e.turn = at'.turn /\ e.branch = at'.branch /\ e.role = "user" /\ e.msg = flight'
  BY DEF Event
<1> HIDE DEF e
<1>9. e.msg # 0 /\ e.msg \in 0 .. Len(said') /\ flight' \in 0 .. Len(said') /\ Len(said') >= Len(said)
  BY <1>1, <1>5, <1>8
<1>10. Numbered'
  BY <1>5, <1>9, RowKeepsNumbers
<1> QED BY <1>4, <1>5, <1>6, <1>7, <1>8, <1>9, <1>10, BeginningKeepsLog

LEMMA RegenerateKeepsLog ==
    ASSUME Recorded, Regenerate
    PROVE  WellFormed(log)' /\ (at \in Place)' /\ IsPlace(log, at)' /\ Numbered'
<1> DEFINE before == {i \in DOMAIN log : log[i].turn = at.turn /\ log[i].role = "user"}
           again == CHOOSE i \in before : \A j \in before : log[j].branch <= log[i].branch
           e == IF before = {} THEN Note(at') ELSE Event(at', log[again].msg, "user")
<1>1. /\ Len(log) \in Nat /\ Len(said) \in Nat /\ DOMAIN log = 1 .. Len(log)
      /\ \A i \in DOMAIN log : /\ log[i].branch \in 0 .. Len(log)
                               /\ log[i].msg \in 0 .. Len(said)
                               /\ log[i].role = "user" => log[i].msg # 0
  BY Sequences DEF Recorded, WellFormed, IsRow, Numbered
<1>2. /\ at' = [at EXCEPT !.branch = TopBranch(log, at.turn) + 1]
      /\ log' = Append(log, e) /\ UNCHANGED <<said, flight>>
  BY DEF Regenerate
<1>3. TopBranch(log, at.turn) \in 0 .. Len(log)
  BY TopBranchOfLog DEF Recorded
<1>4. at' \in Place /\ at'.turn = at.turn /\ at'.branch = TopBranch(log, at'.turn) + 1
  <2> DEFINE b == TopBranch(log, at.turn) + 1
  <2>1. b \in Nat /\ at' = [at EXCEPT !.branch = b]
    BY <1>1, <1>2, <1>3
  <2> HIDE DEF b
  <2>2. at' \in Place /\ at'.turn = at.turn /\ at'.branch = b
    BY <2>1 DEF Place, Recorded
  <2> QED BY <2>2 DEF b
<1>5. before # {} => again \in before
  <2> SUFFICES ASSUME before # {} PROVE again \in before
    OBVIOUS
  <2> DEFINE S == {log[i].branch : i \in before}
  <2>1. S \in SUBSET (0 .. Len(log)) /\ S # {}
    BY <1>1
  <2>2. \A i \in before : log[i].branch \in S
    OBVIOUS
  <2>3. \A b \in S : \E i \in before : log[i].branch = b
    OBVIOUS
  <2> HIDE DEF S, before
  <2>4. Max(S) \in S /\ \A b \in S : b <= Max(S)
    BY <1>1, <2>1, MaxOfNaturals
  <2>5. \E i \in before : \A j \in before : log[j].branch <= log[i].branch
    BY <2>2, <2>3, <2>4
  <2> QED BY <2>5
<1>6. /\ e.turn = at'.turn /\ e.branch = at'.branch
      /\ before # {} => e.role = "user" /\ e.msg = log[again].msg
      /\ before = {} => e.role # "user" /\ e.msg = 0
  <2> HIDE DEF before, again
  <2>1. CASE before = {}
    BY <2>1 DEF Event, Note
  <2>2. CASE before # {}
    BY <2>2 DEF Event
  <2> QED BY <2>1, <2>2
<1>7. e.msg \in 0 .. Len(said) /\ (before # {} => e.msg # 0)
  <2>1. before # {} => log[again].msg \in 0 .. Len(said) /\ log[again].msg # 0
    <3> HIDE DEF again
    <3> QED BY <1>1, <1>5
  <2> HIDE DEF e, before, again
  <2> QED BY <1>1, <1>6, <2>1
<1>8. at.turn # 0 => before # {} /\ Begun(log, Len(log))
  BY <1>1 DEF Recorded, IsPlace, Opened
<1> HIDE DEF e, before
<1>9. /\ at'.turn \in 0 .. Len(log) + 1 /\ at'.branch \in 0 .. Len(log) + 1 /\ at'.branch # 0
  BY <1>1, <1>3, <1>4 DEF Recorded, IsPlace
<1>10. WellFormed(log)' /\ (at \in Place)' /\ IsPlace(log, at)'
  BY <1>2, <1>4, <1>6, <1>7, <1>8, <1>9, RowKeepsLog
<1>11. IsSequence(said') /\ Len(said') = Len(said) /\ flight' \in 0 .. Len(said')
  BY <1>2 DEF Recorded, Numbered
<1>12. Numbered'
  BY <1>1, <1>2, <1>7, <1>11, RowKeepsNumbers
<1> QED BY <1>10, <1>12

LEMMA RecordedStep == Recorded /\ [Next]_vars => Recorded'
<1> SUFFICES ASSUME Recorded, [Next]_vars PROVE Recorded'
  OBVIOUS
<1>1. Shapes'
  BY ShapesStep DEF Recorded
<1>2. /\ Len(log) \in Nat /\ Len(said) \in Nat /\ DOMAIN log = 1 .. Len(log)
      /\ IsSequence(said) /\ flight \in 0 .. Len(said)
      /\ \A x : IsSequence(Append(said, x)) /\ Len(Append(said, x)) = Len(said) + 1
  BY Sequences DEF Recorded, WellFormed, Numbered
<1> DEFINE Goal == WellFormed(log)' /\ (at \in Place)' /\ IsPlace(log, at)' /\ Numbered'
<1> SUFFICES Goal
  BY <1>1 DEF Recorded
<1>3. ASSUME at' = at, log' = Append(log, Note(at)), said' = said, flight' \in {0, flight}
      PROVE  Goal
  <2>1. Note(at).turn = at.turn /\ Note(at).branch = at.branch /\ Note(at).role # "user" /\ Note(at).msg = 0
    BY DEF Note, Event
  <2>2. WellFormed(log)' /\ (at \in Place)' /\ IsPlace(log, at)'
    BY <1>3, <2>1, NoteKeepsLog
  <2>3. Numbered'
    <3>1. Note(at).msg \in 0 .. Len(said') /\ IsSequence(said') /\ Len(said') >= Len(said) /\ flight' \in 0 .. Len(said')
      BY <1>2, <1>3, <2>1
    <3> QED BY <1>3, <3>1, RowKeepsNumbers
  <2> QED BY <2>2, <2>3
<1>4. ASSUME UNCHANGED <<at, log, said>>, flight' \in {0, flight} PROVE Goal
  BY <1>2, <1>4 DEF Recorded, Numbered
<1>5. ASSUME NEW e, at' = at, log' = Append(log, e), e.turn = at.turn, e.branch = at.branch, e.role # "user",
             \E kind : said' = Append(said, kind),
             e.msg \in {0, Len(said) + 1}, flight' = Len(said) + 1
      PROVE  Goal
  <2>1. WellFormed(log)' /\ (at \in Place)' /\ IsPlace(log, at)'
    BY <1>5, NoteKeepsLog
  <2>2. IsSequence(said') /\ Len(said') = Len(said) + 1
    BY <1>2, <1>5
  <2>3. e.msg \in 0 .. Len(said') /\ Len(said') >= Len(said) /\ flight' \in 0 .. Len(said')
    BY <1>2, <1>5, <2>2
  <2>4. Numbered'
    BY <1>5, <2>2, <2>3, RowKeepsNumbers
  <2> QED BY <2>1, <2>4
<1>6. CASE BeginUser
  BY <1>6, BeginUserKeepsLog
<1>7. CASE BeginTold
  <2>1. /\ Note(at).turn = at.turn /\ Note(at).branch = at.branch
        /\ Note(at).role # "user" /\ Note(at).msg = 0
    BY DEF Note, Event
  <2>2. at' = at /\ log' = Append(log, Note(at)) /\ said' = Append(said, "told") /\ flight' = Len(said) + 1
    BY <1>7 DEF BeginTold, Say
  <2> QED BY <1>5, <2>1, <2>2
<1>8. CASE Reply \/ ToolResult
  <2>1. PICK role \in {"text", "result"} : log' = Append(log, Event(at, flight', role))
    BY <1>8 DEF Reply, ToolResult
  <2> DEFINE e == Event(at, flight', role)
  <2>2. e.turn = at.turn /\ e.branch = at.branch /\ e.role # "user" /\ e.msg = flight'
    BY DEF Event
  <2>3. /\ at' = at /\ log' = Append(log, e) /\ flight' = Len(said) + 1
        /\ \E kind : said' = Append(said, kind)
    BY <1>8, <2>1 DEF Reply, ToolResult, Say
  <2> HIDE DEF e
  <2>4. e.msg \in {0, Len(said) + 1}
    BY <2>2, <2>3
  <2> QED BY <1>5, <2>2, <2>3, <2>4
<1>9. CASE \/ Join \/ StartJob \/ Flush \/ Stamp \/ UNCHANGED vars
           \/ \E i \in 1 .. MaxMessages : Rewind(i)
  BY <1>4, <1>9 DEF Join, StartJob, Flush, Stamp, vars, Rewind, Cut
<1>10. CASE End \/ Clear \/ Trigger \/ GiveUp \/ Splice
  BY <1>3, <1>10 DEF End, Clear, Cut, Trigger, GiveUp, Splice
<1>11. ASSUME NEW t \in 1 .. MaxMessages, NEW view, Edit(t, view) PROVE Goal
  BY <1>11, EditKeepsLog
<1>14. ASSUME NEW view, EditMissing(view) PROVE Goal
  <2>1. at' = Seated(view) /\ UNCHANGED <<log, said, flight>>
    BY <1>14 DEF EditMissing
  <2>2. Seated(view) \in Place /\ IsPlace(log, Seated(view))
    BY SeatedIsAPlace
  <2> QED BY <2>1, <2>2 DEF Recorded, Numbered, IsPlace
<1>12. CASE Regenerate
  BY <1>12, RegenerateKeepsLog
<1>13. CASE Restart
  <2>1. log' = SubSeq(log, 1, kept) /\ at' = Restored(log') /\ flight' = 0 /\ said' = said
    BY <1>13 DEF Restart
  <2>2. kept \in 0 .. Len(log)
    BY DEF Recorded, Shapes
  <2>3. WellFormed(log)'
    BY <2>1, <2>2, LogsAreCut DEF Recorded
  <2>4. at' \in Place /\ IsPlace(log, at)'
    BY <2>1, <2>3, RestoredIsAPlace
  <2>5. DOMAIN log' = 1 .. kept /\ \A i \in 1 .. kept : log'[i] = log[i] /\ i \in DOMAIN log
    BY <1>2, <2>1, <2>2, Rows DEF Recorded, WellFormed
  <2>6. \A i \in DOMAIN log' : log'[i].msg \in 0 .. Len(said)
    BY <2>5 DEF Recorded, Numbered
  <2>7. Numbered'
    <3>1. flight' \in 0 .. Len(said') /\ IsSequence(said')
      BY <1>2, <2>1
    <3>2. \A i \in DOMAIN log' : log'[i].msg \in 0 .. Len(said')
      BY <2>1, <2>6
    <3> QED BY <3>1, <3>2 DEF Numbered
  <2> QED BY <2>3, <2>4, <2>7
<1> QED
  BY <1>6, <1>7, <1>8, <1>9, <1>10, <1>11, <1>12, <1>13, <1>14 DEF Next, Act, Revise

-----------------------------------------------------------------------------
(* What a conversation shows, and what is saved of it.                     *)

\* Whether a result has lost its call depends on what comes before it alone.
LEMMA OrphansOfBeginning ==
    ASSUME NEW c, NEW d, NEW n \in Nat, 1 .. n \subseteq DOMAIN c, 1 .. n \subseteq DOMAIN d,
           \A i \in 1 .. n : c[i] = d[i]
    PROVE  \A i \in 1 .. n : i \in Orphans(c) => i \in Orphans(d)
<1> SUFFICES ASSUME NEW i \in 1 .. n, i \in Orphans(c) PROVE i \in Orphans(d)
  OBVIOUS
<1>1. i \in DOMAIN d /\ d[i].role = "result"
  BY DEF Orphans
<1>2. ASSUME NEW k \in 1 .. i - 1, d[k].role = "reply"
      PROVE  \E j \in k + 1 .. i : d[j].role # "result"
  <2>1. k \in 1 .. n /\ c[k].role = "reply"
    BY <1>2
  <2>2. PICK j \in k + 1 .. i : c[j].role # "result"
    BY <2>1 DEF Orphans
  <2>3. j \in 1 .. n
    OBVIOUS
  <2> QED BY <2>2, <2>3
<1> QED BY <1>1, <1>2 DEF Orphans

LEMMA ShownOfLonger ==
    ASSUME NEW c, IsSequence(c), NEW e
    PROVE  Shown(Append(c, e)) \subseteq Shown(c) \cup e.of
<1> DEFINE d == Append(c, e)
<1>1. /\ Len(c) \in Nat /\ DOMAIN c = 1 .. Len(c) /\ DOMAIN d = 1 .. Len(c) + 1
      /\ \A i \in 1 .. Len(c) : d[i] = c[i]
      /\ d[Len(c) + 1] = e
  BY Rows
<1> HIDE DEF d
<1>2. \A i \in 1 .. Len(c) : i \in Orphans(c) => i \in Orphans(d)
  <2>1. 1 .. Len(c) \subseteq DOMAIN c /\ 1 .. Len(c) \subseteq DOMAIN d
    BY <1>1
  <2> QED BY <1>1, <2>1, OrphansOfBeginning
<1>3. ASSUME NEW i \in DOMAIN d \ Orphans(d), NEW m \in d[i].of PROVE m \in Shown(c) \cup e.of
  <2>1. CASE i \in 1 .. Len(c)
    BY <1>1, <1>2, <2>1 DEF Shown
  <2>2. CASE i = Len(c) + 1
    BY <1>1, <2>2
  <2> QED BY <1>1, <2>1, <2>2
<1>4. Shown(d) \subseteq Shown(c) \cup e.of
  BY <1>3 DEF Shown
<1> QED BY <1>4 DEF d

LEMMA ShownOfShorter ==
    ASSUME NEW c, IsSequence(c), NEW n \in 0 .. Len(c)
    PROVE  Shown(SubSeq(c, 1, n)) \subseteq Shown(c)
<1> DEFINE d == SubSeq(c, 1, n)
<1>1. /\ Len(c) \in Nat /\ DOMAIN c = 1 .. Len(c) /\ DOMAIN d = 1 .. n
      /\ \A i \in 1 .. n : d[i] = c[i]
  BY Rows
<1> HIDE DEF d
<1>2. \A i \in 1 .. n : i \in Orphans(c) => i \in Orphans(d)
  <2>1. n \in Nat /\ 1 .. n \subseteq DOMAIN c /\ 1 .. n \subseteq DOMAIN d
    BY <1>1
  <2> QED BY <1>1, <2>1, OrphansOfBeginning
<1>3. DOMAIN d \ Orphans(d) \subseteq DOMAIN c \ Orphans(c)
  BY <1>1, <1>2
<1>4. Shown(d) \subseteq Shown(c)
  BY <1>1, <1>3 DEF Shown
<1> QED BY <1>4 DEF d

LEMMA ShownIsKnown ==
    ASSUME NEW c
    PROVE  Shown(c) \subseteq Known(c)
BY DEF Shown, Known

\* What is saved of a conversation knows all that a request would show
\* (sanitize_orphan_tool_pairs).
LEMMA SanitizedShows ==
    ASSUME NEW c, IsSequence(c)
    PROVE  Shown(c) \subseteq Known(Sanitized(c))
<1> DEFINE M == DOMAIN c \ Orphans(c)
           answered(i) == i + 1 \in DOMAIN c /\ c[i + 1].role = "result"
           entry(i) == IF c[i].role = "reply" /\ ~ answered(i)
                       THEN [role |-> "text", of |-> c[i].of] ELSE c[i]
           n == Cardinality(M)
<1>1. Len(c) \in Nat /\ M \in SUBSET (1 .. Len(c))
  BY Sequences
<1>2. Sanitized(c) = [k \in 1 .. n |-> entry(Nth(M, k))]
  BY DEF Sanitized
<1>3. Shown(c) = UNION {c[i].of : i \in M}
  BY DEF Shown
<1>4. \A i : entry(i).of = c[i].of
  OBVIOUS
<1> HIDE DEF M, entry
<1>5. \A i \in M : \E k \in 1 .. n : Nth(M, k) = i
  BY <1>1, Ranking
<1> HIDE DEF n
<1>6. DOMAIN Sanitized(c) = 1 .. n /\ \A k \in 1 .. n : Sanitized(c)[k].of = c[Nth(M, k)].of
  BY <1>2, <1>4
<1>7. ASSUME NEW i \in M, NEW m \in c[i].of PROVE m \in Known(Sanitized(c))
  BY <1>5, <1>6 DEF Known
<1> QED BY <1>3, <1>7

-----------------------------------------------------------------------------
(* The watermark and the snapshot.  Until more is flushed than a watermark *)
(* covers, the snapshot speaks of every message a request would show whose *)
(* event it covers, or the message is one of missed.  What is saved and    *)
(* not yet stamped is the conversation as it is.                           *)

Covers(l, mark, m) == \E i \in 1 .. mark : l[i].msg = m

Saved ==
    /\ unstamped => snapshot = Sanitized(conv)
    /\ watermark # None =>
        /\ watermark \in 0 .. kept
        /\ watermark = kept =>
              /\ snapshot # None =>
                    \A m \in Shown(conv) :
                       m # 0 /\ Covers(log, watermark, m) => m \in Known(snapshot) \cup missed
              /\ flight # 0 /\ Covers(log, watermark, flight) => flight \in missed

KnowsInv == Recorded /\ Saved

\* What the watermark covers cannot change, as it covers no more than is flushed.
LEMMA CoveringStays ==
    ASSUME Recorded, Saved, watermark' = watermark, watermark # None,
           \/ log' = log
           \/ \E e : log' = Append(log, e)
           \/ log' = SubSeq(log, 1, kept)
    PROVE  \A m : Covers(log', watermark', m) <=> Covers(log, watermark, m)
<1>1. kept \in 0 .. Len(log) /\ Len(log) \in Nat /\ watermark \in 0 .. kept
  BY Rows DEF Recorded, Shapes, Saved
<1>2. \A i \in 1 .. kept : log'[i] = log[i]
  <2>1. CASE log' = log
    BY <2>1
  <2>2. CASE \E e : log' = Append(log, e)
    BY <1>1, <2>2, Rows DEF Recorded, Shapes
  <2>3. CASE log' = SubSeq(log, 1, kept)
    BY <1>1, <2>3, Rows DEF Recorded, Shapes
  <2> QED BY <2>1, <2>2, <2>3
<1>3. \A i \in 1 .. watermark : log'[i] = log[i]
  BY <1>1, <1>2
<1> QED BY <1>3 DEF Covers

\* A step that neither saves nor stamps.
LEMMA UnsavedKeepsSaved ==
    ASSUME Recorded, Saved, UNCHANGED <<watermark, snapshot>>, missed \subseteq missed',
           log' = log \/ \E e : log' = Append(log, e),
           kept' \in {kept, Len(log)},
           Shown(conv') \subseteq Shown(conv) \cup ({flight} \ {0}) \cup missed',
           flight' \in {0, flight, Len(said) + 1},
           unstamped' => unstamped /\ conv' = conv
    PROVE  Saved'
<1>1. unstamped' => snapshot' = Sanitized(conv)'
  BY DEF Saved
<1> SUFFICES ASSUME watermark # None
             PROVE  /\ watermark \in 0 .. kept'
                    /\ watermark = kept' =>
                         /\ snapshot # None =>
                              \A m \in Shown(conv') : m # 0 /\ Covers(log', watermark', m)
                                  => m \in Known(snapshot) \cup missed'
                         /\ flight' # 0 /\ Covers(log', watermark', flight') => flight' \in missed'
  BY <1>1 DEF Saved
<1>2. kept \in 0 .. Len(log) /\ Len(log) \in Nat /\ watermark \in 0 .. kept
  BY Rows DEF Recorded, Shapes, Saved
<1>3. watermark \in 0 .. kept' /\ (watermark = kept' => watermark = kept)
  BY <1>2
<1>4. \A m : Covers(log', watermark', m) <=> Covers(log, watermark, m)
  BY CoveringStays
<1>5. ~ Covers(log, watermark, Len(said) + 1)
  <2>1. Len(said) \in Nat /\ \A i \in 1 .. watermark : i \in DOMAIN log
    BY <1>2, Sequences DEF Recorded, Shapes, Numbered
  <2>2. \A i \in 1 .. watermark : log[i].msg \in 0 .. Len(said)
    BY <2>1 DEF Recorded, Numbered
  <2> QED BY <2>1, <2>2 DEF Covers
<1>6. ASSUME watermark = kept', snapshot # None, NEW m \in Shown(conv'), m # 0, Covers(log, watermark, m)
      PROVE  m \in Known(snapshot) \cup missed'
  BY <1>3, <1>6 DEF Saved
<1>7. ASSUME watermark = kept', flight' # 0, Covers(log, watermark, flight')
      PROVE  flight' \in missed'
  BY <1>3, <1>5, <1>7 DEF Saved
<1> QED BY <1>3, <1>4, <1>6, <1>7

\* A step that saves the conversation and leaves the watermark.
LEMMA SnapshotKeepsSaved ==
    ASSUME Recorded, Saved, UNCHANGED <<watermark, missed>>, flight' \in {0, flight},
           log' = log \/ \E e : log' = Append(log, e),
           kept' = kept \/ kept' = Len(log'), snapshot' = Sanitized(conv'), IsSequence(conv')
    PROVE  Saved'
<1>1. Shown(conv') \subseteq Known(snapshot')
  BY SanitizedShows
<1> SUFFICES ASSUME watermark # None
             PROVE  /\ watermark \in 0 .. kept'
                    /\ (watermark = kept' /\ flight' # 0 /\ Covers(log', watermark', flight'))
                         => flight' \in missed
  BY <1>1 DEF Saved
<1>2. kept \in 0 .. Len(log) /\ Len(log) \in Nat /\ watermark \in 0 .. kept
  BY Rows DEF Recorded, Shapes, Saved
<1>3. Len(log') \in Nat /\ Len(log') >= Len(log)
  <2>1. \A e : Len(Append(log, e)) = Len(log) + 1
    BY Sequences DEF Recorded, Shapes
  <2> QED BY <1>2, <2>1
<1>4. watermark \in 0 .. kept' /\ (watermark = kept' => watermark = kept)
  BY <1>2, <1>3
<1>5. \A m : Covers(log', watermark', m) <=> Covers(log, watermark, m)
  BY CoveringStays
<1> QED BY <1>4, <1>5 DEF Saved

\* What was saved last is the conversation, when the watermark is stamped.
LEMMA StampKeepsSaved ==
    ASSUME Recorded, Saved, Stamp
    PROVE  Saved'
<1>1. /\ snapshot = Sanitized(conv) /\ ~ unstamped' /\ UNCHANGED <<conv, snapshot, flight>>
      /\ watermark' = kept' /\ kept' = Len(log) /\ missed' = missed \cup ({flight} \ {0})
  BY DEF Saved, Stamp
<1>2. Shown(conv) \subseteq Known(snapshot)
  BY <1>1, SanitizedShows DEF Recorded, Shapes
<1>3. Len(log) \in Nat
  BY Sequences DEF Recorded, Shapes
<1> QED BY <1>1, <1>2, <1>3 DEF Saved

\* A resume from the snapshot knows what the snapshot does; one by replay comes
\* only after the watermark was left behind.
LEMMA RestartKeepsSaved ==
    ASSUME Recorded, Saved, Restart
    PROVE  Saved'
<1>1. /\ log' = SubSeq(log, 1, kept) /\ conv' = Resumed(log', snapshot, watermark) /\ flight' = 0
      /\ UNCHANGED <<kept, snapshot, watermark, missed>> /\ ~ unstamped'
  BY DEF Restart
<1>2. kept \in 0 .. Len(log) /\ kept \in Nat /\ Len(log') = kept
  BY <1>1, Sequences DEF Recorded, Shapes
<1>3. ASSUME watermark # None, watermark = kept, snapshot # None PROVE conv' = snapshot
  <2>1. watermark >= Len(log')
    BY <1>2, <1>3
  <2> QED BY <1>1, <1>3, <2>1 DEF Resumed
<1>4. Shown(snapshot) \subseteq Known(snapshot)
  BY ShownIsKnown
<1> QED BY <1>1, <1>3, <1>4 DEF Saved

LEMMA KnowsInit == Init => KnowsInv
<1>1. Init => Saved
  BY DEF Init, Saved
<1> QED BY <1>1, RecordedInit DEF KnowsInv

LEMMA KnowsStep == KnowsInv /\ [Next]_vars => KnowsInv'
<1> SUFFICES ASSUME Recorded, Saved, [Next]_vars PROVE Saved'
  BY RecordedStep DEF KnowsInv
<1>1. IsSequence(conv) /\ Len(conv) \in Nat /\ unstamped \in BOOLEAN
  BY Sequences DEF Recorded, Shapes
<1>2. IsSequence(conv')
  <2>1. Shapes'
    BY ShapesStep DEF Recorded
  <2> QED BY <2>1 DEF Shapes
<1>3. CASE Stamp
  BY <1>3, StampKeepsSaved
<1>4. CASE Restart
  BY <1>4, RestartKeepsSaved
<1>5. CASE Flush \/ UNCHANGED vars
  <2>1. /\ log' = log /\ kept' \in {kept, Len(log)}
        /\ UNCHANGED <<watermark, snapshot, missed, conv, flight, unstamped>>
    BY <1>5 DEF Flush, vars
  <2> QED BY <2>1, UnsavedKeepsSaved
<1>6. ASSUME Act, ~ unstamped PROVE Saved'
  <2>1. CASE BeginUser \/ BeginTold \/ Reply \/ ToolResult
    <3>1. /\ \E e : log' = Append(log, e)
          /\ kept' \in {kept, Len(log)} /\ flight' = Len(said) + 1
          /\ UNCHANGED <<watermark, snapshot, missed, conv, unstamped>>
      BY <2>1 DEF BeginUser, BeginTold, Reply, ToolResult, Say
    <3> QED BY <1>6, <3>1, UnsavedKeepsSaved
  <2>2. CASE Join
    <3>1. /\ flight # 0 /\ flight' = 0
          /\ conv' = Append(conv, [role |-> said[flight], of |-> {flight}])
          /\ UNCHANGED <<watermark, snapshot, missed, log, kept, unstamped>>
      BY <2>2 DEF Join
    <3>2. Shown(conv') \subseteq Shown(conv) \cup {flight}
      BY <1>1, <3>1, ShownOfLonger
    <3> QED BY <1>6, <3>1, <3>2, UnsavedKeepsSaved
  <2>3. CASE End
    <3>1. /\ snapshot' = Sanitized(conv') /\ kept' = Len(log') /\ flight' = 0
          /\ UNCHANGED <<watermark, missed>> /\ \E e : log' = Append(log, e)
      BY <2>3 DEF End
    <3> QED BY <1>2, <3>1, SnapshotKeepsSaved
  <2>4. CASE Clear \/ Splice \/ \E i \in 1 .. MaxMessages : Rewind(i)
    <3>1. /\ snapshot' = Sanitized(conv') /\ (log' = log \/ \E e : log' = Append(log, e))
          /\ UNCHANGED <<watermark, kept, missed, flight>>
      BY <2>4 DEF Clear, Splice, Rewind, Cut
    <3> QED BY <1>2, <3>1, SnapshotKeepsSaved
  <2>5. ASSUME NEW t \in 1 .. MaxMessages, NEW view, Edit(t, view) PROVE Saved'
    <3>1. /\ \E e : log' = Append(log, e)
          /\ kept' = Len(log) /\ flight' = Len(said) + 1
          /\ missed' = missed \cup (Shown(conv') \ Shown(conv))
          /\ UNCHANGED <<watermark, snapshot, unstamped>>
      BY <2>5 DEF Edit, Cut, Say
    <3> QED BY <1>6, <3>1, UnsavedKeepsSaved
  <2>6. ASSUME NEW view, EditMissing(view) PROVE Saved'
    <3>1. /\ kept' = Len(log) /\ missed' = missed \cup (Shown(conv') \ Shown(conv))
          /\ UNCHANGED <<watermark, snapshot, unstamped, log, flight>>
      BY <2>6 DEF EditMissing, Cut
    <3> QED BY <1>6, <3>1, UnsavedKeepsSaved
  <2>7. CASE Regenerate
    <3>1. /\ Users(conv) # {} /\ conv' = SubSeq(conv, 1, Max(Users(conv)))
          /\ \E e : log' = Append(log, e)
          /\ kept' = Len(log) /\ UNCHANGED <<watermark, snapshot, missed, flight, unstamped>>
      BY <2>7 DEF Regenerate, Cut
    <3>2. Max(Users(conv)) \in Users(conv) /\ Users(conv) \subseteq 1 .. Len(conv)
      BY <1>1, <3>1, UsersAreEntries, MaxOfBounded
    <3>3. Max(Users(conv)) \in 0 .. Len(conv)
      BY <1>1, <3>2
    <3>4. Shown(conv') \subseteq Shown(conv)
      BY <1>1, <3>1, <3>3, ShownOfShorter
    <3> QED BY <1>6, <3>1, <3>4, UnsavedKeepsSaved
  <2>8. CASE Trigger \/ StartJob \/ GiveUp
    <3>1. /\ log' = log \/ \E e : log' = Append(log, e)
          /\ UNCHANGED <<watermark, snapshot, missed, conv, flight, kept, unstamped>>
      BY <2>8 DEF Trigger, StartJob, GiveUp
    <3> QED BY <1>6, <3>1, UnsavedKeepsSaved
  <2> QED BY <1>6, <2>1, <2>2, <2>3, <2>4, <2>5, <2>6, <2>7, <2>8 DEF Act, Revise
<1> QED BY <1>1, <1>3, <1>4, <1>5, <1>6 DEF Next

-----------------------------------------------------------------------------
(* The resume.                                                             *)

\* Where a resume gets the conversation from.
LEMMA Sources ==
    ASSUME KnowsInv, Restart, watermark = None => snapshot = None
    PROVE  /\ log' = Durable /\ WellFormed(log') /\ DOMAIN log' = 1 .. kept
           /\ \/ /\ snapshot # None /\ watermark # None /\ watermark = kept
                 /\ conv' = snapshot
              \/ OnRecord(log', DOMAIN log') = {} /\ (conv' = snapshot \/ conv' = <<>>)
              \/ Known(conv') = OnRecord(log', Live(log', {}))
<1>1. log' = Durable /\ conv' = Resumed(log', snapshot, watermark)
  BY DEF Restart, Durable
<1>2. kept \in 0 .. Len(log) /\ kept \in Nat
  BY Rows DEF KnowsInv, Recorded, Shapes
<1>3. WellFormed(log') /\ DOMAIN log' = 1 .. kept /\ Len(log') = kept
  BY <1>1, <1>2, LogsAreCut, Rows, Sequences DEF Durable, KnowsInv, Recorded, WellFormed
<1>4. CASE snapshot # None /\ (watermark = None \/ watermark >= Len(log'))
  <2>1. watermark # None /\ watermark \in 0 .. kept /\ watermark >= kept
    BY <1>3, <1>4 DEF KnowsInv, Saved
  <2>2. watermark = kept
    BY <1>2, <2>1
  <2>3. conv' = snapshot
    BY <1>1, <1>4 DEF Resumed
  <2> QED BY <1>1, <1>3, <1>4, <2>1, <2>2, <2>3
<1>5. ASSUME ~ (snapshot # None /\ (watermark = None \/ watermark >= Len(log'))),
             log' = <<>> \/ Replayed(log', {}) = <<>>
      PROVE  OnRecord(log', DOMAIN log') = {} /\ (conv' = snapshot \/ conv' = <<>>)
  <2>1. conv' = snapshot \/ conv' = <<>>
    BY <1>1, <1>5 DEF Resumed
  <2>2. CASE log' = <<>>
    BY <2>1, <2>2 DEF OnRecord
  <2>3. CASE Replayed(log', {}) = <<>>
    <3>1. OnRecord(log', Live(log', {})) = {}
      BY <1>3, <2>3, ReplayKnowsTheLive DEF WellFormed
    <3>2. \A i \in DOMAIN log' : log'[i].msg = 0
      <4> SUFFICES ASSUME NEW i \in DOMAIN log', log'[i].msg # 0 PROVE FALSE
        OBVIOUS
      <4>1. \E j \in Live(log', {}) : log'[j].msg # 0
        BY <1>3, SomethingIsLive
      <4> QED BY <3>1, <4>1 DEF OnRecord
    <3> QED BY <2>1, <3>2 DEF OnRecord
  <2> QED BY <1>5, <2>2, <2>3
<1>6. ASSUME ~ (snapshot # None /\ (watermark = None \/ watermark >= Len(log'))),
             log' # <<>>, Replayed(log', {}) # <<>>
      PROVE  Known(conv') = OnRecord(log', Live(log', {}))
  <2>1. conv' = Replayed(log', {})
    BY <1>1, <1>6 DEF Resumed
  <2> QED BY <1>3, <2>1, ReplayKnowsTheLive DEF WellFormed
<1> QED BY <1>1, <1>3, <1>4, <1>5, <1>6

\* However often the agent was edited, compacted, cleared, interrupted and
\* resumed before: the snapshot is used only as long as nothing on disk is newer
\* than its watermark, and then knows all that a request would show and that is
\* on disk; a replay knows what is live there (session/resume.py:
\* inject_saved_state).
THEOREM ResumesKnow == Spec => ResumeKnowsWhatWasSaid
<1>1. ASSUME KnowsInv, Restart, watermark = None => snapshot = None,
             NEW m \in (Shown(conv) \cap OnRecord(Durable, Live(Durable, {}))) \ missed
      PROVE  m \in Known(conv')
  <2>1. PICK i \in Live(log', {}) : log'[i].msg = m /\ m # 0
    BY <1>1, Sources DEF OnRecord
  <2>2. i \in 1 .. kept /\ log'[i] = log[i]
    <3>1. i \in 1 .. kept /\ log' = SubSeq(log, 1, kept)
      BY <1>1, <2>1, Sources DEF Live, Durable
    <3> QED BY <1>1, <3>1, Rows DEF KnowsInv, Recorded, Shapes
  <2>3. CASE snapshot # None /\ watermark # None /\ watermark = kept /\ conv' = snapshot
    <3>1. Covers(log, watermark, m)
      BY <2>1, <2>2, <2>3 DEF Covers
    <3> QED BY <1>1, <2>1, <2>3, <3>1 DEF KnowsInv, Saved
  <2>4. CASE OnRecord(log', DOMAIN log') = {}
    BY <2>1, <2>4 DEF OnRecord, Live
  <2>5. CASE Known(conv') = OnRecord(log', Live(log', {}))
    BY <2>1, <2>5 DEF OnRecord
  <2> QED BY <1>1, <2>3, <2>4, <2>5, Sources
<1>2. KnowsInv /\ [Next]_vars
        => [Restart /\ (watermark = None => snapshot = None)
            => (Shown(conv) \cap OnRecord(Durable, Live(Durable, {}))) \ missed
                  \subseteq Known(conv')]_vars
  BY <1>1
<1> QED BY <1>2, KnowsInit, KnowsStep, PTL DEF Spec, ResumeKnowsWhatWasSaid

\* What an edit or a regeneration took off the live branch after the stamp stays
\* away: a replay knows the live branch only, and the snapshot is used only when
\* the watermark covers all that is on disk.
THEOREM ResumesForget == Spec => ResumeForgetsWhatWasCut
<1>1. ASSUME KnowsInv, Restart, watermark = None => snapshot = None,
             NEW m \in Known(conv') \cap Dead(Durable)
      PROVE  m \in IF watermark = None THEN {} ELSE Dead(SubSeq(log, 1, watermark))
  <2>1. log' = Durable /\ m \in OnRecord(log', DOMAIN log') \ OnRecord(log', Live(log', {}))
    BY <1>1, Sources DEF Dead
  <2>2. snapshot # None /\ watermark # None /\ watermark = kept
    BY <1>1, <2>1, Sources
  <2>3. Durable = SubSeq(log, 1, watermark)
    BY <2>2 DEF Durable
  <2> QED BY <1>1, <2>2, <2>3
<1>2. KnowsInv /\ [Next]_vars
        => [Restart /\ (watermark = None => snapshot = None)
            => Known(conv') \cap Dead(Durable)
                  \subseteq IF watermark = None THEN {}
                            ELSE Dead(SubSeq(log, 1, watermark))]_vars
  BY <1>1
<1> QED BY <1>2, KnowsInit, KnowsStep, PTL DEF Spec, ResumeForgetsWhatWasCut
=============================================================================

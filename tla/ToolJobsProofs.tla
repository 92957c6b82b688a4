--------------------------- MODULE ToolJobsProofs ---------------------------
(***************************************************************************)
(* The outcome of a job takes one way to the agent, and a round answers    *)
(* its calls, for any set of calls and any number of interrupts and        *)
(* cancellations.  OneOutcome alone is not inductive: that a result is     *)
(* never delivered as well needs that a promotion and an end noticed by    *)
(* the waiter exclude each other (Settled), that nothing is lost needs     *)
(* that every event of a job in the background has been delivered at the   *)
(* very step of its end (Heard), and that every collected job left a       *)
(* result or was promoted (Kept).  For the answers it has to be known      *)
(* which job stands for which call, and what has been said of it.          *)
(***************************************************************************)
EXTENDS ToolJobs, FiniteSetTheorems, TLAPS

\* The types the argument needs.
Types ==
    /\ running \in BOOLEAN
    /\ dispatched \subseteq Call
    /\ order \in Seq(Job)
    /\ task \in [Job -> {"none", "running", "cancelling", "done", "settled"}]
    /\ promoted \subseteq Call
    /\ delegated \subseteq promoted /\ unread \subseteq delegated
    /\ muted \subseteq quiet
    /\ delivered \in [Job -> Nat]

\* A call without a job has left no trace.
Fresh ==
    \A c \in Call :
        /\ c \notin dispatched => task[c] = "none"
        /\ task[c] = "none" =>
              c \notin tracked \cup promoted \cup collected \cup results /\ delivered[c] = 0

\* A result is one of a job that has ended without being promoted, and will not
\* be promoted any more.
Settled == \A c \in Call : c \in results => c \notin promoted /\ task[c] = "settled"

\* When the completion of a job in the background has been handed over.
Over(c) == task[c] = "settled" \/ (task[c] = "done" /\ c \in delegated)

Heard ==
    \A c \in Call :
        /\ delivered[c] > 0 => c \in promoted /\ Over(c)
        /\ delivered[c] <= 1
        /\ c \in promoted /\ Over(c) /\ running /\ c \notin quiet \cup unread => delivered[c] = 1

\* Every job is in the background or waited for; one that has been waited for was
\* promoted or left a result.
Kept ==
    \A c \in Call :
        /\ task[c] # "none" => c \in promoted \cup Elements(order)
        /\ c \in collected => c \in promoted \cup results

Inv == Types /\ Fresh /\ Settled /\ Heard /\ Kept

LEMMA AppendElements ==
    ASSUME NEW S, NEW s \in Seq(S), NEW e \in S
    PROVE  /\ Append(s, e) \in Seq(S)
           /\ Elements(Append(s, e)) = Elements(s) \cup {e}
<1>1. Append(s, e) \in Seq(S) /\ Len(Append(s, e)) = Len(s) + 1
  OBVIOUS
<1>2. \A i \in 1 .. Len(s) : Append(s, e)[i] = s[i]
  OBVIOUS
<1>3. Append(s, e)[Len(s) + 1] = e
  OBVIOUS
<1>4. DOMAIN Append(s, e) = 1 .. Len(s) + 1 /\ DOMAIN s = 1 .. Len(s) /\ Len(s) \in Nat
  BY <1>1
<1>5. DOMAIN Append(s, e) = DOMAIN s \cup {Len(s) + 1}
  BY <1>4
<1> QED
  BY <1>1, <1>2, <1>3, <1>4, <1>5 DEF Elements

LEMMA InitEstablishesInv == Init => Inv
BY DEF Init, Inv, Types, Fresh, Settled, Heard, Kept, Over, Job, Elements

LEMMA NextKeepsInv == Inv /\ [Next]_vars => Inv'
<1> SUFFICES ASSUME Inv, [Next]_vars
             PROVE  Inv'
  OBVIOUS
<1> USE CallAssumption DEF Inv, Job
<1>1. ASSUME NEW c \in Call, StartDirect(c)
      PROVE  Inv'
  <2>1. order' \in Seq(Job) /\ Elements(order') = Elements(order) \cup {c}
    BY <1>1, AppendElements DEF StartDirect, Types
  <2>2. Types'
    BY <1>1, <2>1 DEF StartDirect, Types, nature
  <2>3. Fresh' /\ Settled' /\ Heard' /\ Kept'
    BY <1>1, <2>1 DEF StartDirect, nature, Types, Fresh, Settled, Heard, Kept, Over, waiting
  <2> QED
    BY <2>2, <2>3
<1>2. ASSUME NEW c \in Call, StartInBackground(c)
      PROVE  Inv'
  <2>1. Types'
    BY <1>2 DEF StartInBackground, Types, nature
  <2>2. Fresh' /\ Settled' /\ Heard' /\ Kept'
    BY <1>2 DEF StartInBackground, nature, Types, Fresh, Settled, Heard, Kept, Over, waiting
  <2> QED
    BY <2>1, <2>2
<1>3. ASSUME NEW c \in Call, FailToStart(c)
      PROVE  Inv'
  <2>1. order' \in Seq(Job) /\ Elements(order') = Elements(order) \cup {FailedJob}
    BY <1>3, AppendElements DEF FailToStart, Types
  <2>2. Types'
    BY <1>3, <2>1 DEF FailToStart, Types, nature
  <2>3. \A d \in Call : task'[d] = task[d]
    BY <1>3 DEF FailToStart, Types
  <2>4. Fresh' /\ Settled' /\ Heard' /\ Kept'
    BY <1>3, <2>1, <2>3 DEF FailToStart, nature, Types, Fresh, Settled, Heard, Kept, Over, waiting
  <2> QED
    BY <2>2, <2>4
<1>4. ASSUME NEW c \in Call, FailInBackground(c)
      PROVE  Inv'
  <2>1. Types'
    BY <1>4 DEF FailInBackground, Types, nature, books
  <2>2. Fresh' /\ Settled' /\ Heard' /\ Kept'
    BY <1>4 DEF FailInBackground, nature, books, Types, Fresh, Settled, Heard, Kept, Over, waiting
  <2> QED
    BY <2>1, <2>2
<1>15. ASSUME NEW c \in Call, Veto(c) \/ Refuse(c)
      PROVE  Inv'
  BY <1>15 DEF Veto, Refuse, Types, Fresh, Settled, Heard, Kept, Over, jobs, nature, books, waiting
<1>5. ASSUME EndStream
      PROVE  Inv'
  BY <1>5 DEF EndStream, Types, Fresh, Settled, Heard, Kept, Over, jobs, nature, books, waiting
<1>6. ASSUME Terminate
      PROVE  Inv'
  BY <1>6 DEF Terminate, Types, Fresh, Settled, Heard, Kept, Over, jobs, nature, books, waiting
<1>7. ASSUME NEW j \in Job, Complete(j)
      PROVE  Inv'
  <2>1. Types'
    BY <1>7 DEF Complete, Deliver, Types, calls, nature
  <2>2. Fresh' /\ Settled' /\ Heard' /\ Kept'
    BY <1>7 DEF Complete, Deliver, Active, Types, Fresh, Settled, Heard, Kept, Over, calls, nature, waiting
  <2> QED
    BY <2>1, <2>2
<1>8. ASSUME NEW j \in Job, Settle(j)
      PROVE  Inv'
  <2>1. Types'
    BY <1>8 DEF Settle, Deliver, Types, calls, nature
  <2>2. Fresh' /\ Settled' /\ Heard' /\ Kept'
    BY <1>8 DEF Settle, Deliver, Types, Fresh, Settled, Heard, Kept, Over, calls, nature, waiting
  <2> QED
    BY <2>1, <2>2
<1>9. ASSUME NEW j \in Job, Promote(j)
      PROVE  Inv'
  BY <1>9 DEF Promote, Types, Fresh, Settled, Heard, Kept, Over, calls, nature, books, waiting
<1>10. ASSUME NEW j \in Job, Collect(j)
       PROVE  Inv'
  <2>1. Types'
    BY <1>10 DEF Collect, Types, jobs, nature
  <2>2. Fresh' /\ Settled' /\ Heard' /\ Kept'
    BY <1>10 DEF Collect, Returned, Types, Fresh, Settled, Heard, Kept, Over, jobs, nature
  <2> QED
    BY <2>1, <2>2
<1>11. ASSUME Interrupt
       PROVE  Inv'
  BY <1>11 DEF Interrupt, CancelTasks, Interruptible, Active, Types, Fresh, Settled, Heard, Kept, Over, calls, nature, books, waiting
<1>12. ASSUME NEW j \in Job, Cancel(j)
       PROVE  Inv'
  BY <1>12 DEF Cancel, CancelTasks, Active, Types, Fresh, Settled, Heard, Kept, Over, calls, nature, books, waiting
<1>13. ASSUME NEW j \in Job, Finalize(j)
       PROVE  Inv'
  BY <1>13 DEF Finalize, Types, Fresh, Settled, Heard, Kept, Over, jobs, nature, waiting
<1>14. CASE UNCHANGED vars
  BY <1>14 DEF vars, calls, jobs, nature, books, waiting, Types, Fresh, Settled, Heard, Kept, Over
<1> QED
  BY <1>1, <1>2, <1>3, <1>4, <1>5, <1>6, <1>7, <1>8, <1>9, <1>10, <1>11, <1>12, <1>13, <1>14, <1>15 DEF Next

LEMMA InvImpliesOneOutcome == Inv => OneOutcome
BY DEF Inv, Types, Fresh, Settled, Heard, Kept, Over, OneOutcome, Pending, Job

\* Whatever is promoted, cancelled or interrupted, and when, the outcome of every
\* job of the round reaches the agent once, and by one way.
THEOREM OneOutcomeAlways == Spec => []OneOutcome
<1>1. Inv /\ [Next]_vars => Inv'
  BY NextKeepsInv
<1> QED
  BY <1>1, InitEstablishesInv, InvImpliesOneOutcome, PTL DEF Spec

-----------------------------------------------------------------------------
(* Enumerating positions.                                                  *)

Rank(M, i) == Cardinality({j \in M : j <= i})

\* Nth enumerates a set of positions: every rank is taken, and by one position.
LEMMA Ranking ==
    ASSUME NEW n \in Nat, NEW M \in SUBSET (1 .. n)
    PROVE  /\ Cardinality(M) \in Nat
           /\ \A k \in 1 .. Cardinality(M) : Nth(M, k) \in M /\ Rank(M, Nth(M, k)) = k
           /\ \A i \in M : \E k \in 1 .. Cardinality(M) : Nth(M, k) = i
<1> DEFINE m == Cardinality(M)
           Upto(i) == {j \in M : j <= i}
           rank == [i \in M |-> Rank(M, i)]
<1>1. IsFiniteSet(M) /\ m \in Nat
  <2>1. IsFiniteSet(1 .. n)
    BY FS_Interval
  <2> QED BY <2>1, FS_Subset, FS_CardinalityType
<1>2. \A i \in M : IsFiniteSet(Upto(i)) /\ Rank(M, i) \in Nat /\ Rank(M, i) <= m /\ Rank(M, i) # 0
  <2> SUFFICES ASSUME NEW i \in M
               PROVE  IsFiniteSet(Upto(i)) /\ Rank(M, i) \in Nat /\ Rank(M, i) <= m /\ Rank(M, i) # 0
      OBVIOUS
  <2>1. Upto(i) \in SUBSET M /\ i \in Upto(i) /\ Rank(M, i) = Cardinality(Upto(i))
    BY DEF Rank
  <2> HIDE DEF Upto
  <2>2. IsFiniteSet(Upto(i)) /\ Cardinality(Upto(i)) <= m
    BY <1>1, <2>1, FS_Subset
  <2>3. Cardinality(Upto(i)) \in Nat /\ Cardinality(Upto(i)) # 0
    BY <2>1, <2>2, FS_CardinalityType, FS_EmptySet
  <2> QED BY <2>1, <2>2, <2>3
<1>3. \A i, j \in M : Rank(M, i) = Rank(M, j) => i = j
  <2>1. ASSUME NEW i \in M, NEW j \in M, i < j PROVE Rank(M, i) # Rank(M, j)
    <3>1. Upto(i) \in SUBSET Upto(j) /\ j \notin Upto(i) /\ j \in Upto(j)
      <4>1. i \in Nat /\ j \in Nat /\ \A x \in M : x \in Nat
        OBVIOUS
      <4>2. \A x \in Upto(i) : x \in Upto(j)
        BY <2>1, <4>1
      <4>3. ~ (j <= i) /\ j <= j
        BY <2>1, <4>1
      <4> QED BY <4>2, <4>3
    <3>2. Rank(M, i) = Cardinality(Upto(i)) /\ Rank(M, j) = Cardinality(Upto(j))
      BY DEF Rank
    <3>3. IsFiniteSet(Upto(j))
      BY <1>2
    <3> HIDE DEF Upto
    <3>4. Cardinality(Upto(j)) = Cardinality(Upto(i)) => Upto(j) = Upto(i)
      BY <3>1, <3>3, FS_Subset
    <3> QED BY <3>1, <3>2, <3>4
  <2>2. \A i, j \in M : i < j \/ i = j \/ j < i
    OBVIOUS
  <2> QED BY <2>1, <2>2
<1>4. rank \in Injection(M, 1 .. m)
  <2>1. \A i \in M : rank[i] \in 1 .. m
    <3> SUFFICES ASSUME NEW i \in M PROVE Rank(M, i) \in 1 .. m
        OBVIOUS
    <3>1. Rank(M, i) \in Nat /\ Rank(M, i) <= m /\ Rank(M, i) # 0
      BY <1>2
    <3> HIDE DEF m
    <3> QED BY <1>1, <3>1
  <2>2. rank \in [M -> 1 .. m]
    BY <2>1
  <2>3. \A i, j \in M : rank[i] = rank[j] => i = j
    BY <1>3
  <2> QED BY <2>2, <2>3 DEF Injection, IsInjective
<1>5. rank \in Surjection(M, 1 .. m)
  <2>1. IsFiniteSet(1 .. m) /\ Cardinality(1 .. m) = m
    <3> HIDE DEF m
    <3>1. m \in Int /\ 1 \in Int /\ (1 > m => m = 0)
      BY <1>1
    <3> QED BY <1>1, <3>1, FS_Interval
  <2> HIDE DEF rank
  <2> QED BY <1>4, <2>1, FS_Injection
<1>6. \A k \in 1 .. m : Nth(M, k) \in M /\ Rank(M, Nth(M, k)) = k
  <2> SUFFICES ASSUME NEW k \in 1 .. m PROVE Nth(M, k) \in M /\ Rank(M, Nth(M, k)) = k
      OBVIOUS
  <2>1. \E i \in M : rank[i] = k
    BY <1>5 DEF Surjection
  <2>2. \E i \in M : Cardinality({j \in M : j <= i}) = k
    BY <2>1 DEF Rank
  <2> QED BY <2>2 DEF Nth, Rank
<1>7. \A i \in M : \E k \in 1 .. m : Nth(M, k) = i
  <2> SUFFICES ASSUME NEW i \in M PROVE \E k \in 1 .. m : Nth(M, k) = i
      OBVIOUS
  <2>1. Rank(M, i) \in 1 .. m
    <3>1. Rank(M, i) \in Nat /\ Rank(M, i) <= m /\ Rank(M, i) # 0
      BY <1>2
    <3> HIDE DEF m
    <3> QED BY <1>1, <3>1
  <2>2. Nth(M, Rank(M, i)) = i
    BY <1>3, <1>6, <2>1
  <2> QED BY <2>1, <2>2
<1> QED BY <1>1, <1>6, <1>7

-----------------------------------------------------------------------------
(* The messages of a round.                                                *)

Message == Call \cup {Assistant, NoCall}

Once(s, x) == \A i, k \in DOMAIN s : s[i] = x /\ s[k] = x => i = k

LEMMA Unanswered == \A c : Answers(c) = {} <=> c \notin Elements(conversation)
BY DEF Answers, Elements

LEMMA Appending ==
    ASSUME NEW S, NEW s \in Seq(S), NEW x \in S
    PROVE  /\ Append(s, x) \in Seq(S)
           /\ Elements(Append(s, x)) = Elements(s) \cup {x}
           /\ \A y : Once(s, y) /\ (y = x => x \notin Elements(s)) => Once(Append(s, x), y)
<1> DEFINE t == Append(s, x)
<1>1. /\ DOMAIN t = 1 .. Len(s) + 1 /\ DOMAIN s = 1 .. Len(s) /\ Len(s) \in Nat
      /\ \A i \in DOMAIN s : t[i] = s[i]
      /\ t[Len(s) + 1] = x
  OBVIOUS
<1> HIDE DEF t
<1>2. ASSUME NEW y, Once(s, y), y = x => x \notin Elements(s) PROVE Once(t, y)
  BY <1>1, <1>2 DEF Elements, Once
<1> QED BY <1>2, AppendElements DEF t

LEMMA Joining ==
    ASSUME NEW S, NEW s \in Seq(S), NEW t \in Seq(S)
    PROVE  /\ s \o t \in Seq(S)
           /\ Elements(s \o t) = Elements(s) \cup Elements(t)
           /\ \A y : /\ Once(s, y) /\ Once(t, y)
                     /\ y \notin Elements(s) \/ y \notin Elements(t)
                     => Once(s \o t, y)
<1> DEFINE u == s \o t
<1>1. /\ u \in Seq(S)
      /\ DOMAIN u = 1 .. Len(s) + Len(t) /\ DOMAIN s = 1 .. Len(s) /\ DOMAIN t = 1 .. Len(t)
      /\ Len(s) \in Nat /\ Len(t) \in Nat
      /\ \A i \in DOMAIN u : u[i] = IF i <= Len(s) THEN s[i] ELSE t[i - Len(s)]
  OBVIOUS
<1> HIDE DEF u
<1>2. \A i \in DOMAIN u : \/ i \in DOMAIN s /\ u[i] = s[i]
                          \/ i - Len(s) \in DOMAIN t /\ u[i] = t[i - Len(s)]
  BY <1>1
<1>3. \A i \in DOMAIN s : i \in DOMAIN u /\ u[i] = s[i]
  BY <1>1
<1>4. \A i \in DOMAIN t : i + Len(s) \in DOMAIN u /\ u[i + Len(s)] = t[i]
  <2> SUFFICES ASSUME NEW i \in DOMAIN t
               PROVE  i + Len(s) \in DOMAIN u /\ u[i + Len(s)] = t[i]
      OBVIOUS
  <2>1. /\ i + Len(s) \in DOMAIN u /\ (i + Len(s)) - Len(s) = i
        /\ ~ (i + Len(s) <= Len(s))
    BY <1>1
  <2>2. u[i + Len(s)] = t[(i + Len(s)) - Len(s)]
    BY <1>1, <2>1
  <2> QED BY <2>1, <2>2
<1>5. Elements(u) = Elements(s) \cup Elements(t)
  BY <1>2, <1>3, <1>4 DEF Elements
<1>6. ASSUME NEW y, Once(s, y), Once(t, y), y \notin Elements(s) \/ y \notin Elements(t)
      PROVE  Once(u, y)
  <2> SUFFICES ASSUME NEW i \in DOMAIN u, NEW k \in DOMAIN u, u[i] = y, u[k] = y PROVE i = k
      BY DEF Once
  <2>1. CASE y \notin Elements(s)
    <3>1. /\ i - Len(s) \in DOMAIN t /\ t[i - Len(s)] = y
          /\ k - Len(s) \in DOMAIN t /\ t[k - Len(s)] = y
      BY <1>2, <2>1 DEF Elements
    <3>2. i - Len(s) = k - Len(s)
      BY <1>6, <3>1 DEF Once
    <3> QED BY <1>1, <3>2
  <2>2. CASE y \notin Elements(t)
    <3>1. i \in DOMAIN s /\ s[i] = y /\ k \in DOMAIN s /\ s[k] = y
      BY <1>2, <2>2 DEF Elements
    <3> QED BY <1>6, <3>1 DEF Once
  <2> QED BY <1>6, <2>1, <2>2
<1> QED BY <1>1, <1>5, <1>6 DEF u

\* What a round knows of its calls: a job waited for is that of one dispatched
\* call, several calls stand under FailedJob only when several failed, and only
\* dispatched calls are answered.
Ledger ==
    /\ conversation \in Seq(Message)
    /\ {idOf, metaId} \subseteq [Job -> Call \cup {NoCall}]
    /\ cancels \in Nat
    /\ failed \subseteq dispatched
    /\ \A c \in Call : Once(order, c)
    /\ (\A d, e \in failed : d = e) => Once(order, FailedJob)
    /\ \A j \in Elements(order) :
          /\ {idOf[j], metaId[j]} \subseteq dispatched
          /\ j \in Call => idOf[j] = j /\ j \notin failed
          /\ j = FailedJob => idOf[j] \in failed
    /\ results \subseteq collected /\ collected \subseteq Elements(order)
    /\ stage = "stream" => collected = {}
    /\ tracked \cup finalizing \subseteq Elements(order)
    /\ \A c \in Call : c \in Elements(conversation) => c \in dispatched

\* A call that is not answered yet has a job that is waited for or a result that
\* has not been said.
Owed ==
    stage \in {"stream", "wait", "done"} => \A c \in dispatched :
        \/ c \in Elements(conversation)
        \/ c \in refused
        \/ Overtaken(c)
        \/ /\ stage # "done"
           /\ \E j \in Elements(order) : idOf[j] = c /\ (j \notin collected \/ j \in results)

\* Before the round ends only placeholders are said of the jobs it waits for.
Single == cancels = 0 =>
    /\ \A c \in Call : Sharing(c) \/ Once(conversation, c)
    /\ stage \in {"stream", "wait"} =>
          /\ finalizing = {}
          /\ \A j \in Elements(order) :
                idOf[j] \in Elements(conversation) => Sharing(idOf[j]) \/ j \in collected \ results

Round == Types /\ Ledger /\ Owed /\ Single

LEMMA RoundInit == Init => Round
<1> SUFFICES ASSUME Init PROVE Round
    OBVIOUS
<1>1. /\ Elements(<<>>) = {} /\ (\A x : Once(<<>>, x))
      /\ <<>> \in Seq(Message) /\ order = <<>> /\ conversation = <<>>
  BY DEF Elements, Once, Init
<1>2. Types
  BY InitEstablishesInv DEF Inv
<1>3. Ledger
  BY <1>1 DEF Ledger, Init
<1> QED BY <1>1, <1>2, <1>3 DEF Round, Owed, Single, Init

LEMMA OneJobPerCall ==
    ASSUME Types, Ledger, NEW j \in Elements(order), NEW k \in Elements(order), idOf[j] = idOf[k]
    PROVE  j = k
<1>1. j \in Job /\ k \in Job
  BY DEF Elements, Types
<1> QED BY <1>1 DEF Ledger, Job

\* The results of the round, each said once.
LEMMA ResultsSaid ==
    ASSUME Types, Ledger, NEW R
    PROVE  /\ ResultMessages(R) \in Seq(Message)
           /\ Elements(ResultMessages(R)) = {idOf[j] : j \in R \cap Elements(order)}
           /\ \A c \in Call : Sharing(c) \/ Once(ResultMessages(R), c)
<1> DEFINE M == {i \in DOMAIN order : order[i] \in R}
           t == ResultMessages(R)
<1>1. DOMAIN order = 1 .. Len(order) /\ Len(order) \in Nat /\ \A i \in DOMAIN order : order[i] \in Job
  BY DEF Types
<1>2. M \in SUBSET (1 .. Len(order))
  BY <1>1
<1>3. /\ Cardinality(M) \in Nat
      /\ \A k \in 1 .. Cardinality(M) : Nth(M, k) \in M /\ Rank(M, Nth(M, k)) = k
      /\ \A i \in M : \E k \in 1 .. Cardinality(M) : Nth(M, k) = i
  <2> HIDE DEF M
  <2> QED BY <1>1, <1>2, Ranking
<1>4. t = [k \in 1 .. Cardinality(M) |-> idOf[order[Nth(M, k)]]]
  BY DEF ResultMessages
<1> HIDE DEF t
<1>5. \A k \in 1 .. Cardinality(M) :
         /\ order[Nth(M, k)] \in R \cap Elements(order)
         /\ t[k] = idOf[order[Nth(M, k)]] /\ t[k] \in Message
  <2> SUFFICES ASSUME NEW k \in 1 .. Cardinality(M)
               PROVE  /\ order[Nth(M, k)] \in R \cap Elements(order)
                      /\ t[k] = idOf[order[Nth(M, k)]] /\ t[k] \in Message
      OBVIOUS
  <2>1. Nth(M, k) \in DOMAIN order /\ order[Nth(M, k)] \in R
    BY <1>3
  <2>2. order[Nth(M, k)] \in Job /\ order[Nth(M, k)] \in Elements(order)
    BY <1>1, <2>1 DEF Elements
  <2>3. t[k] = idOf[order[Nth(M, k)]]
    BY <1>4
  <2> QED BY <2>1, <2>2, <2>3 DEF Ledger, Message
<1>6. t \in Seq(Message) /\ DOMAIN t = 1 .. Cardinality(M)
  <2> HIDE DEF M
  <2>1. t \in [1 .. Cardinality(M) -> Message]
    BY <1>4, <1>5
  <2> QED BY <1>3, <2>1
<1>7. Elements(t) = {idOf[j] : j \in R \cap Elements(order)}
  <2>1. \A k \in DOMAIN t : t[k] \in {idOf[j] : j \in R \cap Elements(order)}
    BY <1>5, <1>6
  <2>2. ASSUME NEW j \in R \cap Elements(order) PROVE idOf[j] \in Elements(t)
    <3>1. PICK i \in DOMAIN order : order[i] = j
      BY <2>2 DEF Elements
    <3>2. PICK k \in 1 .. Cardinality(M) : Nth(M, k) = i
      BY <1>3, <2>2, <3>1
    <3>3. k \in DOMAIN t /\ t[k] = idOf[j]
      BY <1>5, <1>6, <3>1, <3>2
    <3> QED BY <3>3 DEF Elements
  <2> QED BY <2>1, <2>2 DEF Elements
<1>8. ASSUME NEW c \in Call, ~ Sharing(c) PROVE Once(t, c)
  <2> SUFFICES ASSUME NEW k \in DOMAIN t, NEW l \in DOMAIN t, t[k] = c, t[l] = c PROVE k = l
      BY DEF Once
  <2>1. order[Nth(M, k)] = order[Nth(M, l)]
    BY <1>5, <1>6, OneJobPerCall
  <2>2. Nth(M, k) \in DOMAIN order /\ Nth(M, l) \in DOMAIN order
    BY <1>3, <1>6
  <2>3. Once(order, order[Nth(M, k)])
    <3>1. order[Nth(M, k)] \in Elements(order) /\ idOf[order[Nth(M, k)]] = c
      BY <1>5, <1>6
    <3>2. order[Nth(M, k)] \in Job
      BY <1>1, <2>2
    <3>3. order[Nth(M, k)] = FailedJob => failed = {c}
      BY <1>8, <3>1 DEF Ledger, Sharing
    <3> QED BY <3>2, <3>3 DEF Ledger, Job
  <2>4. Nth(M, k) = Nth(M, l)
    BY <2>1, <2>2, <2>3 DEF Once
  <2> HIDE DEF M
  <2> QED BY <1>3, <1>6, <2>4
<1> QED BY <1>6, <1>7, <1>8 DEF t

-----------------------------------------------------------------------------
(* The steps of a round.                                                   *)

\* Steps that neither say, dispatch nor wait for anything.
LEMMA RoundStandsStill ==
    ASSUME Round, Types',
           UNCHANGED <<calls, waiting>>, tracked' \subseteq tracked,
           \/ UNCHANGED stage
           \/ stage' \in {"cut", "stopped"},
           \/ finalizing' \subseteq finalizing /\ cancels' = cancels
           \/ finalizing' \subseteq finalizing \cup tracked /\ cancels' = cancels + 1
           \/ /\ finalizing' \subseteq finalizing \cup tracked /\ cancels' = cancels
              /\ stage' \notin {"stream", "wait"}
    PROVE  Round'
<1> USE DEF Round, calls, ids, waiting, Overtaken, Sharing
<1>1. Ledger'
  BY DEF Ledger
<1>2. Owed'
  BY DEF Owed
<1>3. Single'
  BY DEF Single, Ledger
<1> QED BY <1>1, <1>2, <1>3

\* A job is waited for that stands for a call of its own, or with FailedJob for
\* the last call that failed.
LEMMA DispatchKeepsRound ==
    ASSUME Round, Types', NEW c \in Call, stage = "stream", c \notin dispatched,
           NEW j \in Job,
           \/ j = c /\ failed' = failed
           \/ j = FailedJob /\ failed' = failed \cup {c},
           dispatched' = dispatched \cup {c}, order' = Append(order, j),
           idOf' = [idOf EXCEPT ![j] = c], metaId' = [metaId EXCEPT ![j] = c],
           tracked' = tracked \cup {j},
           UNCHANGED <<stage, refused, conversation, waiting, finalizing, stops>>
    PROVE  Round'
<1> USE CallAssumption DEF Round, waiting, stops
<1>1. /\ Elements(order') = Elements(order) \cup {j}
      /\ \A x : Once(order, x) /\ (x = j => j \notin Elements(order)) => Once(order', x)
  BY Appending DEF Types, Ledger
<1>2. /\ idOf'[j] = c /\ metaId'[j] = c
      /\ \A k \in Elements(order) \ {j} : idOf'[k] = idOf[k] /\ metaId'[k] = metaId[k]
  <2>1. \A k \in Elements(order) : k \in Job
    BY DEF Elements, Types
  <2> QED BY <2>1 DEF Ledger
<1>3. j = c => j \notin Elements(order)
  BY DEF Ledger, Job
<1>4. (\A d, e \in failed' : d = e) /\ j = FailedJob => FailedJob \notin Elements(order)
  BY DEF Ledger
<1>5. Ledger'
  <2>1. {idOf', metaId'} \subseteq [Job -> Call \cup {NoCall}]
    BY DEF Ledger
  <2>2. /\ \A d \in Call : Once(order', d)
        /\ (\A d, e \in failed' : d = e) => Once(order', FailedJob)
    BY <1>1, <1>3, <1>4 DEF Ledger
  <2>3. \A k \in Elements(order') :
           /\ {idOf'[k], metaId'[k]} \subseteq dispatched'
           /\ k \in Call => idOf'[k] = k /\ k \notin failed'
           /\ k = FailedJob => idOf'[k] \in failed'
    BY <1>1, <1>2 DEF Ledger
  <2> QED BY <1>1, <2>1, <2>2, <2>3 DEF Ledger
<1>6. Owed'
  <2>1. collected = {}
    BY DEF Ledger
  <2>2. ASSUME NEW d \in dispatched, d \notin Elements(conversation), d \notin refused, ~ Overtaken(d)'
        PROVE  \E k \in Elements(order') : idOf'[k] = d
    <3>1. CASE \E k \in Elements(order) : idOf[k] = d
      <4>1. PICK k \in Elements(order) : idOf[k] = d
        BY <3>1
      <4>2. k # j
        BY <1>2, <1>3, <2>2, <4>1 DEF Ledger, Overtaken
      <4> QED BY <1>1, <1>2, <4>1, <4>2
    <3>2. CASE Overtaken(d)
      BY <1>2, <2>2, <3>2 DEF Overtaken, Ledger, Job
    <3> QED BY <2>2, <3>1, <3>2 DEF Owed
  <2> QED BY <1>1, <1>2, <2>1, <2>2 DEF Owed
<1>7. Single'
  <2>1. c \notin Elements(conversation) /\ \A d : Sharing(d) => Sharing(d)'
    BY DEF Ledger, Sharing
  <2>2. \A k \in Elements(order') : idOf'[k] \in Elements(conversation) =>
           k \in Elements(order) /\ idOf'[k] = idOf[k]
    BY <1>1, <1>2, <2>1
  <2> QED BY <2>1, <2>2 DEF Single
<1> QED BY <1>5, <1>6, <1>7

\* A call answered without a job that is waited for: vetoed, started in the
\* background, or failed there.
LEMMA AnswerKeepsRound ==
    ASSUME Round, Types', NEW c \in Call, stage = "stream", c \notin dispatched,
           dispatched' = dispatched \cup {c}, conversation' = Append(conversation, c),
           \/ failed' = failed /\ (idOf' = idOf \/ idOf' = [idOf EXCEPT ![c] = c])
           \/ failed' = failed \cup {c} /\ idOf' = [idOf EXCEPT ![FailedJob] = c],
           UNCHANGED <<stage, refused, order, metaId, tracked, waiting, finalizing, stops>>
    PROVE  Round'
<1> USE CallAssumption DEF Round, waiting, stops
<1>1. /\ conversation' \in Seq(Message)
      /\ Elements(conversation') = Elements(conversation) \cup {c}
      /\ \A d \in Call : Once(conversation, d) => Once(conversation', d)
  <2>1. c \notin Elements(conversation) /\ c \in Message
    BY DEF Ledger, Message
  <2> QED BY <2>1, Appending DEF Ledger
<1>2. \A k \in Elements(order) : k \in Job /\ k # c
  <2>1. \A k \in Elements(order) : k \in Job
    BY DEF Elements, Types
  <2> QED BY <2>1 DEF Ledger
<1>3. \A k \in Elements(order) :
         \/ idOf'[k] = idOf[k]
         \/ /\ k = FailedJob /\ idOf'[k] = c /\ c \in failed' /\ Sharing(c)'
            /\ \A d : d = idOf[k] => Overtaken(d)'
  <2> SUFFICES ASSUME NEW k \in Elements(order), NEW d, d = idOf[k], idOf'[k] # d
               PROVE  k = FailedJob /\ idOf'[k] = c /\ c \in failed' /\ Sharing(c)' /\ Overtaken(d)'
      OBVIOUS
  <2>1. k = FailedJob /\ idOf' = [idOf EXCEPT ![FailedJob] = c] /\ failed' = failed \cup {c}
    BY <1>2 DEF Ledger
  <2>2. idOf'[FailedJob] = c /\ d \in failed /\ c \notin failed
    BY <1>2, <2>1 DEF Ledger
  <2> QED BY <2>1, <2>2 DEF Overtaken, Sharing
<1>4. Ledger'
  <2>1. idOf' \in [Job -> Call \cup {NoCall}]
    BY DEF Ledger, Job
  <2>2. \A k \in Elements(order) :
           /\ {idOf'[k], metaId[k]} \subseteq dispatched'
           /\ k \in Call => idOf'[k] = k /\ k \notin failed'
           /\ k = FailedJob => idOf'[k] \in failed'
    BY <1>2, <1>3 DEF Ledger
  <2>3. (\A d, e \in failed' : d = e) => (\A d, e \in failed : d = e)
    OBVIOUS
  <2> QED BY <1>1, <2>1, <2>2, <2>3 DEF Ledger
<1>5. Owed'
  <2>1. ASSUME NEW d \in dispatched, Overtaken(d) PROVE Overtaken(d)'
    BY <2>1 DEF Overtaken, Ledger, Job
  <2>2. ASSUME NEW k \in Elements(order), NEW d, d = idOf[k], idOf'[k] # d PROVE Overtaken(d)'
    BY <1>3, <2>2
  <2> QED BY <1>1, <2>1, <2>2 DEF Owed
<1>6. Single'
  <2>1. \A d : Sharing(d) => Sharing(d)'
    BY DEF Ledger, Sharing
  <2>2. \A k \in Elements(order) : idOf[k] # c
    BY DEF Ledger
  <2> QED BY <1>1, <1>3, <2>1, <2>2 DEF Single
<1> QED BY <1>4, <1>5, <1>6

LEMMA RefuseKeepsRound ==
    ASSUME Round, Types', NEW c \in Call, Refuse(c)
    PROVE  Round'
<1> USE DEF Round, Refuse, ids, books, waiting, stops, Overtaken, Sharing
<1>1. Ledger'
  BY DEF Ledger
<1>2. Owed'
  BY DEF Owed
<1>3. Single'
  BY DEF Single
<1> QED BY <1>1, <1>2, <1>3

\* The message that makes the calls.
LEMMA StreamEndKeepsRound ==
    ASSUME Round, Types', conversation' = Append(conversation, Assistant), stage = "stream",
           stage' = "stopped" \/ stage' = IF order = <<>> THEN "done" ELSE "wait",
           UNCHANGED <<dispatched, refused, failed, order, ids, tracked, waiting, finalizing, stops>>
    PROVE  Round'
<1> USE CallAssumption DEF Round, ids, waiting, stops, Overtaken, Sharing
<1>1. /\ conversation' \in Seq(Message)
      /\ Elements(conversation') = Elements(conversation) \cup {Assistant}
      /\ \A d \in Call : Once(conversation, d) => Once(conversation', d)
  <2>1. Assistant \in Message /\ Assistant \notin Call
    BY DEF Message
  <2> QED BY <2>1, Appending DEF Ledger
<1>2. \A k \in Elements(order) : idOf[k] \in Call
  BY DEF Ledger, Types
<1>3. order = <<>> => Elements(order) = {}
  BY DEF Elements
<1>4. Ledger'
  BY <1>1 DEF Ledger
<1>5. Owed'
  BY <1>1, <1>3 DEF Owed
<1>6. Single'
  BY <1>1, <1>2 DEF Single
<1> QED BY <1>4, <1>5, <1>6

LEMMA FinalizeKeepsRound ==
    ASSUME Round, Types', NEW j \in Job, Finalize(j)
    PROVE  Round'
<1> USE DEF Round, ids, Overtaken, Sharing
<1>1. /\ j \in finalizing /\ j \in Elements(order) /\ metaId[j] \in dispatched /\ metaId[j] \in Call
      /\ finalizing' = finalizing \ {j} /\ tracked' = tracked \ {j}
      /\ UNCHANGED <<stage, dispatched, refused, failed, order, ids, collected, results, cancels>>
  BY DEF Finalize, Ledger, Types, ids, waiting, stops
<1>2. /\ conversation' \in Seq(Message)
      /\ Elements(conversation') = Elements(conversation) \cup {metaId[j]}
      /\ \A d \in Call : Once(conversation, d) => Once(conversation', d)
  <2>1. CASE conversation' = Append(conversation, metaId[j]) /\ metaId[j] \notin Elements(conversation)
    <3>1. metaId[j] \in Message
      BY <1>1 DEF Message
    <3> QED BY <2>1, <3>1, Appending DEF Ledger
  <2>2. CASE conversation' = conversation /\ metaId[j] \in Elements(conversation)
    BY <2>2 DEF Ledger
  <2> QED BY <2>1, <2>2, Unanswered DEF Finalize
<1>3. Ledger'
  BY <1>1, <1>2 DEF Ledger
<1>4. Owed'
  BY <1>1, <1>2 DEF Owed
<1>5. Single'
  BY <1>1, <1>2 DEF Single
<1> QED BY <1>3, <1>4, <1>5

LEMMA PlaceholderSaid ==
    ASSUME Types, Ledger, NEW j \in Elements(order)
    PROVE  /\ Placeholder(j) \in Seq(Message)
           /\ Elements(Placeholder(j)) = IF j \in promoted THEN {idOf[j]} ELSE {}
           /\ \A c : Once(Placeholder(j), c)
<1>1. idOf[j] \in Message
  BY DEF Ledger, Types, Message
<1>2. /\ <<idOf[j]>> \in Seq(Message) /\ <<>> \in Seq(Message)
      /\ DOMAIN <<idOf[j]>> = {1} /\ <<idOf[j]>>[1] = idOf[j] /\ DOMAIN <<>> = {}
  BY <1>1
<1> QED BY <1>2 DEF Placeholder, Elements, Once

LEMMA CollectKeepsRound ==
    ASSUME Round, Types', NEW j \in Job, Collect(j)
    PROVE  Round'
<1> USE DEF Round, ids
<1> DEFINE p == Placeholder(j)
           r == ResultMessages(results')
<1>1. /\ stage = "wait" /\ j \in Elements(order) /\ j \notin collected /\ idOf[j] \in Call
      /\ collected' = collected \cup {j}
      /\ results' = IF j \in promoted THEN results ELSE results \cup {j}
      /\ tracked' = tracked \ {j}
      /\ UNCHANGED <<dispatched, refused, failed, order, ids, finalizing, promoted, cancels>>
      /\ \A c : (Sharing(c)' <=> Sharing(c)) /\ (Overtaken(c)' <=> Overtaken(c))
  BY DEF Collect, Returned, Pending, Ledger, Types, jobs, stops, Sharing, Overtaken
<1>2. /\ p \in Seq(Message)
      /\ Elements(p) = IF j \in promoted THEN {idOf[j]} ELSE {}
      /\ \A c : Once(p, c)
  BY <1>1, PlaceholderSaid
<1>3. /\ r \in Seq(Message)
      /\ Elements(r) = {idOf[k] : k \in results' \cap Elements(order)}
      /\ \A c \in Call : Sharing(c) \/ Once(r, c)
  BY ResultsSaid
<1>4. \A k \in Elements(order) : idOf[k] = idOf[j] => k = j
  BY <1>1, OneJobPerCall
<1> HIDE DEF p, r
<1>5. /\ conversation \o p \in Seq(Message)
      /\ Elements(conversation \o p) = Elements(conversation) \cup Elements(p)
      /\ cancels = 0 => \A c \in Call : Sharing(c) \/ Once(conversation \o p, c)
  <2>1. cancels = 0 => \A c \in Call : Sharing(c) \/
           (Once(conversation, c) /\ (c \notin Elements(conversation) \/ c \notin Elements(p)))
    BY <1>1, <1>2 DEF Single
  <2> QED BY <1>2, <2>1, Joining DEF Ledger
<1>6. \A c \in Elements(p) : c \in dispatched
  BY <1>1, <1>2 DEF Ledger
<1>7. /\ \A k \in results' \cap Elements(order) : idOf[k] \in dispatched
      /\ \A c \in Elements(r) : c \in dispatched
  BY <1>3 DEF Ledger
<1>8. \/ /\ Pending = {j} /\ stage' = "done"
         /\ conversation' = (conversation \o p) \o r
      \/ Pending # {j} /\ stage' = stage /\ conversation' = conversation \o p
  <2>1. conversation \o p \o r = (conversation \o p) \o r
    OBVIOUS
  <2> QED BY <2>1 DEF Collect, p, r
<1>9. CASE Pending # {j} /\ stage' = stage /\ conversation' = conversation \o p
  <2>1. Ledger'
    BY <1>1, <1>5, <1>6, <1>9 DEF Ledger
  <2>2. Owed'
    <3>1. ASSUME NEW c \in dispatched, c \notin Elements(conversation'), c \notin refused, ~ Overtaken(c)
          PROVE  \E k \in Elements(order) : idOf[k] = c /\ (k \notin collected' \/ k \in results')
      <4>1. PICK k \in Elements(order) : idOf[k] = c /\ (k \notin collected \/ k \in results)
        BY <1>1, <1>5, <1>9, <3>1 DEF Owed
      <4>2. CASE k = j
        BY <1>1, <1>2, <1>5, <1>9, <3>1, <4>1, <4>2
      <4>3. CASE k # j
        BY <1>1, <4>1, <4>3
      <4> QED BY <4>2, <4>3
    <3> QED BY <1>1, <1>9, <3>1 DEF Owed
  <2>3. Single'
    <3> SUFFICES ASSUME cancels = 0
                 PROVE  /\ \A c \in Call : Sharing(c) \/ Once(conversation', c)
                        /\ finalizing' = {}
                        /\ \A k \in Elements(order) :
                              idOf[k] \in Elements(conversation') =>
                                 Sharing(idOf[k]) \/ k \in collected' \ results'
        BY <1>1 DEF Single
    <3>1. finalizing' = {} /\ \A c \in Call : Sharing(c) \/ Once(conversation', c)
      BY <1>1, <1>5, <1>9 DEF Single
    <3>2. ASSUME NEW k \in Elements(order), idOf[k] \in Elements(conversation), ~ Sharing(idOf[k])
          PROVE  k \in collected' \ results'
      <4>1. k \in collected \ results
        BY <1>1, <3>2 DEF Single
      <4> QED BY <1>1, <4>1
    <3>3. ASSUME NEW k \in Elements(order), idOf[k] \in Elements(p)
          PROVE  k \in collected' \ results'
      <4>1. k = j /\ j \in promoted
        BY <1>2, <1>4, <3>3
      <4> QED BY <1>1, <4>1 DEF Ledger
    <3> QED BY <1>5, <1>9, <3>1, <3>2, <3>3
  <2> QED BY <2>1, <2>2, <2>3
<1>10. CASE Pending = {j} /\ stage' = "done" /\ conversation' = (conversation \o p) \o r
  <2>1. /\ conversation' \in Seq(Message)
        /\ Elements(conversation') = Elements(conversation) \cup Elements(p) \cup Elements(r)
    <3>1. conversation \o p \in Seq(Message) /\ r \in Seq(Message)
      BY <1>3, <1>5
    <3>2. /\ (conversation \o p) \o r \in Seq(Message)
          /\ Elements((conversation \o p) \o r) = Elements(conversation \o p) \cup Elements(r)
      BY <3>1, Joining
    <3> QED BY <1>5, <1>10, <3>2
  <2>2. cancels = 0 => \A c \in Call : Sharing(c) \/ Once(conversation', c)
    <3>1. ASSUME cancels = 0, NEW c \in Call, c \in Elements(r), ~ Sharing(c)
          PROVE  c \notin Elements(conversation) /\ c \notin Elements(p)
      <4>1. PICK k \in results' \cap Elements(order) : c = idOf[k]
        BY <1>3, <3>1
      <4>2. k = j => j \notin promoted
        BY <1>1, <4>1 DEF Ledger
      <4> QED BY <1>1, <1>2, <1>4, <3>1, <4>1, <4>2 DEF Single
    <3>2. cancels = 0 => \A c \in Call : Sharing(c) \/
             /\ Once(conversation \o p, c) /\ Once(r, c)
             /\ c \notin Elements(conversation \o p) \/ c \notin Elements(r)
      BY <1>3, <1>5, <3>1
    <3> QED BY <1>3, <1>5, <1>10, <3>2, Joining
  <2>3. Ledger'
    BY <1>1, <1>6, <1>7, <1>10, <2>1 DEF Ledger
  <2>4. Owed'
    <3> SUFFICES ASSUME NEW c \in dispatched, c \notin Elements(conversation), c \notin refused, ~ Overtaken(c)
                 PROVE  c \in Elements(p) \cup Elements(r)
        BY <1>1, <1>10, <2>1 DEF Owed
    <3>1. PICK k \in Elements(order) : idOf[k] = c /\ (k \notin collected \/ k \in results)
      BY <1>1 DEF Owed
    <3>2. CASE k \in results
      BY <1>1, <1>3, <3>1, <3>2
    <3>3. CASE k \notin collected
      <4>1. k = j
        BY <1>10, <3>3 DEF Pending
      <4> QED BY <1>1, <1>2, <1>3, <3>1, <4>1
    <3> QED BY <3>1, <3>2, <3>3
  <2>5. Single'
    BY <1>1, <1>10, <2>2 DEF Single
  <2> QED BY <2>3, <2>4, <2>5
<1> QED BY <1>8, <1>9, <1>10

LEMMA RoundStep ==
    ASSUME Inv, Inv', Round, [Next]_vars
    PROVE  Round'
<1> USE CallAssumption
<1>1. Types /\ Types'
  BY DEF Inv
<1>2. ASSUME NEW c \in Call, StartDirect(c) PROVE Round'
  BY <1>1, <1>2, DispatchKeepsRound DEF StartDirect, Job
<1>3. ASSUME NEW c \in Call, FailToStart(c) PROVE Round'
  BY <1>1, <1>3, DispatchKeepsRound DEF FailToStart, Job
<1>4. ASSUME NEW c \in Call, StartInBackground(c) \/ FailInBackground(c) \/ Veto(c) PROVE Round'
  BY <1>1, <1>4, AnswerKeepsRound DEF StartInBackground, FailInBackground, Veto, ids, books
<1>11. ASSUME NEW c \in Call, Refuse(c) PROVE Round'
  BY <1>1, <1>11, RefuseKeepsRound
<1>5. CASE EndStream \/ Terminate
  BY <1>1, <1>5, StreamEndKeepsRound DEF EndStream, Terminate, books
<1>6. ASSUME NEW j \in Job, Complete(j) \/ Settle(j) \/ Promote(j) PROVE Round'
  BY <1>1, <1>6, RoundStandsStill DEF Complete, Settle, Promote, books, stops
<1>7. ASSUME NEW j \in Job, Collect(j) \/ Finalize(j) PROVE Round'
  BY <1>1, <1>7, CollectKeepsRound, FinalizeKeepsRound
<1>8. CASE Interrupt
  <2>1. /\ stage' = IF stage \in {"stream", "wait"} THEN "cut" ELSE stage
        /\ finalizing' = finalizing \cup Interruptible /\ Interruptible \subseteq tracked
        /\ UNCHANGED <<calls, waiting>> /\ tracked' = tracked /\ cancels' = cancels
    BY <1>8 DEF Interrupt, Interruptible, books
  <2>2. stage' = stage \/ stage' \in {"cut", "stopped"}
    BY <2>1
  <2>3. stage' \notin {"stream", "wait"} /\ finalizing' \subseteq finalizing \cup tracked
    BY <2>1
  <2> QED BY <1>1, <2>1, <2>2, <2>3, RoundStandsStill
<1>9. ASSUME NEW j \in Job, Cancel(j) PROVE Round'
  BY <1>1, <1>9, RoundStandsStill DEF Cancel, Interruptible, books
<1>10. CASE UNCHANGED vars
  BY <1>1, <1>10, RoundStandsStill DEF vars, books, stops
<1> QED
  BY <1>2, <1>3, <1>4, <1>5, <1>6, <1>7, <1>8, <1>9, <1>10, <1>11 DEF Next

-----------------------------------------------------------------------------
\* A round that has run to its end has answered its calls, whatever was promoted,
\* cancelled or vetoed, save the sub-agents that did not start and the calls
\* whose job id a later one has taken (agent_tools.py: _wait_handles,
\* _add_native_results_to_conversation).
THEOREM RoundsAnswerAll == Spec => []RoundAnswersAll
<1>1. Inv /\ Round /\ [Next]_vars => Round'
  BY NextKeepsInv, RoundStep
<1>2. Round => RoundAnswersAll
  BY Unanswered DEF Round, Owed, RoundAnswersAll
<1> QED
  BY <1>1, <1>2, InitEstablishesInv, NextKeepsInv, RoundInit, PTL DEF Spec

\* Without a cancellation no call that has a job id of its own has two answers, of
\* result, placeholder and the message synthesised for an interrupted job
\* (agent_tools.py: _append_interrupted_tool_message).
THEOREM InterruptsAnswerOnce == Spec => []InterruptAnswersOnce
<1>1. Inv /\ Round /\ [Next]_vars => Round'
  BY NextKeepsInv, RoundStep
<1>2. Round => InterruptAnswersOnce
  <2> SUFFICES ASSUME Round, cancels = 0, NEW c \in Call, ~ Sharing(c)
               PROVE  Cardinality(Answers(c)) <= 1
      BY DEF InterruptAnswersOnce, NoSecondAnswer
  <2>1. \A i, k \in Answers(c) : i = k
    BY DEF Round, Single, Once, Answers
  <2>2. Answers(c) = {} \/ \E i : Answers(c) = {i}
    BY <2>1
  <2>3. ASSUME NEW i, Answers(c) = {i} PROVE Cardinality(Answers(c)) = 1
    BY <2>3, FS_Singleton
  <2>4. Cardinality({}) = 0
    BY FS_EmptySet
  <2> QED BY <2>2, <2>3, <2>4
<1> QED
  BY <1>1, <1>2, InitEstablishesInv, NextKeepsInv, RoundInit, PTL DEF Spec
=============================================================================

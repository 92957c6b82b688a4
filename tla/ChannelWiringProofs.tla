------------------------- MODULE ChannelWiringProofs -------------------------
(***************************************************************************)
(* Why no two run loops drive one wire, and what is left once the calls    *)
(* have settled, for any number of triggers, registries and messages.      *)
(*                                                                         *)
(* A loop that could still take a message is the manager's task, or the    *)
(* stop of its trigger comes before every start in the event loop's FIFO:  *)
(* that is what keeps its successor from joining it.  It holds only        *)
(* together with the order of the FIFO: starts come in the order of their  *)
(* triggers, a replaced trigger's start is followed by its own stop, and   *)
(* the first step of a run loop comes after the start that made it.        *)
(***************************************************************************)
EXTENDS ChannelWiring, TLAPS

Entry == ({"run", "stop"} \X Trigger) \cup ({"loop"} \X Loop)
Queue == {None} \cup Trigger

Types ==
    /\ hasty \in BOOLEAN
    /\ phase \in {"new", "running", "closing", "stopping", "stopped"}
    /\ home \in Registry
    /\ made \in 0 .. MaxTriggers
    /\ reg \in [Trigger -> Registry]
    /\ running \in [Trigger -> BOOLEAN]
    /\ sub \in [Trigger -> Queue]
    /\ current \in Queue
    /\ task \in Loop \cup {NoLoop}
    /\ loop \in [Loop -> {"none", "new", "waiting", "turn", "done"}]
    /\ cancelled \in [Loop -> BOOLEAN]
    /\ waitsOn \in [Loop -> Queue]
    /\ chan \in [Registry -> Queue]
    /\ backlog \in [Trigger -> Nat]
    /\ sent \in 0 .. MaxSends
    /\ awaited \in Loop \cup {NoLoop}
    /\ ready \in Seq(Entry)

-----------------------------------------------------------------------------
(* The order of the FIFO.                                                  *)

IsRun(e) == e[1] = "run"
IsStop(e) == e[1] = "stop"
IsStep(e) == e[1] = "loop"

\* The stop of k comes before any start.
StopsFirst(s, k) ==
    \E p \in 1 .. Len(s) :
        s[p] = <<"stop", k>> /\ \A q \in 1 .. p : ~ IsRun(s[q])

\* The start at position p is followed by the stop of its trigger, and no other
\* start is between the two.
FollowedByStop(s, p) ==
    \E q \in p + 1 .. Len(s) :
        s[q] = <<"stop", s[p][2]>> /\ \A i \in p + 1 .. q : ~ IsRun(s[i])

\* Starts come in the order of their triggers, a loop takes its first step once,
\* and the starts behind that step are of later triggers.
InOrder(s) ==
    /\ \A p, q \in 1 .. Len(s) : p < q /\ IsRun(s[p]) /\ IsRun(s[q]) => s[p][2] < s[q][2]
    /\ \A p, q \in 1 .. Len(s) : p < q /\ IsStep(s[p]) => s[p] # s[q]
    /\ \A p, q \in 1 .. Len(s) : p < q /\ IsStep(s[p]) /\ IsRun(s[q]) => TriggerOf(s[p][2]) < s[q][2]

\* What is in the FIFO is what is to be done yet.
RunsPending ==
    \A p \in 1 .. Len(ready) : IsRun(ready[p]) =>
        ready[p][2] <= made /\ loop[<<ready[p][2], "run">>] = "none"
StopsPending ==
    \A p \in 1 .. Len(ready) : IsStop(ready[p]) => ready[p][2] <= made /\ ready[p][2] # current
StepsPending ==
    \A p \in 1 .. Len(ready) : IsStep(ready[p]) => loop[ready[p][2]] = "new"

\* Where a loop has got past its first step, earlier starts are over.
RunsAreLater ==
    \A l \in Loop : loop[l] \in {"waiting", "turn"} =>
        \A p \in 1 .. Len(ready) : IsRun(ready[p]) => TriggerOf(l) < ready[p][2]

ReplacedAreStopped ==
    phase # "stopped" =>
        \A p \in 1 .. Len(ready) :
            IsRun(ready[p]) /\ ready[p][2] # current => FollowedByStop(ready, p)

Fifo ==
    /\ InOrder(ready)
    /\ RunsPending
    /\ StopsPending
    /\ StepsPending
    /\ RunsAreLater
    /\ ReplacedAreStopped

-----------------------------------------------------------------------------
(* Triggers, tasks and loops.                                              *)

Made ==
    /\ current \in {None, made}
    /\ \A l \in Loop : loop[l] # "none" => TriggerOf(l) <= made
    /\ \A l \in Loop : loop[l] = "none" => ~ cancelled[l]
    /\ \A k \in Trigger : running[k] => k <= made
    /\ current # None => reg[current] = home

\* Loops that start_all made, and the turns, belong to a part of the agent's life.
Phases ==
    /\ phase = "new" => \A l \in Loop : l[2] = "start" => loop[l] = "none"
    /\ phase = "new" => \A l \in Loop : loop[l] # "turn" /\ (Live(l) /\ l # task => cancelled[l])
    /\ \A l \in Loop : l[2] = "start" /\ loop[l] = "new" /\ l # task => cancelled[l]
    /\ task[2] = "start" => TriggerOf(task) = current /\ phase # "stopped"
    /\ phase = "stopping" /\ task[2] = "start" => awaited = task
    /\ phase = "stopped" /\ task # NoLoop => loop[task] # "turn"

\* A loop that drives the wire, or will again if its turn swallows the
\* cancellation.
MayDrive(l) == Live(l) /\ running[TriggerOf(l)] /\ (~ cancelled[l] \/ loop[l] = "turn")

AtMostOne ==
    /\ \A l \in Loop : MayDrive(l) /\ l # task => StopsFirst(ready, TriggerOf(l))
    /\ \A l, m \in Loop : MayDrive(l) /\ MayDrive(m) => l = m

\* The manager's task drives the installed trigger, or is about to be stopped.
TaskIsCurrent ==
    phase # "stopped" /\ TaskPending /\ running[TriggerOf(task)] /\ TriggerOf(task) # current
        => StopsFirst(ready, TriggerOf(task))

\* Who is started without being installed has its stop pending.
StopIsPending(k) == \E p \in 1 .. Len(ready) : ready[p] = <<"stop", k>>
Started ==
    phase # "stopped" => \A k \in Trigger : running[k] /\ k # current => StopIsPending(k)

\* A subscription is of a started trigger, and a queue on a channel is held by one.
Subscribed ==
    /\ \A k \in Trigger : sub[k] # None => running[k]
    /\ \A r \in Registry : chan[r] # None => \E k \in Trigger : reg[k] = r /\ sub[k] = chan[r]

-----------------------------------------------------------------------------
(* The life of a wire when no call is hasty.                               *)

Unwired ==
    /\ current = None
    /\ task = NoLoop
    /\ ready = <<>> \/ \E j \in Trigger : ready = << <<"stop", j>> >>

Installed ==
    /\ current # None
    /\ task = NoLoop
    /\ ~ running[current]
    /\ \/ ready = << <<"run", current>> >>
       \/ \E j \in Trigger : ready = << <<"stop", j>>, <<"run", current>> >>

Spawned ==
    /\ current # None
    /\ task = <<current, "run">>
    /\ running[current]
    /\ sub[current] = None
    /\ loop[task] = "new"
    /\ ~ cancelled[task]
    /\ ready = << <<"loop", task>> >>

Attached ==
    /\ current # None
    /\ task = <<current, "run">>
    /\ ready = <<>>
    /\ Serves(task)

Unhurried ==
    ~ hasty =>
        /\ phase \in {"new", "running"} => Unwired \/ Installed \/ Spawned \/ Attached
        /\ phase \notin {"new", "running"} => ready = <<>>
        /\ phase = "stopped" => task = NoLoop

IInv ==
    /\ Types
    /\ Fifo
    /\ Made
    /\ Phases
    /\ AtMostOne
    /\ TaskIsCurrent
    /\ Started
    /\ Subscribed
    /\ Unhurried

-----------------------------------------------------------------------------
(* Sequences of entries.                                                   *)

LEMMA Entries ==
    /\ \A k \in Trigger : <<"run", k>> \in Entry /\ <<"stop", k>> \in Entry
    /\ \A l \in Loop : <<"loop", l>> \in Entry
    /\ \A e \in Entry : /\ IsRun(e) => e[2] \in Trigger /\ e = <<"run", e[2]>>
                        /\ IsStop(e) => e[2] \in Trigger /\ e = <<"stop", e[2]>>
                        /\ IsStep(e) => e[2] \in Loop /\ e = <<"loop", e[2]>>
                        /\ IsRun(e) \/ IsStop(e) \/ IsStep(e)
    /\ \A x : /\ IsRun(<<"run", x>>) /\ ~ IsStop(<<"run", x>>) /\ ~ IsStep(<<"run", x>>)
              /\ ~ IsRun(<<"stop", x>>) /\ IsStop(<<"stop", x>>) /\ ~ IsStep(<<"stop", x>>)
              /\ ~ IsRun(<<"loop", x>>) /\ ~ IsStop(<<"loop", x>>) /\ IsStep(<<"loop", x>>)
    /\ \A x, y : <<"run", x>> # <<"stop", y>> /\ <<"loop", x>> # <<"stop", y>>
    /\ \A x, y : <<"loop", x>> = <<"loop", y>> => x = y
    /\ \A x, y : <<"stop", x>> = <<"stop", y>> => x = y
BY DEF Entry, IsRun, IsStop, IsStep

LEMMA Loops ==
    /\ \A l \in Loop : TriggerOf(l) \in Trigger /\ l[2] \in {"run", "start"}
    /\ \A k \in Trigger : <<k, "run">> \in Loop /\ <<k, "start">> \in Loop
    /\ \A k : TriggerOf(<<k, "run">>) = k /\ TriggerOf(<<k, "start">>) = k
    /\ \A k : <<k, "run">>[2] = "run" /\ <<k, "start">>[2] = "start"
    /\ \A l \in Loop : l = <<TriggerOf(l), l[2]>>
    /\ NoLoop \notin Loop /\ NoLoop[2] = "none"
    /\ None \notin Trigger
BY BoundAssumption DEF Loop, TriggerOf, NoLoop, None, Trigger

LEMMA Positions ==
    ASSUME NEW s \in Seq(Entry)
    PROVE  Len(s) \in Nat /\ \A p \in 1 .. Len(s) : s[p] \in Entry
OBVIOUS

LEMMA ShortQueues ==
    \A x, y : /\ Tail(<<x>>) = <<>> /\ Tail(<<x, y>>) = <<y>>
              /\ Append(<<>>, x) = <<x>> /\ Append(<<x>>, y) = <<x, y>>
<1> TAKE x, y
<1>1. Tail(<<x>>) = <<>>
  OBVIOUS
<1>2. Tail(<<x, y>>) = <<y>>
  OBVIOUS
<1>3. Append(<<>>, x) = <<x>>
  OBVIOUS
<1>4. Append(<<x>>, y) = <<x, y>>
  <2>1. <<x>> \in Seq({x, y}) /\ <<x, y>> \in Seq({x, y})
    OBVIOUS
  <2>2. Append(<<x>>, y) = [i \in 1 .. 2 |-> IF i = 2 THEN y ELSE <<x>>[i]]
    BY <2>1
  <2>3. <<x, y>> = [i \in 1 .. 2 |-> IF i = 2 THEN y ELSE <<x>>[i]]
    BY <2>1
  <2> QED BY <2>2, <2>3
<1> QED BY <1>1, <1>2, <1>3, <1>4

LEMMA Appending ==
    ASSUME NEW s \in Seq(Entry), NEW e \in Entry
    PROVE  /\ Append(s, e) \in Seq(Entry)
           /\ Len(Append(s, e)) = Len(s) + 1
           /\ \A p \in 1 .. Len(s) : Append(s, e)[p] = s[p]
           /\ Append(s, e)[Len(s) + 1] = e
OBVIOUS

LEMMA Taking ==
    ASSUME NEW s \in Seq(Entry), s # <<>>
    PROVE  /\ Tail(s) \in Seq(Entry)
           /\ Len(s) >= 1
           /\ Len(Tail(s)) = Len(s) - 1
           /\ \A p \in 1 .. Len(s) - 1 : Tail(s)[p] = s[p + 1]
           /\ Head(s) = s[1] /\ s[1] \in Entry
OBVIOUS

\* What the first entry leaves behind when it is taken.
LEMMA TakingKeepsOrder ==
    ASSUME NEW s \in Seq(Entry), s # <<>>
    PROVE  /\ InOrder(s) => InOrder(Tail(s))
           /\ \A k : StopsFirst(s, k) => ~ IsRun(s[1])
           /\ \A k : StopsFirst(s, k) /\ s[1] # <<"stop", k>> => StopsFirst(Tail(s), k)
           /\ FollowedByStop(s, 1) => StopsFirst(Tail(s), s[1][2])
           /\ \A p \in 1 .. Len(s) - 1 : FollowedByStop(s, p + 1) => FollowedByStop(Tail(s), p)
<1> DEFINE t == Tail(s)
<1>1. /\ Len(s) \in Nat /\ Len(s) >= 1 /\ Len(t) = Len(s) - 1
      /\ \A p \in 1 .. Len(t) : t[p] = s[p + 1] /\ p + 1 \in 1 .. Len(s)
  BY Taking, Positions
<1> HIDE DEF t
<1>2. ASSUME InOrder(s) PROVE InOrder(t)
  <2>1. ASSUME NEW p \in 1 .. Len(t), NEW q \in 1 .. Len(t), p < q
        PROVE  /\ IsRun(t[p]) /\ IsRun(t[q]) => t[p][2] < t[q][2]
               /\ IsStep(t[p]) => t[p] # t[q]
               /\ IsStep(t[p]) /\ IsRun(t[q]) => TriggerOf(t[p][2]) < t[q][2]
    <3>1. /\ t[p] = s[p + 1] /\ p + 1 \in 1 .. Len(s)
          /\ t[q] = s[q + 1] /\ q + 1 \in 1 .. Len(s)
          /\ p + 1 < q + 1
      BY <1>1, <2>1
    <3> QED BY <1>2, <3>1 DEF InOrder
  <2> QED BY <2>1 DEF InOrder
<1>3. ASSUME NEW k, StopsFirst(s, k) PROVE ~ IsRun(s[1])
  BY <1>1, <1>3 DEF StopsFirst
<1>4. ASSUME NEW k, StopsFirst(s, k), s[1] # <<"stop", k>> PROVE StopsFirst(t, k)
  <2>1. PICK p \in 1 .. Len(s) : s[p] = <<"stop", k>> /\ \A q \in 1 .. p : ~ IsRun(s[q])
    BY <1>4 DEF StopsFirst
  <2>2. p - 1 \in 1 .. Len(t) /\ t[p - 1] = <<"stop", k>>
    BY <1>1, <1>4, <2>1
  <2>3. \A q \in 1 .. p - 1 : ~ IsRun(t[q])
    BY <1>1, <2>1
  <2> QED BY <2>2, <2>3 DEF StopsFirst
<1>5. ASSUME FollowedByStop(s, 1) PROVE StopsFirst(t, s[1][2])
  <2>1. PICK q \in 1 + 1 .. Len(s) :
           s[q] = <<"stop", s[1][2]>> /\ \A i \in 1 + 1 .. q : ~ IsRun(s[i])
    BY <1>5 DEF FollowedByStop
  <2>2. q - 1 \in 1 .. Len(t) /\ t[q - 1] = <<"stop", s[1][2]>>
    BY <1>1, <2>1
  <2>3. ASSUME NEW i \in 1 .. q - 1 PROVE ~ IsRun(t[i])
    <3>1. i + 1 \in 1 + 1 .. q /\ i \in 1 .. Len(t)
      BY <1>1, <2>1
    <3> QED BY <1>1, <2>1, <3>1
  <2> QED BY <2>2, <2>3 DEF StopsFirst
<1>6. ASSUME NEW p \in 1 .. Len(s) - 1, FollowedByStop(s, p + 1) PROVE FollowedByStop(t, p)
  <2>1. PICK q \in (p + 1) + 1 .. Len(s) :
           s[q] = <<"stop", s[p + 1][2]>> /\ \A i \in (p + 1) + 1 .. q : ~ IsRun(s[i])
    BY <1>6 DEF FollowedByStop
  <2>2. q - 1 \in p + 1 .. Len(t) /\ t[q - 1] = s[q] /\ t[p] = s[p + 1]
    BY <1>1, <2>1
  <2>3. ASSUME NEW i \in p + 1 .. q - 1 PROVE ~ IsRun(t[i])
    <3>1. i + 1 \in (p + 1) + 1 .. q /\ i \in 1 .. Len(t)
      BY <1>1, <2>1
    <3> QED BY <1>1, <2>1, <3>1
  <2>4. t[q - 1] = <<"stop", t[p][2]>>
    BY <2>1, <2>2
  <2> QED BY <2>2, <2>3, <2>4 DEF FollowedByStop
<1> QED BY <1>2, <1>3, <1>4, <1>5, <1>6 DEF t

\* What an entry that is added at the end leaves alone, and what it completes.
LEMMA AppendingKeepsOrder ==
    ASSUME NEW s \in Seq(Entry), NEW e \in Entry
    PROVE  /\ \A k : StopsFirst(s, k) => StopsFirst(Append(s, e), k)
           /\ \A p \in 1 .. Len(s) : FollowedByStop(s, p) => FollowedByStop(Append(s, e), p)
           /\ \A k : /\ e = <<"stop", k>> /\ \A p \in 1 .. Len(s) : ~ IsRun(s[p])
                     => StopsFirst(Append(s, e), k)
           /\ \A p \in 1 .. Len(s) :
                 /\ e = <<"stop", s[p][2]>> /\ \A q \in p + 1 .. Len(s) : ~ IsRun(s[q])
                 => FollowedByStop(Append(s, e), p)
           /\ /\ InOrder(s)
              /\ IsRun(e) => \A p \in 1 .. Len(s) :
                    /\ IsRun(s[p]) => s[p][2] < e[2]
                    /\ IsStep(s[p]) => TriggerOf(s[p][2]) < e[2]
              /\ IsStep(e) => \A p \in 1 .. Len(s) : s[p] # e
              => InOrder(Append(s, e))
<1> DEFINE t == Append(s, e)
<1>1. /\ Len(s) \in Nat /\ Len(t) = Len(s) + 1
      /\ \A p \in 1 .. Len(s) : t[p] = s[p]
      /\ t[Len(s) + 1] = e
  BY Appending, Positions
<1> HIDE DEF t
<1>2. ASSUME NEW k, StopsFirst(s, k) PROVE StopsFirst(t, k)
  BY <1>1, <1>2 DEF StopsFirst
<1>3. ASSUME NEW p \in 1 .. Len(s), FollowedByStop(s, p) PROVE FollowedByStop(t, p)
  BY <1>1, <1>3 DEF FollowedByStop
<1>4. ASSUME NEW k, e = <<"stop", k>>, \A p \in 1 .. Len(s) : ~ IsRun(s[p])
      PROVE  StopsFirst(t, k)
  <2>1. \A p \in 1 .. Len(t) : ~ IsRun(t[p])
    BY <1>1, <1>4, Entries
  <2> QED BY <1>1, <1>4, <2>1 DEF StopsFirst
<1>5. ASSUME NEW p \in 1 .. Len(s), e = <<"stop", s[p][2]>>,
             \A q \in p + 1 .. Len(s) : ~ IsRun(s[q])
      PROVE  FollowedByStop(t, p)
  <2>1. ASSUME NEW q \in p + 1 .. Len(t) PROVE ~ IsRun(t[q])
    <3>1. CASE q \in p + 1 .. Len(s)
      BY <1>1, <1>5, <3>1
    <3>2. CASE q = Len(s) + 1
      <4>1. t[q] = <<"stop", s[p][2]>>
        BY <1>1, <1>5, <3>2
      <4> QED BY <4>1, Entries
    <3> QED BY <1>1, <3>1, <3>2
  <2>2. Len(t) \in p + 1 .. Len(t) /\ t[Len(t)] = <<"stop", t[p][2]>>
    BY <1>1, <1>5
  <2> QED BY <2>1, <2>2 DEF FollowedByStop
<1>6. ASSUME InOrder(s),
             IsRun(e) => \A p \in 1 .. Len(s) :
                /\ IsRun(s[p]) => s[p][2] < e[2]
                /\ IsStep(s[p]) => TriggerOf(s[p][2]) < e[2],
             IsStep(e) => \A p \in 1 .. Len(s) : s[p] # e
      PROVE  InOrder(t)
  <2>1. ASSUME NEW p \in 1 .. Len(t), NEW q \in 1 .. Len(t), p < q
        PROVE  /\ IsRun(t[p]) /\ IsRun(t[q]) => t[p][2] < t[q][2]
               /\ IsStep(t[p]) => t[p] # t[q]
               /\ IsStep(t[p]) /\ IsRun(t[q]) => TriggerOf(t[p][2]) < t[q][2]
    <3>1. p \in 1 .. Len(s) /\ t[p] = s[p]
      BY <1>1, <2>1
    <3>2. CASE q \in 1 .. Len(s)
      BY <1>1, <1>6, <2>1, <3>1, <3>2 DEF InOrder
    <3>3. CASE q = Len(s) + 1
      <4>1. t[q] = e
        BY <1>1, <3>3
      <4>2. IsStep(t[p]) /\ t[p] = e => IsStep(e)
        BY DEF IsStep
      <4> QED BY <1>6, <3>1, <4>1, <4>2
    <3> QED BY <1>1, <3>2, <3>3
  <2> QED BY <2>1 DEF InOrder
<1> QED BY <1>2, <1>3, <1>4, <1>5, <1>6 DEF t

-----------------------------------------------------------------------------
(* The shapes of the variables, and what a step of a run loop may do.      *)

LEMMA Calling ==
    ASSUME NEW s \in Seq(Entry), NEW c \in Queue
    PROVE  /\ s \o StopOf(c) = IF c = None THEN s ELSE Append(s, <<"stop", c>>)
           /\ \A k \in Trigger :
                 s \o StopOf(c) \o << <<"run", k>> >> = Append(s \o StopOf(c), <<"run", k>>)
           /\ c # None => c \in Trigger
           /\ s \o StopOf(c) \in Seq(Entry)
<1>1. c # None => c \in Trigger
  BY DEF Queue
<1>2. CASE c = None
  BY <1>2, Entries DEF StopOf
<1>3. CASE c # None
  <2>1. StopOf(c) = << <<"stop", c>> >> /\ <<"stop", c>> \in Entry
    BY <1>1, <1>3, Entries DEF StopOf
  <2>2. s \o StopOf(c) = Append(s, <<"stop", c>>) /\ Append(s, <<"stop", c>>) \in Seq(Entry)
    BY <2>1
  <2>3. ASSUME NEW k \in Trigger
        PROVE  s \o StopOf(c) \o << <<"run", k>> >> = Append(s \o StopOf(c), <<"run", k>>)
    BY <2>2, Entries
  <2> QED BY <1>1, <1>3, <2>2, <2>3
<1> QED BY <1>2, <1>3

Subscribes(k) ==
    \/ UNCHANGED <<sub, chan>>
    \/ /\ running[k]
       /\ sub[k] = None
       /\ chan' = [chan EXCEPT ![reg[k]] = IF @ = None THEN k ELSE @]
       /\ sub' = [sub EXCEPT ![k] = chan'[reg[k]]]

\* What every step of loop l has in common.
Moves(l) ==
    /\ UNCHANGED <<hasty, agent, sent, home, made, reg, running, manager>>
    /\ Live(l)
    /\ \E x \in {"waiting", "turn", "done"} : loop' = [loop EXCEPT ![l] = x]
    /\ loop'[l] = "waiting" =>
          /\ running[TriggerOf(l)]
          /\ sub'[TriggerOf(l)] # None
          /\ waitsOn'[l] = sub'[TriggerOf(l)]
    /\ loop'[l] = "turn" => loop[l] = "waiting" /\ phase = "running" /\ UNCHANGED <<sub, chan>>
    /\ loop'[l] = "done" => UNCHANGED <<sub, chan>> /\ (cancelled[l] \/ ~ running[TriggerOf(l)])
    /\ \/ ~ cancelled[l] /\ UNCHANGED cancelled
       \/ /\ cancelled' = [cancelled EXCEPT ![l] = FALSE]
          /\ loop'[l] = "done" \/ loop[l] = "turn"
    /\ Subscribes(TriggerOf(l))
    /\ \E q \in Queue : waitsOn' = [waitsOn EXCEPT ![l] = q]

\* Either it is the first, the next entry of the FIFO, or the loop is past it.
StepsFirst(l) == ready # <<>> /\ ready[1] = <<"loop", l>> /\ ready' = Tail(ready)
StepsOn(l) == loop[l] # "new" /\ UNCHANGED ready

LEMMA ContinueMoves ==
    ASSUME Types, NEW l \in Loop, Continue(l)
    PROVE  /\ \E x \in {"waiting", "done"} : loop' = [loop EXCEPT ![l] = x]
           /\ loop'[l] = "waiting" =>
                 /\ running[TriggerOf(l)]
                 /\ sub'[TriggerOf(l)] # None
                 /\ waitsOn'[l] = sub'[TriggerOf(l)]
           /\ loop'[l] = "done" => UNCHANGED <<sub, chan>> /\ ~ running[TriggerOf(l)]
           /\ loop'[l] # "turn"
           /\ Subscribes(TriggerOf(l))
           /\ \E q \in Queue : waitsOn' = [waitsOn EXCEPT ![l] = q]
<1> DEFINE k == TriggerOf(l)
<1>1. k \in Trigger /\ k # None /\ k \in Queue /\ reg[k] \in Registry /\ chan[reg[k]] \in Queue /\ sub[k] \in Queue
  BY Loops DEF Types, Queue
<1>2. CASE /\ ~ running[k]
           /\ loop' = [loop EXCEPT ![l] = "done"]
           /\ UNCHANGED <<sub, waitsOn, chan>>
  BY <1>2 DEF Types, Subscribes
<1>3. CASE /\ running[k]
           /\ sub[k] # None
           /\ loop' = [loop EXCEPT ![l] = "waiting"]
           /\ waitsOn' = [waitsOn EXCEPT ![l] = sub[k]]
           /\ UNCHANGED <<sub, chan>>
  BY <1>1, <1>3 DEF Types, Subscribes
<1>4. CASE /\ running[k]
           /\ sub[k] = None
           /\ chan' = [chan EXCEPT ![reg[k]] = IF @ = None THEN k ELSE @]
           /\ sub' = [sub EXCEPT ![k] = chan'[reg[k]]]
           /\ loop' = [loop EXCEPT ![l] = "waiting"]
           /\ waitsOn' = [waitsOn EXCEPT ![l] = chan'[reg[k]]]
  <2>1. chan'[reg[k]] \in Queue /\ chan'[reg[k]] # None
    BY <1>1, <1>4 DEF Types
  <2>2. sub'[k] = chan'[reg[k]] /\ waitsOn'[l] = chan'[reg[k]]
    BY <1>1, <1>4 DEF Types
  <2> QED BY <1>4, <2>1, <2>2 DEF Types, Subscribes
<1> QED BY <1>2, <1>3, <1>4 DEF Continue

LEMMA EndMoves ==
    ASSUME Types, NEW l \in Loop, End(l), cancelled[l], Live(l),
           UNCHANGED <<hasty, agent, sent, home, made, reg, running, manager>>
    PROVE  Moves(l)
<1>1. waitsOn' = [waitsOn EXCEPT ![l] = waitsOn[l]] /\ waitsOn[l] \in Queue
  BY DEF Types, End
<1>2. loop'[l] = "done"
  BY DEF Types, End
<1> QED BY <1>1, <1>2 DEF End, Moves, Subscribes

LEMMA LoopMoves ==
    ASSUME Types, StepsPending, NEW l \in Loop, LoopStep(l)
    PROVE  Moves(l) /\ (StepsFirst(l) \/ StepsOn(l))
<1>1. CASE LoopTask(l)
  <2>1. StepsFirst(l) /\ loop[l] = "new"
    <3>1. ready # <<>> /\ ready[1] = <<"loop", l>> /\ ready' = Tail(ready) /\ 1 \in 1 .. Len(ready)
      BY <1>1, Taking, Positions DEF LoopTask, Types
    <3>2. IsStep(ready[1]) /\ ready[1][2] = l
      BY <3>1 DEF IsStep
    <3> QED BY <3>1, <3>2 DEF StepsFirst, StepsPending
  <2>2. UNCHANGED <<hasty, agent, sent, home, made, reg, running, manager>>
    BY <1>1 DEF LoopTask
  <2>3. CASE cancelled[l] /\ End(l)
    BY <2>1, <2>2, <2>3, EndMoves DEF Live
  <2>4. CASE ~ cancelled[l] /\ Continue(l) /\ UNCHANGED cancelled
    BY <2>1, <2>2, <2>4, ContinueMoves DEF Moves, Live
  <2> QED BY <1>1, <2>1, <2>3, <2>4 DEF LoopTask
<1>2. CASE Receive(l)
  <2>1. StepsOn(l) /\ loop[l] = "waiting" /\ ~ cancelled[l]
    BY <1>2 DEF Receive, StepsOn
  <2>2. UNCHANGED <<hasty, agent, sent, home, made, reg, running, manager>> /\ UNCHANGED cancelled
    BY <1>2 DEF Receive
  <2>3. CASE phase = "running" /\ loop' = [loop EXCEPT ![l] = "turn"] /\ UNCHANGED <<sub, waitsOn, chan>>
    <3>1. waitsOn' = [waitsOn EXCEPT ![l] = waitsOn[l]] /\ waitsOn[l] \in Queue /\ loop'[l] = "turn"
      BY <2>3 DEF Types
    <3> QED BY <2>1, <2>2, <2>3, <3>1 DEF Moves, Live, Subscribes
  <2>4. CASE Continue(l)
    BY <2>1, <2>2, <2>4, ContinueMoves DEF Moves, Live
  <2> QED BY <1>2, <2>1, <2>3, <2>4 DEF Receive
<1>3. CASE Timeout(l)
  BY <1>3, ContinueMoves DEF Timeout, Moves, Live, StepsOn
<1>4. CASE TurnEnds(l)
  BY <1>4, ContinueMoves DEF TurnEnds, Moves, Live, StepsOn
<1>5. CASE CancelDelivered(l)
  <2>1. StepsOn(l) /\ cancelled[l] /\ Live(l)
    BY <1>5 DEF CancelDelivered, StepsOn, Live
  <2>2. UNCHANGED <<hasty, agent, sent, home, made, reg, running, manager>>
    BY <1>5 DEF CancelDelivered
  <2>3. CASE End(l)
    BY <2>1, <2>2, <2>3, EndMoves
  <2>4. CASE loop[l] = "turn" /\ cancelled' = [cancelled EXCEPT ![l] = FALSE] /\ Continue(l)
    BY <2>1, <2>2, <2>4, ContinueMoves DEF Moves
  <2> QED BY <1>5, <2>1, <2>3, <2>4 DEF CancelDelivered
<1> QED BY <1>1, <1>2, <1>3, <1>4, <1>5 DEF LoopStep

LEMMA MovesKeepTypes ==
    ASSUME Types, NEW l \in Loop, Moves(l), StepsFirst(l) \/ StepsOn(l),
           backlog' \in [Trigger -> Nat]
    PROVE  Types'
<1>1. ready' \in Seq(Entry)
  BY Taking DEF Types, StepsFirst, StepsOn
<1>2. sub' \in [Trigger -> Queue] /\ chan' \in [Registry -> Queue]
  <2>1. CASE UNCHANGED <<sub, chan>>
    BY <2>1 DEF Types
  <2>2. CASE /\ chan' = [chan EXCEPT ![reg[TriggerOf(l)]] = IF @ = None THEN TriggerOf(l) ELSE @]
             /\ sub' = [sub EXCEPT ![TriggerOf(l)] = chan'[reg[TriggerOf(l)]]]
    <3>1. TriggerOf(l) \in Trigger /\ reg[TriggerOf(l)] \in Registry
      BY Loops DEF Types
    <3>2. chan' \in [Registry -> Queue]
      BY <2>2, <3>1 DEF Types, Queue
    <3> QED BY <2>2, <3>1, <3>2 DEF Types
  <2> QED BY <2>1, <2>2 DEF Moves, Subscribes
<1>3. loop' \in [Loop -> {"none", "new", "waiting", "turn", "done"}]
  BY DEF Types, Moves
<1>4. cancelled' \in [Loop -> BOOLEAN] /\ waitsOn' \in [Loop -> Queue]
  BY DEF Types, Moves
<1> QED BY <1>1, <1>2, <1>3, <1>4 DEF Types, Moves, agent, manager

LEMMA BacklogKeepsType ==
    ASSUME Types, NEW l \in Loop, LoopStep(l)
    PROVE  backlog' \in [Trigger -> Nat]
BY DEF Types, LoopStep, LoopTask, End, Receive, Timeout, TurnEnds, CancelDelivered

\* _teardown_existing_trigger takes the task out of the table and cancels it.
LEMMA TeardownCancels ==
    ASSUME Types, Teardown
    PROVE  /\ task' = IF current = None THEN task ELSE NoLoop
           /\ cancelled' \in [Loop -> BOOLEAN]
           /\ \A l \in Loop : cancelled[l] => cancelled'[l]
           /\ \A l \in Loop : cancelled'[l] => cancelled[l] \/ Live(l)
           /\ current # None => \A l \in Loop : l = task /\ Live(l) => cancelled'[l]
           /\ current = None => UNCHANGED cancelled
<1>1. CASE current # None /\ TaskPending
  <2>1. task \in Loop /\ cancelled' = [cancelled EXCEPT ![task] = TRUE] /\ Live(task)
    BY <1>1 DEF Teardown, Types, TaskPending
  <2> QED BY <1>1, <2>1 DEF Teardown, Types
<1>2. CASE ~ (current # None /\ TaskPending)
  <2>1. cancelled' = cancelled
    BY <1>2 DEF Teardown
  <2>2. current # None => \A l \in Loop : ~ (l = task /\ Live(l))
    BY <1>2, Loops DEF TaskPending
  <2> QED BY <2>1, <2>2 DEF Teardown, Types
<1> QED BY <1>1, <1>2

LEMMA StopTypes ==
    ASSUME Types, NEW k \in Trigger, Stop(k)
    PROVE  /\ running' \in [Trigger -> BOOLEAN] /\ sub' \in [Trigger -> Queue]
           /\ chan' \in [Registry -> Queue]
           /\ \A j \in Trigger : running'[j] = (running[j] /\ j # k)
           /\ \A j \in Trigger : sub'[j] = IF j = k THEN None ELSE sub[j]
           /\ \A r \in Registry : chan'[r] = IF r = reg[k] /\ sub[k] # None THEN None ELSE chan[r]
BY DEF Types, Stop, Queue

LEMMA Typing == Types /\ StepsPending /\ [Next]_vars => Types'
<1> SUFFICES ASSUME Types, StepsPending, [Next]_vars PROVE Types'
  OBVIOUS
<1>1. ASSUME NEW r \in Registry, Inject(r) PROVE Types'
  <2>1. made + 1 \in Trigger /\ made + 1 \in Queue /\ made' = made + 1 /\ made' \in 0 .. MaxTriggers
    BY <1>1, BoundAssumption DEF Inject, Types, Trigger, Queue
  <2>2. ready' = Append(ready \o StopOf(current), <<"run", made + 1>>)
    BY <1>1, <2>1, Calling DEF Inject, Types
  <2>3. ready \o StopOf(current) \in Seq(Entry)
    BY Calling DEF Types
  <2>4. ready' \in Seq(Entry)
    BY <2>1, <2>2, <2>3, Appending, Entries
  <2>5. hasty' \in BOOLEAN
    BY <1>1 DEF Inject, Called, Types
  <2>6. task' \in Loop \cup {NoLoop} /\ cancelled' \in [Loop -> BOOLEAN]
    BY <1>1, TeardownCancels DEF Inject, Types
  <2>7. reg' \in [Trigger -> Registry] /\ current' \in Queue /\ home' \in Registry
    BY <1>1, <2>1 DEF Inject, Types
  <2> QED BY <1>1, <2>1, <2>4, <2>5, <2>6, <2>7 DEF Inject, Types, agent, channel
<1>2. CASE Remove
  <2>1. ready' \in Seq(Entry)
    BY <1>2, Calling DEF Remove, Types
  <2>2. hasty' \in BOOLEAN
    BY <1>2 DEF Remove, Called, Types
  <2>3. task' \in Loop \cup {NoLoop} /\ cancelled' \in [Loop -> BOOLEAN]
    BY <1>2, TeardownCancels DEF Remove, Types
  <2>4. current' \in Queue
    BY <1>2 DEF Remove, Queue
  <2> QED BY <1>2, <2>1, <2>2, <2>3, <2>4 DEF Remove, Types, agent, trigger, channel
<1>3. CASE Send
  <2>1. backlog' \in [Trigger -> Nat] /\ sent' \in 0 .. MaxSends
    BY <1>3, BoundAssumption DEF Send, Types, Queue
  <2> QED BY <1>3, <2>1 DEF Send, Types, agent, trigger, manager, loops
<1>4. ASSUME NEW k \in Trigger, RunTask(k) PROVE Types'
  <2>1. Tail(ready) \in Seq(Entry) /\ <<k, "run">> \in Loop
    BY <1>4, Taking, Loops DEF RunTask, Types
  <2>2. ready' \in Seq(Entry)
    <3>1. <<"loop", <<k, "run">> >> \in Entry
      BY <2>1, Entries
    <3>2. Append(Tail(ready), <<"loop", <<k, "run">> >>) \in Seq(Entry)
      BY <2>1, <3>1, Appending
    <3> QED BY <1>4, <2>1, <3>2 DEF RunTask
  <2>3. task' \in Loop \cup {NoLoop} /\ loop' \in [Loop -> {"none", "new", "waiting", "turn", "done"}]
    BY <1>4, <2>1 DEF RunTask, NewLoop, Types
  <2>4. running' \in [Trigger -> BOOLEAN]
    BY <1>4 DEF RunTask, Types
  <2> QED BY <1>4, <2>2, <2>3, <2>4 DEF RunTask, Types, agent, channel
<1>5. ASSUME NEW k \in Trigger, StopTask(k) PROVE Types'
  <2>1. ready' \in Seq(Entry)
    BY <1>5, Taking DEF StopTask, Types
  <2> QED BY <1>5, <2>1, StopTypes DEF StopTask, Types, agent, manager, loops
<1>6. ASSUME NEW l \in Loop, LoopStep(l) PROVE Types'
  <2>1. backlog' \in [Trigger -> Nat]
    BY <1>6, BacklogKeepsType
  <2> QED BY <1>6, <2>1, LoopMoves, MovesKeepTypes
<1>7. CASE StartAll
  <2>1. hasty' \in BOOLEAN /\ phase' = "running"
    BY <1>7 DEF StartAll, Called, Types
  <2>2. CASE /\ current # None /\ task = NoLoop
             /\ running' = [running EXCEPT ![current] = TRUE]
             /\ NewLoop(<<current, "start">>)
             /\ ready' = Append(ready, <<"loop", <<current, "start">> >>)
    <3>1. current \in Trigger /\ <<current, "start">> \in Loop
      BY <2>2, Loops DEF Types, Queue
    <3>2. ready' \in Seq(Entry)
      BY <2>2, <3>1, Appending, Entries DEF Types
    <3>3. running' \in [Trigger -> BOOLEAN] /\ task' \in Loop
          /\ loop' \in [Loop -> {"none", "new", "waiting", "turn", "done"}]
      BY <2>2, <3>1 DEF NewLoop, Types
    <3> QED BY <1>7, <2>1, <3>2, <3>3 DEF StartAll, Types, channel
  <2>3. CASE UNCHANGED <<running, task, loop, ready>>
    BY <1>7, <2>1, <2>3 DEF StartAll, Types, channel
  <2> QED BY <1>7, <2>2, <2>3 DEF StartAll
<1>8. CASE Close
  BY <1>8 DEF Close, Called, Types, trigger, manager, loops, channel
<1>9. ASSUME StopTriggers, UNCHANGED <<hasty, sent, home, made, reg, loop, cancelled, waitsOn, backlog, ready>>
      PROVE  Types'
  <2>1. running' \in [Trigger -> BOOLEAN] /\ sub' \in [Trigger -> Queue] /\ chan' \in [Registry -> Queue]
    <3>1. CASE current # None /\ Stop(current)
      BY <3>1, StopTypes DEF Types, Queue
    <3>2. CASE UNCHANGED <<running, sub, chan>>
      BY <3>2 DEF Types
    <3> QED BY <1>9, <3>1, <3>2 DEF StopTriggers
  <2>2. /\ phase' = "stopped" /\ current' \in Queue
        /\ task' \in Loop \cup {NoLoop} /\ awaited' \in Loop \cup {NoLoop}
    BY <1>9 DEF StopTriggers, Queue
  <2> QED BY <1>9, <2>1, <2>2 DEF Types
<1>10. CASE StopAll
  <2>1. CASE task = NoLoop /\ StopTriggers /\ UNCHANGED cancelled
    BY <1>9, <1>10, <2>1 DEF StopAll
  <2>2. CASE /\ task # NoLoop
             /\ phase' = "stopping"
             /\ cancelled' = IF Live(task) THEN [cancelled EXCEPT ![task] = TRUE] ELSE cancelled
             /\ awaited' = task
             /\ UNCHANGED <<manager, running, sub, chan>>
    <3>1. cancelled' \in [Loop -> BOOLEAN]
      BY <2>2 DEF Types
    <3> QED BY <1>10, <2>2, <3>1 DEF StopAll, Types, manager
  <2> QED BY <1>10, <2>1, <2>2 DEF StopAll
<1>11. CASE StopAllReturns
  BY <1>9, <1>11 DEF StopAllReturns, loops
<1>12. CASE UNCHANGED vars
  BY <1>12 DEF vars, Types, agent, trigger, manager, loops, channel
<1> QED
  BY <1>1, <1>2, <1>3, <1>4, <1>5, <1>6, <1>7, <1>8, <1>10, <1>11, <1>12 DEF Next, Call, TaskStep

-----------------------------------------------------------------------------
(* A step of a run loop keeps the invariant.                               *)

\* What is known of the rest of the FIFO when its first entry is taken.
LEMMA Taken ==
    ASSUME Types, InOrder(ready), ready # <<>>, ready' = Tail(ready)
    PROVE  /\ InOrder(ready')
           /\ 1 \in 1 .. Len(ready) /\ ready[1] \in Entry /\ Head(ready) = ready[1]
           /\ \A p \in 1 .. Len(ready') :
                 /\ p + 1 \in 1 .. Len(ready) /\ ready'[p] = ready[p + 1]
                 /\ ready'[p] \in Entry
                 /\ IsStep(ready[1]) => ready'[p] # ready[1]
                 /\ IsRun(ready[1]) /\ IsRun(ready'[p]) => ready[1][2] < ready'[p][2]
                 /\ IsStep(ready[1]) /\ IsRun(ready'[p]) => TriggerOf(ready[1][2]) < ready'[p][2]
                 /\ FollowedByStop(ready, p + 1) => FollowedByStop(ready', p)
           /\ \A p \in 1 .. Len(ready) : p # 1 => p - 1 \in 1 .. Len(ready') /\ ready'[p - 1] = ready[p]
           /\ \A k : StopsFirst(ready, k) => ~ IsRun(ready[1])
           /\ \A k : StopsFirst(ready, k) /\ ready[1] # <<"stop", k>> => StopsFirst(ready', k)
           /\ FollowedByStop(ready, 1) => StopsFirst(ready', ready[1][2])
<1>1. /\ Len(ready) \in Nat /\ Len(ready) >= 1 /\ Len(ready') = Len(ready) - 1
      /\ \A p \in 1 .. Len(ready) - 1 : ready'[p] = ready[p + 1]
      /\ Head(ready) = ready[1] /\ ready[1] \in Entry
      /\ \A p \in 1 .. Len(ready) : ready[p] \in Entry
  BY Taking, Positions DEF Types
<1>2. /\ InOrder(ready')
      /\ \A k : StopsFirst(ready, k) => ~ IsRun(ready[1])
      /\ \A k : StopsFirst(ready, k) /\ ready[1] # <<"stop", k>> => StopsFirst(ready', k)
      /\ FollowedByStop(ready, 1) => StopsFirst(ready', ready[1][2])
      /\ \A p \in 1 .. Len(ready) - 1 : FollowedByStop(ready, p + 1) => FollowedByStop(ready', p)
  BY TakingKeepsOrder DEF Types
<1>3. \A p \in 1 .. Len(ready) : p # 1 => p - 1 \in 1 .. Len(ready') /\ ready'[p - 1] = ready[p]
  BY <1>1
<1>4. ASSUME NEW p \in 1 .. Len(ready')
      PROVE  /\ p + 1 \in 1 .. Len(ready) /\ ready'[p] = ready[p + 1]
             /\ ready'[p] \in Entry
             /\ IsStep(ready[1]) => ready'[p] # ready[1]
             /\ IsRun(ready[1]) /\ IsRun(ready'[p]) => ready[1][2] < ready'[p][2]
             /\ IsStep(ready[1]) /\ IsRun(ready'[p]) => TriggerOf(ready[1][2]) < ready'[p][2]
             /\ FollowedByStop(ready, p + 1) => FollowedByStop(ready', p)
  <2>1. p + 1 \in 1 .. Len(ready) /\ ready'[p] = ready[p + 1] /\ 1 < p + 1 /\ p \in 1 .. Len(ready) - 1
    BY <1>1
  <2>2. 1 \in 1 .. Len(ready)
    BY <1>1
  <2> QED BY <1>1, <1>2, <2>1, <2>2 DEF InOrder
<1> QED BY <1>1, <1>2, <1>3, <1>4

LEMMA MovesKeepFifo ==
    ASSUME IInv, NEW l \in Loop, Moves(l), StepsFirst(l) \/ StepsOn(l)
    PROVE  Fifo'
<1> USE DEF IInv
<1>1. /\ made' = made /\ current' = current /\ phase' = phase
      /\ \A m \in Loop : m # l => loop'[m] = loop[m]
      /\ loop[l] \in {"new", "waiting", "turn"} /\ loop'[l] \in {"waiting", "turn", "done"}
  BY DEF Moves, Types, Live, agent, manager
<1>2. CASE StepsFirst(l)
  <2>1. ready # <<>> /\ ready[1] = <<"loop", l>> /\ ready' = Tail(ready)
    BY <1>2 DEF StepsFirst
  <2>2. IsStep(ready[1]) /\ ready[1][2] = l
    BY <2>1 DEF IsStep
  <2>3. InOrder(ready')
    BY <2>1, Taken DEF Fifo
  <2>4. \A p \in 1 .. Len(ready') :
           /\ p + 1 \in 1 .. Len(ready) /\ ready'[p] = ready[p + 1]
           /\ ready'[p] \in Entry
           /\ ready'[p] # ready[1]
           /\ IsRun(ready'[p]) => TriggerOf(l) < ready'[p][2]
           /\ FollowedByStop(ready, p + 1) => FollowedByStop(ready', p)
    BY <2>1, <2>2, Taken DEF Fifo
  <2>5. RunsPending'
    <3>1. ASSUME NEW p \in 1 .. Len(ready'), IsRun(ready'[p])
          PROVE  ready'[p][2] <= made /\ loop'[<<ready'[p][2], "run">>] = "none"
      <4>1. ready'[p][2] <= made /\ loop[<<ready'[p][2], "run">>] = "none" /\ ready'[p][2] \in Trigger
        BY <2>4, <3>1, Entries DEF Fifo, RunsPending
      <4> QED BY <1>1, <4>1, Loops
    <3> QED BY <1>1, <3>1 DEF RunsPending
  <2>6. StopsPending'
    BY <1>1, <2>4 DEF Fifo, StopsPending
  <2>7. StepsPending'
    <3>1. ASSUME NEW p \in 1 .. Len(ready'), IsStep(ready'[p]) PROVE loop'[ready'[p][2]] = "new"
      <4>1. loop[ready'[p][2]] = "new" /\ ready'[p][2] \in Loop
        BY <2>4, <3>1, Entries DEF Fifo, StepsPending
      <4>2. ready'[p][2] # l
        <5>1. ready'[p] = <<"loop", ready'[p][2]>>
          BY <2>4, <3>1, Entries
        <5> QED BY <2>1, <2>4, <5>1
      <4> QED BY <1>1, <4>1, <4>2
    <3> QED BY <3>1 DEF StepsPending
  <2>8. RunsAreLater'
    <3>1. ASSUME NEW m \in Loop, loop'[m] \in {"waiting", "turn"},
                 NEW p \in 1 .. Len(ready'), IsRun(ready'[p])
          PROVE  TriggerOf(m) < ready'[p][2]
      <4>1. CASE m = l
        BY <2>4, <3>1, <4>1
      <4>2. CASE m # l
        BY <1>1, <2>4, <3>1, <4>2 DEF Fifo, RunsAreLater
      <4> QED BY <4>1, <4>2
    <3> QED BY <3>1 DEF RunsAreLater
  <2>9. ReplacedAreStopped'
    BY <1>1, <2>4 DEF Fifo, ReplacedAreStopped
  <2> QED BY <2>3, <2>5, <2>6, <2>7, <2>8, <2>9 DEF Fifo
<1>3. CASE StepsOn(l)
  <2>1. ready' = ready /\ loop[l] \in {"waiting", "turn"}
    BY <1>1, <1>3 DEF StepsOn
  <2>2. \A p \in 1 .. Len(ready) : ready[p] \in Entry
    BY Positions DEF Types
  <2>3. RunsPending'
    <3>1. ASSUME NEW p \in 1 .. Len(ready), IsRun(ready[p])
          PROVE  loop'[<<ready[p][2], "run">>] = "none"
      <4>1. loop[<<ready[p][2], "run">>] = "none" /\ ready[p][2] \in Trigger
        BY <2>2, <3>1, Entries DEF Fifo, RunsPending
      <4> QED BY <1>1, <4>1, Loops
    <3> QED BY <1>1, <2>1, <3>1 DEF Fifo, RunsPending
  <2>4. StepsPending'
    <3>1. ASSUME NEW p \in 1 .. Len(ready), IsStep(ready[p]) PROVE loop'[ready[p][2]] = "new"
      <4>1. loop[ready[p][2]] = "new" /\ ready[p][2] \in Loop
        BY <2>2, <3>1, Entries DEF Fifo, StepsPending
      <4> QED BY <1>1, <2>1, <4>1
    <3> QED BY <2>1, <3>1 DEF StepsPending
  <2>5. RunsAreLater'
    BY <1>1, <2>1 DEF Fifo, RunsAreLater
  <2>6. InOrder(ready)' /\ StopsPending' /\ ReplacedAreStopped'
    BY <1>1, <2>1 DEF Fifo, StopsPending, ReplacedAreStopped
  <2> QED BY <2>3, <2>4, <2>5, <2>6 DEF Fifo
<1> QED BY <1>2, <1>3

\* A loop that may drive after its step could before.
LEMMA MovesNeverDrive ==
    ASSUME IInv, NEW l \in Loop, Moves(l)
    PROVE  /\ \A m \in Loop : MayDrive(m)' => MayDrive(m)
           /\ \A m \in Loop : Live(m)' => Live(m)
           /\ loop'[l] = "waiting" => MayDrive(l)
           /\ loop'[l] = "turn" => ~ cancelled[l]
<1> USE DEF IInv
<1>1. running' = running /\ Live(l)
  BY DEF Moves
<1>2. \A m \in Loop : m # l => loop'[m] = loop[m] /\ cancelled'[m] = cancelled[m]
  BY DEF Moves, Types
<1>3. \/ ~ cancelled[l] /\ cancelled'[l] = cancelled[l]
      \/ loop'[l] = "done" \/ loop[l] = "turn"
  BY DEF Moves
<1>4. \A m \in Loop : Live(m)' => Live(m)
  BY <1>1, <1>2 DEF Live
<1>5. ASSUME NEW m \in Loop, MayDrive(m)' PROVE MayDrive(m)
  BY <1>1, <1>2, <1>3, <1>5 DEF MayDrive, Live
<1>6. loop'[l] = "waiting" => MayDrive(l)
  BY <1>1, <1>3 DEF MayDrive, Moves
<1>7. loop'[l] = "turn" => ~ cancelled[l]
  BY <1>3 DEF Moves
<1> QED BY <1>4, <1>5, <1>6, <1>7

\* Only a loop that may drive subscribes its trigger; a task that does is past
\* its first step.
LEMMA SubscribersMayDrive ==
    ASSUME IInv, NEW l \in Loop, Moves(l)
    PROVE  \/ UNCHANGED <<sub, chan>>
           \/ /\ MayDrive(l) /\ loop'[l] = "waiting"
              /\ sub[TriggerOf(l)] = None
              /\ TriggerOf(l) \in Trigger /\ reg[TriggerOf(l)] \in Registry
              /\ sub' = [sub EXCEPT ![TriggerOf(l)] = chan'[reg[TriggerOf(l)]]]
              /\ chan' = [chan EXCEPT ![reg[TriggerOf(l)]] = IF @ = None THEN TriggerOf(l) ELSE @]
              /\ chan'[reg[TriggerOf(l)]] # None
<1> USE DEF IInv
<1>1. /\ TriggerOf(l) \in Trigger /\ TriggerOf(l) # None
      /\ reg[TriggerOf(l)] \in Registry
  BY Loops DEF Types
<1>2. loop'[l] \in {"waiting", "turn", "done"}
  BY DEF Moves, Types
<1>3. CASE loop'[l] # "waiting"
  BY <1>2, <1>3 DEF Moves
<1>4. CASE loop'[l] = "waiting" /\ ~ UNCHANGED <<sub, chan>>
  <2>1. /\ sub[TriggerOf(l)] = None
        /\ sub' = [sub EXCEPT ![TriggerOf(l)] = chan'[reg[TriggerOf(l)]]]
        /\ chan' = [chan EXCEPT ![reg[TriggerOf(l)]] = IF @ = None THEN TriggerOf(l) ELSE @]
    BY <1>4 DEF Moves, Subscribes
  <2>2. chan'[reg[TriggerOf(l)]] # None
    BY <1>1, <2>1 DEF Types
  <2> QED BY <1>1, <1>4, <2>1, <2>2, MovesNeverDrive
<1> QED BY <1>3, <1>4

LEMMA MovesKeepSubscribed ==
    ASSUME IInv, NEW l \in Loop, Moves(l)
    PROVE  Subscribed'
<1> USE DEF IInv
<1>1. reg' = reg /\ running' = running
  BY DEF Moves
<1>2. CASE UNCHANGED <<sub, chan>>
  BY <1>1, <1>2 DEF Subscribed
<1>3. ASSUME NEW k \in Trigger, MayDrive(l), k = TriggerOf(l), sub[k] = None, reg[k] \in Registry,
             sub' = [sub EXCEPT ![k] = chan'[reg[k]]],
             chan' = [chan EXCEPT ![reg[k]] = IF @ = None THEN k ELSE @],
             chan'[reg[k]] # None
      PROVE  Subscribed'
  <2>1. \A j \in Trigger : sub'[j] # None => running'[j]
    BY <1>1, <1>3 DEF Types, Subscribed, MayDrive
  <2>2. ASSUME NEW r \in Registry, chan'[r] # None
        PROVE  \E j \in Trigger : reg'[j] = r /\ sub'[j] = chan'[r]
    <3>1. CASE r = reg[k]
      BY <1>1, <1>3, <3>1 DEF Types
    <3>2. CASE r # reg[k]
      <4>1. chan'[r] = chan[r]
        BY <1>3, <3>2 DEF Types
      <4>2. PICK j \in Trigger : reg[j] = r /\ sub[j] = chan[r]
        BY <2>2, <4>1 DEF Subscribed
      <4>3. sub'[j] = sub[j]
        BY <1>3, <3>2, <4>2 DEF Types
      <4> QED BY <1>1, <4>1, <4>2, <4>3
    <3> QED BY <3>1, <3>2
  <2> QED BY <2>1, <2>2 DEF Subscribed
<1> QED BY <1>2, <1>3, SubscribersMayDrive

LEMMA MovesKeepPhases ==
    ASSUME IInv, NEW l \in Loop, Moves(l)
    PROVE  Phases' /\ Made'
<1> USE DEF IInv
<1>1. /\ UNCHANGED <<phase, awaited, made, home, reg, running, current, task>>
      /\ Live(l)
      /\ loop'[l] \in {"waiting", "turn", "done"} /\ loop[l] \in {"new", "waiting", "turn"}
      /\ \A m \in Loop : m # l => loop'[m] = loop[m] /\ cancelled'[m] = cancelled[m]
      /\ loop'[l] = "turn" => phase = "running"
      /\ \/ ~ cancelled[l] /\ cancelled'[l] = cancelled[l]
         \/ loop'[l] = "done" \/ loop[l] = "turn"
  BY DEF Moves, Types, Live, agent, manager
<1>2. Made'
  BY <1>1 DEF Made
<1>3. phase' = "new" => \A m \in Loop : m[2] = "start" => loop'[m] = "none"
  BY <1>1 DEF Phases
<1>4. phase' = "new" => \A m \in Loop : loop'[m] # "turn" /\ (Live(m)' /\ m # task' => cancelled'[m])
  <2>1. ASSUME phase = "new", NEW m \in Loop
        PROVE  loop'[m] # "turn" /\ (Live(m)' /\ m # task => cancelled'[m])
    <3>1. loop[m] # "turn" /\ (Live(m) /\ m # task => cancelled[m])
      BY <2>1 DEF Phases
    <3>2. CASE m = l
      BY <1>1, <2>1, <3>1, <3>2 DEF Live
    <3>3. CASE m # l
      BY <1>1, <3>1, <3>3 DEF Live
    <3> QED BY <3>2, <3>3
  <2> QED BY <1>1, <2>1
<1>5. \A m \in Loop : m[2] = "start" /\ loop'[m] = "new" /\ m # task' => cancelled'[m]
  BY <1>1 DEF Phases
<1>6. /\ task'[2] = "start" => TriggerOf(task') = current' /\ phase' # "stopped"
      /\ phase' = "stopping" /\ task'[2] = "start" => awaited' = task'
  BY <1>1 DEF Phases
<1>7. phase' = "stopped" /\ task' # NoLoop => loop'[task'] # "turn"
  BY <1>1 DEF Phases, Types
<1> QED BY <1>2, <1>3, <1>4, <1>5, <1>6, <1>7 DEF Phases

LEMMA MovesKeepDrivers ==
    ASSUME IInv, NEW l \in Loop, Moves(l), StepsFirst(l) \/ StepsOn(l)
    PROVE  AtMostOne' /\ TaskIsCurrent' /\ Started'
<1> USE DEF IInv
<1>1. /\ \A m \in Loop : MayDrive(m)' => MayDrive(m)
      /\ \A m \in Loop : Live(m)' => Live(m)
      /\ UNCHANGED <<phase, running, current, task>>
  BY MovesNeverDrive DEF Moves, agent, manager
<1>2. /\ \A k : StopsFirst(ready, k) => StopsFirst(ready', k)
      /\ \A k \in Trigger : StopIsPending(k) => StopIsPending(k)'
  <2>1. CASE StepsFirst(l)
    <3>1. ready # <<>> /\ ready[1] = <<"loop", l>> /\ ready' = Tail(ready)
      BY <2>1 DEF StepsFirst
    <3>2. \A k : ready[1] # <<"stop", k>>
      BY <3>1, Entries
    <3>3. \A p \in 1 .. Len(ready) : p # 1 => p - 1 \in 1 .. Len(ready') /\ ready'[p - 1] = ready[p]
      BY <3>1, Taken DEF Fifo
    <3>4. \A k : StopsFirst(ready, k) => StopsFirst(ready', k)
      BY <3>1, <3>2, Taken DEF Fifo
    <3> QED BY <3>2, <3>3, <3>4 DEF StopIsPending
  <2>2. CASE StepsOn(l)
    BY <2>2 DEF StepsOn, StopIsPending
  <2> QED BY <2>1, <2>2
<1>3. AtMostOne'
  BY <1>1, <1>2 DEF AtMostOne
<1>4. TaskIsCurrent'
  BY <1>1, <1>2 DEF TaskIsCurrent, TaskPending, Types
<1>5. Started'
  BY <1>1, <1>2 DEF Started
<1> QED BY <1>3, <1>4, <1>5

\* A FIFO without a stop leaves nobody but the task to drive.
LEMMA OnlyTheTaskDrives ==
    ASSUME IInv, NEW l \in Loop, MayDrive(l), \A p \in 1 .. Len(ready) : ~ IsStop(ready[p])
    PROVE  l = task
<1>1. ~ StopsFirst(ready, TriggerOf(l))
  BY DEF StopsFirst, IsStop
<1> QED BY <1>1 DEF IInv, AtMostOne

LEMMA MovesKeepUnhurried ==
    ASSUME IInv, NEW l \in Loop, Moves(l), StepsFirst(l) \/ StepsOn(l)
    PROVE  Unhurried'
<1> USE DEF IInv
<1>1. UNCHANGED <<hasty, phase, home, reg, running, current, task>>
  BY DEF Moves, agent, manager
<1>2. StepsFirst(l) => ready # <<>> /\ ready[1] = <<"loop", l>>
  BY DEF StepsFirst
<1>3. StepsFirst(l) => \A k : ready[1] # <<"run", k>> /\ ready[1] # <<"stop", k>>
  BY <1>2, Entries
<1>4. /\ \A m \in Loop : m # l => loop'[m] = loop[m] /\ cancelled'[m] = cancelled[m] /\ waitsOn'[m] = waitsOn[m]
      /\ loop'[l] \in {"waiting", "turn", "done"}
  BY DEF Moves, Types
<1>5. CASE ~ hasty /\ phase \notin {"new", "running"}
  BY <1>1, <1>2, <1>5 DEF Unhurried, StepsOn
<1>6. CASE ~ hasty /\ phase \in {"new", "running"}
  <2>1. CASE Unwired
    <3>1. StepsOn(l)
      BY <1>2, <1>3, <2>1 DEF Unwired
    <3> QED BY <1>1, <1>6, <2>1, <3>1 DEF Unhurried, Unwired, StepsOn
  <2>2. CASE Installed
    <3>1. StepsOn(l)
      BY <1>2, <1>3, <2>2 DEF Installed
    <3> QED BY <1>1, <1>6, <2>2, <3>1 DEF Unhurried, Installed, StepsOn
  <2>3. CASE Spawned
    <3>1. /\ current \in Trigger /\ task = <<current, "run">> /\ task \in Loop /\ TriggerOf(task) = current
          /\ ready = << <<"loop", task>> >> /\ running[current] /\ sub[current] = None
          /\ loop[task] = "new" /\ ~ cancelled[task] /\ reg[current] = home
      BY <2>3, Loops DEF Spawned, Types, Queue, Made
    <3>2. \A p \in 1 .. Len(ready) : ~ IsStop(ready[p])
      BY <3>1, Entries
    <3>3. CASE l = task
      <4>1. StepsFirst(l)
        BY <3>1, <3>3 DEF StepsOn
      <4>2. ready' = <<>>
        BY <3>1, <4>1 DEF StepsFirst
      <4>3. loop'[l] = "waiting" /\ ~ cancelled'[l]
        BY <1>4, <3>1, <3>3 DEF Moves
      <4>4. sub'[current] # None /\ waitsOn'[l] = sub'[current]
        BY <3>1, <3>3, <4>3 DEF Moves
      <4>5. sub'[current] = chan'[home]
        BY <3>1, <3>3, <4>4, SubscribersMayDrive DEF Types
      <4>6. Attached'
        BY <1>1, <3>1, <3>3, <4>2, <4>3, <4>4, <4>5 DEF Attached, Serves, Drives, Live, Spawned, None, Trigger
      <4> QED BY <1>1, <1>6, <4>6 DEF Unhurried
    <3>4. CASE l # task
      <4>1. StepsOn(l)
        <5>1. ready[1] # <<"loop", l>>
          BY <3>1, <3>4, Entries
        <5> QED BY <1>2, <5>1
      <4>2. UNCHANGED <<sub, chan>>
        BY <3>2, <3>4, SubscribersMayDrive, OnlyTheTaskDrives
      <4>3. Spawned'
        BY <1>1, <1>4, <2>3, <3>1, <3>4, <4>1, <4>2 DEF Spawned, StepsOn
      <4> QED BY <1>1, <1>6, <4>3 DEF Unhurried
    <3> QED BY <3>3, <3>4
  <2>4. CASE Attached
    <3>1. /\ current \in Trigger /\ task = <<current, "run">> /\ task \in Loop /\ TriggerOf(task) = current
          /\ ready = <<>> /\ Serves(task)
      BY <2>4, Loops DEF Attached, Types, Queue
    <3>2. \A p \in 1 .. Len(ready) : ~ IsStop(ready[p])
      BY <3>1
    <3>3. ready' = <<>>
      BY <1>2, <3>1 DEF StepsOn
    <3>4. sub[current] # None
      BY <3>1 DEF Serves
    <3>5. UNCHANGED <<sub, chan>>
      BY <3>1, <3>2, <3>4, SubscribersMayDrive, OnlyTheTaskDrives
    <3>6. Serves(task)'
      <4>1. CASE l = task
        <5>1. loop'[l] \in {"waiting", "turn"} /\ ~ cancelled'[l]
          <6>1. ~ cancelled[l] /\ running[TriggerOf(l)]
            BY <3>1, <4>1 DEF Serves, Drives
          <6>2. ~ cancelled'[l]
            BY <6>1 DEF Moves, Types
          <6> QED BY <1>4, <6>1, <6>2 DEF Moves
        <5>2. loop'[l] = "waiting" => waitsOn'[l] = sub[current]
          BY <3>1, <3>5, <4>1 DEF Moves
        <5> QED BY <1>1, <3>1, <3>5, <4>1, <5>1, <5>2 DEF Serves, Drives, Live
      <4>2. CASE l # task
        BY <1>1, <1>4, <3>1, <3>5, <4>2 DEF Serves, Drives, Live
      <4> QED BY <4>1, <4>2
    <3>7. Attached'
      BY <1>1, <2>4, <3>3, <3>6 DEF Attached
    <3> QED BY <1>1, <1>6, <3>7 DEF Unhurried
  <2> QED BY <1>6, <2>1, <2>2, <2>3, <2>4 DEF Unhurried
<1>7. CASE hasty
  BY <1>1, <1>7 DEF Unhurried
<1> QED BY <1>5, <1>6, <1>7 DEF Types

LEMMA LoopStepKeepsInv ==
    ASSUME IInv, NEW l \in Loop, LoopStep(l)
    PROVE  IInv'
<1>1. Moves(l) /\ (StepsFirst(l) \/ StepsOn(l))
  BY LoopMoves DEF IInv, Fifo
<1>2. backlog' \in [Trigger -> Nat]
  BY BacklogKeepsType DEF IInv
<1>3. Types'
  BY <1>1, <1>2, MovesKeepTypes DEF IInv
<1> QED
  BY <1>1, <1>3, MovesKeepFifo, MovesKeepPhases, MovesKeepDrivers, MovesKeepSubscribed,
     MovesKeepUnhurried
     DEF IInv

-----------------------------------------------------------------------------
(* The task that starts a trigger.                                         *)

LEMMA RunTaskTakes ==
    ASSUME IInv, NEW k \in Trigger, RunTask(k)
    PROVE  /\ ready # <<>> /\ ready[1] = <<"run", k>> /\ IsRun(ready[1]) /\ ready[1][2] = k
           /\ 1 \in 1 .. Len(ready)
           /\ Tail(ready) \in Seq(Entry) /\ InOrder(Tail(ready))
           /\ \A p \in 1 .. Len(Tail(ready)) :
                 /\ p + 1 \in 1 .. Len(ready) /\ Tail(ready)[p] = ready[p + 1]
                 /\ Tail(ready)[p] \in Entry
                 /\ IsRun(Tail(ready)[p]) => k < Tail(ready)[p][2]
                 /\ FollowedByStop(ready, p + 1) => FollowedByStop(Tail(ready), p)
           /\ \A p \in 1 .. Len(ready) : p # 1 =>
                 p - 1 \in 1 .. Len(Tail(ready)) /\ Tail(ready)[p - 1] = ready[p]
           /\ \A j : ~ StopsFirst(ready, j)
           /\ phase # "stopped" /\ k # current => StopsFirst(Tail(ready), k)
           /\ k <= made /\ loop[<<k, "run">>] = "none"
           /\ <<k, "run">> \in Loop /\ TriggerOf(<<k, "run">>) = k
<1> USE DEF IInv
<1>1. ready # <<>> /\ Head(ready) = <<"run", k>>
  BY DEF RunTask
<1>2. /\ ready[1] = <<"run", k>> /\ 1 \in 1 .. Len(ready) /\ Len(ready) \in Nat
      /\ Tail(ready) \in Seq(Entry) /\ Len(Tail(ready)) = Len(ready) - 1
      /\ \A p \in 1 .. Len(ready) - 1 : Tail(ready)[p] = ready[p + 1]
  BY <1>1, Taking, Positions DEF Types
<1>3. IsRun(ready[1]) /\ ready[1][2] = k
  BY <1>2 DEF IsRun
<1>4. /\ InOrder(Tail(ready))
      /\ \A j : ~ StopsFirst(ready, j)
      /\ FollowedByStop(ready, 1) => StopsFirst(Tail(ready), k)
      /\ \A p \in 1 .. Len(ready) - 1 : FollowedByStop(ready, p + 1) => FollowedByStop(Tail(ready), p)
  BY <1>1, <1>3, TakingKeepsOrder DEF Types, Fifo
<1>5. ASSUME NEW p \in 1 .. Len(Tail(ready))
      PROVE  /\ p + 1 \in 1 .. Len(ready) /\ Tail(ready)[p] = ready[p + 1]
             /\ Tail(ready)[p] \in Entry
             /\ IsRun(Tail(ready)[p]) => k < Tail(ready)[p][2]
             /\ FollowedByStop(ready, p + 1) => FollowedByStop(Tail(ready), p)
  <2>1. p \in 1 .. Len(ready) - 1 /\ p + 1 \in 1 .. Len(ready) /\ 1 < p + 1
    BY <1>2
  <2>2. Tail(ready)[p] = ready[p + 1]
    BY <1>2, <2>1
  <2>3. IsRun(ready[p + 1]) => k < ready[p + 1][2]
    BY <1>2, <1>3, <2>1 DEF Fifo, InOrder
  <2>4. ready[p + 1] \in Entry
    BY <2>1, Positions DEF Types
  <2> QED BY <1>4, <2>1, <2>2, <2>3, <2>4
<1>6. \A p \in 1 .. Len(ready) : p # 1 =>
         p - 1 \in 1 .. Len(Tail(ready)) /\ Tail(ready)[p - 1] = ready[p]
  BY <1>2
<1>7. phase # "stopped" /\ k # current => FollowedByStop(ready, 1)
  BY <1>2, <1>3 DEF Fifo, ReplacedAreStopped
<1>8. k <= made /\ loop[<<k, "run">>] = "none"
  BY <1>2, <1>3 DEF Fifo, RunsPending
<1> QED BY <1>1, <1>2, <1>3, <1>4, <1>5, <1>6, <1>7, <1>8, Loops

\* Whether or not a loop is made, only the table's live task may drive, or the
\* one that is made.
LEMMA RunTaskDrivers ==
    ASSUME IInv, NEW k \in Trigger, RunTask(k), NEW l \in Loop, MayDrive(l)', l # <<k, "run">>
    PROVE  l = task /\ Live(l)
<1> USE DEF IInv
<1>1. loop'[l] = loop[l] /\ cancelled'[l] = cancelled[l]
  BY DEF RunTask, NewLoop, Types
<1>2. Live(l) /\ (~ cancelled[l] \/ loop[l] = "turn")
  BY <1>1 DEF MayDrive, Live
<1>3. CASE running[TriggerOf(l)]
  BY <1>2, <1>3, RunTaskTakes DEF AtMostOne, MayDrive
<1>4. CASE ~ running[TriggerOf(l)]
  <2>1. TriggerOf(l) = k
    BY <1>4, Loops DEF MayDrive, RunTask, Types
  <2>2. l[2] = "start"
    BY <2>1, Loops
  <2>3. loop[l] \notin {"waiting", "turn"}
    <3>1. IsRun(ready[1]) /\ ready[1][2] = k /\ 1 \in 1 .. Len(ready)
      BY RunTaskTakes
    <3>2. loop[l] \in {"waiting", "turn"} => k < k
      BY <2>1, <3>1 DEF Fifo, RunsAreLater
    <3> QED BY <3>2 DEF Trigger
  <2>4. loop[l] = "new"
    BY <1>2, <2>3 DEF Live
  <2> QED BY <1>2, <2>2, <2>4 DEF Phases
<1> QED BY <1>3, <1>4 DEF Types

LEMMA RunTaskKeepsFifo ==
    ASSUME IInv, NEW k \in Trigger, RunTask(k)
    PROVE  Fifo'
<1> USE DEF IInv
<1> DEFINE t == Tail(ready)
           l == <<k, "run">>
           e == <<"loop", l>>
<1>1. /\ t \in Seq(Entry) /\ InOrder(t) /\ Len(t) \in Nat
      /\ \A p \in 1 .. Len(t) :
            /\ p + 1 \in 1 .. Len(ready) /\ t[p] = ready[p + 1]
            /\ t[p] \in Entry
            /\ IsRun(t[p]) => k < t[p][2]
            /\ FollowedByStop(ready, p + 1) => FollowedByStop(t, p)
  BY RunTaskTakes, Positions
<1>2. l \in Loop /\ loop[l] = "none" /\ e \in Entry /\ ~ IsRun(e) /\ ~ IsStop(e) /\ IsStep(e) /\ e[2] = l
  BY RunTaskTakes, Entries
<1>3. UNCHANGED <<made, current, phase>>
  BY DEF RunTask, agent
<1>4. \A p \in 1 .. Len(t) :
         /\ IsRun(t[p]) => t[p][2] \in Trigger /\ t[p][2] <= made /\ loop[<<t[p][2], "run">>] = "none"
         /\ IsStop(t[p]) => t[p][2] <= made /\ t[p][2] # current
         /\ IsStep(t[p]) => t[p][2] \in Loop /\ loop[t[p][2]] = "new"
         /\ IsRun(t[p]) => \A m \in Loop : loop[m] \in {"waiting", "turn"} => TriggerOf(m) < t[p][2]
         /\ IsRun(t[p]) /\ phase # "stopped" /\ t[p][2] # current => FollowedByStop(t, p)
  BY <1>1, Entries DEF Fifo, RunsPending, StopsPending, StepsPending, RunsAreLater, ReplacedAreStopped
<1> HIDE DEF t, l, e
<1>5. CASE ready' = t /\ UNCHANGED loop
  BY <1>1, <1>3, <1>4, <1>5
     DEF Fifo, RunsPending, StopsPending, StepsPending, RunsAreLater, ReplacedAreStopped
<1>6. CASE ready' = Append(t, e) /\ loop' = [loop EXCEPT ![l] = "new"]
  <2>1. /\ Len(ready') = Len(t) + 1 /\ ready'[Len(t) + 1] = e
        /\ \A p \in 1 .. Len(t) : ready'[p] = t[p]
    BY <1>1, <1>2, <1>6, Appending
  <2>2. \A p \in 1 .. Len(t) : t[p] # e
    BY <1>2, <1>4
  <2>3. /\ InOrder(ready')
        /\ \A p \in 1 .. Len(t) : FollowedByStop(t, p) => FollowedByStop(ready', p)
    BY <1>1, <1>2, <1>6, <2>2, AppendingKeepsOrder
  <2>4. loop'[l] = "new" /\ \A m \in Loop : m # l => loop'[m] = loop[m]
    BY <1>2, <1>6 DEF Types
  <2>5. \A p \in 1 .. Len(ready') : p \in 1 .. Len(t) \/ ready'[p] = e
    BY <1>1, <2>1
  <2>6. RunsPending'
    <3>1. ASSUME NEW p \in 1 .. Len(ready'), IsRun(ready'[p])
          PROVE  ready'[p][2] <= made' /\ loop'[<<ready'[p][2], "run">>] = "none"
      <4>1. p \in 1 .. Len(t) /\ ready'[p] = t[p]
        BY <1>2, <2>1, <2>5, <3>1
      <4>2. t[p][2] \in Trigger /\ k < t[p][2]
        BY <1>1, <1>4, <3>1, <4>1
      <4>3. <<t[p][2], "run">> \in Loop /\ <<t[p][2], "run">> # l
        <5>1. t[p][2] # k
          BY <4>2 DEF Trigger
        <5> QED BY <4>2, <5>1, Loops DEF l
      <4> QED BY <1>3, <1>4, <2>4, <3>1, <4>1, <4>3
    <3> QED BY <3>1 DEF RunsPending
  <2>7. StopsPending'
    BY <1>2, <1>3, <1>4, <2>1, <2>5 DEF StopsPending
  <2>8. StepsPending'
    BY <1>2, <1>4, <2>1, <2>4, <2>5 DEF StepsPending
  <2>9. RunsAreLater'
    BY <1>2, <1>4, <2>1, <2>4, <2>5 DEF RunsAreLater
  <2>10. ReplacedAreStopped'
    BY <1>2, <1>3, <1>4, <2>1, <2>3, <2>5 DEF ReplacedAreStopped
  <2> QED BY <2>3, <2>6, <2>7, <2>8, <2>9, <2>10 DEF Fifo
<1> QED BY <1>5, <1>6 DEF RunTask, NewLoop, t, l, e

LEMMA RunTaskKeepsDrivers ==
    ASSUME IInv, NEW k \in Trigger, RunTask(k)
    PROVE  AtMostOne' /\ TaskIsCurrent' /\ Started'
<1> USE DEF IInv
<1> DEFINE l == <<k, "run">>
           t == Tail(ready)
<1>1. /\ UNCHANGED <<phase, current>> /\ k \in Trigger /\ k # None /\ l \in Loop /\ TriggerOf(l) = k
      /\ \A j \in Trigger : running'[j] = (running[j] \/ j = k)
  BY Loops DEF RunTask, agent, Types
<1>2. /\ phase # "stopped" /\ k # current => StopsFirst(t, k)
      /\ \A j : ~ StopsFirst(ready, j)
      /\ loop[l] = "none"
      /\ \A j \in Trigger : StopIsPending(j) => \E p \in 1 .. Len(t) : t[p] = <<"stop", j>>
  <2>1. \A j \in Trigger : ready[1] # <<"stop", j>>
    BY RunTaskTakes, Entries
  <2> QED BY <2>1, RunTaskTakes DEF StopIsPending
<1>3. /\ \A j : StopsFirst(t, j) => StopsFirst(ready', j)
      /\ \A p \in 1 .. Len(t) : p \in 1 .. Len(ready') /\ ready'[p] = t[p]
  <2>1. t \in Seq(Entry) /\ Len(t) \in Nat /\ <<"loop", l>> \in Entry
    BY <1>1, RunTaskTakes, Entries, Positions
  <2>2. /\ \A j : StopsFirst(t, j) => StopsFirst(Append(t, <<"loop", l>>), j)
        /\ \A p \in 1 .. Len(t) : /\ p \in 1 .. Len(Append(t, <<"loop", l>>))
                                  /\ Append(t, <<"loop", l>>)[p] = t[p]
    <3> DEFINE e == <<"loop", l>>
    <3>1. e \in Entry
      BY <2>1
    <3> HIDE DEF t, l, e
    <3>2. \A j : StopsFirst(t, j) => StopsFirst(Append(t, e), j)
      BY <2>1, <3>1, AppendingKeepsOrder
    <3>3. \A p \in 1 .. Len(t) : p \in 1 .. Len(Append(t, e)) /\ Append(t, e)[p] = t[p]
      BY <2>1, <3>1, Appending
    <3> QED BY <3>2, <3>3 DEF e
  <2>3. ready' = t \/ ready' = Append(t, <<"loop", l>>)
    BY DEF RunTask
  <2> HIDE DEF t, l
  <2> QED BY <2>2, <2>3
<1>4. Started'
  <2>1. ASSUME phase # "stopped", NEW j \in Trigger, running'[j], j # current PROVE StopIsPending(j)'
    <3>1. \E p \in 1 .. Len(t) : t[p] = <<"stop", j>>
      BY <1>1, <1>2, <2>1 DEF Started, StopsFirst
    <3> QED BY <1>3, <3>1 DEF StopIsPending
  <2> QED BY <1>1, <2>1 DEF Started
<1>5. CASE TaskPending /\ UNCHANGED <<task, loop>>
  <2>1. task \in Loop /\ Live(task)
    BY <1>5 DEF TaskPending, Types
  <2>2. ASSUME NEW m \in Loop, MayDrive(m)' PROVE m = task
    <3>1. m # l
      BY <1>2, <1>5, <2>2 DEF MayDrive, Live
    <3> QED BY <2>2, <3>1, RunTaskDrivers
  <2>3. AtMostOne'
    BY <1>5, <2>2 DEF AtMostOne
  <2>4. TaskIsCurrent'
    <3>1. ASSUME phase # "stopped", running'[TriggerOf(task)], TriggerOf(task) # current
          PROVE  TriggerOf(task) = k
      <4>1. TriggerOf(task) \in Trigger
        BY <2>1, Loops
      <4> QED BY <1>1, <1>2, <1>5, <3>1, <4>1 DEF TaskIsCurrent
    <3> QED BY <1>1, <1>2, <1>3, <1>5, <3>1 DEF TaskIsCurrent
  <2> QED BY <1>4, <2>3, <2>4
<1>6. CASE ~ TaskPending /\ task' = l
  <2>1. ASSUME NEW m \in Loop, MayDrive(m)' PROVE m = l
    BY <1>6, <2>1, RunTaskDrivers, Loops DEF TaskPending
  <2>2. AtMostOne'
    BY <1>6, <2>1 DEF AtMostOne
  <2>3. TaskIsCurrent'
    BY <1>1, <1>2, <1>3, <1>6 DEF TaskIsCurrent
  <2> QED BY <1>4, <2>2, <2>3
<1> QED BY <1>5, <1>6 DEF RunTask, NewLoop

LEMMA RunTaskKeepsInv ==
    ASSUME IInv, NEW k \in Trigger, RunTask(k), Types'
    PROVE  IInv'
<1> USE DEF IInv
<1> DEFINE l == <<k, "run">>
<1>1. /\ UNCHANGED <<hasty, phase, awaited, home, made, reg, sub, current, cancelled, waitsOn, chan>>
      /\ \A j \in Trigger : running'[j] = (running[j] \/ j = k)
  BY DEF RunTask, agent, channel, Types
<1>2. l \in Loop /\ TriggerOf(l) = k /\ l[2] = "run" /\ k <= made /\ loop[l] = "none" /\ l # NoLoop
  BY RunTaskTakes, Loops
<1>3. \/ TaskPending /\ UNCHANGED <<task, loop>> /\ ready' = Tail(ready)
      \/ /\ ~ TaskPending /\ task' = l /\ loop' = [loop EXCEPT ![l] = "new"]
         /\ ready' = Append(Tail(ready), <<"loop", l>>)
  BY DEF RunTask, NewLoop
<1> HIDE DEF l
<1>4. /\ \A m \in Loop : m # l => loop'[m] = loop[m]
      /\ loop'[l] = loop[l] \/ (loop'[l] = "new" /\ task' = l)
      /\ task' = task \/ task' = l
      /\ \A m \in Loop : m = task /\ m # task' => ~ Live(m)
  <2>1. CASE TaskPending /\ UNCHANGED <<task, loop>>
    BY <2>1
  <2>2. CASE ~ TaskPending /\ task' = l /\ loop' = [loop EXCEPT ![l] = "new"]
    <3>1. loop'[l] = "new" /\ \A m \in Loop : m # l => loop'[m] = loop[m]
      BY <1>2, <2>2 DEF Types
    <3>2. \A m \in Loop : m = task => ~ Live(m)
      BY <2>2, Loops DEF TaskPending
    <3> QED BY <2>2, <3>1, <3>2
  <2> QED BY <1>3, <2>1, <2>2
<1>5. Made'
  BY <1>1, <1>2, <1>4 DEF Made
<1>6. Subscribed'
  BY <1>1 DEF Subscribed
<1>7. Phases'
  <2>1. phase' = "new" => \A m \in Loop : m[2] = "start" => loop'[m] = "none"
    BY <1>1, <1>2, <1>4 DEF Phases
  <2>2. ASSUME phase = "new", NEW m \in Loop
        PROVE  loop'[m] # "turn" /\ (Live(m)' /\ m # task' => cancelled'[m])
    <3>1. CASE m = l
      BY <1>2, <1>4, <3>1 DEF Live
    <3>2. CASE m # l
      BY <1>1, <1>4, <2>2, <3>2 DEF Live, Phases
    <3> QED BY <3>1, <3>2
  <2>3. \A m \in Loop : m[2] = "start" /\ loop'[m] = "new" /\ m # task' => cancelled'[m]
    BY <1>1, <1>2, <1>4 DEF Phases, Live
  <2>4. /\ task'[2] = "start" => TriggerOf(task') = current' /\ phase' # "stopped"
        /\ phase' = "stopping" /\ task'[2] = "start" => awaited' = task'
    BY <1>1, <1>2, <1>4 DEF Phases
  <2>5. phase' = "stopped" /\ task' # NoLoop => loop'[task'] # "turn"
    <3>1. CASE task' = l
      BY <1>2, <1>4, <3>1
    <3>2. CASE task' = task /\ task # l /\ task # NoLoop
      <4>1. task \in Loop
        BY <3>2 DEF Types
      <4> QED BY <1>1, <1>4, <3>2, <4>1 DEF Phases
    <3> QED BY <1>4, <3>1, <3>2
  <2> QED BY <1>1, <2>1, <2>2, <2>3, <2>4, <2>5 DEF Phases
<1>8. Unhurried'
  <2>1. ready # <<>> /\ ready[1] = <<"run", k>>
    BY RunTaskTakes
  <2>2. CASE hasty
    BY <1>1, <2>2 DEF Unhurried
  <2>3. CASE ~ hasty
    <3>1. phase \in {"new", "running"}
      BY <2>1, <2>3 DEF Unhurried
    <3>2. \A x : ready[1] # <<"stop", x>> /\ ready[1] # <<"loop", x>>
      BY <2>1, Entries
    <3>3. Installed
      BY <2>1, <2>3, <3>1, <3>2 DEF Unhurried, Unwired, Spawned, Attached
    <3>4. /\ current # None /\ task = NoLoop /\ ~ running[current]
          /\ ready = << <<"run", current>> >>
      BY <3>2, <3>3 DEF Installed
    <3>5. current = k
      BY <2>1, <3>4
    <3>6. task' = l /\ loop'[l] = "new" /\ ready' = << <<"loop", l>> >>
      <4>1. ~ TaskPending
        BY <3>4 DEF TaskPending
      <4>2. task' = l /\ loop' = [loop EXCEPT ![l] = "new"]
            /\ ready' = Append(Tail(ready), <<"loop", l>>)
        BY <1>3, <4>1
      <4>3. ready' = << <<"loop", l>> >>
        BY <3>4, <4>2, ShortQueues
      <4> QED BY <1>2, <4>2, <4>3 DEF Types
    <3>7. sub[current] = None /\ ~ cancelled[l]
      BY <1>2, <3>4, <3>5 DEF Subscribed, Made
    <3>8. Spawned'
      BY <1>1, <3>4, <3>5, <3>6, <3>7 DEF Spawned, l
    <3> QED BY <1>1, <3>1, <3>8 DEF Unhurried
  <2> QED BY <2>2, <2>3 DEF Types
<1> QED BY <1>5, <1>6, <1>7, <1>8, RunTaskKeepsFifo, RunTaskKeepsDrivers

-----------------------------------------------------------------------------
(* The task that stops a trigger, and what stopping does to subscriptions. *)

LEMMA StopKeepsSubscribed ==
    ASSUME IInv, NEW k \in Trigger, Stop(k), UNCHANGED reg
    PROVE  Subscribed'
<1> USE DEF IInv
<1>1. /\ \A j \in Trigger : running'[j] = (running[j] /\ j # k)
      /\ \A j \in Trigger : sub'[j] = IF j = k THEN None ELSE sub[j]
      /\ \A r \in Registry : chan'[r] = IF r = reg[k] /\ sub[k] # None THEN None ELSE chan[r]
  BY StopTypes
<1>2. \A j \in Trigger : sub'[j] # None => running'[j]
  BY <1>1 DEF Subscribed
<1>3. ASSUME NEW r \in Registry, chan'[r] # None
      PROVE  \E j \in Trigger : reg'[j] = r /\ sub'[j] = chan'[r]
  <2>1. chan'[r] = chan[r] /\ ~ (r = reg[k] /\ sub[k] # None)
    BY <1>1, <1>3
  <2>2. PICK j \in Trigger : reg[j] = r /\ sub[j] = chan[r]
    BY <1>3, <2>1 DEF Subscribed
  <2> QED BY <1>1, <1>3, <2>1, <2>2
<1> QED BY <1>2, <1>3 DEF Subscribed

LEMMA StopTaskKeepsInv ==
    ASSUME IInv, NEW k \in Trigger, StopTask(k), Types'
    PROVE  IInv'
<1> USE DEF IInv
<1>1. /\ UNCHANGED <<hasty, phase, awaited, home, made, reg, current, task, loop, cancelled, waitsOn>>
      /\ ready # <<>> /\ Head(ready) = <<"stop", k>> /\ ready' = Tail(ready) /\ Stop(k)
  BY DEF StopTask, agent, manager, loops
<1>2. /\ ready[1] = <<"stop", k>>
      /\ InOrder(ready')
      /\ \A p \in 1 .. Len(ready') :
            /\ p + 1 \in 1 .. Len(ready) /\ ready'[p] = ready[p + 1] /\ ready'[p] \in Entry
            /\ FollowedByStop(ready, p + 1) => FollowedByStop(ready', p)
      /\ \A p \in 1 .. Len(ready) : p # 1 => p - 1 \in 1 .. Len(ready') /\ ready'[p - 1] = ready[p]
      /\ \A j : StopsFirst(ready, j) /\ ready[1] # <<"stop", j>> => StopsFirst(ready', j)
  BY <1>1, Taken DEF Fifo
<1>3. \A j : j # k => ready[1] # <<"stop", j>>
  BY <1>2, Entries
<1>4. \A j \in Trigger : running'[j] = (running[j] /\ j # k)
  BY <1>1, StopTypes
<1>5. Fifo'
  BY <1>1, <1>2
     DEF Fifo, RunsPending, StopsPending, StepsPending, RunsAreLater, ReplacedAreStopped
<1>6. \A l \in Loop : MayDrive(l)' => MayDrive(l) /\ TriggerOf(l) # k
  BY <1>1, <1>4, Loops DEF MayDrive, Live
<1>7. AtMostOne'
  BY <1>1, <1>2, <1>3, <1>6 DEF AtMostOne
<1>8. TaskIsCurrent'
  <2>1. task # NoLoop => TriggerOf(task) \in Trigger
    BY Loops DEF Types
  <2> QED BY <1>1, <1>2, <1>3, <1>4, <2>1 DEF TaskIsCurrent, TaskPending, Live
<1>9. Started'
  <2>1. ASSUME phase # "stopped", NEW j \in Trigger, running'[j], j # current
        PROVE  StopIsPending(j)'
    <3>1. j # k /\ StopIsPending(j)
      BY <1>4, <2>1 DEF Started
    <3>2. PICK p \in 1 .. Len(ready) : ready[p] = <<"stop", j>>
      BY <3>1 DEF StopIsPending
    <3>3. p # 1
      BY <1>3, <3>1, <3>2
    <3> QED BY <1>2, <3>2, <3>3 DEF StopIsPending
  <2> QED BY <1>1, <2>1 DEF Started
<1>10. Subscribed'
  BY <1>1, StopKeepsSubscribed
<1>11. Made' /\ Phases'
  BY <1>1, <1>4 DEF Made, Phases, Live
<1>12. Unhurried'
  <2>1. CASE hasty
    BY <1>1, <2>1 DEF Unhurried
  <2>2. CASE ~ hasty
    <3>1. phase \in {"new", "running"}
      BY <1>1, <2>2 DEF Unhurried
    <3>2. \A x : ready[1] # <<"run", x>> /\ ready[1] # <<"loop", x>>
      BY <1>2, Entries
    <3>3. Unwired \/ Installed
      BY <1>1, <2>2, <3>1, <3>2 DEF Unhurried, Spawned, Attached
    <3>4. CASE Unwired
      <4>1. ready' = <<>>
        BY <1>1, <3>4, ShortQueues DEF Unwired
      <4> QED BY <1>1, <3>1, <3>4, <4>1 DEF Unhurried, Unwired
    <3>5. CASE Installed
      <4>1. ready' = << <<"run", current>> >> /\ ~ running'[current]
        <5>1. \E j \in Trigger : ready = << <<"stop", j>>, <<"run", current>> >>
          BY <3>2, <3>5 DEF Installed
        <5>2. current \in Trigger
          BY <3>5 DEF Installed, Types, Queue
        <5>3. ready' = << <<"run", current>> >>
          BY <1>1, <5>1, ShortQueues
        <5> QED BY <1>4, <3>5, <5>2, <5>3 DEF Installed
      <4> QED BY <1>1, <3>1, <3>5, <4>1 DEF Unhurried, Installed
    <3> QED BY <3>3, <3>4, <3>5
  <2> QED BY <2>1, <2>2 DEF Types
<1> QED BY <1>5, <1>7, <1>8, <1>9, <1>10, <1>11, <1>12

-----------------------------------------------------------------------------
(* Messages, and the start and stop of the agent.                          *)

LEMMA SendKeepsInv ==
    ASSUME IInv, Types', \/ Send
                         \/ UNCHANGED vars
    PROVE  IInv'
<1>1. UNCHANGED <<hasty, phase, awaited, home, made, reg, running, sub, current, task,
                  loop, cancelled, waitsOn, chan, ready>>
  BY DEF Send, vars, agent, trigger, manager, loops, channel
<1>2. Fifo'
  BY <1>1
     DEF IInv, Fifo, RunsPending, StopsPending, StepsPending, RunsAreLater, ReplacedAreStopped
<1>3. Made' /\ Phases' /\ Subscribed'
  BY <1>1 DEF IInv, Made, Phases, Live, Subscribed
<1>4. AtMostOne' /\ TaskIsCurrent' /\ Started'
  BY <1>1 DEF IInv, AtMostOne, MayDrive, TaskIsCurrent, TaskPending, Live, Started, StopIsPending
<1>5. Unhurried'
  BY <1>1 DEF IInv, Unhurried, Unwired, Installed, Spawned, Attached, Serves, Drives, Live
<1> QED BY <1>2, <1>3, <1>4, <1>5 DEF IInv

LEMMA CloseKeepsInv ==
    ASSUME IInv, Types', Close
    PROVE  IInv'
<1>1. /\ UNCHANGED <<awaited, home, made, reg, running, sub, current, task,
                     loop, cancelled, waitsOn, chan, ready>>
      /\ phase = "running" /\ phase' = "closing"
      /\ hasty' = (hasty \/ ready # <<>> \/ phase \notin {"new", "running"})
  BY DEF Close, Called, trigger, manager, loops, channel
<1>2. Fifo'
  BY <1>1
     DEF IInv, Fifo, RunsPending, StopsPending, StepsPending, RunsAreLater, ReplacedAreStopped
<1>3. Made' /\ Phases' /\ Subscribed'
  BY <1>1 DEF IInv, Made, Phases, Live, Subscribed
<1>4. AtMostOne' /\ TaskIsCurrent' /\ Started'
  BY <1>1 DEF IInv, AtMostOne, MayDrive, TaskIsCurrent, TaskPending, Live, Started, StopIsPending
<1>5. Unhurried'
  BY <1>1 DEF Unhurried
<1> QED BY <1>2, <1>3, <1>4, <1>5 DEF IInv

\* stop_all with a task in the table: it is cancelled and awaited.
LEMMA AwaitingKeepsInv ==
    ASSUME IInv, Types', phase = "closing", task # NoLoop, phase' = "stopping",
           cancelled' = IF Live(task) THEN [cancelled EXCEPT ![task] = TRUE] ELSE cancelled,
           awaited' = task,
           UNCHANGED <<hasty, home, made, reg, running, sub, current, task,
                       loop, waitsOn, chan, ready>>
    PROVE  IInv'
<1> USE DEF IInv
<1>1. /\ task \in Loop
      /\ \A l \in Loop : cancelled[l] => cancelled'[l]
      /\ \A l \in Loop : cancelled'[l] => cancelled[l] \/ Live(l)
  BY DEF Types
<1>2. Fifo'
  BY DEF Fifo, RunsPending, StopsPending, StepsPending, RunsAreLater, ReplacedAreStopped
<1>3. Made'
  BY <1>1 DEF Made, Live
<1>4. Phases'
  BY <1>1 DEF Phases
<1>5. Subscribed'
  BY DEF Subscribed
<1>6. \A l \in Loop : MayDrive(l)' => MayDrive(l)
  BY <1>1 DEF MayDrive, Live
<1>7. AtMostOne' /\ TaskIsCurrent' /\ Started'
  BY <1>6 DEF AtMostOne, TaskIsCurrent, TaskPending, Live, Started, StopIsPending
<1>8. Unhurried'
  BY DEF Unhurried
<1> QED BY <1>2, <1>3, <1>4, <1>5, <1>7, <1>8

\* stop_all's last part: the tables are cleared and the installed trigger is
\* stopped at once.
LEMMA StopTriggersKeepsInv ==
    ASSUME IInv, Types', StopTriggers,
           \/ phase = "closing" /\ task = NoLoop
           \/ phase = "stopping" /\ ~ Live(awaited),
           UNCHANGED <<hasty, home, made, reg, loop, cancelled, waitsOn, ready>>
    PROVE  IInv'
<1> USE DEF IInv
<1>1. /\ phase' = "stopped" /\ current' = None /\ task' = NoLoop /\ phase \notin {"new", "running", "stopped"}
      /\ \/ current \in Trigger /\ Stop(current)
         \/ current = None /\ UNCHANGED <<running, sub, chan>>
  BY DEF StopTriggers, Types, Queue
<1>2. \A j \in Trigger : running'[j] = (running[j] /\ j # current)
  <2>1. CASE current \in Trigger /\ Stop(current)
    BY <2>1, StopTypes
  <2>2. CASE current = None /\ running' = running
    BY <2>2, Loops DEF Types
  <2> QED BY <1>1, <2>1, <2>2
<1>3. Subscribed'
  <2>1. CASE current \in Trigger /\ Stop(current)
    BY <2>1, StopKeepsSubscribed
  <2>2. CASE UNCHANGED <<running, sub, chan>>
    BY <2>2 DEF Subscribed
  <2> QED BY <1>1, <2>1, <2>2
<1>4. Fifo'
  <2>1. StopsPending'
    <3>1. \A p \in 1 .. Len(ready) : ready[p] \in Entry
      BY Positions DEF Types
    <3>2. \A p \in 1 .. Len(ready) : IsStop(ready[p]) => ready[p][2] \in Trigger
      BY <3>1, Entries
    <3> QED BY <1>1, <3>2, Loops DEF Fifo, StopsPending
  <2> QED BY <1>1, <2>1
          DEF Fifo, RunsPending, StepsPending, RunsAreLater, ReplacedAreStopped
<1>5. Made'
  BY <1>1, <1>2 DEF Made
<1>6. Phases'
  <2>1. ASSUME NEW l \in Loop, l[2] = "start", loop[l] = "new" PROVE cancelled[l]
    BY <2>1, Loops DEF Phases, Live
  <2> QED BY <1>1, <2>1, Loops DEF Phases
<1>7. \A l \in Loop : MayDrive(l)' => MayDrive(l) /\ StopsFirst(ready, TriggerOf(l))
  <2>1. ASSUME NEW l \in Loop, MayDrive(l)' PROVE MayDrive(l) /\ TriggerOf(l) # current
    BY <1>2, <2>1, Loops DEF MayDrive, Live
  <2>2. ASSUME NEW l \in Loop, MayDrive(l), TriggerOf(l) # current PROVE StopsFirst(ready, TriggerOf(l))
    <3>1. CASE l = task
      BY <1>1, <2>2, <3>1, Loops DEF TaskIsCurrent, TaskPending, MayDrive
    <3>2. CASE l # task
      BY <2>2, <3>2 DEF AtMostOne
    <3> QED BY <3>1, <3>2
  <2> QED BY <2>1, <2>2
<1>8. AtMostOne'
  BY <1>7 DEF AtMostOne
<1>9. TaskIsCurrent' /\ Started'
  BY <1>1 DEF TaskIsCurrent, Started
<1>10. Unhurried'
  BY <1>1 DEF Unhurried
<1> QED BY <1>3, <1>4, <1>5, <1>6, <1>8, <1>9, <1>10

LEMMA StartAllKeepsInv ==
    ASSUME IInv, Types', StartAll
    PROVE  IInv'
<1> USE DEF IInv
<1>1. /\ phase = "new" /\ phase' = "running"
      /\ hasty' = (hasty \/ ready # <<>> \/ phase \notin {"new", "running"})
      /\ UNCHANGED <<awaited, home, made, reg, sub, current, cancelled, waitsOn, chan>>
  BY DEF StartAll, Called, channel
<1>2. CASE UNCHANGED <<running, task, loop, ready>>
  <2>1. Fifo'
    BY <1>1, <1>2
       DEF Fifo, RunsPending, StopsPending, StepsPending, RunsAreLater, ReplacedAreStopped
  <2>2. Made' /\ Phases' /\ Subscribed'
    BY <1>1, <1>2 DEF Made, Phases, Live, Subscribed
  <2>3. AtMostOne' /\ TaskIsCurrent' /\ Started'
    BY <1>1, <1>2 DEF AtMostOne, MayDrive, TaskIsCurrent, TaskPending, Live, Started, StopIsPending
  <2>4. Unhurried'
    BY <1>1, <1>2 DEF Unhurried, Unwired, Installed, Spawned, Attached, Serves, Drives, Live
  <2> QED BY <2>1, <2>2, <2>3, <2>4
<1>3. CASE /\ current # None /\ task = NoLoop
           /\ running' = [running EXCEPT ![current] = TRUE]
           /\ NewLoop(<<current, "start">>)
           /\ ready' = Append(ready, <<"loop", <<current, "start">> >>)
  <2> DEFINE l == <<current, "start">>
             e == <<"loop", l>>
  <2>1. /\ current \in Trigger /\ l \in Loop /\ TriggerOf(l) = current /\ l[2] = "start" /\ l # NoLoop
        /\ \A k \in Trigger : <<k, "run">> # l
    BY <1>3, Loops DEF Types, Queue
  <2>2. /\ loop[l] = "none" /\ loop'[l] = "new" /\ task' = l
        /\ \A m \in Loop : m # l => loop'[m] = loop[m]
        /\ \A j \in Trigger : running'[j] = (running[j] \/ j = current)
    BY <1>1, <1>3, <2>1 DEF NewLoop, Types, Phases
  <2>3. e \in Entry /\ ~ IsRun(e) /\ ~ IsStop(e) /\ IsStep(e) /\ e[2] = l /\ Len(ready) \in Nat
    BY <2>1, Entries, Positions DEF Types
  <2> HIDE DEF l, e
  <2>4. ready' = Append(ready, e)
    BY <1>3 DEF l, e
  <2>5. /\ Len(ready') = Len(ready) + 1 /\ ready'[Len(ready) + 1] = e
        /\ \A p \in 1 .. Len(ready) : ready'[p] = ready[p]
        /\ \A p \in 1 .. Len(ready) : ready[p] \in Entry
    BY <2>3, <2>4, Appending, Positions DEF Types
  <2>6. \A p \in 1 .. Len(ready') : p \in 1 .. Len(ready) \/ ready'[p] = e
    BY <2>3, <2>5
  <2>7. \A p \in 1 .. Len(ready) : ready[p] # e
    BY <2>2, <2>3 DEF Fifo, StepsPending
  <2>8. /\ InOrder(ready')
        /\ \A p \in 1 .. Len(ready) : FollowedByStop(ready, p) => FollowedByStop(ready', p)
    BY <2>3, <2>4, <2>7, AppendingKeepsOrder DEF Types, Fifo
  <2>9. Fifo'
    <3>1. RunsPending'
      <4>1. ASSUME NEW p \in 1 .. Len(ready'), IsRun(ready'[p])
            PROVE  ready'[p][2] <= made' /\ loop'[<<ready'[p][2], "run">>] = "none"
        <5>1. p \in 1 .. Len(ready) /\ ready'[p] = ready[p]
          BY <2>3, <2>5, <2>6, <4>1
        <5>2. ready[p][2] \in Trigger /\ ready[p][2] <= made /\ loop[<<ready[p][2], "run">>] = "none"
          BY <2>5, <4>1, <5>1, Entries DEF Fifo, RunsPending
        <5> QED BY <1>1, <2>1, <2>2, <5>1, <5>2, Loops
      <4> QED BY <4>1 DEF RunsPending
    <3>2. StopsPending'
      BY <1>1, <2>3, <2>5, <2>6 DEF Fifo, StopsPending
    <3>3. StepsPending'
      <4>1. ASSUME NEW p \in 1 .. Len(ready'), IsStep(ready'[p]) PROVE loop'[ready'[p][2]] = "new"
        <5>1. CASE ready'[p] = e
          BY <2>2, <2>3, <5>1
        <5>2. CASE p \in 1 .. Len(ready)
          <6>1. ready[p][2] \in Loop /\ loop[ready[p][2]] = "new" /\ ready'[p] = ready[p]
            BY <2>5, <4>1, <5>2, Entries DEF Fifo, StepsPending
          <6> QED BY <2>2, <6>1
        <5> QED BY <2>6, <5>1, <5>2
      <4> QED BY <4>1 DEF StepsPending
    <3>4. RunsAreLater'
      BY <2>2, <2>3, <2>5, <2>6 DEF Fifo, RunsAreLater
    <3>5. ReplacedAreStopped'
      BY <1>1, <2>3, <2>5, <2>6, <2>8 DEF Fifo, ReplacedAreStopped
    <3> QED BY <2>8, <3>1, <3>2, <3>3, <3>4, <3>5 DEF Fifo
  <2>10. Made'
    <3>1. made \in Nat /\ current = made
      BY <2>1, Loops DEF Types, Made
    <3>2. ASSUME NEW m \in Loop, loop'[m] # "none" PROVE TriggerOf(m) <= made
      <4>1. CASE m = l
        BY <2>1, <3>1, <4>1
      <4>2. CASE m # l
        BY <2>2, <3>2, <4>2 DEF Made
      <4> QED BY <4>1, <4>2
    <3>3. \A m \in Loop : loop'[m] = "none" => ~ cancelled[m]
      BY <2>2 DEF Made
    <3>4. ASSUME NEW j \in Trigger, running'[j] PROVE j <= made
      <4>1. CASE j = current
        BY <3>1, <4>1
      <4>2. CASE j # current
        BY <2>2, <3>4, <4>2 DEF Made
      <4> QED BY <4>1, <4>2
    <3> QED BY <1>1, <3>2, <3>3, <3>4 DEF Made
  <2>11. Phases'
    BY <1>1, <2>1, <2>2 DEF Phases
  <2>12. \A m \in Loop : MayDrive(m)' => m = l
    <3>1. ASSUME NEW m \in Loop, m # l PROVE ~ MayDrive(m)'
      <4>1. m # task /\ loop'[m] = loop[m] /\ cancelled'[m] = cancelled[m]
        BY <1>1, <1>3, <2>2, <3>1, Loops
      <4>2. loop[m] # "turn" /\ (Live(m) => cancelled[m])
        BY <1>1, <4>1 DEF Phases
      <4> QED BY <4>1, <4>2 DEF MayDrive, Live
    <3> QED BY <3>1
  <2>13. AtMostOne'
    BY <2>2, <2>12 DEF AtMostOne
  <2>14. TaskIsCurrent'
    BY <1>1, <2>1, <2>2 DEF TaskIsCurrent
  <2>15. Started'
    <3>1. ASSUME NEW j \in Trigger, running'[j], j # current PROVE StopIsPending(j)'
      <4>1. StopIsPending(j)
        BY <1>1, <2>2, <3>1 DEF Started
      <4>2. PICK p \in 1 .. Len(ready) : ready[p] = <<"stop", j>>
        BY <4>1 DEF StopIsPending
      <4>3. p \in 1 .. Len(ready') /\ ready'[p] = <<"stop", j>>
        BY <2>3, <2>5, <4>2
      <4> QED BY <4>3 DEF StopIsPending
    <3> QED BY <1>1, <3>1 DEF Started
  <2>16. Subscribed'
    BY <1>1, <2>2 DEF Subscribed
  <2>17. Unhurried'
    <3>1. ASSUME ~ hasty' PROVE FALSE
      <4>1. ~ hasty /\ ready = <<>>
        BY <1>1, <3>1 DEF Types
      <4>2. ~ Unwired
        BY <1>3 DEF Unwired
      <4>3. ~ Installed
        BY <4>1 DEF Installed
      <4>4. ~ Spawned /\ ~ Attached
        BY <1>3, <2>1, Loops DEF Spawned, Attached
      <4> QED BY <1>1, <4>1, <4>2, <4>3, <4>4 DEF Unhurried
    <3> QED BY <3>1 DEF Unhurried
  <2> QED BY <2>9, <2>10, <2>11, <2>13, <2>14, <2>15, <2>16, <2>17
<1> QED BY <1>2, <1>3 DEF StartAll

-----------------------------------------------------------------------------
(* The calls: the stop of the installed trigger joins the FIFO, and with   *)
(* inject the start of its successor.                                      *)

LEMMA StopJoins ==
    ASSUME IInv, NEW s, s = ready \o StopOf(current)
    PROVE  /\ s \in Seq(Entry) /\ Len(s) \in Nat
           /\ InOrder(s)
           /\ \A p \in 1 .. Len(s) :
                 /\ IsRun(s[p]) => /\ s[p][2] \in Trigger /\ s[p][2] <= made
                                   /\ loop[<<s[p][2], "run">>] = "none"
                 /\ IsStop(s[p]) => s[p][2] \in Trigger /\ s[p][2] <= made
                 /\ IsStep(s[p]) => s[p][2] \in Loop /\ loop[s[p][2]] = "new"
           /\ \A l \in Loop : loop[l] \in {"waiting", "turn"} =>
                 \A p \in 1 .. Len(s) : IsRun(s[p]) => TriggerOf(l) < s[p][2]
           /\ phase # "stopped" => \A p \in 1 .. Len(s) : IsRun(s[p]) => FollowedByStop(s, p)
           /\ \A k : StopsFirst(ready, k) => StopsFirst(s, k)
           /\ \A p \in 1 .. Len(ready) : \E q \in 1 .. Len(s) : s[q] = ready[p]
           /\ current # None =>
                 /\ \E p \in 1 .. Len(s) : s[p] = <<"stop", current>>
                 /\ (\A p \in 1 .. Len(ready) : ~ IsRun(ready[p])) => StopsFirst(s, current)
<1> USE DEF IInv
<1>1. /\ ready \in Seq(Entry) /\ Len(ready) \in Nat /\ current \in Queue
      /\ s = IF current = None THEN ready ELSE Append(ready, <<"stop", current>>)
      /\ s \in Seq(Entry) /\ Len(s) \in Nat
      /\ made \in Nat
  BY Calling, Positions DEF Types
<1>2. ASSUME NEW p \in 1 .. Len(ready)
      PROVE  /\ IsRun(ready[p]) => /\ ready[p][2] \in Trigger /\ ready[p][2] <= made
                                   /\ loop[<<ready[p][2], "run">>] = "none"
             /\ IsStop(ready[p]) => ready[p][2] \in Trigger /\ ready[p][2] <= made
             /\ IsStep(ready[p]) => ready[p][2] \in Loop /\ loop[ready[p][2]] = "new"
  <2>1. ready[p] \in Entry
    BY <1>1, Positions
  <2> QED BY <2>1, Entries DEF Fifo, RunsPending, StopsPending, StepsPending
<1>3. CASE current = None
  <2>1. ASSUME phase # "stopped", NEW p \in 1 .. Len(ready), IsRun(ready[p])
        PROVE  FollowedByStop(ready, p)
    BY <1>2, <1>3, <2>1, Loops DEF Fifo, ReplacedAreStopped
  <2> QED BY <1>1, <1>2, <1>3, <2>1 DEF Fifo, RunsAreLater
<1>4. CASE current # None
  <2> DEFINE e == <<"stop", current>>
  <2>1. /\ current \in Trigger /\ current = made /\ e \in Entry
        /\ ~ IsRun(e) /\ IsStop(e) /\ ~ IsStep(e) /\ e[2] = current
    BY <1>1, <1>4, Calling, Entries DEF Made
  <2> HIDE DEF e
  <2>2. /\ s = Append(ready, e)
        /\ Len(s) = Len(ready) + 1 /\ s[Len(ready) + 1] = e
        /\ \A p \in 1 .. Len(ready) : s[p] = ready[p] /\ p \in 1 .. Len(s)
    BY <1>1, <1>4, <2>1, Appending DEF e
  <2>3. \A p \in 1 .. Len(s) : p \in 1 .. Len(ready) \/ s[p] = e
    BY <1>1, <2>2
  <2>4. /\ \A k : StopsFirst(ready, k) => StopsFirst(s, k)
        /\ \A p \in 1 .. Len(ready) : FollowedByStop(ready, p) => FollowedByStop(s, p)
        /\ (\A p \in 1 .. Len(ready) : ~ IsRun(ready[p])) => StopsFirst(s, current)
        /\ \A p \in 1 .. Len(ready) :
              ready[p][2] = current /\ (\A q \in p + 1 .. Len(ready) : ~ IsRun(ready[q]))
              => FollowedByStop(s, p)
        /\ InOrder(s)
    <3>1. InOrder(ready)
      BY DEF Fifo
    <3>2. /\ \A k : StopsFirst(ready, k) => StopsFirst(Append(ready, e), k)
          /\ \A p \in 1 .. Len(ready) :
                FollowedByStop(ready, p) => FollowedByStop(Append(ready, e), p)
      BY <1>1, <2>1, AppendingKeepsOrder
    <3>3. InOrder(Append(ready, e))
      BY <1>1, <2>1, <3>1, AppendingKeepsOrder
    <3>4. (\A p \in 1 .. Len(ready) : ~ IsRun(ready[p])) => StopsFirst(s, current)
      BY <1>1, <2>1, <2>2, AppendingKeepsOrder DEF e
    <3>5. ASSUME NEW p \in 1 .. Len(ready), ready[p][2] = current,
                 \A q \in p + 1 .. Len(ready) : ~ IsRun(ready[q])
          PROVE  FollowedByStop(s, p)
      <4>1. e = <<"stop", ready[p][2]>>
        BY <3>5 DEF e
      <4> QED BY <1>1, <2>1, <2>2, <3>5, <4>1, AppendingKeepsOrder
    <3> QED BY <2>2, <3>2, <3>3, <3>4, <3>5
  <2>5. ASSUME NEW p \in 1 .. Len(s)
        PROVE  /\ IsRun(s[p]) => /\ s[p][2] \in Trigger /\ s[p][2] <= made
                                 /\ loop[<<s[p][2], "run">>] = "none"
               /\ IsStop(s[p]) => s[p][2] \in Trigger /\ s[p][2] <= made
               /\ IsStep(s[p]) => s[p][2] \in Loop /\ loop[s[p][2]] = "new"
    <3>1. CASE s[p] = e
      <4>1. current <= made
        BY <1>1, <2>1
      <4> QED BY <2>1, <3>1, <4>1
    <3>2. CASE p \in 1 .. Len(ready)
      BY <1>2, <2>2, <3>2
    <3> QED BY <2>3, <3>1, <3>2
  <2>6. \A l \in Loop : loop[l] \in {"waiting", "turn"} =>
           \A p \in 1 .. Len(s) : IsRun(s[p]) => TriggerOf(l) < s[p][2]
    BY <2>1, <2>2, <2>3 DEF Fifo, RunsAreLater
  <2>7. ASSUME phase # "stopped", NEW p \in 1 .. Len(s), IsRun(s[p]) PROVE FollowedByStop(s, p)
    <3>1. p \in 1 .. Len(ready) /\ s[p] = ready[p] /\ IsRun(ready[p])
      BY <2>1, <2>2, <2>3, <2>7
    <3>2. CASE ready[p][2] # current
      BY <2>4, <2>7, <3>1, <3>2 DEF Fifo, ReplacedAreStopped
    <3>3. CASE ready[p][2] = current
      <4>1. ASSUME NEW q \in p + 1 .. Len(ready), IsRun(ready[q]) PROVE FALSE
        <5>1. q \in 1 .. Len(ready) /\ p < q
          BY <1>1, <3>1
        <5>2. ready[p][2] < ready[q][2] /\ ready[q][2] <= made /\ ready[q][2] \in Trigger
          BY <1>2, <3>1, <4>1, <5>1 DEF Fifo, InOrder
        <5> QED BY <1>1, <2>1, <3>3, <5>2 DEF Trigger
      <4> QED BY <2>4, <3>1, <3>3, <4>1
    <3> QED BY <3>2, <3>3
  <2>8. \E p \in 1 .. Len(s) : s[p] = <<"stop", current>>
    BY <1>1, <2>2 DEF e
  <2> QED BY <1>1, <2>2, <2>4, <2>5, <2>6, <2>7, <2>8
<1> QED BY <1>3, <1>4

\* A call tears down the task, and what is left of it is stopped before any start.
LEMMA CallKeepsLoops ==
    ASSUME IInv, Teardown, NEW s, s = ready \o StopOf(current),
           UNCHANGED <<phase, awaited, running, loop>>,
           \A k : StopsFirst(s, k) => StopsFirst(ready', k),
           \A p \in 1 .. Len(s) : \E q \in 1 .. Len(ready') : ready'[q] = s[p]
    PROVE  AtMostOne' /\ TaskIsCurrent' /\ Started' /\ Phases'
<1> USE DEF IInv
<1>1. /\ task' = IF current = None THEN task ELSE NoLoop
      /\ \A l \in Loop : cancelled[l] => cancelled'[l]
      /\ current # None => \A l \in Loop : l = task /\ Live(l) => cancelled'[l]
  BY TeardownCancels
<1>2. /\ \A k : StopsFirst(ready, k) => StopsFirst(s, k)
      /\ \A p \in 1 .. Len(ready) : \E q \in 1 .. Len(s) : s[q] = ready[p]
      /\ current # None =>
            /\ \E p \in 1 .. Len(s) : s[p] = <<"stop", current>>
            /\ (\A p \in 1 .. Len(ready) : ~ IsRun(ready[p])) => StopsFirst(s, current)
  BY StopJoins
<1>3. \A l \in Loop : MayDrive(l)' => MayDrive(l)
  BY <1>1 DEF MayDrive, Live
<1>4. ASSUME NEW l \in Loop, MayDrive(l)', l # task' PROVE StopsFirst(s, TriggerOf(l))
  <2>1. CASE l # task
    BY <1>2, <1>3, <1>4, <2>1 DEF AtMostOne
  <2>2. CASE l = task
    <3>1. current # None /\ loop[l] = "turn" /\ running[TriggerOf(l)] /\ TaskPending
      BY <1>1, <1>4, <2>2, Loops DEF MayDrive, Live, TaskPending
    <3>2. phase # "stopped"
      BY <2>2, <3>1, Loops DEF Phases
    <3>3. CASE TriggerOf(l) # current
      BY <1>2, <2>2, <3>1, <3>2, <3>3 DEF TaskIsCurrent
    <3>4. CASE TriggerOf(l) = current
      <4>1. ASSUME NEW p \in 1 .. Len(ready), IsRun(ready[p]) PROVE FALSE
        <5>1. TriggerOf(l) < ready[p][2] /\ ready[p][2] <= made
          BY <3>1, <4>1 DEF Fifo, RunsAreLater, RunsPending
        <5>2. current = made /\ made \in Nat
          BY <3>1 DEF Made, Types
        <5>3. ready[p] \in Entry
          BY Positions DEF Types
        <5>4. ready[p][2] \in Trigger
          BY <4>1, <5>3, Entries
        <5> QED BY <3>4, <5>1, <5>2, <5>4 DEF Trigger
      <4> QED BY <1>2, <3>1, <3>4, <4>1
    <3> QED BY <3>3, <3>4
  <2> QED BY <2>1, <2>2
<1>5. AtMostOne'
  BY <1>3, <1>4 DEF AtMostOne
<1>6. TaskIsCurrent'
  <2>1. ASSUME phase # "stopped", task' # NoLoop, TaskPending', running[TriggerOf(task')]
        PROVE  StopsFirst(ready', TriggerOf(task'))
    <3>1. current = None /\ task' = task /\ TaskPending
      BY <1>1, <2>1 DEF TaskPending, Live
    <3>2. TriggerOf(task) # current
      BY <3>1, Loops DEF TaskPending, Types
    <3> QED BY <1>2, <2>1, <3>1, <3>2 DEF TaskIsCurrent
  <2> QED BY <2>1 DEF TaskIsCurrent, TaskPending
<1>7. Started'
  <2>1. ASSUME phase # "stopped", NEW k \in Trigger, running[k] PROVE \/ StopIsPending(k)'
    <3>1. \E p \in 1 .. Len(s) : s[p] = <<"stop", k>>
      <4>1. CASE k = current
        BY <1>2, <4>1, Loops
      <4>2. CASE k # current
        <5>1. PICK p \in 1 .. Len(ready) : ready[p] = <<"stop", k>>
          BY <2>1, <4>2 DEF Started, StopIsPending
        <5> QED BY <1>2, <5>1
      <4> QED BY <4>1, <4>2
    <3> QED BY <3>1 DEF StopIsPending
  <2> QED BY <2>1 DEF Started
<1>8. Phases'
  <2>1. ASSUME NEW l \in Loop, Live(l), l # task', l # task => cancelled[l] PROVE cancelled'[l]
    BY <1>1, <2>1
  <2>2. task'[2] # "start"
    BY <1>1, Loops DEF Phases, Types
  <2>3. task' # NoLoop => task' = task
    BY <1>1
  <2>4. phase = "new" => \A l \in Loop : loop[l] # "turn" /\ (Live(l)' /\ l # task' => cancelled'[l])
    BY <2>1 DEF Phases, Live
  <2>5. \A l \in Loop : l[2] = "start" /\ loop[l] = "new" /\ l # task' => cancelled'[l]
    BY <2>1 DEF Phases, Live
  <2> QED BY <2>2, <2>3, <2>4, <2>5 DEF Phases
<1> QED BY <1>5, <1>6, <1>7, <1>8

LEMMA RemoveKeepsInv ==
    ASSUME IInv, Types', Remove
    PROVE  IInv'
<1> USE DEF IInv
<1> DEFINE s == ready \o StopOf(current)
<1>1. /\ UNCHANGED <<phase, awaited, home, made, reg, running, sub, loop, waitsOn, chan>>
      /\ hasty' = (hasty \/ ready # <<>> \/ phase \notin {"new", "running"})
      /\ current # None /\ current' = None /\ Teardown
      /\ ready' = s
  BY DEF Remove, Called, agent, trigger, channel
<1>2. /\ Len(s) \in Nat /\ InOrder(s)
      /\ \A p \in 1 .. Len(s) :
            /\ IsRun(s[p]) => /\ s[p][2] \in Trigger /\ s[p][2] <= made
                              /\ loop[<<s[p][2], "run">>] = "none"
            /\ IsStop(s[p]) => s[p][2] \in Trigger /\ s[p][2] <= made
            /\ IsStep(s[p]) => s[p][2] \in Loop /\ loop[s[p][2]] = "new"
      /\ \A l \in Loop : loop[l] \in {"waiting", "turn"} =>
            \A p \in 1 .. Len(s) : IsRun(s[p]) => TriggerOf(l) < s[p][2]
      /\ phase # "stopped" => \A p \in 1 .. Len(s) : IsRun(s[p]) => FollowedByStop(s, p)
  BY StopJoins
<1>3. AtMostOne' /\ TaskIsCurrent' /\ Started' /\ Phases'
  BY <1>1, CallKeepsLoops
<1> HIDE DEF s
<1>4. Fifo'
  BY <1>1, <1>2, Loops
     DEF Fifo, RunsPending, StopsPending, StepsPending, RunsAreLater, ReplacedAreStopped
<1>5. Made'
  <2>1. \A l \in Loop : cancelled'[l] => cancelled[l] \/ Live(l)
    BY <1>1, TeardownCancels
  <2> QED BY <1>1, <2>1 DEF Made, Live
<1>6. Subscribed'
  BY <1>1 DEF Subscribed
<1>7. Unhurried'
  <2>1. ASSUME ~ hasty' PROVE Unwired' /\ phase' \in {"new", "running"}
    <3>1. ready = <<>> /\ phase \in {"new", "running"}
      BY <1>1, <2>1 DEF Types
    <3>2. ready' = << <<"stop", current>> >> /\ current \in Trigger
      <4>1. s = Append(ready, <<"stop", current>>) /\ current \in Trigger
        BY <1>1, Calling DEF Types, s
      <4> QED BY <1>1, <3>1, <4>1, ShortQueues
    <3>3. task' = NoLoop
      BY <1>1, TeardownCancels
    <3> QED BY <1>1, <3>1, <3>2, <3>3 DEF Unwired
  <2> QED BY <2>1 DEF Unhurried
<1> QED BY <1>3, <1>4, <1>5, <1>6, <1>7

LEMMA InjectKeepsFifo ==
    ASSUME IInv, NEW r \in Registry, Inject(r), Types'
    PROVE  Fifo'
<1> USE DEF IInv
<1> DEFINE s == ready \o StopOf(current)
           k == made + 1
           e == <<"run", k>>
<1>1. /\ UNCHANGED <<phase, loop>> /\ made' = k /\ current' = k
      /\ k \in Trigger /\ made \in Nat /\ k \in Nat /\ made < k
      /\ e \in Entry /\ IsRun(e) /\ ~ IsStop(e) /\ ~ IsStep(e) /\ e[2] = k
      /\ ready' = Append(s, e)
  <2>1. k \in Trigger /\ made \in Nat /\ k \in Nat /\ made < k
    BY BoundAssumption DEF Inject, Types, Trigger
  <2> QED BY <2>1, Calling, Entries DEF Inject, agent, Types
<1>2. /\ s \in Seq(Entry) /\ Len(s) \in Nat /\ InOrder(s)
      /\ \A p \in 1 .. Len(s) :
            /\ IsRun(s[p]) => /\ s[p][2] \in Trigger /\ s[p][2] <= made
                              /\ loop[<<s[p][2], "run">>] = "none"
            /\ IsStop(s[p]) => s[p][2] \in Trigger /\ s[p][2] <= made
            /\ IsStep(s[p]) => s[p][2] \in Loop /\ loop[s[p][2]] = "new"
      /\ \A l \in Loop : loop[l] \in {"waiting", "turn"} =>
            \A p \in 1 .. Len(s) : IsRun(s[p]) => TriggerOf(l) < s[p][2]
      /\ phase # "stopped" => \A p \in 1 .. Len(s) : IsRun(s[p]) => FollowedByStop(s, p)
  BY StopJoins
<1> HIDE DEF s, k, e
<1>3. /\ Len(ready') = Len(s) + 1 /\ ready'[Len(s) + 1] = e
      /\ \A p \in 1 .. Len(s) : ready'[p] = s[p]
      /\ \A p \in 1 .. Len(s) : FollowedByStop(s, p) => FollowedByStop(ready', p)
  BY <1>1, <1>2, Appending, AppendingKeepsOrder
<1>4. \A i \in Trigger : i \in Nat /\ (i <= made => i < k /\ i <= k /\ i # k)
  BY <1>1, BoundAssumption DEF k, Trigger
<1>5. \A p \in 1 .. Len(ready') : p \in 1 .. Len(s) \/ ready'[p] = e
  BY <1>2, <1>3
<1>6. \A l \in Loop : loop[l] # "none" => TriggerOf(l) < k
  BY <1>1, Loops DEF Made, k, Trigger
<1>7. InOrder(ready')
  <2>1. ASSUME NEW p \in 1 .. Len(s)
        PROVE  /\ IsRun(s[p]) => s[p][2] < k
               /\ IsStep(s[p]) => TriggerOf(s[p][2]) < k
    BY <1>2, <1>6, <1>4
  <2> QED BY <1>1, <1>2, <2>1, AppendingKeepsOrder
<1>8. RunsPending'
  <2>1. ASSUME NEW p \in 1 .. Len(ready'), IsRun(ready'[p])
        PROVE  ready'[p][2] <= k /\ loop[<<ready'[p][2], "run">>] = "none"
    <3>1. CASE p \in 1 .. Len(s)
      BY <1>1, <1>2, <1>3, <1>4, <2>1, <3>1
    <3>2. CASE ready'[p] = e
      <4>1. ~ (k < k) /\ k <= k
        BY <1>1
      <4>2. <<k, "run">> \in Loop /\ TriggerOf(<<k, "run">>) = k
        BY <1>1, Loops
      <4>3. loop[<<k, "run">>] = "none"
        BY <1>6, <4>1, <4>2
      <4>4. ready'[p][2] = k
        BY <1>1, <3>2
      <4> QED BY <4>1, <4>3, <4>4
    <3> QED BY <1>5, <3>1, <3>2
  <2> QED BY <1>1, <2>1 DEF RunsPending
<1>9. StopsPending'
  <2>1. ASSUME NEW p \in 1 .. Len(ready'), IsStop(ready'[p])
        PROVE  ready'[p][2] <= k /\ ready'[p][2] # k
    <3>1. p \in 1 .. Len(s) /\ ready'[p] = s[p]
      BY <1>1, <1>3, <1>5, <2>1
    <3> QED BY <1>2, <1>4, <2>1, <3>1
  <2> QED BY <1>1, <2>1 DEF StopsPending
<1>10. StepsPending'
  BY <1>1, <1>2, <1>3, <1>5 DEF StepsPending
<1>11. RunsAreLater'
  BY <1>1, <1>2, <1>3, <1>5, <1>6 DEF RunsAreLater
<1>12. ReplacedAreStopped'
  BY <1>1, <1>2, <1>3, <1>5 DEF ReplacedAreStopped
<1> QED BY <1>7, <1>8, <1>9, <1>10, <1>11, <1>12 DEF Fifo

LEMMA InjectKeepsInv ==
    ASSUME IInv, NEW r \in Registry, Inject(r), Types'
    PROVE  IInv'
<1> USE DEF IInv
<1> DEFINE s == ready \o StopOf(current)
           k == made + 1
           e == <<"run", k>>
<1>1. /\ UNCHANGED <<phase, awaited, running, sub, loop, waitsOn, chan>>
      /\ hasty' = (hasty \/ ready # <<>> \/ phase \notin {"new", "running"})
      /\ Teardown /\ made' = k /\ home' = r /\ current' = k
      /\ reg' = [reg EXCEPT ![k] = r]
      /\ k \in Trigger /\ k # None /\ made \in Nat /\ made < k
      /\ s \in Seq(Entry) /\ e \in Entry
      /\ ready' = Append(s, e)
  <2>1. k \in Trigger /\ k # None /\ made \in Nat /\ made < k
    BY BoundAssumption DEF Inject, Types, Trigger, None
  <2> QED BY <2>1, Calling, Entries DEF Inject, Called, agent, channel, Types
<1>2. AtMostOne' /\ TaskIsCurrent' /\ Started' /\ Phases'
  <2>1. \A i : StopsFirst(s, i) => StopsFirst(ready', i)
    BY <1>1, AppendingKeepsOrder
  <2>2. \A p \in 1 .. Len(s) : \E q \in 1 .. Len(ready') : ready'[q] = s[p]
    <3>1. \A p \in 1 .. Len(s) : p \in 1 .. Len(ready') /\ ready'[p] = s[p]
      BY <1>1, Appending, Positions
    <3> QED BY <3>1
  <2> QED BY <1>1, <2>1, <2>2, CallKeepsLoops
<1> HIDE DEF s, e
<1>3. Fifo'
  BY InjectKeepsFifo
<1>4. Made'
  <2>1. \A l \in Loop : cancelled'[l] => cancelled[l] \/ Live(l)
    BY <1>1, TeardownCancels
  <2>2. \A l \in Loop : loop[l] # "none" => TriggerOf(l) <= made /\ TriggerOf(l) \in Trigger
    BY Loops DEF Made
  <2>3. \A i \in Trigger : i <= made => i <= k
    BY <1>1, BoundAssumption DEF Trigger
  <2>4. reg'[current'] = home'
    BY <1>1 DEF Types
  <2> HIDE DEF k
  <2> QED BY <1>1, <2>1, <2>2, <2>3, <2>4 DEF Made, Live
<1>5. Subscribed'
  <2>1. ASSUME NEW q \in Registry, chan[q] # None
        PROVE  \E j \in Trigger : reg'[j] = q /\ sub[j] = chan[q]
    <3>1. PICK j \in Trigger : reg[j] = q /\ sub[j] = chan[q]
      BY <2>1 DEF Subscribed
    <3>2. j <= made /\ j \in Nat
      BY <2>1, <3>1, BoundAssumption DEF Subscribed, Made, Trigger
    <3>3. reg'[j] = reg[j]
      BY <1>1, <3>2 DEF Types
    <3> QED BY <3>1, <3>3
  <2> QED BY <1>1, <2>1 DEF Subscribed
<1>6. Unhurried'
  <2>1. ASSUME ~ hasty' PROVE Installed' /\ phase' \in {"new", "running"}
    <3>1. ready = <<>> /\ phase \in {"new", "running"}
      BY <1>1, <2>1 DEF Types
    <3>2. Unwired \/ Attached
      BY <1>1, <2>1, <3>1 DEF Unhurried, Installed, Spawned
    <3>3. task' = NoLoop
      BY <1>1, <3>2, TeardownCancels DEF Unwired, Attached
    <3>4. ~ running[k]
      <4> HIDE DEF k
      <4>1. ~ (k <= made)
        BY <1>1, BoundAssumption DEF Trigger
      <4> QED BY <1>1, <4>1 DEF Made
    <3>5. \/ ready' = << <<"run", k>> >>
          \/ current \in Trigger /\ ready' = << <<"stop", current>>, <<"run", k>> >>
      <4>1. CASE current = None
        <5>1. s = <<>>
          BY <3>1, <4>1, Calling DEF Types, s
        <5> QED BY <1>1, <5>1, ShortQueues DEF e
      <4>2. CASE current # None
        <5>1. s = << <<"stop", current>> >> /\ current \in Trigger
          BY <3>1, <4>2, Calling, ShortQueues DEF Types, s
        <5> QED BY <1>1, <5>1, ShortQueues DEF e
      <4> QED BY <4>1, <4>2
    <3> QED BY <1>1, <3>1, <3>3, <3>4, <3>5 DEF Installed
  <2> QED BY <2>1 DEF Unhurried, Types
<1> QED BY <1>2, <1>3, <1>4, <1>5, <1>6

-----------------------------------------------------------------------------
(* The invariant.                                                          *)

LEMMA InitInv == Init => IInv
<1> SUFFICES ASSUME Init PROVE IInv
  OBVIOUS
<1>1. Types
  <2>1. 0 \in 0 .. MaxTriggers /\ 0 \in 0 .. MaxSends /\ 0 \in Nat /\ <<>> \in Seq(Entry)
    BY BoundAssumption
  <2> QED BY <2>1, HomeAssumption DEF Init, Types, Queue
<1>2. Fifo
  BY DEF Init, Fifo, InOrder, RunsPending, StopsPending, StepsPending, RunsAreLater,
         ReplacedAreStopped
<1>3. Made /\ Phases
  BY Loops DEF Init, Made, Phases, Live
<1>4. AtMostOne /\ TaskIsCurrent /\ Started /\ Subscribed
  BY DEF Init, AtMostOne, MayDrive, Live, TaskIsCurrent, TaskPending, Started, Subscribed
<1>5. Unhurried
  BY DEF Init, Unhurried, Unwired
<1> QED BY <1>1, <1>2, <1>3, <1>4, <1>5 DEF IInv

LEMMA StepKeepsInv == IInv /\ [Next]_vars => IInv'
<1> SUFFICES ASSUME IInv, [Next]_vars PROVE IInv'
  OBVIOUS
<1>1. Types'
  BY Typing DEF IInv, Fifo
<1>2. ASSUME NEW r \in Registry, Inject(r) PROVE IInv'
  BY <1>1, <1>2, InjectKeepsInv
<1>3. CASE Remove
  BY <1>1, <1>3, RemoveKeepsInv
<1>4. CASE Send \/ UNCHANGED vars
  BY <1>1, <1>4, SendKeepsInv
<1>5. ASSUME NEW k \in Trigger, TaskStep(k) PROVE IInv'
  BY <1>1, <1>5, RunTaskKeepsInv, StopTaskKeepsInv DEF TaskStep
<1>6. ASSUME NEW l \in Loop, LoopStep(l) PROVE IInv'
  BY <1>1, <1>6, LoopStepKeepsInv
<1>7. CASE StartAll
  BY <1>1, <1>7, StartAllKeepsInv
<1>8. CASE Close
  BY <1>1, <1>8, CloseKeepsInv
<1>9. CASE StopAll
  <2>1. /\ UNCHANGED <<hasty, home, made, reg, loop, waitsOn, ready>>
        /\ phase = "closing"
    BY <1>9 DEF StopAll
  <2>2. CASE /\ task = NoLoop
             /\ StopTriggers
             /\ UNCHANGED cancelled
    BY <1>1, <2>1, <2>2, StopTriggersKeepsInv
  <2>3. CASE /\ task # NoLoop
             /\ phase' = "stopping"
             /\ cancelled' = IF Live(task) THEN [cancelled EXCEPT ![task] = TRUE] ELSE cancelled
             /\ awaited' = task
             /\ UNCHANGED <<manager, running, sub, chan>>
    BY <1>1, <2>1, <2>3, AwaitingKeepsInv DEF manager
  <2> QED BY <1>9, <2>2, <2>3 DEF StopAll
<1>10. CASE StopAllReturns
  BY <1>1, <1>10, StopTriggersKeepsInv DEF StopAllReturns, loops
<1> QED BY <1>2, <1>3, <1>4, <1>5, <1>6, <1>7, <1>8, <1>9, <1>10 DEF Next, Call

THEOREM Invariance == Spec => []IInv
<1>1. Init => IInv
  BY InitInv
<1>2. IInv /\ [Next]_vars => IInv'
  BY StepKeepsInv
<1> QED BY <1>1, <1>2, PTL DEF Spec

-----------------------------------------------------------------------------
(* What the invariant says of the wire.                                    *)

\* However fast terrarium/channels.py sets, unsets and moves the wire, and
\* whatever the event loop runs first, two run loops never drive it together.
THEOREM OneDriverHolds == Spec => []OneDriver
<1>1. ASSUME IInv PROVE OneDriver
  BY <1>1 DEF IInv, AtMostOne, OneDriver, Drives, MayDrive
<1> QED BY <1>1, Invariance, PTL

LEMMA AtRestTheTaskDrives ==
    ASSUME IInv, AtRest, NEW l \in Loop, Live(l)
    PROVE  l = task /\ MayDrive(l)
<1>1. MayDrive(l) /\ ready = <<>>
  BY DEF AtRest, MayDrive
<1> QED BY <1>1, OnlyTheTaskDrives

LEMMA AtRestNobodyElseIsStarted ==
    ASSUME IInv, AtRest, phase # "stopped", NEW k \in Trigger, running[k]
    PROVE  k = current
BY DEF IInv, AtRest, Started, StopIsPending

\* What remove_channel_trigger and a second inject_channel_trigger leave behind
\* when their tasks have run: no run loop without its trigger, and no queue but
\* the installed trigger's on any registry.
THEOREM NothingLeaksHolds == Spec => []NothingLeaks
<1>1. ASSUME IInv, AtRest, phase = "running", NEW l \in Loop, Live(l)
      PROVE  TriggerOf(l) = current
  <2>1. running[TriggerOf(l)] /\ TriggerOf(l) \in Trigger
    BY <1>1, Loops DEF AtRest
  <2> QED BY <1>1, <2>1, AtRestNobodyElseIsStarted
<1>2. ASSUME IInv, AtRest, phase = "running", NEW r \in Registry, chan[r] # None
      PROVE  current # None /\ r = reg[current] /\ chan[r] = sub[current]
  <2>1. PICK k \in Trigger : reg[k] = r /\ sub[k] = chan[r]
    BY <1>2 DEF IInv, Subscribed
  <2>2. running[k]
    BY <1>2, <2>1 DEF IInv, Subscribed
  <2>3. k = current /\ k # None
    BY <1>2, <2>1, <2>2, AtRestNobodyElseIsStarted, Loops
  <2> QED BY <2>1, <2>3
<1>3. ASSUME IInv PROVE NothingLeaks
  BY <1>1, <1>2, <1>3 DEF NothingLeaks
<1> QED BY <1>3, Invariance, PTL

\* When every call waited for what the one before it left to do, a wired creature
\* is served by one run loop on the channel of the graph it is in now, whatever
\* merges, splits and wire changes came before.
THEOREM WiredMeansHeardHolds == Spec => []WiredMeansHeard
<1>1. ASSUME IInv, ~ hasty, AtRest, phase = "running", current # None
      PROVE  \E l \in Loop : Serves(l)
  <2>1. ready = <<>> /\ ~ Unwired /\ ~ Installed /\ ~ Spawned
    BY <1>1 DEF AtRest, Unwired, Installed, Spawned
  <2>2. Attached
    BY <1>1, <2>1 DEF IInv, Unhurried
  <2>3. task \in Loop
    BY <2>2, Loops, <1>1 DEF Attached, IInv, Types, Queue
  <2> QED BY <2>2, <2>3 DEF Attached
<1>2. ASSUME IInv PROVE WiredMeansHeard
  BY <1>1, <1>2 DEF WiredMeansHeard
<1> QED BY <1>2, Invariance, PTL

\* After Agent.stop no run loop of the wire is left, when no call was hasty.
THEOREM StoppedIsQuietHolds == Spec => []StoppedIsQuiet
<1>1. ASSUME IInv, ~ hasty, AtRest, phase = "stopped", NEW l \in Loop, Live(l)
      PROVE  FALSE
  <2>1. l = task
    BY <1>1, AtRestTheTaskDrives
  <2>2. task = NoLoop
    BY <1>1 DEF IInv, Unhurried
  <2> QED BY <2>1, <2>2, Loops
<1>2. ASSUME IInv PROVE StoppedIsQuiet
  BY <1>1, <1>2 DEF StoppedIsQuiet
<1> QED BY <1>2, Invariance, PTL
=============================================================================

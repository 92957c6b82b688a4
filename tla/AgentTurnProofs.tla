-------------------------- MODULE AgentTurnProofs --------------------------
(***************************************************************************)
(* No event of an agent is lost or handled twice, for any numbers of       *)
(* events, rounds, failures and interrupts.  The invariant says of every    *)
(* event where it is and that it is nowhere else: an event is delivered    *)
(* once, so each hand-over between lock, buffer and queue takes it from     *)
(* one place to one other.  Flushers await different turns, which is why    *)
(* the end of a turn has one of them to wake at most.                       *)
(***************************************************************************)
EXTENDS AgentTurn, FiniteSetTheorems, TLAPS

USE NoEventAssumption, BoundAssumption

-----------------------------------------------------------------------------
(* Sequences as queues.                                                    *)

Once(s, e) == \A i, j \in DOMAIN s : s[i] = e /\ s[j] = e => i = j

LEMMA EmptyQueue == \A S : <<>> \in Seq(S) /\ Elements(<<>>) = {} /\ \A e : Once(<<>>, e)
BY DEF Elements, Once

LEMMA Appending ==
    ASSUME NEW S, NEW s \in Seq(S), NEW x \in S
    PROVE  /\ Append(s, x) \in Seq(S)
           /\ Elements(Append(s, x)) = Elements(s) \cup {x}
           /\ \A e : Once(s, e) /\ (e = x => x \notin Elements(s)) => Once(Append(s, x), e)
<1> DEFINE t == Append(s, x)
<1>1. /\ t \in Seq(S) /\ DOMAIN t = 1 .. Len(s) + 1 /\ DOMAIN s = 1 .. Len(s) /\ Len(s) \in Nat
      /\ \A i \in DOMAIN s : t[i] = s[i]
      /\ t[Len(s) + 1] = x
  OBVIOUS
<1> HIDE DEF t
<1>2. Elements(t) = Elements(s) \cup {x}
  BY <1>1 DEF Elements
<1>3. ASSUME NEW e, Once(s, e), e = x => x \notin Elements(s) PROVE Once(t, e)
  BY <1>1, <1>3 DEF Elements, Once
<1> QED BY <1>1, <1>2, <1>3 DEF t

LEMMA Taking ==
    ASSUME NEW S, NEW s \in Seq(S), s # <<>>
    PROVE  /\ Head(s) \in S /\ Tail(s) \in Seq(S)
           /\ Elements(s) = {Head(s)} \cup Elements(Tail(s))
           /\ Once(s, Head(s)) => Head(s) \notin Elements(Tail(s))
           /\ \A e : Once(s, e) => Once(Tail(s), e)
<1> DEFINE t == Tail(s)
<1>1. /\ t \in Seq(S) /\ Head(s) = s[1] /\ Head(s) \in S /\ Len(s) \in Nat \ {0}
      /\ DOMAIN s = 1 .. Len(s) /\ DOMAIN t = 1 .. Len(s) - 1
      /\ \A i \in DOMAIN t : t[i] = s[i + 1]
  OBVIOUS
<1> HIDE DEF t
<1>2. Elements(s) = {Head(s)} \cup Elements(t)
  <2>1. \A i \in DOMAIN s : i = 1 \/ (i - 1 \in DOMAIN t /\ t[i - 1] = s[i])
    BY <1>1
  <2>2. \A i \in DOMAIN t : i + 1 \in DOMAIN s /\ t[i] = s[i + 1]
    BY <1>1
  <2>3. 1 \in DOMAIN s
    BY <1>1
  <2> QED BY <1>1, <2>1, <2>2, <2>3 DEF Elements
<1>3. Once(s, Head(s)) => Head(s) \notin Elements(t)
  BY <1>1 DEF Elements, Once
<1>4. ASSUME NEW e, Once(s, e) PROVE Once(t, e)
  <2> SUFFICES ASSUME NEW i \in DOMAIN t, NEW j \in DOMAIN t, t[i] = e, t[j] = e PROVE i = j
      BY DEF Once
  <2>1. i + 1 \in DOMAIN s /\ j + 1 \in DOMAIN s /\ s[i + 1] = e /\ s[j + 1] = e
    BY <1>1
  <2>2. i + 1 = j + 1
    BY <1>4, <2>1 DEF Once
  <2> QED BY <1>1, <2>2
<1> QED BY <1>1, <1>2, <1>3, <1>4 DEF t

-----------------------------------------------------------------------------
(* The invariant.                                                          *)

Stage == {"idle", "opening", "starting", "top", "llm", "tools", "closing"}

Shapes ==
    /\ running \in BOOLEAN
    /\ owner \in Event \cup {NoEvent}
    /\ stage \in Stage
    /\ owner = NoEvent <=> stage = "idle"
    /\ waiters \in Seq(Event) /\ buffer \in Seq(Event)
    /\ queue \in Seq(Event \cup {Feedback})
    /\ seen \in [Event -> Nat]
    /\ flusher \in [Flusher -> {"idle", "waiting", "firing", "ended"}]
    /\ firing \in [Flusher -> Event \cup {NoEvent}]
    /\ interrupts \in Nat
    /\ arrived \subseteq Event

\* No event is in two places or twice in one.
OnePlace == \A e \in Event :
    /\ seen[e] <= 1
    /\ Once(waiters, e) /\ Once(queue, e) /\ Once(buffer, e)
    /\ Opening(e) \/ e \in Elements(waiters) \cup Elements(queue) \cup Elements(buffer)
         => seen[e] = 0
    /\ e \in Elements(waiters) =>
         owner # e /\ e \notin Elements(queue) /\ e \notin Elements(buffer)
    /\ e \in Elements(buffer) => owner # e /\ e \notin Elements(queue)
    /\ Opening(e) => e \notin Elements(queue)

\* An event that was not delivered is nowhere.
NowhereBefore == \A e \in Event \ arrived :
    /\ seen[e] = 0
    /\ owner # e
    /\ e \notin Elements(waiters) \cup Elements(queue) \cup Elements(buffer)

\* One that was is in the conversation, on its way or dropped.
SomewhereAfter == \A e \in arrived : seen[e] = 0 =>
    Opening(e) \/ e \in dropped
    \/ e \in Elements(waiters) \cup Elements(queue) \cup Elements(buffer)

\* Flushers await turns of different events.
Awaiting ==
    /\ FlusherIsAwaitingATurn
    /\ \A f, g \in Flusher :
          flusher[f] = "firing" /\ flusher[g] = "firing" /\ firing[f] = firing[g] => f = g
    /\ \A f \in Flusher : flusher[f] = "firing" => firing[f] \in Event

Inv == Shapes /\ OnePlace /\ NowhereBefore /\ SomewhereAfter /\ Awaiting

LEMMA InvInit == Init => Inv
<1> SUFFICES ASSUME Init PROVE Inv
    OBVIOUS
<1>1. /\ <<>> \in Seq(Event) /\ <<>> \in Seq(Event \cup {Feedback})
      /\ Elements(<<>>) = {} /\ \A e : Once(<<>>, e)
  BY EmptyQueue
<1>2. /\ waiters = <<>> /\ queue = <<>> /\ buffer = <<>> /\ arrived = {}
      /\ owner = NoEvent /\ stage = "idle" /\ running = TRUE /\ interrupts = 0
      /\ seen = [e \in Event |-> 0]
      /\ flusher = [f \in Flusher |-> "idle"] /\ firing = [f \in Flusher |-> NoEvent]
  BY DEF Init
<1>3. Shapes
  BY <1>1, <1>2 DEF Shapes, Stage
<1>4. OnePlace /\ NowhereBefore /\ SomewhereAfter
  BY <1>1, <1>2 DEF OnePlace, NowhereBefore, SomewhereAfter, Opening, Event
<1>5. Awaiting
  BY <1>2 DEF Awaiting, FlusherIsAwaitingATurn, Event
<1> QED BY <1>3, <1>4, <1>5 DEF Inv

\* Steps that move no event and end no turn.
LEMMA StandingStill ==
    ASSUME Inv, running' \in BOOLEAN, stage' \in Stage \ {"idle"}, stage # "idle",
           stage' = "opening" => stage = "opening",
           stage = "opening" => stage' = "opening",
           UNCHANGED <<owner, waiters, queue, buffer, arrived, seen, dropped, firing, flusher, interrupts>>
    PROVE  Inv'
BY DEF Inv, Shapes, Stage, OnePlace, NowhereBefore, SomewhereAfter, Awaiting,
       FlusherIsAwaitingATurn, Opening

LEMMA ArriveKeeps ==
    ASSUME Inv, NEW e \in Event, Arrive(e)
    PROVE  Inv'
<1> USE DEF Inv, Shapes
<1>1. /\ e \notin arrived /\ arrived' = arrived \cup {e}
      /\ UNCHANGED <<running, queue, seen, dropped, interrupts, flusher, firing>>
  BY DEF Arrive, flushing
<1>2. CASE buffer' = Append(buffer, e) /\ UNCHANGED <<owner, waiters, stage>> /\ Buffered(e)
  <2>1. /\ buffer' \in Seq(Event) /\ Elements(buffer') = Elements(buffer) \cup {e}
        /\ \A x \in Event : Once(buffer', x)
    BY <1>1, <1>2, Appending DEF OnePlace, NowhereBefore
  <2> QED
    BY <1>1, <1>2, <2>1 DEF OnePlace, NowhereBefore, SomewhereAfter, Awaiting,
       FlusherIsAwaitingATurn, Opening
<1>3. CASE Enter(e) /\ UNCHANGED buffer
  <2>1. CASE owner = NoEvent /\ owner' = e /\ stage' = "opening" /\ UNCHANGED waiters
    <3>10. Shapes'
      BY <1>1, <1>3, <2>1 DEF Stage, Event
    <3>11. OnePlace'
      BY <1>1, <1>3, <2>1 DEF OnePlace, NowhereBefore, Opening, Event
    <3>12. NowhereBefore'
      BY <1>1, <1>3, <2>1 DEF OnePlace, NowhereBefore
    <3>13. SomewhereAfter'
      BY <1>1, <1>3, <2>1 DEF SomewhereAfter, Opening
    <3>14. Awaiting'
      BY <1>1, <1>3, <2>1 DEF Awaiting, FlusherIsAwaitingATurn, Event
    <3> QED BY <3>10, <3>11, <3>12, <3>13, <3>14
  <2>2. CASE waiters' = Append(waiters, e) /\ UNCHANGED <<owner, stage>>
    <3>1. /\ waiters' \in Seq(Event) /\ Elements(waiters') = Elements(waiters) \cup {e}
          /\ \A x \in Event : Once(waiters', x)
      BY <1>1, <2>2, Appending DEF OnePlace, NowhereBefore
    <3> QED
      BY <1>1, <1>3, <2>2, <3>1 DEF OnePlace, NowhereBefore, SomewhereAfter, Awaiting,
         FlusherIsAwaitingATurn, Opening
  <2> QED BY <1>3, <2>1, <2>2 DEF Enter
<1> QED BY <1>2, <1>3 DEF Arrive

LEMMA AcquireKeeps ==
    ASSUME Inv, Acquire
    PROVE  Inv'
<1> USE DEF Inv, Shapes
<1>1. /\ owner = NoEvent /\ waiters # <<>> /\ owner' = Head(waiters) /\ waiters' = Tail(waiters)
      /\ stage' = "opening"
      /\ UNCHANGED <<running, queue, buffer, arrived, seen, dropped, interrupts, flusher, firing>>
  BY DEF Acquire, flushing, history
<1>2. /\ owner' \in Event /\ waiters' \in Seq(Event)
      /\ Elements(waiters) = {owner'} \cup Elements(waiters')
      /\ owner' \notin Elements(waiters')
      /\ \A x \in Event : Once(waiters', x)
  BY <1>1, Taking DEF OnePlace
<1>10. Shapes'
  BY <1>1, <1>2 DEF Stage, Event
<1>11. OnePlace'
  BY <1>1, <1>2 DEF OnePlace, NowhereBefore, Opening, Event
<1>12. NowhereBefore'
  BY <1>1, <1>2 DEF OnePlace, NowhereBefore
<1>13. SomewhereAfter'
  BY <1>1, <1>2 DEF SomewhereAfter, Opening
<1>14. Awaiting'
  BY <1>1, <1>2 DEF Awaiting, FlusherIsAwaitingATurn, Event
<1> QED BY <1>10, <1>11, <1>12, <1>13, <1>14

LEMMA StartKeeps ==
    ASSUME Inv, Start
    PROVE  Inv'
<1> USE DEF Inv, Shapes
<1>1. /\ stage = "opening" /\ queue' = Append(queue, owner) /\ stage' = "starting"
      /\ UNCHANGED <<running, owner, waiters, buffer, arrived, seen, dropped, interrupts, flusher, firing>>
  BY DEF Start, flushing, history, lock
<1>2. owner \in Event /\ Opening(owner)
  BY <1>1 DEF Opening
<1>3. /\ queue' \in Seq(Event \cup {Feedback}) /\ Elements(queue') = Elements(queue) \cup {owner}
      /\ \A x \in Event : Once(queue', x)
  <2>1. owner \in Event \cup {Feedback} /\ owner \notin Elements(queue)
    BY <1>2 DEF OnePlace
  <2>2. \A x \in Event : Once(queue, x)
    BY DEF OnePlace
  <2> QED BY <1>1, <2>1, <2>2, Appending
<1>10. Shapes'
  BY <1>1, <1>2, <1>3 DEF Stage
<1>11. OnePlace'
  BY <1>1, <1>2, <1>3 DEF OnePlace, NowhereBefore, Opening, Event
<1>12. NowhereBefore'
  BY <1>1, <1>2, <1>3 DEF OnePlace, NowhereBefore
<1>13. SomewhereAfter'
  BY <1>1, <1>2, <1>3 DEF SomewhereAfter, Opening
<1>14. Awaiting'
  BY <1>1, <1>2, <1>3 DEF Awaiting, FlusherIsAwaitingATurn, Event
<1> QED BY <1>10, <1>11, <1>12, <1>13, <1>14

LEMMA BeginRoundKeeps ==
    ASSUME Inv, BeginRound
    PROVE  Inv'
<1> USE DEF Inv, Shapes
<1>1. /\ stage = "top" /\ stage' = "llm" /\ See(queue) /\ queue' = <<>>
      /\ UNCHANGED <<running, owner, waiters, buffer, arrived, dropped, interrupts, flusher, firing>>
  BY DEF BeginRound, flushing, lock
<1>2. queue' \in Seq(Event \cup {Feedback}) /\ Elements(queue') = {} /\ \A e : Once(queue', e)
  BY <1>1, EmptyQueue
<1>3. /\ seen' \in [Event -> Nat]
      /\ \A e \in Event : seen'[e] = IF e \in Elements(queue) THEN seen[e] + 1 ELSE seen[e]
  BY <1>1 DEF See
<1>10. Shapes'
  BY <1>1, <1>2, <1>3 DEF Stage
<1>11. OnePlace'
  BY <1>1, <1>2, <1>3 DEF OnePlace, NowhereBefore, Opening, Event
<1>12. NowhereBefore'
  BY <1>1, <1>2, <1>3 DEF OnePlace, NowhereBefore
<1>13. SomewhereAfter'
  <2>1. \A e \in Event : seen'[e] = 0 => seen[e] = 0 /\ e \notin Elements(queue)
    BY <1>3
  <2> QED BY <1>1, <2>1 DEF SomewhereAfter, Opening
<1>14. Awaiting'
  BY <1>1, <1>2, <1>3 DEF Awaiting, FlusherIsAwaitingATurn, Event
<1> QED BY <1>10, <1>11, <1>12, <1>13, <1>14

LEMMA CollectFeedbackKeeps ==
    ASSUME Inv, CollectFeedback
    PROVE  Inv'
<1> USE DEF Inv, Shapes
<1>1. /\ stage = "tools" /\ stage' \in {"top", "closing"} /\ See(buffer) /\ buffer' = <<>>
      /\ queue' = Append(queue, Feedback) \/ queue' = queue
      /\ UNCHANGED <<running, owner, waiters, arrived, dropped, interrupts, flusher, firing>>
  BY DEF CollectFeedback, flushing, lock
<1>2. buffer' \in Seq(Event) /\ Elements(buffer') = {} /\ \A e : Once(buffer', e)
  BY <1>1, EmptyQueue
<1>3. /\ seen' \in [Event -> Nat]
      /\ \A e \in Event : seen'[e] = IF e \in Elements(buffer) THEN seen[e] + 1 ELSE seen[e]
  BY <1>1 DEF See
<1>4. /\ queue' \in Seq(Event \cup {Feedback})
      /\ \A e \in Event : /\ e \in Elements(queue') <=> e \in Elements(queue)
                          /\ Once(queue', e)
  <2>1. \A e \in Event : e # Feedback
    BY DEF Event
  <2>2. \A e \in Event : Once(queue, e)
    BY DEF OnePlace
  <2>3. CASE queue' = Append(queue, Feedback)
    <3>1. Feedback \in Event \cup {Feedback}
      OBVIOUS
    <3>2. /\ queue' \in Seq(Event \cup {Feedback})
          /\ Elements(queue') = Elements(queue) \cup {Feedback}
          /\ \A e : Once(queue, e) /\ (e = Feedback => Feedback \notin Elements(queue))
               => Once(queue', e)
      BY <2>3, <3>1, Appending
    <3> QED BY <2>1, <2>2, <3>2
  <2> QED BY <1>1, <2>2, <2>3
<1>10. Shapes'
  BY <1>1, <1>2, <1>3, <1>4 DEF Stage
<1>11. OnePlace'
  BY <1>1, <1>2, <1>3, <1>4 DEF OnePlace, NowhereBefore, Opening, Event
<1>12. NowhereBefore'
  BY <1>1, <1>2, <1>3, <1>4 DEF OnePlace, NowhereBefore
<1>13. SomewhereAfter'
  <2>1. \A e \in Event : seen'[e] = 0 => seen[e] = 0 /\ e \notin Elements(buffer)
    BY <1>3
  <2> QED BY <1>1, <1>4, <2>1 DEF SomewhereAfter, Opening
<1>14. Awaiting'
  BY <1>1, <1>2, <1>3, <1>4 DEF Awaiting, FlusherIsAwaitingATurn, Event
<1> QED BY <1>10, <1>11, <1>12, <1>13, <1>14

-----------------------------------------------------------------------------
(* The end of a turn and the flushers.                                     *)

\* The turn that ends, if one does, is over for its event, and is the one the
\* flusher awaited.
LEMMA FireKeeps ==
    ASSUME Inv, NEW f \in Flusher, NEW held, Fire(f, held),
           UNCHANGED <<running, queue, arrived, seen, interrupts>>,
           dropped \subseteq dropped',
           \/ held = owner /\ flusher[f] # "firing"
           \/ /\ held = NoEvent
              /\ flusher[f] = "firing" /\ firing[f] = owner
              /\ stage = "closing" \/ (stage = "opening" /\ owner \in dropped')
    PROVE  Inv'
<1> USE DEF Inv, Shapes
<1>1. CASE /\ flusher' = [flusher EXCEPT ![f] = "ended"]
           /\ firing' = [firing EXCEPT ![f] = NoEvent]
           /\ owner' = held
           /\ stage' = IF held = NoEvent THEN "idle" ELSE stage
           /\ UNCHANGED <<waiters, buffer, frozen>>
  <2>1. /\ Shapes'
        /\ \A e \in Event : Opening(e)' => Opening(e)
        /\ \A e \in Event : Opening(e) => Opening(e)' \/ e \in dropped'
        /\ \A e \in Event : owner' = e => owner = e
    <3>1. /\ owner' \in {owner, NoEvent}
          /\ owner' = NoEvent <=> stage' = "idle"
          /\ stage' \in {stage, "idle"}
          /\ owner' # owner => stage # "opening" \/ owner \in dropped'
      BY <1>1
    <3>2. flusher' \in [Flusher -> {"idle", "waiting", "firing", "ended"}]
          /\ firing' \in [Flusher -> Event \cup {NoEvent}]
      BY <1>1
    <3>3. Shapes'
      BY <1>1, <3>1, <3>2 DEF Stage
    <3>4. \A e \in Event : e # NoEvent
      BY DEF Event
    <3> QED BY <1>1, <3>1, <3>3, <3>4 DEF Opening
  <2>2. Awaiting'
    BY <1>1 DEF Awaiting, FlusherIsAwaitingATurn, Event
  <2> QED BY <1>1, <2>1, <2>2 DEF OnePlace, NowhereBefore, SomewhereAfter
<1>2. CASE UNCHANGED <<flusher, firing, owner, stage, waiters, buffer>>
  BY <1>2 DEF OnePlace, NowhereBefore, SomewhereAfter, Awaiting, FlusherIsAwaitingATurn, Opening
<1>3. CASE /\ buffer # <<>> /\ held = NoEvent
           /\ flusher' = [flusher EXCEPT ![f] = "firing"]
           /\ firing' = [firing EXCEPT ![f] = Head(buffer)]
           /\ buffer' = Tail(buffer)
           /\ \/ waiters = <<>> /\ owner' = Head(buffer) /\ stage' = "opening" /\ UNCHANGED waiters
              \/ waiters' = Append(waiters, Head(buffer)) /\ owner' = NoEvent /\ stage' = "idle"
  <2> DEFINE e == Head(buffer)
  <2>1. /\ e \in Event /\ buffer' \in Seq(Event)
        /\ Elements(buffer) = {e} \cup Elements(buffer')
        /\ e \notin Elements(buffer')
        /\ \A x \in Event : Once(buffer', x)
    BY <1>3, Taking DEF OnePlace
  <2>2. /\ e \notin Elements(waiters) /\ e \notin Elements(queue) /\ owner # e
        /\ seen[e] = 0 /\ e \in arrived
    BY <2>1 DEF OnePlace, NowhereBefore
  <2>3. /\ Append(waiters, e) \in Seq(Event)
        /\ Elements(Append(waiters, e)) = Elements(waiters) \cup {e}
        /\ \A x \in Event : Once(Append(waiters, e), x)
    BY <2>1, <2>2, Appending DEF OnePlace
  <2> HIDE DEF e
  <2>4. \A x \in Event : Opening(x) => x \in dropped'
    BY <1>3 DEF Opening
  <2>5. /\ flusher'[f] = "firing" /\ firing'[f] = e
        /\ \A g \in Flusher \ {f} : flusher'[g] = flusher[g] /\ firing'[g] = firing[g]
        /\ \A g \in Flusher \ {f} : flusher[g] = "firing" => firing[g] \in Elements(waiters)
    <3>1. \A g \in Flusher \ {f} : flusher[g] = "firing" => firing[g] # owner
      BY <1>3 DEF Awaiting, Event
    <3> QED BY <1>3, <3>1 DEF Awaiting, FlusherIsAwaitingATurn, e
  <2>6. CASE waiters = <<>> /\ owner' = e /\ stage' = "opening" /\ UNCHANGED waiters
    <3>1. Elements(waiters) = {}
      BY <2>6, EmptyQueue
    <3>2. Shapes'
      BY <1>3, <2>1, <2>6 DEF Stage, Event, e
    <3>3. Awaiting'
      BY <2>1, <2>2, <2>5, <2>6, <3>1 DEF Awaiting, FlusherIsAwaitingATurn, Event
    <3> QED
      BY <2>1, <2>2, <2>4, <2>6, <3>1, <3>2, <3>3
         DEF OnePlace, NowhereBefore, SomewhereAfter, Opening
  <2>7. CASE waiters' = Append(waiters, e) /\ owner' = NoEvent /\ stage' = "idle"
    <3>2. Shapes'
      BY <1>3, <2>1, <2>3, <2>7 DEF Stage, Event, e
    <3>3. Awaiting'
      <4>1. waiters' = Append(waiters, e) /\ Elements(waiters') = Elements(waiters) \cup {e}
        BY <2>3, <2>7
      <4>2. FlusherIsAwaitingATurn'
        BY <2>5, <4>1 DEF FlusherIsAwaitingATurn
      <4>3. \A g \in Flusher \ {f} : flusher'[g] = "firing" => firing'[g] # e /\ firing'[g] \in Event
        BY <2>2, <2>5 DEF Awaiting
      <4> QED BY <2>1, <2>5, <4>2, <4>3 DEF Awaiting
    <3> QED
      BY <2>1, <2>2, <2>3, <2>4, <2>7, <3>2, <3>3
         DEF OnePlace, NowhereBefore, SomewhereAfter, Opening, Event
  <2> QED BY <1>3, <2>6, <2>7 DEF e
<1> QED BY <1>1, <1>2, <1>3 DEF Fire

LEMMA ReleaseKeeps ==
    ASSUME Inv, Release,
           UNCHANGED <<running, queue, arrived, seen, interrupts>>,
           dropped \subseteq dropped',
           stage = "closing" \/ (stage = "opening" /\ owner \in dropped')
    PROVE  Inv'
<1>1. ASSUME NEW f \in Flusher, flusher[f] = "firing", firing[f] = owner, Fire(f, NoEvent)
      PROVE  Inv'
  BY <1>1, FireKeeps
<1>2. CASE /\ \A f \in Flusher : flusher[f] = "firing" => firing[f] # owner
           /\ owner' = NoEvent /\ stage' = "idle"
           /\ UNCHANGED <<waiters, buffer, flusher, firing, frozen>>
  BY <1>2 DEF Inv, Shapes, Stage, OnePlace, NowhereBefore, SomewhereAfter, Awaiting,
              FlusherIsAwaitingATurn, Opening, Event
<1> QED BY <1>1, <1>2 DEF Release

LEMMA InterruptKeeps ==
    ASSUME Inv, Interrupt
    PROVE  Inv'
<1> USE DEF Inv, Shapes
<1>1. /\ interrupts' \in Flusher
      /\ flusher' = flusher \/ flusher' = [flusher EXCEPT ![interrupts'] = "waiting"]
      /\ stage' \in {stage, "closing"} /\ (stage \in {"idle", "opening"} => stage' = stage)
      /\ UNCHANGED <<running, owner, waiters, queue, buffer, arrived, seen, dropped, firing>>
  BY DEF Interrupt, lock, Flusher
<1>2. Shapes'
  BY <1>1 DEF Stage, Flusher
<1>3. Awaiting'
  BY <1>1 DEF Awaiting, FlusherIsAwaitingATurn, Event
<1> QED
  BY <1>1, <1>2, <1>3 DEF OnePlace, NowhereBefore, SomewhereAfter, Opening

LEMMA InvStep == Inv /\ [Next]_vars => Inv'
<1> SUFFICES ASSUME Inv, [Next]_vars PROVE Inv'
    OBVIOUS
<1>1. ASSUME NEW e \in Event, Arrive(e) PROVE Inv'
  BY <1>1, ArriveKeeps
<1>2. CASE CreateLoop \/ NoticeInterrupt \/ EndRound \/ Terminate \/ Fail
  <2>1. /\ running' \in BOOLEAN /\ stage' \in Stage \ {"idle", "opening"}
        /\ stage \in Stage \ {"idle", "opening"}
        /\ UNCHANGED <<owner, waiters, queue, buffer, arrived, seen, dropped, firing, flusher, interrupts>>
    BY <1>2 DEF CreateLoop, NoticeInterrupt, EndRound, Terminate, Fail, lock, history, flushing,
                Inv, Shapes, Stage
  <2> QED BY <2>1, StandingStill
<1>3. CASE Finish
  <2>1. /\ Release /\ stage = "closing"
        /\ UNCHANGED <<running, queue, arrived, seen, interrupts>> /\ dropped' = dropped
    BY <1>3 DEF Finish, history
  <2> QED BY <2>1, ReleaseKeeps
<1>4. CASE Drop
  BY <1>4, ReleaseKeeps DEF Drop
<1>5. ASSUME NEW f \in Flusher, FlushBuffer(f) PROVE Inv'
  BY <1>5, FireKeeps DEF FlushBuffer, history
<1>6. CASE UNCHANGED vars
  BY <1>6 DEF vars, lock, turn, history, flushing, Inv, Shapes, OnePlace, NowhereBefore,
              SomewhereAfter, Awaiting, FlusherIsAwaitingATurn, Opening
<1> QED
  BY <1>1, <1>2, <1>3, <1>4, <1>5, <1>6, AcquireKeeps, StartKeeps, BeginRoundKeeps,
     CollectFeedbackKeeps, InterruptKeeps DEF Next, TurnStep

-----------------------------------------------------------------------------
(* The theorems.                                                           *)

\* Whatever is interrupted, fails or stops, an event that was delivered is in the
\* conversation, on its way into it, or was dropped by an agent that had stopped
\* (agent_handlers.py: _process_event; agent_mid_turn.py: the buffer).
THEOREM NoEventIsLost == Spec => []NothingLost
<1>1. Inv => NothingLost
  <2> SUFFICES ASSUME Inv, NEW e \in arrived, seen[e] = 0
               PROVE  Places(e) # {} \/ e \in dropped
      BY DEF NothingLost
  <2>1. \/ Opening(e) \/ e \in dropped
        \/ e \in Elements(waiters) \/ e \in Elements(queue) \/ e \in Elements(buffer)
    BY DEF Inv, SomewhereAfter
  <2>2. /\ Opening(e) => "opening" \in Places(e)
        /\ e \in Elements(waiters) => "waiters" \in Places(e)
        /\ e \in Elements(queue) => "queue" \in Places(e)
        /\ e \in Elements(buffer) => "buffer" \in Places(e)
    BY DEF Places
  <2> QED BY <2>1, <2>2
<1> QED BY <1>1, InvInit, InvStep, PTL DEF Spec

\* Nothing is handled by the drain of the buffer and by a turn of its own, nor by
\* a turn that was interrupted and the next (agent_mid_turn.py:
\* _flush_buffer_after_interrupt; agent_handlers.py: _collect_and_push_feedback).
THEOREM NoEventIsHandledTwice == Spec => []NeverTwice
<1>1. Inv => NeverTwice
  <2> SUFFICES ASSUME Inv, NEW e \in Event
               PROVE  /\ Cardinality(Places(e)) + seen[e] <= 1
                      /\ Once(waiters, e) /\ Once(queue, e) /\ Once(buffer, e)
      BY DEF NeverTwice, Once
  <2>1. seen[e] \in {0, 1}
    BY DEF Inv, Shapes, OnePlace
  <2>2. \A p, q \in Places(e) : p = q
    <3>1. Opening(e) => owner = e
      BY DEF Opening
    <3>2. \A p \in Places(e) : \/ p = "opening" /\ Opening(e)
                               \/ p = "waiters" /\ e \in Elements(waiters)
                               \/ p = "queue" /\ e \in Elements(queue)
                               \/ p = "buffer" /\ e \in Elements(buffer)
      BY DEF Places
    <3> QED BY <3>1, <3>2 DEF Inv, OnePlace
  <2>3. Places(e) = {} \/ \E p : Places(e) = {p}
    BY <2>2
  <2>4. Places(e) # {} => seen[e] = 0
    <3>1. \A p \in Places(e) : Opening(e) \/ e \in Elements(waiters) \cup Elements(queue) \cup Elements(buffer)
      BY DEF Places
    <3> QED BY <3>1 DEF Inv, OnePlace
  <2>5. Cardinality(Places(e)) + seen[e] <= 1
    <3>1. CASE Places(e) = {}
      BY <2>1, <3>1, FS_EmptySet
    <3>2. ASSUME NEW p, Places(e) = {p} PROVE Cardinality(Places(e)) + seen[e] <= 1
      <4>1. Cardinality(Places(e)) = 1
        BY <3>2, FS_Singleton
      <4>2. seen[e] = 0
        BY <2>4, <3>2
      <4> QED BY <4>1, <4>2
    <3> QED BY <2>3, <3>1, <3>2
  <2> QED BY <2>5 DEF Inv, OnePlace
<1> QED BY <1>1, InvInit, InvStep, PTL DEF Spec

\* The task that re-fires the buffer awaits a turn that runs or is queued for the
\* lock, whatever ended or was dropped before (agent_mid_turn.py).
THEOREM FlushersAreWoken == Spec => []FlusherIsAwaitingATurn
<1>1. Inv => FlusherIsAwaitingATurn
  BY DEF Inv, Awaiting
<1> QED BY <1>1, InvInit, InvStep, PTL DEF Spec

\* A turn of an agent that stopped is before its start or after its last round.
Muted == ~ running => stage \in {"idle", "opening", "closing"}

\* After a termination nothing more reaches the model, neither what waited for
\* the lock nor what was buffered (agent_handlers.py: _prepare_processing_cycle).
THEOREM NothingAfterTheEnd == Spec => StoppedIsSilent
<1>1. Init => Muted
  BY DEF Init, Muted
<1>2. Inv /\ Muted /\ [Next]_vars => Muted'
  <2> SUFFICES ASSUME Inv, Muted, [Next]_vars PROVE Muted'
      OBVIOUS
  <2> USE DEF Muted, Inv, Shapes
  <2>1. CASE TurnStep /\ ~ Finish /\ ~ Drop
    BY <2>1 DEF TurnStep, Start, CreateLoop, BeginRound, NoticeInterrupt, EndRound, Terminate,
                CollectFeedback, Fail, Stage
  <2>2. ASSUME NEW f, NEW held, Fire(f, held), running' = running, held = owner \/ held = NoEvent
        PROVE  Muted'
    BY <2>2 DEF Fire
  <2>3. CASE Finish \/ Drop
    BY <2>2, <2>3 DEF Finish, Drop, Release
  <2>4. ASSUME NEW f \in Flusher, FlushBuffer(f) PROVE Muted'
    BY <2>2, <2>4 DEF FlushBuffer
  <2>5. ASSUME NEW e \in Event, Arrive(e) PROVE Muted'
    BY <2>5 DEF Arrive, Enter
  <2>6. CASE Acquire \/ Interrupt \/ UNCHANGED vars
    BY <2>6 DEF Acquire, Interrupt, vars, turn
  <2> QED BY <2>1, <2>3, <2>4, <2>5, <2>6 DEF Next, TurnStep
<1>3. Inv /\ Muted /\ [Next]_vars => [~ running => seen' = seen]_vars
  <2> SUFFICES ASSUME Inv, Muted, Next, ~ running PROVE seen' = seen
      OBVIOUS
  <2> USE DEF Muted
  <2>1. CASE TurnStep
    BY <2>1 DEF TurnStep, Start, CreateLoop, BeginRound, NoticeInterrupt, EndRound, Terminate,
                CollectFeedback, Fail, Finish, Drop, history
  <2> QED BY <2>1 DEF Next, Arrive, Acquire, Interrupt, FlushBuffer, history
<1> QED BY <1>1, <1>2, <1>3, InvInit, InvStep, PTL DEF Spec, StoppedIsSilent
=============================================================================

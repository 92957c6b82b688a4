--------------------------- MODULE ChannelWiring ---------------------------
(***************************************************************************)
(* How one creature is attached to one of its channels: the ChannelTrigger *)
(* installed under the id channel_<creature>_<channel>, the run-loop tasks *)
(* that drive it, and its subscription on the channel object of whichever  *)
(* environment the creature's graph has at the moment                      *)
(* (terrarium/channels.py, core/trigger_manager.py,                        *)
(* modules/trigger/channel.py, core/channel.py).                           *)
(*                                                                         *)
(* inject_channel_trigger and remove_channel_trigger are synchronous: they *)
(* edit the manager's tables at once and leave the start, the stop and the *)
(* first step of a run loop to tasks that the event loop runs later, in    *)
(* the order they were created.  Those tasks are the FIFO ready.  A run    *)
(* loop that is past its first step is woken from outside (a message, a    *)
(* timeout, the end of a turn, a cancellation), at any moment.             *)
(*                                                                         *)
(* What a message says, and whether the self-filter skips it, is left out. *)
(***************************************************************************)
EXTENDS Integers, Sequences, FiniteSets

CONSTANTS
    Registry,       \* channel registries: one per environment
    Home,           \* the registry of the creature's first graph
    MaxTriggers,    \* bound on the triggers ever injected
    MaxSends        \* bound on the messages ever sent

ASSUME HomeAssumption == Home \in Registry
ASSUME BoundAssumption == MaxTriggers \in Nat /\ MaxSends \in Nat

None == 0
Trigger == 1 .. MaxTriggers

\* A run loop of trigger k is created by the task that inject spawned, by
\* start_all, or by both.
Loop == Trigger \X {"run", "start"}
NoLoop == <<None, "none">>
TriggerOf(l) == l[1]

VARIABLES
    hasty,      \* a call was made before the tasks of an earlier one had run
    phase,      \* the agent: new, running, closing, stopping, stopped
    home,       \* the registry the creature's graph uses now
    made,       \* triggers injected so far
    reg,        \* ChannelTrigger._registry
    running,    \* BaseTrigger._running
    sub,        \* ChannelTrigger._subscription: the queue it holds, or None
    current,    \* TriggerManager._triggers[id], or None
    task,       \* TriggerManager._tasks[id], or NoLoop
    loop,       \* a run-loop task: none, new, waiting, turn, done
    cancelled,  \* task.cancel() was called and not yet delivered
    waitsOn,    \* the queue a waiting loop receives from
    chan,       \* per registry, AgentChannel._subscribers[subscriber id]
    backlog,    \* messages in each queue, a queue named by who created it
    sent,       \* messages that reached a subscription so far
    awaited,    \* the task stop_all waits for
    ready       \* tasks the event loop has yet to run, oldest first

manager == <<current, task>>
trigger == <<reg, running, sub>>
loops == <<loop, cancelled, waitsOn>>
channel == <<chan, backlog>>
agent == <<phase, awaited>>
vars == <<hasty, agent, home, made, trigger, manager, loops, channel, sent, ready>>

Init ==
    /\ hasty = FALSE
    /\ phase = "new"
    /\ home = Home
    /\ made = 0
    /\ reg = [k \in Trigger |-> Home]
    /\ running = [k \in Trigger |-> FALSE]
    /\ sub = [k \in Trigger |-> None]
    /\ current = None
    /\ task = NoLoop
    /\ loop = [l \in Loop |-> "none"]
    /\ cancelled = [l \in Loop |-> FALSE]
    /\ waitsOn = [l \in Loop |-> None]
    /\ chan = [r \in Registry |-> None]
    /\ backlog = [k \in Trigger |-> 0]
    /\ sent = 0
    /\ awaited = NoLoop
    /\ ready = <<>>

Live(l) == loop[l] \in {"new", "waiting", "turn"}
TaskPending == task # NoLoop /\ Live(task)

-----------------------------------------------------------------------------
(* Calls.                                                                  *)

\* A caller may call whenever the engine knows the creature, which it does until
\* Creature.stop has returned; hasty notes a call that does not wait for what the
\* one before it has left to do.
Called == hasty' = (hasty \/ ready # <<>> \/ phase \notin {"new", "running"})

\* Mutant of Teardown: the cancelled task stays in the table.
TeardownKeepingTask ==
    /\ UNCHANGED task
    /\ cancelled' = IF current # None /\ TaskPending
                    THEN [cancelled EXCEPT ![task] = TRUE] ELSE cancelled

\* _teardown_existing_trigger, for the manager's tables and the task it cancels.
Teardown ==
    /\ task' = IF current = None THEN task ELSE NoLoop
    /\ cancelled' = IF current # None /\ TaskPending
                    THEN [cancelled EXCEPT ![task] = TRUE] ELSE cancelled

\* Mutant of StopOf: the replaced trigger is never stopped.
StopOfNobody(k) == <<>>

StopOf(k) == IF k = None THEN <<>> ELSE << <<"stop", k>> >>

\* The trigger of a registry: the one in use (a wire set again), or another (the
\* graph was merged or split; the wiring code removes and then injects, which is
\* one teardown).
Inject(r) ==
    LET k == made + 1
    IN  /\ Called
        /\ made < MaxTriggers
        /\ Teardown
        /\ made' = k
        /\ home' = r
        /\ reg' = [reg EXCEPT ![k] = r]
        /\ current' = k
        /\ ready' = ready \o StopOf(current) \o << <<"run", k>> >>
        /\ UNCHANGED <<agent, sent, running, sub, loop, waitsOn, channel>>

Remove ==
    /\ Called
    /\ current # None
    /\ Teardown
    /\ current' = None
    /\ ready' = ready \o StopOf(current)
    /\ UNCHANGED <<agent, sent, home, made, trigger, loop, waitsOn, channel>>

\* AgentChannel.send, by anybody, on the channel of the graph.
Send ==
    LET q == chan[home]
    IN  /\ q # None
        /\ sent < MaxSends
        /\ sent' = sent + 1
        /\ backlog' = [backlog EXCEPT ![q] = @ + 1]
        /\ UNCHANGED <<hasty, agent, home, made, trigger, manager, loops, chan, ready>>

-----------------------------------------------------------------------------
(* The tasks the calls left behind.                                        *)

NewLoop(l) ==
    /\ task' = l
    /\ loop' = [loop EXCEPT ![l] = "new"]

\* Mutant of RunTask: no look at the table.
RunTaskUnchecked(k) ==
    /\ ready # <<>> /\ Head(ready) = <<"run", k>>
    /\ running' = [running EXCEPT ![k] = TRUE]
    /\ NewLoop(<<k, "run">>)
    /\ ready' = Append(Tail(ready), <<"loop", <<k, "run">> >>)
    /\ UNCHANGED <<hasty, agent, sent, home, made, reg, sub, current, cancelled, waitsOn, channel>>

\* _run: start, then a run loop unless the table holds a live one.
RunTask(k) ==
    /\ ready # <<>> /\ Head(ready) = <<"run", k>>
    /\ running' = [running EXCEPT ![k] = TRUE]
    /\ \/ /\ TaskPending
          /\ ready' = Tail(ready)
          /\ UNCHANGED <<task, loop>>
       \/ /\ ~ TaskPending
          /\ NewLoop(<<k, "run">>)
          /\ ready' = Append(Tail(ready), <<"loop", <<k, "run">> >>)
    /\ UNCHANGED <<hasty, agent, sent, home, made, reg, sub, current, cancelled, waitsOn, channel>>

\* BaseTrigger.stop.  unsubscribe goes by subscriber id: it drops whichever
\* queue is there, which later triggers of the same id may be sharing.
Stop(k) ==
    /\ running' = [running EXCEPT ![k] = FALSE]
    /\ sub' = [sub EXCEPT ![k] = None]
    /\ chan' = IF sub[k] = None THEN chan ELSE [chan EXCEPT ![reg[k]] = None]

StopTask(k) ==
    /\ ready # <<>> /\ Head(ready) = <<"stop", k>>
    /\ Stop(k)
    /\ ready' = Tail(ready)
    /\ UNCHANGED <<hasty, agent, sent, home, made, reg, manager, loops, backlog>>

-----------------------------------------------------------------------------
(* TriggerManager._run_loop and ChannelTrigger.wait_for_trigger.           *)

\* Back at the top of the loop: out if the trigger was stopped, otherwise wait,
\* subscribing first if need be.  A subscriber id in use shares its queue.
Continue(l) ==
    LET k == TriggerOf(l)
        r == reg[k]
    IN  \/ /\ ~ running[k]
           /\ loop' = [loop EXCEPT ![l] = "done"]
           /\ UNCHANGED <<sub, waitsOn, chan>>
        \/ /\ running[k]
           /\ sub[k] # None
           /\ loop' = [loop EXCEPT ![l] = "waiting"]
           /\ waitsOn' = [waitsOn EXCEPT ![l] = sub[k]]
           /\ UNCHANGED <<sub, chan>>
        \/ /\ running[k]
           /\ sub[k] = None
           /\ chan' = [chan EXCEPT ![r] = IF @ = None THEN k ELSE @]
           /\ sub' = [sub EXCEPT ![k] = chan'[r]]
           /\ loop' = [loop EXCEPT ![l] = "waiting"]
           /\ waitsOn' = [waitsOn EXCEPT ![l] = chan'[r]]

\* CancelledError out of the loop.
End(l) ==
    /\ loop' = [loop EXCEPT ![l] = "done"]
    /\ cancelled' = [cancelled EXCEPT ![l] = FALSE]
    /\ UNCHANGED <<sub, waitsOn, chan, backlog>>

\* A task cancelled before its first step never takes it.
LoopTask(l) ==
    /\ ready # <<>> /\ Head(ready) = <<"loop", l>>
    /\ ready' = Tail(ready)
    /\ \/ cancelled[l] /\ End(l)
       \/ ~ cancelled[l] /\ Continue(l) /\ UNCHANGED <<cancelled, backlog>>
    /\ UNCHANGED <<hasty, agent, sent, home, made, reg, running, manager>>

\* A message is there: the turn of the agent takes it, or drops it when the
\* agent is not running.
Receive(l) ==
    LET q == waitsOn[l]
    IN  /\ loop[l] = "waiting"
        /\ ~ cancelled[l]
        /\ backlog[q] > 0
        /\ backlog' = [backlog EXCEPT ![q] = @ - 1]
        /\ \/ /\ phase = "running"
              /\ loop' = [loop EXCEPT ![l] = "turn"]
              /\ UNCHANGED <<sub, waitsOn, chan>>
           \/ /\ phase # "running"
              /\ Continue(l)
        /\ UNCHANGED <<hasty, agent, sent, home, made, reg, running, manager, cancelled, ready>>

\* The receive's one-second timeout.
Timeout(l) ==
    /\ loop[l] = "waiting"
    /\ ~ cancelled[l]
    /\ backlog[waitsOn[l]] = 0
    /\ Continue(l)
    /\ UNCHANGED <<hasty, agent, sent, home, made, reg, running, manager, cancelled, backlog, ready>>

\* Mutant of TurnEnds: the loop is left after one event.
TurnEndsForGood(l) ==
    /\ loop[l] = "turn"
    /\ ~ cancelled[l]
    /\ loop' = [loop EXCEPT ![l] = "done"]
    /\ UNCHANGED <<hasty, agent, sent, home, made, trigger, manager, cancelled, waitsOn, channel, ready>>

TurnEnds(l) ==
    /\ loop[l] = "turn"
    /\ ~ cancelled[l]
    /\ Continue(l)
    /\ UNCHANGED <<hasty, agent, sent, home, made, reg, running, manager, cancelled, backlog, ready>>

\* The cancellation reaches the loop at its receive, where it ends it, or inside
\* the turn.  A turn that is waiting for its turn of the lock passes it on; one
\* that is in the controller takes it for an interrupt, finishes and returns.
CancelDelivered(l) ==
    /\ loop[l] \in {"waiting", "turn"}
    /\ cancelled[l]
    /\ \/ End(l)
       \/ /\ loop[l] = "turn"
          /\ cancelled' = [cancelled EXCEPT ![l] = FALSE]
          /\ Continue(l)
          /\ UNCHANGED backlog
    /\ UNCHANGED <<hasty, agent, sent, home, made, reg, running, manager, ready>>

-----------------------------------------------------------------------------
(* Agent.start and Agent.stop, as far as they touch the triggers.          *)

StartAll ==
    /\ phase = "new"
    /\ Called
    /\ phase' = "running"
    /\ \/ /\ current # None /\ task = NoLoop
          /\ running' = [running EXCEPT ![current] = TRUE]
          /\ NewLoop(<<current, "start">>)
          /\ ready' = Append(ready, <<"loop", <<current, "start">> >>)
       \/ /\ current = None \/ task # NoLoop
          /\ UNCHANGED <<running, task, loop, ready>>
    /\ UNCHANGED <<awaited, sent, home, made, reg, sub, current, cancelled, waitsOn, channel>>

\* Agent._running is cleared, and other modules are shut down first.
Close ==
    /\ phase = "running"
    /\ Called
    /\ phase' = "closing"
    /\ UNCHANGED <<awaited, sent, home, made, trigger, manager, loops, channel, ready>>

StopTriggers ==
    /\ phase' = "stopped"
    /\ current' = None
    /\ task' = NoLoop
    /\ awaited' = NoLoop
    /\ \/ current # None /\ Stop(current)
       \/ current = None /\ UNCHANGED <<running, sub, chan>>

\* Mutant of StopAll: the tables are cleared, nothing is cancelled or stopped.
StopAllClearsOnly ==
    /\ phase = "closing"
    /\ phase' = "stopped"
    /\ current' = None
    /\ task' = NoLoop
    /\ UNCHANGED <<hasty, awaited, sent, home, made, trigger, loops, channel, ready>>

\* stop_all: with a task in the table it cancels it and awaits its end; the
\* triggers are stopped after that.
StopAll ==
    /\ phase = "closing"
    /\ \/ /\ task = NoLoop
          /\ StopTriggers
          /\ UNCHANGED cancelled
       \/ /\ task # NoLoop
          /\ phase' = "stopping"
          /\ cancelled' = IF Live(task) THEN [cancelled EXCEPT ![task] = TRUE] ELSE cancelled
          /\ awaited' = task
          /\ UNCHANGED <<manager, running, sub, chan>>
    /\ UNCHANGED <<hasty, sent, home, made, reg, loop, waitsOn, backlog, ready>>

StopAllReturns ==
    /\ phase = "stopping"
    /\ ~ Live(awaited)
    /\ StopTriggers
    /\ UNCHANGED <<hasty, sent, home, made, reg, loops, backlog, ready>>

-----------------------------------------------------------------------------
Call == (\E r \in Registry : Inject(r)) \/ Remove \/ Send
LoopStep(l) ==
    LoopTask(l) \/ Receive(l) \/ Timeout(l) \/ TurnEnds(l) \/ CancelDelivered(l)
TaskStep(k) == RunTask(k) \/ StopTask(k)

Next ==
    \/ Call
    \/ \E k \in Trigger : TaskStep(k)
    \/ \E l \in Loop : LoopStep(l)
    \/ StartAll \/ Close \/ StopAll \/ StopAllReturns

Spec == Init /\ [][Next]_vars

\* The event loop runs what is ready, and an awaiting task whose future is
\* resolved, cancelled or timed out; a turn ends, as its LLM call has a timeout.
Fairness ==
    /\ \A k \in Trigger : WF_vars(TaskStep(k))
    /\ \A l \in Loop : /\ WF_vars(LoopTask(l))
                       /\ WF_vars(Receive(l))
                       /\ WF_vars(Timeout(l))
                       /\ WF_vars(TurnEnds(l))
                       /\ WF_vars(CancelDelivered(l))
    /\ WF_vars(StopAll) /\ WF_vars(StopAllReturns)

FairSpec == Spec /\ Fairness

-----------------------------------------------------------------------------
(* Properties.                                                             *)

\* A loop that would take the next message: not stopped, not being cancelled.
Drives(l) == Live(l) /\ ~ cancelled[l] /\ running[TriggerOf(l)]

\* However fast the wire is set, unset and moved, there are never two triggers
\* of one id fighting over the creature's messages.
OneDriver == \A l, m \in Loop : Drives(l) /\ Drives(m) => l = m

\* Nothing is left of the calls but their outcome.
AtRest ==
    /\ ready = <<>>
    /\ \A l \in Loop : Live(l) => ~ cancelled[l] /\ running[TriggerOf(l)]

\* Once the calls have settled, no run loop outlives its trigger, and nobody
\* but the installed trigger is subscribed anywhere: a queue that fills
\* unread, or a wire taken away that still wakes the creature.
NothingLeaks ==
    AtRest /\ phase = "running" =>
        /\ \A l \in Loop : Live(l) => TriggerOf(l) = current
        /\ \A r \in Registry : chan[r] # None =>
              current # None /\ r = reg[current] /\ chan[r] = sub[current]

\* Loop l serves the wire: it drives the installed trigger and is waiting, or
\* will be after its turn, on the queue the live channel fills.
Serves(l) ==
    /\ Drives(l)
    /\ TriggerOf(l) = current
    /\ loop[l] \in {"waiting", "turn"}
    /\ chan[home] # None
    /\ sub[current] = chan[home]
    /\ loop[l] = "waiting" => waitsOn[l] = chan[home]

\* As long as no call was hasty and the calls have settled, a creature that is
\* wired hears the live channel: after any merge or split its trigger points there
\* and is driven.
WiredMeansHeard ==
    ~ hasty /\ AtRest /\ phase = "running" /\ current # None => \E l \in Loop : Serves(l)

\* A message that reached the subscription of a running creature does not stay
\* there unread, unless the wire is changed or a call was hasty.
NothingRots ==
    \A q \in Trigger :
        (~ hasty /\ phase = "running" /\ chan[home] = q /\ backlog[q] > 0)
            ~> (phase # "running" \/ chan[home] # q \/ backlog[q] = 0)

\* Refuted (a turn may swallow the cancellation): stop_all comes to its end, and
\* with it Agent.stop.
StopReturns == (phase = "closing") ~> (phase = "stopped")

\* A stopped creature is not left with a run loop, unless a call was hasty.
StoppedIsQuiet == ~ hasty /\ AtRest /\ phase = "stopped" => \A l \in Loop : ~ Live(l)
=============================================================================

----------------------------- MODULE AgentTurn -----------------------------
(***************************************************************************)
(* The turns of one agent: which event is being processed, which ones wait *)
(* for the processing lock, which ones were buffered for the turn that     *)
(* runs, and what an interrupt does to all of them                         *)
(* (core/agent_handlers.py, core/agent_mid_turn.py, Agent.interrupt of     *)
(* core/agent.py, the event queue of core/controller.py).                  *)
(*                                                                         *)
(* Every await is a place where other callers run, so every stretch of     *)
(* code between two awaits that may suspend is one action.  A turn goes    *)
(* through the stages                                                      *)
(*   opening   session events, output and plugin hooks, lock held          *)
(*   starting  event pushed to the controller, processing_start            *)
(*   top       the controller loop has been created, or starts a new round *)
(*   llm       a round: LLM stream, dispatch of the tools it calls         *)
(*   tools     waiting for the handles of the tools                        *)
(*   closing   flush, processing_end, compaction, output wiring            *)
(* What events say is left out; all events are stackable, as those of      *)
(* users, triggers and completed jobs are, and batching is on (default).   *)
(***************************************************************************)
EXTENDS Naturals, Sequences, FiniteSets

CONSTANTS
    UserInput,      \* events of type user_input
    Trigger,        \* events of timers, channels, jobs in the background, ...
    NoEvent,
    Feedback,       \* what a round pushes for the next one
    MaxRounds,      \* bound on the tool rounds of a turn
    MaxFailures,    \* bound on the turns that end in an exception
    MaxInterrupts   \* bound on the calls of interrupt

ASSUME NoEventAssumption ==
    /\ UserInput \cap Trigger = {}
    /\ {NoEvent, Feedback} \cap (UserInput \cup Trigger) = {}
    /\ NoEvent # Feedback
ASSUME BoundAssumption == {MaxRounds, MaxFailures, MaxInterrupts} \subseteq Nat

Event == UserInput \cup Trigger

\* The task one call of interrupt spawns, if it finds the buffer filled.
Flusher == 1 .. MaxInterrupts

VARIABLES
    running,    \* Agent._running
    owner,      \* the event whose turn holds _processing_lock
    waiters,    \* the events waiting for the lock, oldest first
    stage,      \* where the turn of the owner is
    rounds,     \* its rounds that ran tools
    flag,       \* Agent._interrupt_requested and Controller._interrupted
    queue,      \* Controller._event_queue
    buffer,     \* Agent._pending_mid_turn_inputs
    arrived,    \* the events that were delivered to _process_event
    seen,       \* how often each event went into the conversation
    struck,     \* events whose turn was interrupted
    dropped,    \* events that found the agent stopped
    failures,   \* turns that ended in an exception
    interrupts, \* calls of interrupt so far
    flusher,    \* per flusher: idle, waiting, firing (an event's turn), ended
    firing,     \* the event it waits for
    frozen      \* a task loops without ever yielding to the event loop

lock == <<owner, waiters>>
turn == <<stage, rounds, failures>>
history == <<arrived, seen, struck, dropped>>
flushing == <<flusher, firing, interrupts>>
vars == <<running, lock, turn, flag, queue, buffer, history, flushing, frozen>>

Init ==
    /\ running = TRUE
    /\ owner = NoEvent
    /\ waiters = <<>>
    /\ stage = "idle"
    /\ rounds = 0
    /\ failures = 0
    /\ flag = FALSE
    /\ queue = <<>>
    /\ buffer = <<>>
    /\ arrived = {}
    /\ seen = [e \in Event |-> 0]
    /\ struck = {}
    /\ dropped = {}
    /\ interrupts = 0
    /\ flusher = [f \in Flusher |-> "idle"]
    /\ firing = [f \in Flusher |-> NoEvent]
    /\ frozen = FALSE

Elements(s) == {s[i] : i \in DOMAIN s}

\* Put the events of a sequence into the conversation.
See(s) == seen' = [e \in Event |-> IF e \in Elements(s) THEN seen[e] + 1 ELSE seen[e]]

-----------------------------------------------------------------------------
(* _process_event up to the lock.                                          *)

\* Only user_input events (and a type "trigger" nothing creates) are buffered,
\* and only while a turn holds the lock.
Buffered(e) == running /\ e \in UserInput /\ owner # NoEvent

\* The lock is fair: a newcomer passes nobody, even while the lock is between
\* two holders.
Enter(e) ==
    \/ /\ owner = NoEvent /\ waiters = <<>>
       /\ owner' = e
       /\ stage' = "opening"
       /\ UNCHANGED waiters
    \/ /\ owner # NoEvent \/ waiters # <<>>
       /\ waiters' = Append(waiters, e)
       /\ UNCHANGED <<owner, stage>>

Arrive(e) ==
    /\ ~ frozen
    /\ e \notin arrived
    /\ arrived' = arrived \cup {e}
    /\ \/ /\ Buffered(e)
          /\ buffer' = Append(buffer, e)
          /\ UNCHANGED <<owner, waiters, stage>>
       \/ /\ ~ Buffered(e)
          /\ Enter(e)
          /\ UNCHANGED buffer
    /\ UNCHANGED <<running, rounds, failures, flag, queue, seen, struck, dropped, flushing, frozen>>

Acquire ==
    /\ ~ frozen
    /\ owner = NoEvent
    /\ waiters # <<>>
    /\ owner' = Head(waiters)
    /\ waiters' = Tail(waiters)
    /\ stage' = "opening"
    /\ UNCHANGED <<running, rounds, failures, flag, queue, buffer, history, flushing, frozen>>

-----------------------------------------------------------------------------
(* A turn.                                                                 *)

\* Mutant: the check of _running happens only before the lock.
StartUnchecked ==
    /\ ~ frozen
    /\ stage = "opening"
    /\ flag' = FALSE
    /\ rounds' = 0
    /\ queue' = Append(queue, owner)
    /\ stage' = "starting"
    /\ UNCHANGED <<running, lock, failures, buffer, history, flushing, frozen>>

\* Mutant: the new cycle also clears what the last one left in the queue.
StartClearingQueue ==
    /\ ~ frozen
    /\ stage = "opening"
    /\ running
    /\ flag' = FALSE
    /\ rounds' = 0
    /\ queue' = <<owner>>
    /\ stage' = "starting"
    /\ UNCHANGED <<running, lock, failures, buffer, history, flushing, frozen>>

\* _prepare_processing_cycle and push_event, after the awaits of the opening.
Start ==
    /\ ~ frozen
    /\ stage = "opening"
    /\ running
    /\ flag' = FALSE
    /\ rounds' = 0
    /\ queue' = Append(queue, owner)
    /\ stage' = "starting"
    /\ UNCHANGED <<running, lock, failures, buffer, history, flushing, frozen>>

CreateLoop ==
    /\ ~ frozen
    /\ stage = "starting"
    /\ stage' = "top"
    /\ UNCHANGED <<running, lock, rounds, failures, flag, queue, buffer, history, flushing, frozen>>

\* The round begins with everything that is in the controller's queue.
BeginRound ==
    /\ ~ frozen
    /\ stage = "top"
    /\ ~ flag
    /\ queue # <<>>
    /\ stage' = "llm"
    /\ See(queue)
    /\ queue' = <<>>
    /\ UNCHANGED <<running, lock, rounds, failures, flag, buffer, arrived, struck, dropped, flushing, frozen>>

\* The controller loop's own checks of the flag.
NoticeInterrupt ==
    /\ ~ frozen
    /\ stage \in {"top", "llm"}
    /\ flag
    /\ flag' = FALSE
    /\ stage' = "closing"
    /\ UNCHANGED <<running, lock, rounds, failures, queue, buffer, history, flushing, frozen>>

EndRound ==
    /\ ~ frozen
    /\ stage = "llm"
    /\ ~ flag
    /\ stage' = "tools"
    /\ UNCHANGED <<running, lock, rounds, failures, flag, queue, buffer, history, flushing, frozen>>

\* A termination condition of the round, or the iteration budget.
Terminate ==
    /\ ~ frozen
    /\ stage = "llm"
    /\ ~ flag
    /\ running' = FALSE
    /\ stage' = "closing"
    /\ UNCHANGED <<lock, rounds, failures, flag, queue, buffer, history, flushing, frozen>>

\* Mutant: the drained inputs are not removed from the buffer.
CollectFeedbackKeepingBuffer ==
    /\ ~ frozen
    /\ stage = "tools"
    /\ See(buffer)
    /\ \/ /\ rounds < MaxRounds
          /\ rounds' = rounds + 1
          /\ queue' = Append(queue, Feedback)
          /\ stage' = "top"
       \/ /\ stage' = "closing"
          /\ UNCHANGED <<queue, rounds>>
    /\ UNCHANGED <<running, lock, failures, flag, buffer, arrived, struck, dropped, flushing, frozen>>

\* Mutant: another round for the drained inputs, but no event to start it.
CollectFeedbackWithoutPush ==
    /\ ~ frozen
    /\ stage = "tools"
    /\ See(buffer)
    /\ buffer' = <<>>
    /\ stage' = IF buffer = <<>> THEN "closing" ELSE "top"
    /\ UNCHANGED <<running, lock, rounds, failures, flag, queue, arrived, struck, dropped, flushing, frozen>>

\* Mutant: the buffer is drained only when there is a result to go with it.
CollectFeedbackAfterTools ==
    /\ ~ frozen
    /\ stage = "tools"
    /\ \/ /\ rounds < MaxRounds
          /\ rounds' = rounds + 1
          /\ See(buffer)
          /\ buffer' = <<>>
          /\ queue' = Append(queue, Feedback)
          /\ stage' = "top"
       \/ /\ stage' = "closing"
          /\ UNCHANGED <<queue, rounds, buffer, seen>>
    /\ UNCHANGED <<running, lock, failures, flag, arrived, struck, dropped, flushing, frozen>>

\* _collect_and_push_feedback: the tools are done, the buffer is drained, and
\* with anything new for the model there is another round.  Closing follows an
\* await later, lock still held.
CollectFeedback ==
    /\ ~ frozen
    /\ stage = "tools"
    /\ See(buffer)
    /\ buffer' = <<>>
    /\ \/ /\ rounds < MaxRounds
          /\ rounds' = rounds + 1
          /\ queue' = Append(queue, Feedback)
          /\ stage' = "top"
       \/ /\ buffer # <<>>
          /\ queue' = Append(queue, Feedback)
          /\ stage' = "top"
          /\ UNCHANGED rounds
       \/ /\ buffer = <<>>
          /\ stage' = "closing"
          /\ UNCHANGED <<queue, rounds>>
    /\ UNCHANGED <<running, lock, failures, flag, arrived, struck, dropped, flushing, frozen>>

\* An exception out of the LLM call or the tools: reported, and the turn closes.
Fail ==
    /\ ~ frozen
    /\ stage \in {"llm", "tools"}
    /\ failures < MaxFailures
    /\ failures' = failures + 1
    /\ stage' = "closing"
    /\ UNCHANGED <<running, lock, rounds, flag, queue, buffer, history, flushing, frozen>>

-----------------------------------------------------------------------------
(* The task that re-fires the buffer after an interrupt.                   *)

\* Its loop, from a moment at which it has the event loop: pop, _process_event,
\* again.  With the lock free the event waits for its turn, if only behind the
\* waiters.  With the lock held _process_event buffers the event it was given
\* and returns at once, without an await that suspends, and the loop pops it
\* again, for ever.
Fire(f, held) ==
    \/ /\ buffer = <<>> \/ ~ running
       /\ flusher' = [flusher EXCEPT ![f] = "ended"]
       /\ firing' = [firing EXCEPT ![f] = NoEvent]
       /\ owner' = held
       /\ stage' = IF held = NoEvent THEN "idle" ELSE stage
       /\ UNCHANGED <<waiters, buffer, frozen>>
    \/ /\ buffer # <<>> /\ running
       /\ held # NoEvent
       /\ frozen' = TRUE
       /\ UNCHANGED <<flusher, firing, owner, stage, waiters, buffer>>
    \/ /\ buffer # <<>> /\ running
       /\ held = NoEvent
       /\ flusher' = [flusher EXCEPT ![f] = "firing"]
       /\ firing' = [firing EXCEPT ![f] = Head(buffer)]
       /\ buffer' = Tail(buffer)
       /\ \/ /\ waiters = <<>>
             /\ owner' = Head(buffer)
             /\ stage' = "opening"
             /\ UNCHANGED waiters
          \/ /\ waiters # <<>>
             /\ waiters' = Append(waiters, Head(buffer))
             /\ owner' = NoEvent
             /\ stage' = "idle"
       /\ UNCHANGED frozen

\* After at most five sleeps of 5 ms the flusher goes on, lock free or not.
FlushBuffer(f) ==
    /\ ~ frozen
    /\ flusher[f] = "waiting"
    /\ flag' = FALSE
    /\ Fire(f, owner)
    /\ UNCHANGED <<running, rounds, failures, queue, history, interrupts>>

\* Mutant: nobody tells the flusher that its turn has ended.
ReleaseSilently ==
    /\ owner' = NoEvent
    /\ stage' = "idle"
    /\ UNCHANGED <<waiters, buffer, flusher, firing, frozen>>

\* The lock is released; a flusher that ran this turn goes on in the same step.
Release ==
    \/ /\ \E f \in Flusher : flusher[f] = "firing" /\ firing[f] = owner /\ Fire(f, NoEvent)
    \/ /\ \A f \in Flusher : flusher[f] = "firing" => firing[f] # owner
       /\ owner' = NoEvent
       /\ stage' = "idle"
       /\ UNCHANGED <<waiters, buffer, flusher, firing, frozen>>

Finish ==
    /\ ~ frozen
    /\ stage = "closing"
    /\ Release
    /\ UNCHANGED <<running, rounds, failures, flag, queue, history, interrupts>>

\* The lock was acquired by an event of an agent that has stopped.
Drop ==
    /\ ~ frozen
    /\ stage = "opening"
    /\ ~ running
    /\ dropped' = dropped \cup {owner}
    /\ Release
    /\ UNCHANGED <<running, rounds, failures, flag, queue, arrived, seen, struck, interrupts>>

\* Agent.interrupt.  The controller loop's task, if there is one, is cancelled
\* wherever it is; the flag stays up.
Interrupt ==
    /\ ~ frozen
    /\ interrupts < MaxInterrupts
    /\ interrupts' = interrupts + 1
    /\ flag' = TRUE
    /\ stage' = IF stage \in {"top", "llm", "tools"} THEN "closing" ELSE stage
    /\ struck' = IF owner = NoEvent THEN struck ELSE struck \cup {owner}
    /\ flusher' = IF buffer = <<>> THEN flusher
                  ELSE [flusher EXCEPT ![interrupts'] = "waiting"]
    /\ UNCHANGED <<running, lock, rounds, failures, queue, buffer, arrived, seen, dropped, firing, frozen>>

TurnStep ==
    \/ Start
    \/ CreateLoop
    \/ BeginRound
    \/ NoticeInterrupt
    \/ EndRound
    \/ Terminate
    \/ CollectFeedback
    \/ Fail
    \/ Finish
    \/ Drop

Next ==
    \/ \E e \in Event : Arrive(e)
    \/ Acquire
    \/ TurnStep
    \/ Interrupt
    \/ \E f \in Flusher : FlushBuffer(f)

Spec == Init /\ [][Next]_vars

\* The event loop runs what is ready; LLM calls and tools come to an end.
Fairness ==
    /\ WF_vars(Acquire)
    /\ WF_vars(TurnStep)
    /\ \A f \in Flusher : WF_vars(FlushBuffer(f))

FairSpec == Spec /\ Fairness

-----------------------------------------------------------------------------
(* Properties.                                                             *)

\* Where an event is from which the model can still get to see it.
Opening(e) == owner = e /\ stage = "opening"
Places(e) ==
    {p \in {"opening", "waiters", "queue", "buffer"} :
        CASE p = "opening" -> Opening(e)
          [] p = "waiters" -> e \in Elements(waiters)
          [] p = "queue"   -> e \in Elements(queue)
          [] p = "buffer"  -> e \in Elements(buffer)}

\* No event is lost between the lock, the buffer, the queue and the tasks that
\* move it from one to the other: what was delivered and is in the conversation
\* in none of its forms still has a way into it, whatever was interrupted or
\* failed, unless the agent had stopped.
NothingLost ==
    \A e \in arrived : seen[e] = 0 => Places(e) # {} \/ e \in dropped

\* No event is processed twice: not by the drain of the buffer and the turn of
\* its own that the flusher fires, nor by a turn that was interrupted and the
\* one after it.
NeverTwice ==
    \A e \in Event :
        /\ Cardinality(Places(e)) + seen[e] <= 1
        /\ \A s \in {waiters, queue, buffer} :
              \A i, j \in DOMAIN s : s[i] = e /\ s[j] = e => i = j

\* A flusher that awaits the turn of an event is never left waiting: that turn
\* runs, or waits for the lock.
FlusherIsAwaitingATurn ==
    \A f \in Flusher :
        flusher[f] = "firing" => firing[f] = owner \/ firing[f] \in Elements(waiters)

\* Once a termination condition has stopped the agent no event that was waiting
\* for the lock gets to the model.
StoppedIsSilent == [][~ running => seen' = seen]_vars

\* An event that waits for the lock gets its turn: no turn before it waits for
\* something that never comes, whatever fails or is interrupted before it, unless
\* the agent stops, its own turn is interrupted, or the process freezes.
WaitersAreHeard ==
    \A e \in Event :
        e \in Elements(waiters) ~>
            (seen[e] > 0 \/ e \in dropped \/ e \in struck \/ frozen)

Undisturbed == interrupts = 0 /\ failures = 0

\* An input that is in the buffer while a turn still has its rounds before it or
\* is running them gets to the model, unless a turn is interrupted or fails.
BufferedInTimeIsHeard ==
    \A e \in UserInput :
        (e \in Elements(buffer) /\ stage \notin {"closing", "idle"}) ~>
            (seen[e] > 0 \/ ~ running \/ ~ Undisturbed)

\* What the comments claim of buffered inputs: they are "drained from inside the
\* current turn ... instead of waiting for the current turn to fully end".  Not
\* so for one that arrives while the turn closes: nothing looks at the buffer
\* until the next turn runs tools.
BufferedIsHeard ==
    \A e \in UserInput :
        e \in Elements(buffer) ~> (seen[e] > 0 \/ ~ running)

\* What the comments claim of an interrupt: buffered events "get re-fired as
\* fresh turns".  With the lock held for longer than the flusher waits, by slow
\* hooks or a waiter that got it first, the flusher never suspends again and no
\* task of the process runs.
NeverFrozen == ~ frozen

\* What the comments claim of live triggers: they "DON'T block on the lock".
TriggersJoinTheTurn ==
    [][\A e \in Trigger :
            owner # NoEvent /\ e \in arrived' \ arrived => e \notin Elements(waiters')]_vars
=============================================================================

------------------------------ MODULE ToolJobs ------------------------------
(***************************************************************************)
(* The jobs of one round of an agent's turn, in native tool-calling mode:  *)
(* dispatch of the calls, waiting for them, promotion to the background,   *)
(* cancellation of one of them, interruption of the turn, and the role=tool*)
(* messages by which the conversation answers the calls                    *)
(* (core/agent_handlers.py, core/agent_tools.py, core/backgroundify.py,    *)
(* core/executor.py, Agent.interrupt and _cancel_job of core/agent.py).    *)
(*                                                                         *)
(* A job is an asyncio task; it is "done" when the coroutine has returned  *)
(* and "settled" when the task's done callbacks have run, a tick of the    *)
(* event loop later.  The turn is at the stage                             *)
(*   stream   the calls of the LLM's answer are dispatched                 *)
(*   wait     _wait_handles waits for the direct jobs                      *)
(*   done     the feedback of the round is pushed                          *)
(*   cut      interrupted       stopped   a termination condition holds    *)
(* A sub-agent's job is one like a tool's, and in the background one like  *)
(* that of a tool called with run_in_background; but a call of one that    *)
(* does not start is nowhere answered.                                     *)
(***************************************************************************)
EXTENDS Naturals, Sequences, FiniteSets

CONSTANTS
    Tools,          \* the calls of the round that may name a registered tool,
    SubAgents,      \* a sub-agent,
    Unknown,        \* or, all the same, a tool which is not registered
    Silent,         \* calls of what is configured not to notify in the background
    FailedJob,      \* error_<tool>: the job id of a call that fails to start
    Assistant,      \* the message that makes the calls
    NoCall,
    MaxInterrupts,  \* bound on the calls of interrupt
    MaxCancels      \* bound on the calls of _cancel_job

\* The calls the LLM may make.
Call == Tools \cup SubAgents \cup Unknown

ASSUME CallAssumption ==
    /\ Silent \subseteq Call
    /\ {FailedJob, Assistant, NoCall} \cap Call = {}
    /\ Assistant # NoCall
ASSUME BoundAssumption == {MaxInterrupts, MaxCancels} \subseteq Nat

\* A call that starts has a job id of its own, here the call itself.
Job == Call \cup {FailedJob}

VARIABLES
    stage,
    running,        \* Agent._running
    dispatched,     \* the calls dispatched so far
    conversation,   \* Assistant, and per role=tool message the call it answers
    refused,        \* calls of sub-agents that were vetoed or not spawned
    failed,         \* calls that failed to start, under the id FailedJob
    order,          \* handle_order
    idOf,           \* native_tool_call_ids
    metaId,         \* the tool_call_id of _direct_job_meta
    task,           \* per job: none, running, cancelling, done, settled
    promoted,       \* jobs with a promoted handle
    delegated,      \* jobs whose completion is left to the executor
    unread,         \* of those, the ones whose tool wants its manual read first
    tracked,        \* _active_handles and _direct_job_meta
    muted,          \* _bg_controller_notify: jobs with an entry False
    quiet,          \* jobs whose tool is configured not to notify
    collected,      \* jobs whose waiter _wait_handles has popped
    results,        \* of those, the ones that completed as direct jobs
    finalizing,     \* jobs awaited by _finalize_interrupted_direct_job
    delivered,      \* completion events per job handed to _process_event
    struck,         \* jobs that an interrupt found running
    interrupts,
    cancels

ids == <<idOf, metaId>>
calls == <<dispatched, refused, failed, conversation, order, ids>>
nature == <<delegated, unread>>
jobs == <<task, promoted, nature>>
books == <<tracked, muted, quiet>>
waiting == <<collected, results>>
stops == <<struck, interrupts, cancels>>
vars == <<stage, running, calls, jobs, books, waiting, finalizing, delivered, stops>>

Init ==
    /\ stage = "stream"
    /\ running = TRUE
    /\ dispatched = {}
    /\ conversation = <<>>
    /\ order = <<>>
    /\ refused = {} /\ failed = {}
    /\ idOf = [j \in Job |-> NoCall]
    /\ metaId = [j \in Job |-> NoCall]
    /\ task = [j \in Job |-> "none"]
    /\ promoted = {} /\ delegated = {} /\ unread = {}
    /\ tracked = {} /\ muted = {} /\ quiet = {}
    /\ collected = {} /\ results = {}
    /\ finalizing = {}
    /\ delivered = [j \in Job |-> 0]
    /\ struck = {} /\ interrupts = 0 /\ cancels = 0

Elements(s) == {s[i] : i \in DOMAIN s}
Pending == Elements(order) \ collected
Active(j) == task[j] \in {"running", "cancelling"}

\* The role=tool messages that answer a call.
Answers(c) == {i \in DOMAIN conversation : conversation[i] = c}

-----------------------------------------------------------------------------
(* Dispatch, while the answer is streamed.  The message that makes the     *)
(* calls joins the conversation when the stream has ended.                 *)

\* A direct job is tracked and will be waited for; whether its completion in the
\* background is worth a turn is for the configuration to say.
StartDirect(c) ==
    /\ stage = "stream"
    /\ c \in (Tools \cup SubAgents) \ dispatched
    /\ dispatched' = dispatched \cup {c}
    /\ order' = Append(order, c)
    /\ idOf' = [idOf EXCEPT ![c] = c]
    /\ metaId' = [metaId EXCEPT ![c] = c]
    /\ task' = [task EXCEPT ![c] = "running"]
    /\ tracked' = tracked \cup {c}
    /\ quiet' = quiet \cup ({c} \cap Silent)
    /\ muted' = muted \cup ({c} \cap Silent)
    /\ UNCHANGED <<stage, running, refused, failed, conversation, promoted, nature, waiting, finalizing, delivered, stops>>

\* A job in the background from the start: by the call's run_in_background, or by
\* the tool's declaration; then its handle has no callback, and the executor
\* delivers what the tool returns.
StartInBackground(c) ==
    /\ stage = "stream"
    /\ c \in (Tools \cup SubAgents) \ dispatched
    /\ dispatched' = dispatched \cup {c}
    /\ task' = [task EXCEPT ![c] = "running"]
    /\ promoted' = promoted \cup {c}
    /\ \/ c \in SubAgents /\ UNCHANGED <<idOf, nature>>
       \/ /\ c \in Tools
          /\ idOf' = [idOf EXCEPT ![c] = c]
          /\ \/ UNCHANGED nature
             \/ /\ delegated' = delegated \cup {c}
                /\ \E u \in {{}, {c}} : unread' = unread \cup u
    /\ quiet' = quiet \cup ({c} \cap Silent)
    /\ muted' = muted \cup ({c} \cap Silent)
    /\ conversation' = Append(conversation, c)
    /\ UNCHANGED <<stage, running, refused, failed, order, metaId, tracked, waiting, finalizing, delivered, stops>>

\* submit raises: a task that returns the error, under an id that depends on
\* nothing but the tool.
FailToStart(c) ==
    /\ stage = "stream"
    /\ c \in Unknown \ dispatched
    /\ dispatched' = dispatched \cup {c}
    /\ failed' = failed \cup {c}
    /\ order' = Append(order, FailedJob)
    /\ idOf' = [idOf EXCEPT ![FailedJob] = c]
    /\ metaId' = [metaId EXCEPT ![FailedJob] = c]
    /\ task' = [task EXCEPT ![FailedJob] = "running"]
    /\ tracked' = tracked \cup {FailedJob}
    /\ UNCHANGED <<stage, running, refused, conversation, promoted, nature, muted, quiet, waiting, finalizing, delivered, stops>>

\* The same of a call with run_in_background.  Its task stands under the call, as
\* that of another failed call may be waited for under the shared id.
FailInBackground(c) ==
    /\ stage = "stream"
    /\ c \in Unknown \ dispatched
    /\ dispatched' = dispatched \cup {c}
    /\ failed' = failed \cup {c}
    /\ idOf' = [idOf EXCEPT ![FailedJob] = c]
    /\ task' = [task EXCEPT ![c] = "running"]
    /\ promoted' = promoted \cup {c}
    /\ conversation' = Append(conversation, c)
    /\ UNCHANGED <<stage, running, refused, order, metaId, nature, books, waiting, finalizing, delivered, stops>>

\* A plugin vetoes the call of a tool and its error is the answer.
Veto(c) ==
    /\ stage = "stream"
    /\ c \in (Tools \cup Unknown) \ dispatched
    /\ dispatched' = dispatched \cup {c}
    /\ conversation' = Append(conversation, c)
    /\ UNCHANGED <<stage, running, refused, failed, order, ids, jobs, books, waiting, finalizing, delivered, stops>>

\* A plugin vetoes the call of a sub-agent, or the depth limit forbids it: without
\* a task there is no handle, and without a handle no placeholder.
Refuse(c) ==
    /\ stage = "stream"
    /\ c \in SubAgents \ dispatched
    /\ dispatched' = dispatched \cup {c}
    /\ refused' = refused \cup {c}
    /\ UNCHANGED <<stage, running, failed, conversation, order, ids, jobs, books, waiting, finalizing, delivered, stops>>

EndStream ==
    /\ stage = "stream"
    /\ dispatched # {}
    /\ conversation' = Append(conversation, Assistant)
    /\ stage' = IF order = <<>> THEN "done" ELSE "wait"
    /\ UNCHANGED <<running, dispatched, refused, failed, order, ids, jobs, books, waiting, finalizing, delivered, stops>>

\* A termination condition holds after the stream: nobody waits for the jobs.
Terminate ==
    /\ stage = "stream"
    /\ dispatched # {}
    /\ conversation' = Append(conversation, Assistant)
    /\ stage' = "stopped"
    /\ running' = FALSE
    /\ UNCHANGED <<dispatched, refused, failed, order, ids, jobs, books, waiting, finalizing, delivered, stops>>

-----------------------------------------------------------------------------
(* The jobs.                                                               *)

\* _on_bg_complete: an event for the agent, unless the job is muted.
Deliver(j) ==
    IF running
    THEN /\ delivered' = IF j \in muted THEN delivered ELSE [delivered EXCEPT ![j] = @ + 1]
         /\ muted' = muted \ {j}
    ELSE UNCHANGED <<delivered, muted>>

\* The coroutine returns, with a result or an error, cancelled or not; the
\* executor's callback is its last call.  A tool whose manual has not been read
\* returns at once, and past the callback.
Complete(j) ==
    /\ Active(j)
    /\ task' = [task EXCEPT ![j] = "done"]
    /\ IF j \in delegated \ unread THEN Deliver(j) ELSE UNCHANGED <<delivered, muted>>
    /\ UNCHANGED <<stage, running, calls, promoted, nature, tracked, quiet, waiting, finalizing, stops>>

\* Mutant: the callback needs the tracking that a promotion clears.
SettleWhileTracked(j) ==
    /\ task[j] = "done"
    /\ task' = [task EXCEPT ![j] = "settled"]
    /\ IF j \in (promoted \ delegated) \cap tracked THEN Deliver(j) ELSE UNCHANGED <<delivered, muted>>
    /\ UNCHANGED <<stage, running, calls, promoted, nature, tracked, quiet, waiting, finalizing, stops>>

\* _on_task_done of the handle.
Settle(j) ==
    /\ task[j] = "done"
    /\ task' = [task EXCEPT ![j] = "settled"]
    /\ IF j \in promoted \ delegated THEN Deliver(j) ELSE UNCHANGED <<delivered, muted>>
    /\ UNCHANGED <<stage, running, calls, promoted, nature, tracked, quiet, waiting, finalizing, stops>>

\* Mutant: a handle that has completed can be promoted.
PromoteAnyTime(j) ==
    /\ j \in tracked \cap Call
    /\ promoted' = promoted \cup {j}
    /\ UNCHANGED <<stage, running, calls, task, nature, books, waiting, finalizing, delivered, stops>>

\* The user sends a job to the background, at any time before the handle has
\* noticed its end.  (The job of a failed call is over before a user sees it.)
Promote(j) ==
    /\ j \in tracked \cap Call
    /\ task[j] # "settled"
    /\ promoted' = promoted \cup {j}
    /\ UNCHANGED <<stage, running, calls, task, nature, books, waiting, finalizing, delivered, stops>>

-----------------------------------------------------------------------------
(* Waiting for the handles.                                                *)

\* The k-th of a set of positions.
Nth(M, k) == CHOOSE i \in M : Cardinality({j \in M : j <= i}) = k

\* The tool messages of the jobs that completed as direct ones, in handle_order.
ResultMessages(done) ==
    LET shown == {i \in DOMAIN order : order[i] \in done}
    IN  [k \in 1 .. Cardinality(shown) |-> idOf[order[Nth(shown, k)]]]

\* A waiter returns: its job was promoted, or has ended.  A finalizer that awaits
\* the job goes before the waiter, which needs more ticks of the event loop to
\* get back to _wait_handles.
Returned(j) ==
    /\ j \in Pending
    /\ j \in promoted \/ (task[j] = "settled" /\ j \notin finalizing)

\* Mutant: no placeholder for a promoted job.
PlaceholderNever(j) == <<>>

Placeholder(j) == IF j \in promoted THEN <<idOf[j]>> ELSE <<>>

\* _wait_handles with _handle_promotion and _clear_direct_job_tracking; when no
\* waiter is left the results join the conversation in the same step.
Collect(j) ==
    /\ stage = "wait"
    /\ Returned(j)
    /\ collected' = collected \cup {j}
    /\ results' = IF j \in promoted THEN results ELSE results \cup {j}
    /\ tracked' = tracked \ {j}
    /\ muted' = muted \ {j}
    /\ IF Pending = {j}
       THEN /\ stage' = "done"
            /\ conversation' = conversation \o Placeholder(j) \o ResultMessages(results')
       ELSE /\ conversation' = conversation \o Placeholder(j)
            /\ UNCHANGED stage
    /\ UNCHANGED <<running, dispatched, refused, failed, order, ids, jobs, quiet, finalizing, delivered, stops>>

-----------------------------------------------------------------------------
(* Interrupts and cancellation.                                            *)

\* _interrupt_direct_job of the jobs of a set that it applies to.
Interruptible == {j \in tracked \ promoted : Active(j)}
CancelTasks(S) == task' = [j \in Job |-> IF j \in S THEN "cancelling" ELSE task[j]]

\* Mutant: the jobs are cancelled, and nobody finalizes them.
InterruptWithoutFinalizer ==
    /\ interrupts < MaxInterrupts
    /\ interrupts' = interrupts + 1
    /\ stage' = IF stage \in {"stream", "wait"} THEN "cut" ELSE stage
    /\ CancelTasks(Interruptible)
    /\ struck' = struck \cup Interruptible
    /\ UNCHANGED <<running, calls, promoted, nature, books, waiting, finalizing, delivered, cancels>>

\* Mutant: the jobs are cancelled, the processing task is not.
InterruptJobsOnly ==
    /\ interrupts < MaxInterrupts
    /\ interrupts' = interrupts + 1
    /\ CancelTasks(Interruptible)
    /\ finalizing' = finalizing \cup Interruptible
    /\ struck' = struck \cup Interruptible
    /\ UNCHANGED <<stage, running, calls, promoted, nature, books, waiting, delivered, cancels>>

\* Agent.interrupt: the processing task ends, the waiters' results are lost.
Interrupt ==
    /\ interrupts < MaxInterrupts
    /\ interrupts' = interrupts + 1
    /\ stage' = IF stage \in {"stream", "wait"} THEN "cut" ELSE stage
    /\ CancelTasks(Interruptible)
    /\ finalizing' = finalizing \cup Interruptible
    /\ struck' = struck \cup Interruptible
    /\ UNCHANGED <<running, calls, promoted, nature, books, waiting, delivered, cancels>>

\* _cancel_job: as an interrupt of that job, or else its task is cancelled.
Cancel(j) ==
    /\ cancels < MaxCancels
    /\ cancels' = cancels + 1
    /\ j \in Call
    /\ Active(j)
    /\ CancelTasks({j})
    /\ finalizing' = finalizing \cup ({j} \cap Interruptible)
    /\ UNCHANGED <<stage, running, calls, promoted, nature, books, waiting, delivered, struck, interrupts>>

\* The second half of _finalize_interrupted_direct_job: the task has ended.
Finalize(j) ==
    /\ j \in finalizing
    /\ task[j] = "settled"
    /\ finalizing' = finalizing \ {j}
    /\ conversation' = IF Answers(metaId[j]) = {} THEN Append(conversation, metaId[j]) ELSE conversation
    /\ tracked' = tracked \ {j}
    /\ muted' = muted \ {j}
    /\ UNCHANGED <<stage, running, dispatched, refused, failed, order, ids, jobs, quiet, waiting, delivered, stops>>

Next ==
    \/ \E c \in Call : StartDirect(c)
    \/ \E c \in Call : StartInBackground(c)
    \/ \E c \in Call : FailToStart(c)
    \/ \E c \in Call : FailInBackground(c)
    \/ \E c \in Call : Veto(c)
    \/ \E c \in Call : Refuse(c)
    \/ EndStream
    \/ Terminate
    \/ \E j \in Job : Complete(j)
    \/ \E j \in Job : Settle(j)
    \/ \E j \in Job : Promote(j)
    \/ \E j \in Job : Collect(j)
    \/ Interrupt
    \/ \E j \in Job : Cancel(j)
    \/ \E j \in Job : Finalize(j)

Spec == Init /\ [][Next]_vars

\* What runs or waits for job j, without the tool itself.
TaskStep(j) ==
    \/ Settle(j)
    \/ Collect(j)
    \/ Finalize(j)
    \/ task[j] = "cancelling" /\ Complete(j)

\* The event loop runs what is ready; a cancelled task ends; a tool that nobody
\* cancels may run for ever.
Fairness == \A j \in Job : WF_vars(TaskStep(j))

FairSpec == Spec /\ Fairness

-----------------------------------------------------------------------------
(* Properties.                                                             *)

\* The outcome of a job reaches the agent in one way and once, as a result of the
\* round or as the completion event of a job in the background, whether it was
\* promoted at the moment it ended or cancelled.  A round that has waited for
\* the job has not lost it.  The one that goes unheard is what a tool declared
\* to run in the background says of its unread manual: the executor returns past
\* its callback, and the handle has none.
OneOutcome ==
    \A c \in Call :
        LET outcomes == delivered[c] + (IF c \in results THEN 1 ELSE 0) IN
        /\ outcomes <= 1
        /\ task[c] = "settled" /\ running /\ c \notin quiet \cup unread \cup Pending
              => outcomes = 1

\* Two calls that fail to start have one job id, and the tables of the round
\* know the later one only.
Overtaken(c) == c \in failed /\ idOf[FailedJob] # c
Sharing(c) == c \in failed /\ failed # {c}

\* No call has two answers: not the synthesised one of an interrupted job and a
\* result, nor a placeholder and either of them; only calls that share a job id
\* may have the answers of each other.
NoSecondAnswer == \A c \in Call : Sharing(c) \/ Cardinality(Answers(c)) <= 1

\* So it is as long as nobody cancels a single job.
InterruptAnswersOnce == cancels = 0 => NoSecondAnswer

\* A round that has run to its end has answered its calls, promoted, cancelled,
\* failed or vetoed, but for two kinds: those of sub-agents that were vetoed or
\* not spawned, and those whose job id a later call has taken.
RoundAnswersAll ==
    stage = "done" => \A c \in dispatched : Answers(c) # {} \/ c \in refused \/ Overtaken(c)

\* A job that an interrupt finds running gets its answer, though the loop that
\* would have given it is gone.
StruckIsAnswered ==
    \A j \in Job : j \in struck ~> Answers(metaId[j]) # {}

\* What is in the background when it ends is heard of, if not by this round, also
\* when the round or the interrupt of it has cleared the tracking of the job;
\* the unread manual apart.
PromotedIsHeard ==
    \A c \in Call :
        (c \in promoted \ (quiet \cup unread) /\ task[c] = "done") ~> (delivered[c] > 0 \/ ~ running)

\* What the docstring of _append_interrupted_tool_message promises of an
\* interrupted round: no call of the assistant message is left without an
\* answer.  The calls whose jobs had ended before the interrupt are: their
\* results are in a local variable of the cancelled task.
CutRoundIsPaired ==
    stage = "cut" /\ finalizing = {} /\ Assistant \in Elements(conversation)
        => \A c \in dispatched : Answers(c) # {}

\* The rule of the conversation: a role=tool message follows the message that
\* makes the call.
AnswersFollowTheCall ==
    \A i \in DOMAIN conversation :
        conversation[i] # Assistant => \E k \in 1 .. i - 1 : conversation[k] = Assistant

\* A tool configured not to notify the controller of a completion in the
\* background does not.
QuietIsQuiet == \A c \in quiet : delivered[c] = 0
=============================================================================

# A verification project for KohakuTerrarium

KohakuTerrarium is a framework for LLM agents: a *creature* is an agent with a
controller, tools, triggers and outputs; a *terrarium* is an engine that hosts
many creatures and wires them together with channels; a *laboratory* links
engines on several machines.  Everything runs in one asyncio event loop per
process, so the hard part is not memory races but what happens at the awaits: a
synchronous stretch of code leaves tasks behind that run later, in an order
nobody wrote down, while other callers change the state they are about to look
at.  And what an agent knows outlives the process, so a crash may come between
any two writes.

This directory holds TLA+ models of the parts where that matters, configurations
that check them with TLC, and proofs for the parts where a small instance is not
enough.  Paths are relative to `src/kohakuterrarium/` unless they start with
`docs/`.

## 1. Inventory

| Part | State it keeps | Operations | Talks to |
| --- | --- | --- | --- |
| Topology (`terrarium/topology.py`) | graphs with creature ids, channels, listen and send edges; `creature_to_graph` | add/remove creature, add/remove channel, set listen/send, connect, disconnect; merge and split inside them | called synchronously by the engine, recipes and the group tools, which act on the delta it returns |
| Engine (`terrarium/engine.py`, `creature_host.py`, `recipe.py`) | creature table, environments, each creature's task and flags | add/remove creature, recipes, start, stop, shutdown, merge and split bookkeeping | topology; awaits the agent's start and stop |
| Session coordination (`terrarium/session_coord.py`, `studio/sessions/lifecycle.py`) | which store a graph, the studio and an agent write to; the rows of each file | merge, split, attach | topology deltas, session stores |
| Session store (`session/store.py`, `output.py`, `history.py`, `resume.py`) | events with a write cache, the conversation snapshot and its watermark | append, flush, save, replay, resume | agent turns write, a restart reads |
| Conversation and compaction (`core/conversation.py`, `compact.py`, `agent_messages.py`) | messages, branch position, one compaction in flight | append, edit, regenerate, rewind, clear, summarise, splice | runs beside the turn, writes to the session store |
| Channel wiring (`terrarium/channels.py`, `terrarium/channel_lifecycle.py`, `core/trigger_manager.py`, `modules/trigger/channel.py`, `core/channel.py`) | trigger and task tables, subscriptions, per-subscriber queues | inject, remove, run loop, receive, start_all, stop_all | spawns tasks on the event loop; its run loops call the agent's `_process_event` |
| Agent turns (`core/agent_handlers.py`, `core/agent_mid_turn.py`, `core/controller.py`, `core/agent.py`) | processing lock, interrupt flag, controller queue, mid-turn buffer | `_process_event`, controller loop, drain, `interrupt`, termination | users, triggers, jobs in the background |
| Direct jobs (`core/backgroundify.py`, `core/agent_tools.py`, `core/executor.py`) | handles, direct-job metadata, the conversation's tool messages | start, wait, promote, cancel, finalize | the turn awaits them, completions come back as events |
| Laboratory link (`laboratory/_internal/`) | connections, sessions, membership, addresses, pending requests, outboxes | handshake, read and write loops, route, request, reply, reap, reconnect | network peers |
| Laboratory streams, multi-node service, sub-agents, plugins, output router, parser, LLM clients, MCP, studio, API, CLI, packages, front end | mostly configuration, text and I/O | | |

What makes each of the modelled parts correct:

* **Topology**: the reverse index agrees with the graphs; edges name declared
  channels; merging graphs never joins creatures on a channel by accident of
  its name; a split never cuts through a channel in use and leaves pieces that
  can be connected again; creatures see only the wiring changes asked for.
* **Engine**: creature table, environments, graph ids and what an agent's tools
  see agree with the topology between any two awaits; a creature is wholly up or
  wholly down when nobody is working on it and nothing befell it; a shutdown
  leaves nobody up that it found up.
* **Session coordination**: one store per graph, and nothing that could be read
  becomes unreadable by a merge, a split or a hot-plug, unless the studio's table
  gives a graph back a store it had left.
* **Conversation**: a compaction that finishes late loses nothing that was said
  meanwhile; a resume knows what was on disk and forgets what was cut off.
* **Channel wiring**: at most one run loop drives a wire; a wired creature
  hears the live channel; nothing removed keeps listening; a stop comes to an
  end and leaves nothing behind.
* **Agent turns**: no event is lost or handled twice between lock, buffer and
  queue; every event gets its turn; an interrupt ends one turn and not the
  process; a stopped agent says nothing.
* **Direct jobs**: a job's outcome reaches the agent by one way and once, however
  its end, its promotion and its cancellation race; every call of a round is
  answered in the conversation, once, after the message that makes it.
* **Laboratory**: a name is one live session; the tables of the host name live
  sessions only; a request is answered over the session it was sent on; a client
  that lost its connection comes back.

The hazards, each at its line, are listed in `PROJECT.json`, with the property
that would catch it or the reason why there is none.

## 2. Modules

How they hang together: `Topology` implements two abstract specifications.
`Wiring` is what a creature sees of it, `Partition` is what the engine's books
see of it.  `Engine` and `SessionStores` extend `Partition`: they are what the
engine does to its other books in the same synchronous stretch of code as a
merge or a split, whatever the reason for it was.  `ToolJobs` opens up the
stages of a round that `AgentTurn` leaves closed.

### Topology, MCTopology

`Topology` translates `topology.py` operation by operation.  `TopologyState` is
six tables; a dropped graph has empty rows, so the tables have fixed domains.

| Code | Model |
| --- | --- |
| `graphs`, `creature_ids`, `channels`, `listen_edges`, `send_edges`, `creature_to_graph` | `graphs`, `creatures`, `channels`, `listen`, `send`, `graphOf` |
| `find_components` (a search from each creature) | `find_components`: the least closed set around each creature |
| `_normalize_components`, at the end of each removing operation | `Homes` (which component stays, which ids are minted) and `Normalize` |
| `_merge_graphs` | `Mergeable`, `MergedSets`, `MergedEdges`, `MergeGraphs` |
| `add_creature` with and without a graph | `AddCreatureTo`, `AddCreatureNew` |
| `add_channel`, `remove_channel`, `set_listen`, `set_send`, `connect`, `disconnect`, `remove_creature` | actions of the same name |
| `apply_recipe` minting a graph (`recipe.py`) | `NewEmptyGraph` |
| `group_channel(action="unwire")` | `Unwire`: one direction, then the component check |
| `ensure_same_graph` (`channels.py`) | `EnsureSameGraph` |

Calls that raise are calls that do not happen: every `raise` precedes the first
assignment of its operation.  Names and ids are model values; `uuid4` is a
choice of an unused id.  Sorting components by size is a choice among the
largest, because ties fall as a Python set happens to iterate.

### Wiring and Partition: the abstract specifications

`Wiring` says what the topology promises a creature: it is present, it hears
some channels and says on others, and that changes only by linking, unlinking
or leaving.  There are no graphs in it.  `Topology` implements it under the
mapping that takes a creature's edges from whatever graph it is in
(`ImplementsWiring`): all merging, splitting, minting and dropping is invisible
to creatures.

`Partition` is the opposite half: creatures are in graphs; a creature joins a
graph or leaves it, a graph falls into pieces of which one keeps its id, a graph
is merged into another.  There are no channels in it.  `Topology` implements it
too (`ImplementsPartition`, checked by `topology_small` and proved).

### Engine, MCEngine

| Code | Model |
| --- | --- |
| `Terrarium._creatures`, `Creature.graph_id`, `_environments`, `Agent.environment` | `table`, `graph_id`, `envs`, `bound` |
| `Creature._running`, `Agent._running`, what `Agent.start` brings up | `running`, `agent`, `modules` |
| `_input_task` and the tasks alive | `input`, `loops` |
| `_merge_environment_into`, `apply_split_bookkeeping` | `Merging` (`MergedBindings`), `SplitBookkeeping` |
| `add_creature` | `Add`, then `AgentUp`, `Started` or `StartFails` |
| `remove_creature` | `Remove` up to the awaited stop, `Removed` after it, with the graph id read before |
| `Creature.stop`, `Agent.stop`, `_reap_input_task` | `BeginStop`, `AgentDown`, `ModulesDown`, `StopReturns` |
| `_drive_input` ending by itself | `LoopEnds` |
| `_check_termination` in a turn of the creature | `Terminates`: the agent's flag falls, and nothing else |
| `shutdown` | `Shutdown`, `Visit`, `ShutdownReturns` |

Starts, stops and removals may overlap in any way; `stops` and `starts` count
who is where.  Three variables are history.  `overlapped` has the creatures that
two callers have started or stopped at once; `WhollyUpOrDown` says nothing of
them, and section 3 has the cases.  `mishap` is what befell a creature since its
modules last came up or down: its start failed, perhaps with some modules up
already, its input loop ended by itself, or a turn terminated it.  Of these the
property does speak, but says less.  `raced` records that a creature changed
its graph while its removal awaited the stop.

### SessionStores, MCSessionStores

`stores` is the engine's table, `studio` the studio's own, `attached` the store
of each agent, and `rows` how often each event is in each file.  `apply_merge`
and `apply_split` act in the step of the merge or split.  Copying appends:
`copy_events_into` does not look for rows that are there already, hence counts
and not sets.  A split writes to the path of each piece, and the path of the
piece that keeps its id may be the file that is being split; `again` chooses
whether those rows are in the cache of the second object on the file.

`attach_session_store_for_creature` prefers the studio's entry to the engine's,
and no merge or split corrects the studio's, so that it may be `Outdated`.  A
hot-plug then gives the graph back a store it had left; `misled` is history, the
creatures that were in a graph when that happened.  The step itself is in the
model without restriction.

### Conversation

| Code | Model |
| --- | --- |
| `Conversation._messages` | `conv`: entries with a role and the messages they speak of; a summary speaks of those it was made from |
| `to_messages`, `sanitize_orphan_tool_pairs` | `Sanitized`: without results that no call announces (`Orphans`), and without the calls that no result follows |
| rows of the events table, the write cache | `log`, `kept` |
| saved conversation, `<agent>:snapshot_event_id` | `snapshot`, `watermark` |
| `_turn_index`, `_branch_id`, `_parent_branch_path` | `at` |
| `_process_event`, streamed text, tool results, `conversation.append`, `on_processing_end` | `BeginUser`, `BeginTold`, `Reply`, `ToolResult`, `Join`, `End` |
| `edit_and_rerun`, `regenerate_last_response`, `rewind_to`, `/clear` | `Edit`, `Regenerate`, `Rewind`, `Clear` |
| `_reload_conversation_under_branch_view` | `Loaded`, `Seated`, and `EditMissing` when the edit finds no target after it |
| `trigger_compact`, `_run_compact`, `_splice_conversation` | `Trigger`, `StartJob`, `GiveUp`, `Splice` |
| the stamp of `snapshot_event_id` after a save | `Stamp` |
| `_resolve_selected_branches`, `select_live_event_ids`, `replay_conversation` | `Candidates`, `Choice`, `Chosen`, `Live`, `Replayed`, each for a view |
| `_load_conversation_with_replay_fallback`, `_restore_turn_branch_state`, `inject_saved_state` | `Resumed`, `Restored`, `Restart` |

`flight` is the message whose event is recorded and which has not been appended
to the conversation yet; there is one at a time.  `Restart` loses the events in
the write cache and whatever is in flight.  A save and its stamp are two writes:
between them (`unstamped`) the process may die or the cache be flushed, and
nothing else happens, as neither suspends.  In `End` a crash between its flush
and its save is a crash after `Flush` before it.  What is saved is `Sanitized`:
a compaction whose boundary falls between a reply and its results leaves results
in memory and on disk that no snapshot and no request to the model shows
(`Shown`).  A view has at most one branch that is not the newest (`Views`).  `MIN_COMPACTABLE` is 8 in the code
and a parameter here.  Tool results are in the native format, edits and rewinds
come while no turn runs, as the API does it, and the system prompt is left out.

### LabLink, MCLabLink

Two peers over connections that fail.  `up` and `down` are the frames on the
wire, `session` what the host knows of a connection, `clients`, `members` and
`listeners` its tables by name.

| Code | Model |
| --- | --- |
| `ClientConnector._main_loop` | `Connect`, `Handshaken`, `HostIsGone`, with `TearDown` |
| `_read_loop`, `_run_handler_and_reply`, `_write_loop`, `subscribe`, `stop` | `ClientRead`, `Handled`, `ClientWrite`, `ClientSubscribes`, `ClientStops` |
| `_perform_handshake` | `Handshake`, `NoHandshake` |
| `_client_read_loop`, `_route_envelope` | `HostRead`, `HostReadEnds`, `Route` |
| `_disconnect_client` | `Disconnect`, with `Aborted`, `Evicted`, `Left` |
| `_reaper_loop`, `Membership.check_lost` | `CheckLost`, `ReapNext` |
| `HostEngine.request` | `HostRequest`, `RequestExpires` |
| the network | `Break` (both ends learn of it), `CutOff` (only the client does) |

The handshake of the host is one step from its look at the table to the
registration: sending the first frame of a connection does not suspend.  A
session that the reaper disconnects is `leaving`: its read loop may route one
more frame before it notices, which is how a name gets back into the address
directory after it was evicted (`late`).

### ChannelWiring

One creature and one channel name, with the channel objects of several
environments (`Registry`), because a merge or split moves the creature to
another one.  `inject_channel_trigger` and `remove_channel_trigger` edit the
tables at once and leave `start`, `stop` and the loop's first step to tasks:
those are the FIFO `ready`, run in creation order by `RunTask`, `StopTask` and
`LoopTask`.  A loop past its first step is woken by a message (`Receive`), the
one-second timeout (`Timeout`), the end of the turn it awaits (`TurnEnds`) or a
cancellation (`CancelDelivered`), at any time.  `sub`, `chan` and `backlog`
keep who subscribed with which queue, so that the sharing of a queue under one
subscriber id, and its removal by id, are visible.  `StartAll`, `Close`,
`StopAll`, `StopAllReturns` are the parts of agent start and stop that touch
triggers.

`hasty` is history: a call was made before the tasks of an earlier one had run.
A user clicking, or a tool call per LLM round, is not hasty; code that makes
several calls without an await (merges, splits, recipes) is.  Some properties
hold only as long as nobody was.

### AgentTurn

One agent.  Every stretch of code between two awaits that may suspend is one
action; the stages of a turn are named in the module's head.

| Code | Model |
| --- | --- |
| `_processing_lock` and its FIFO of waiters | `owner`, `waiters`, `Enter`, `Acquire`, `Release` |
| `_pending_mid_turn_inputs` | `buffer`, `Buffered` |
| `_interrupt_requested`, `Controller._interrupted` (always set together) | `flag` |
| controller `_event_queue` | `queue`; a round begins by taking all of it (`BeginRound`) |
| `_process_event` up to the lock | `Arrive` |
| `_prepare_processing_cycle`, push, loop creation | `Start`, `CreateLoop` |
| `_run_controller_loop` | `BeginRound`, `NoticeInterrupt`, `EndRound`, `Terminate`, `CollectFeedback`, `Fail` |
| `_finalize_processing` and the release | `Finish` |
| `interrupt` | `Interrupt`: raises the flag, cancels the loop's task if there is one, spawns a flusher if the buffer has something |
| `_flush_buffer_after_interrupt` | `FlushBuffer`, and `Fire`, which runs again when the turn it awaits ends |

`Fire` deserves a word: with the lock free the popped event waits for its turn
and the flusher awaits it.  With the lock held `_process_event` puts the event
back into the buffer and returns at once.  Nothing on that path suspends, so the
flusher's `while` loop never gives the event loop back.  The model marks that
with `frozen`, after which no action is enabled.

### ToolJobs

One round of a turn in native tool-calling mode, where the conversation must
answer each call of the assistant's message with one `role=tool` message.  What
comes after a round is left to AgentTurn.

| Code | Model |
| --- | --- |
| `handles`, `handle_order`, `native_tool_call_ids` | `order`, `idOf` |
| asyncio task, its done callbacks | `task`: running, cancelling, done, settled (callbacks have run) |
| `BackgroundifyHandle._promoted` | `promoted`, and `delegated` for handles without a callback because the executor delivers |
| `_active_handles` with `_direct_job_meta`, `_bg_controller_notify` | `tracked`, `muted` |
| `_dispatch_tool_event`, `_start_tool_async` | `StartDirect`, `StartInBackground`, `FailToStart`, `FailInBackground`, `Veto` |
| `_dispatch_subagent_event`, `run_pre_subagent_dispatch`, the depth limit of `spawn` | `StartDirect`, `StartInBackground`, `Refuse` |
| the end of `_run_native_completion`, `_check_termination` | `EndStream`, `Terminate` |
| `_run_tool`, `_on_task_done`, `promote` | `Complete`, `Settle`, `Promote` |
| `_wait_handles`, `_handle_promotion`, `_add_native_results_to_conversation` | `Collect`; the last one appends the results in the same step, as the code does not suspend in between |
| `interrupt`, `_cancel_job`, `_finalize_interrupted_direct_job` | `Interrupt`, `Cancel`, `Finalize` |

Two facts of asyncio's FIFO ready queue are built in.  A finalizer's first step
comes before the end of the job it was spawned for, so it always finds the
tracking entry and the model starts with it waiting.  And a finalizer that
awaits a job goes on before the round has learnt of the job's end, which takes
the waiter several more ticks (`Returned`).

`conversation` holds the assistant's message and, for each `role=tool` message,
the call it answers.  A call that starts has a job id of its own; calls of an
unregistered tool (`Unknown`) share `error_<tool>`, so that the later one takes
over the entries of the earlier (`Overtaken`, `Sharing`).

Calls of tools and of sub-agents (`Tools`, `SubAgents`) run in the same way and
fail to run in different ones.  A vetoed tool has its error for an answer; a
sub-agent that is vetoed, not registered or too deep gets no `role=tool` message
at all (`Refuse`, `refused`).  A tool that its class sends to the background is
delivered by the executor (`delegated`), unless its manual has not been read:
then `_run_tool` returns before the callback, and no one has another (`unread`).

## 3. Runs

*check* means: no counterexample.  *refutes*: TLC finds that a sentence of the
documentation, a comment or a docstring does not hold of the code.

| Run | Asks | Bounds and why they suffice | Outcome |
| --- | --- | --- | --- |
| `topology_small` | all topology properties and both refinements | 3 creatures, 2 channels, 3 graph ids, symmetric: enough for a bridge creature between two others, for a split in three, for a merge of graphs with equal names; 20346 states | check |
| `engine_full` | books and environments, wholly up or down, the shutdown | 2 creatures, 3 graph ids, 2 starts: two callers of each kind can be at different awaits of one creature, or of two while their graph splits; about 1.4 million states | check |
| `session_current` | one store per graph, nothing becomes unreadable | 3 creatures with an event each, 3 graph ids: a merge after a split and a split after a merge, a split in three, a hot-plug after any of them; copies are told apart up to one, as only presence matters here; about 471000 states | check |
| `session_hotplug` | "no event becomes unreadable", whichever table a hot-plug uses | the same with 4 graph ids | refutes |
| `conversation_full` | the splice and the resume | 4 messages, 2 cuts, 1 compaction, 1 restart, 2 recent turns kept: a compact zone with something in it, growth or a cut between summary and splice, an edit of an edit or under a view, a boundary between a reply and its result, a crash at each point of them; about 3.2 million states | check |
| `conversation_edit` | an edit hits the turn that was named | 1 cut | refutes |
| `wiring_full` | one driver, no leaks, and for calls that are not hasty hearing, quiet and no rotting messages, under fairness | 3 triggers, 2 registries, 2 messages: wire, move, move back; about 601000 states | check |
| `turn_full` | conservation of events, flusher, silence, progress | 2 inputs, 2 triggers, 1 round with tools, 1 failure, 2 interrupts: two flushers can exist, an input can be buffered while another waits; about 256000 states | check |
| `turn_frozen` | buffered events are re-fired after an interrupt (docstring of `interrupt`) | 1 interrupt | refutes |
| `jobs_full` | one outcome per job, answers once and for all calls, struck and promoted jobs are heard of | 3 calls: one of a tool, one of a sub-agent that may be an unregistered tool instead, one of an unregistered tool; 1 interrupt, 1 cancellation, promotions without bound, one job that does not notify: any two jobs can be at different points when a third event hits, two calls can share an id, and one can be refused; about 393000 states | check |
| `lab_link` | the host's tables, the answers | 2 clients, 2 names, which they may both have, 3 connections, 1 request, 1 failure, 1 late heartbeat: an old session, its successor and a rival can exist at once; about 471000 states | check |
| `lab_back` | a client comes back, under fairness | 2 clients, 2 names, 2 connections, 1 failure, 1 late heartbeat; about 242000 states | check |

All bounds on counters (`MaxTriggers`, `MaxSends`, `MaxRounds`, `MaxFailures`,
`MaxInterrupts`, `MaxCancels`, `MaxStarts`, `MaxEvents`, `MaxCopies`,
`MaxFaults`, `MaxDelays`, `MaxMessages`, `MaxCuts`, `MaxRestarts`) are guards of
the actions that count, `MaxCopies` a number at which counting stops.  Graph
ids are used up by splits, as a uuid does not come twice (`minted`).  Deadlock
checking is off except in Topology, because the other systems come to rest once
the bounded inputs are used up.  Symmetry is used only in runs without liveness
properties.

### What the refutations show

* **A hot-plug brings back an old store** (`session_hotplug`).
  `attach_session_store_for_creature` prefers the studio's own table of stores
  to the engine's; `apply_merge` and `apply_split` update the engine's only.  A
  creature that is added to a session after it was merged or split is attached
  to the store its graph had before, and the engine's entry is overwritten with
  it: the graph then has two stores, and what the others recorded is no longer
  in the session's.
* **An edit misses its turn** (`conversation_edit`).  `edit_and_rerun` with a
  `turn_index` counts the live `user_message` events before that turn and takes
  the message with that number among all messages of role `user`.  What a
  channel or a trigger says has that role and no such event, so the cut comes too
  early; after a compaction, which takes user messages away, too late or not at
  all.
* **An interrupt can freeze the process** (`turn_frozen`), as explained for
  `Fire`: it takes a buffered input and a lock that is still held after 25 ms,
  by slow finalisation or because another waiter got it first.

### Further disagreements

The modules state more properties that sentences of the repository suggest and
the code does not have.  They have no run of their own; each is refuted within
seconds when it is given to TLC as an INVARIANT or PROPERTY with the constants
named here.

* `ChannelWiring!WiredMeansHeard` and `StoppedIsQuiet` without their `~ hasty`
  (`ChannelWiring_full.cfg`), for "Trigger objects always point at the live
  channel" (`docs/en/concepts/impl-notes/graph-and-sessions.md`) and "Stop all
  triggers".  Two injects without a step of the event loop in between: the first
  runner starts its loop; the stop of the first trigger comes next; the second
  runner finds a pending loop in `_tasks` and returns; the loop ends because its
  trigger was stopped, and the installed trigger has nobody to drive it.  A
  wiring call that overlaps the stop of its creature spawns a run loop after the
  tables were cleared.
* `ChannelWiring!StopReturns` (`ChannelWiring_full.cfg`), for "Stop all triggers.
  Called by agent.stop()": `stop_all` cancels the loops and gathers them, and
  stops the triggers after that.  A loop in a turn has its `CancelledError`
  swallowed by `_process_event_with_controller`, which takes it for an interrupt.
  The trigger is still running, so the loop waits for the next message, and the
  gather waits for the loop.  `Terrarium.shutdown` stops creatures one by one,
  so everything behind it waits too.
* `AgentTurn!BufferedIsHeard` (`AgentTurn_full.cfg` with `MaxInterrupts = 0` and
  `MaxFailures = 0`), for "drained from inside the current turn": an input that
  arrives after the last drain and before the lock is released is buffered, and
  nobody looks at the buffer when the turn ends.  A later turn that reaches its
  drain takes it, possibly after inputs that came later.
* `AgentTurn!TriggersJoinTheTurn` (`AgentTurn_full.cfg`), for "events that arrive
  while the lock is held by another turn DON'T block on the lock" (docstring of
  `_process_event`): the condition looks for an event type `"trigger"` which no
  code creates.
* `ToolJobs!CutRoundIsPaired` (`ToolJobs_full.cfg`), for the docstring of
  `_append_interrupted_tool_message`: results join the conversation when the
  last job of the round has ended; until then they are in a local variable of
  the task that an interrupt cancels.  `_interrupt_direct_job` passes over
  handles that are done or promoted, and those already collected are no longer
  tracked, so nobody synthesises their messages.
* `ToolJobs!NoSecondAnswer` (`ToolJobs_full.cfg`), for "we must NOT append a
  duplicate" (`tests/unit/core/test_agent_tools.py`): `_cancel_job` of a direct
  job lets the finalizer append a message, and then the round, which was not
  cancelled, appends its result for the same call without looking.  Without
  cancellations it holds of calls with a job id of their own
  (`InterruptAnswersOnce`).
* `ToolJobs!AnswersFollowTheCall`, for rule 2 of `sanitize_orphan_tool_pairs`:
  calls are dispatched while the completion yields them and the assistant
  message is appended afterwards, so the placeholder of a background call, and
  the error of a vetoed one, come before the call, and the sanitiser drops both.
* `ToolJobs!QuietIsQuiet`, for `notify_controller_on_background_complete`:
  processing a promotion removes the job's entry, and a missing entry means
  that the controller is notified.
* `ToolJobs!RoundAnswersAll` without its two exceptions (`ToolJobs_full.cfg`),
  for rule 1 of `sanitize_orphan_tool_pairs`, "MUST have a matching `role=tool`
  message": of two calls of one unregistered tool the second overwrites the first one's entry in every table,
  is answered twice, and the first never; and a sub-agent that a plugin vetoes,
  that is not registered or that would exceed the depth limit leaves its call
  without an answer.  The sanitiser strips such calls from the next request.
* `ToolJobs!OneOutcome` and `PromotedIsHeard` without `unread`
  (`ToolJobs_full.cfg`): a tool with `require_manual_read`, sent to the background
  by its class, tells nobody that its manual has to be read first.  The agent has
  a placeholder and waits for a result that does not come.
* `Topology!GraphIsComponent` (`Topology_small.cfg`), for "in the same graph if
  and only if they are connected ... Always." (`graph-and-sessions.md`):
  creatures may be added to a graph without a wire, and `set_listen`/`set_send`
  do not re-check.  What does hold is that a step never separates sharers
  (`SharersStayTogether`) and that a graph that splits leaves connected pieces
  (`SplitIsClean`).
* `SessionStores!NoRowTwice` (`SessionStores_current.cfg` with `MaxCopies = 2`),
  for what `apply_merge` is careful about: a split followed by a merge of the
  pieces copies what both have, and a split of a graph whose store is the file
  of its own id copies the file into itself.
* `Engine!ExitIsFollowedByStop` (`Engine_full.cfg` with `EngineFairSpec` and
  `MaxStarts = 1`), for "notice and proceed to stop" in `_on_input_task_done`: a
  creature whose input loop has ended by itself is not `is_running` any more, and
  `shutdown`, `stop` and `remove_creature` pass over what is not running, so its
  triggers, jobs and clients stay up.
* `Engine!ShutdownLeavesNobody` and `WhollyUpOrDown` without `mishap`
  (`Engine_full.cfg`): a creature whose turn meets a termination condition, or
  whose budget is spent, clears its agent's flag and stops nothing.  It is not
  `is_running` from then on, so every stop and the shutdown pass over it, and it
  can be removed with its modules up; if that happens while a shutdown awaits
  another creature, the shutdown returns with it half up.
* `LabLink!RefusedForAnother` (`LabLink_link.cfg`), for "On the very first
  attempt, name was actually taken": a client whose first Welcome is lost with
  the connection tries again while the host still has its session, is told that
  the name is taken, takes that to be final and gives up.
* `Conversation!ClearedStaysCleared` (`Conversation_edit.cfg`), for "Save
  conversation snapshot AFTER clearing (so resume gets cleared state)"
  (`builtins/user_commands/clear.py`): the watermark is not moved, and the
  clear has added an event, so a resume finds the snapshot older than the log
  and replays all that was cleared.  What a rewind took away comes back in the
  same way once another event has been recorded and the turn does not end.
* `Conversation!ResumeKnowsWhatWasSaid` without `missed`: a compaction stamps
  the watermark with the last event of the log although the message of that
  event has not joined the conversation; a crash before the turn ends resumes
  from the snapshot, which does not have it.  Likewise after a rewind: an edit
  under a view brings messages back that the rewound snapshot does not have, and
  a crash before anything else is recorded resumes from that.  Without its
  condition on the snapshot: a clear before the end of the first turn, or a crash
  between the first save and its stamp, leaves a snapshot without a watermark,
  which a resume takes however old it is.
* `Conversation!ResumeKnowsWhatWasSaid` with `Known(conv)` for `Shown(conv)`: a
  compaction, or a resume by replay, separates a tool's result from the call.  The
  result is in memory and on disk and on the live branch, no snapshot has it, and
  a resume from the snapshot loses it.  The runtime logs no
  `assistant_tool_calls`, so that after a resume by replay all earlier results
  are hidden from the model: `normalize_resumable_events` would announce their
  calls (`session/history.py:489-514`), and the resume does not use it.
* `Conversation!SpliceLosesNothing` without its premise: an edit, rewind or clear
  between summary and splice moves the conversation under the boundary; the
  splice then drops live messages and brings back what was cut.

`WhollyUpOrDown` says nothing of a creature that is `overlapped`: two
overlapping starts leave two input loops of which one is forgotten; a removal, or
a shutdown, that comes while the start is awaited finds a creature that is not
running, does not stop it, and the start goes on with a creature that is in no
table.  And a start that fails leaves what it had brought up.

## 4. Fairness

`ChannelWiring!FairSpec` has weak fairness for each task of the event loop and
each way a loop is woken: asyncio runs what is ready, timers fire, a cancelled
task is stepped, and a turn ends since its LLM call has a timeout.  Callers get
no fairness: nobody has to wire, send or stop, but a stop that was begun goes on.

`AgentTurn!FairSpec` has weak fairness for the steps of the turn as one
disjunction (there is one turn at a time, and whether an LLM round is the last
is the model's choice, bounded by `MaxRounds`), for handing on the lock, and for
each flusher.  Arrivals and interrupts get none.  All of it is conditional on
`~ frozen`: a task that never yields starves everything else, which is exactly
how asyncio behaves.

`ToolJobs!FairSpec` has weak fairness for callbacks, waiters and finalizers, and
for the end of a task that was cancelled.  A tool that nobody cancels may run
for ever.

`LabLink!FairSpec` has weak fairness for a client's main and read loop (it tries
again for as long as it is not stopped, with a bounded backoff), for what the
host does with each connection, and for the reaper, which comes by every
interval: a session that is cut off sends no heartbeats, so its name is overdue
and stays so.  Neither failures nor requests get fairness.

`Engine!EngineFairSpec` is for `ExitIsFollowedByStop` only: stops that were begun
go on, and so does a shutdown.

## 5. Proofs

`topology_small` and the other runs try small instances; the modules below prove
for every value of the constants.  Every invariant and action property of the
passing runs has a theorem, and so do both refinements; liveness stays with TLC.

### TopologyProofs

Assumptions: `Creature` is finite, as components are compared by size, and
`NoGraph` is not a graph id.

* `TypeCorrect`, `IndexStaysConsistent`, `EdgesStayDeclared`: the three
  invariants.  The inductive invariant is their conjunction `Inv`.  They need each
  other: a merge keeps edges declared only because the dropped graph's members
  are in the reverse index, and the index survives a split only if the graph that
  splits is live, which follows from it having an edge or a member.  The core is
  `NormalizeKeepsInv`: *whatever* placement `Homes` allows, distributing members,
  channels and edges along it keeps `Inv`.  Every removing operation is an
  instance of it, so the search for components never has to be reasoned about.
  `MergeKeepsInv` does the same for connect and ensure_same_graph.
* `NamesNeverAlias` (`NoAliasing`): a split never joins creatures of different
  graphs (`NormalizeNeverJoins`), and a merge that joins two creatures found no
  common channel (`MergeNeverAliases`).
* `PartitionRefined` (`ImplementsPartition`): every step is a merge, a split, an
  arrival or a departure of one creature, a new graph, or nothing to `Partition`.
  `NormalizeRehomes` reads the placement off `Homes`; `NormalizeSplits`,
  `RemovalLeaves` and `MergeMerges` turn it into the abstract steps, `StepRefines`
  puts them together.  With it, what is proved of `Engine` and `SessionStores`,
  which only know `Partition`, is proved about what the topology does.
* `SharersAreNeverParted`, `SplitsAreClean`: `Edit` is what all removing
  operations have in common, fewer edges or a member less, then the component
  check; one lemma for each (`RemoveCreatureEdits`, `RemoveChannelEdits`,
  `UnwireEdits`, `DisconnectEdits`) brings it to that form, and `StepsAndEdits`
  says that no other step can part anybody.  Here the search for components does
  matter: the component of a creature is the intersection of the closed sets
  around it, users of a common channel are in the same ones
  (`SharersShareAComponent`), and a component is the only component of itself
  (`PieceIsConnected`).
* `WiringRefined` (`ImplementsWiring`): a merge and an edit move a creature's edges
  along with it (`MergeKeepsEdges`, `EditNoticed`), so that what is left is the link,
  the unlinking, the arrival or the departure that was asked for (`StepWires`).

### EngineProofs

`RehomedKeepsTypes`, `SplitMoves` and `LeaveMoves` say what a split or a departure
moves and what it leaves alone.

* `BooksAlwaysAgree`, `EveryGraphHasAnEnvironment`: the invariant `Books` adds
  `ReadsAreCurrent` to the two properties: the graph id that a removal read
  before it awaited the stop is still right unless the removal was raced.
* `NeverHalfUp` (`WhollyUpOrDown`): the invariant `Lifecycle` says that a creature
  whose starts and stops never overlapped is quiet, or has exactly one start under
  way, at either of its two stages, or exactly one stop, at any of its three, and
  in each of these how its flags, modules and loops relate, given what befell it.
* `NobodyIsLeftUp` (`ShutdownLeavesNobody`): `Sweeping` follows each creature that
  the shutdown found up through being due, stopped and quiet; who quits or
  terminates on the way may be passed over, and is recorded.
* `EngineTypes`: the tables keep their shape (`EngineTypeOK`).

### SessionStoresProofs

`Books` is inductive for every behaviour, hot-plugs by an outdated entry
included.  It says that both tables name for a graph a file of its own id or of
a creature that was attached (`OwnFiles`), that the file of a creature not yet
attached is in neither table (`FreshFiles`), that no two ids, those of dropped
graphs included, have a file in common in either table (`OneGraphEach`), and that
a creature in no graph that was misled writes to its graph's store
(`OwnStores`).  `OneStoreForEachGraph` is part of it; its second half, that no two
graphs share a store, has no condition.  `NothingBecomesUnreadable` compares the
rows of the sources and the destination of each copy (`CopyingKeeps`), for which
the order of the copies does not matter, and excepts one step, not what comes
after it; `OwnHistoryIsReadable` follows with the history of what was recorded.
What `session_hotplug` refutes, `EveryEventIsReadable`, is the same without the
exception.

### ChannelWiringProofs

For any triggers, registries and messages.  `IInv` is inductive (`Invariance`), and
each of its parts was checked by TLC before it was proved.

* `OneDriverHolds`: the argument is about order.  A run loop that could still take
  a message is the manager's task, or the stop of its trigger comes in the event
  loop's FIFO before every start (`AtMostOne`), so that it is cancelled before its
  successor exists.  For that to survive a step it takes the order of the FIFO
  (`Fifo`): starts are in the order of their triggers, the start of a replaced
  trigger is followed by its own stop with no other start between, and the first
  step of a loop comes after the start that made it and before later ones.
  `Phases` bounds the loops that `start_all` makes, and what a turn that swallows
  its cancellation can do, to a part of the agent's life.
* `NothingLeaksHolds`: who is started and not installed has its stop pending
  (`Started`), and a queue on a channel is held by a started trigger
  (`Subscribed`).  At rest nothing is pending.
* `WiredMeansHeardHolds`, `StoppedIsQuietHolds`: unless a call was hasty the wire
  is always in one of four states, `Unwired`, `Installed`, `Spawned`, `Attached`,
  with at most two tasks in the FIFO (`Unhurried`).

### ConversationProofs

`NothingSaidIsLost` (`SpliceLosesNothing`): a splice that finds the zone it
summarised still at the beginning of the conversation keeps what the
conversation speaks of, for any number of messages, turns and cuts.  `Shapes`
says that conversation, snapshot and replay are sequences; for the replay and for
the boundary this needs that a bounded set of positions has a last one
(`MaxOfBounded`), which is proved by counting.

`ResumesKnow` and `ResumesForget` (`ResumeKnowsWhatWasSaid`,
`ResumeForgetsWhatWasCut`) rest on two invariants, of which TLC checked every
conjunct on small instances before they were proved:

* `Saved`: as long as nothing has been flushed past the watermark, the snapshot
  speaks of every message of the conversation whose event the watermark covers,
  or the message was in flight at the stamp.  It is weaker than "the snapshot is
  the conversation" on purpose: cuts, a message that joins late and the resume
  itself part the two, and the snapshot is sanitised: what the conversation shows
  is what it keeps (`SanitizedShows`), and growing never hides what was shown
  (`ShownOfLonger`).  A replay may bring back a part that an interrupt dropped,
  which is in no snapshot; it comes only when the watermark has been left behind,
  and `Saved` says nothing then until the next stamp.
* `Recorded`: rows of the log have a turn that has begun and a branch that begins
  with a user_message, and the place of the agent is one of them.  With it
  `SomethingIsLive`: a log that speaks of a message has one on its live branch.
  Without that a resume could find nothing to replay and fall back to a snapshot
  from before the cut.

`Chosen` is defined by recursion over the turns.  The provers cannot instantiate
the library's induction theorems, so induction is done over sets of numbers:
`CountingUp` follows from `MaxOfNaturals`, `ChoicesExist` shows with it that the
recursive function is there, and `FirstChoice` that later turns leave the first
choice alone.  That `replay_conversation` yields the live messages, all and no
others (`ReplayKnowsTheLive`), is counting again (`Ranking`).

### AgentTurnProofs

For any numbers of events, rounds, failures and interrupts.  `NoEventIsLost` and
`NoEventIsHandledTwice` share an invariant that says of each event where it is
and that it is nowhere else: `OnePlace`, `NowhereBefore` for events not delivered,
`SomewhereAfter` for the others.  The one subtle conjunct is that an event in the
buffer or waiting for the lock is not the owner's: otherwise the end of the turn
would let the same event in again.  `FlushersAreWoken` needs that flushers await
turns of different events (`Awaiting`), because the end of a turn wakes one.
`NothingAfterTheEnd` (`StoppedIsSilent`): a stopped agent's turn is before its
start or after its last round.

### ToolJobsProofs

`OneOutcomeAlways` (`OneOutcome`), for any set of calls and any number of
interrupts and cancellations.  The inductive invariant says that a result is
always one of a job that has ended unpromoted (`Settled`; after that `promote`
refuses), that the event of a job in the background is handed over at the very
step that ends it and at no other (`Heard`), that whatever was waited for left a
result or was promoted (`Kept`), and that a call without a job has left no trace
(`Fresh`).  The assumptions are that the special ids are not calls.

`RoundsAnswerAll` and `InterruptsAnswerOnce` are for any calls too, whichever of
them share an id or are refused.  `Ledger` says which job stands for which call and that only dispatched
calls are answered; `Owed`, that an unanswered call has a job still waited for
or a result not yet said; `Single`, that before the round ends only placeholders
are said of its jobs, and that no finalizer is about while it waits.  The results
are said in the order of the handles: `Ranking` shows, by counting, that this
enumeration reaches every result and none twice.

### LabLinkProofs

For any clients, names, connections, requests and faults; `Name` is finite (the
reaper goes through a set of names) and `NoConn`, `NoName` are not connections
or names.

* `OneSession`, `Members`, `Listeners`: `Books` is the conjunction of the three
  properties with the types of the host's tables (`HostTypes`), and inductive.
* `Types` (`TypeOK`): one part for each component of the state (`WireOK`, `LoopOK`,
  `BufferOK`, `RequestOK`, `BoundOK`).
* `Answers` (`AnsweredBySessionAsked`): a request that is answered was asked over
  the connection the reply came in on.  `Asked` and `Tracked` tie a frame on the
  wire, in an outbox or in a handler to the pending request; `Owned`, `Ends` and
  `Welcomed` say that a connection has one client for good and one session at
  most, so an old session's frames cannot come in over the new one.

### What is only model-checked

Liveness, which is under fairness and speaks of when actions are enabled:
`NothingRots`, `WaitersAreHeard`, `BufferedInTimeIsHeard`, `StruckIsAnswered`,
`PromotedIsHeard` and `ClientsComeBack`.  And what the runs refute.

## 6. Abstractions and what is left out

* Everywhere: message contents, prompts, logging, event payloads, metrics.
* Topology: the delta that is returned; what callers do with it is Engine,
  SessionStores and ChannelWiring.
* Engine: the wiring of outputs, privileges and the root, subscriptions, status.
  Ids of creatures are not used again.  `stop_graph` is a sequence of stops.
  Creatures join the graphs that `add_creature` is given; the channels a merge or
  split re-injects are ChannelWiring's calls.
* SessionStores: only the table of events; a store and its file are one, the
  directory of the session is there, metadata and channel messages are not.
* Conversation: native tool results, one message in flight at a time, edits and
  rewinds while no turn runs, a view of one branch at a time, a regeneration of
  the last turn only (that of an earlier one is an edit with the same text), the
  `/branch` command, which rebuilds the conversation as an edit under a view does, the system prompt, notes and images left out, a
  summary is the set of messages it was made from.
* LabLink: clocks are a choice of the moment at which a name is overdue, and
  heartbeats that come late are counted; forwarding between clients,
  broadcasts, acknowledgements, tokens, blocked names and requests by clients
  are left out.
* ChannelWiring: `TriggerManager.add`/`remove` (timers and the user's triggers),
  injection without a running event loop, the self-filter, sending to several
  channels.  A loop that ends by an exception of a callback is restarted by its
  own `except` and is the same as a turn that ends.
* AgentTurn: starting and stopping the agent from outside (Engine and
  ChannelWiring have that), reruns, non-stackable events, tool execution, and
  plugins, which enter only as awaits.
* ToolJobs: the lock that serialises unsafe tools, text mode, the job store,
  activities and metrics, and a round that ends in an exception, such as one of a
  sub-agent's constructor.  The flag checks around `_cancel_handles` are not
  reached while the loop's task exists, since an interrupt cancels that task.

### Not modelled

* **Laboratory streams, multi-node service**: what they add to the link is the
  forwarding of the engine's calls to another machine and credit counting over
  an ordered connection; both are left for a later stage.
* **Sub-agents**: a job whose coroutine runs an agent of its own; as a job it is
  in ToolJobs, as an agent in AgentTurn.
* **Plugins, skills, packages, prompt, compose, commands**: configuration and
  callbacks without state that outlives a call; where a plugin can suspend a
  turn, the await is in the models.
* **Termination and budgets**: whether a condition holds is a choice in AgentTurn
  and ToolJobs; the counters behind it are single assignments.
* **Output routing, stream parser**: sequential text processing of one stream.
* **LLM providers, MCP client, built-in tools, terminal UI**: protocol and input
  and output of other programs.
* **Studio and HTTP API**: apart from the studio's table of stores and its
  attachments, which are in SessionStores, a translation of requests to calls of
  the engine.
* **Launcher, CLI, bootstrap**: configuration before anything runs.

Most of the repository by lines is in this list, which is why the models cover a
small part of the lines and most of what happens at awaits.

## 7. Plan

1. Topology, Wiring, TopologyProofs; ChannelWiring; AgentTurn; ToolJobs with its
   proofs.  (Done.)
2. Partition and the refinement; Engine; SessionStores; LabLink; Conversation;
   their proofs, and those of AgentTurn.  (Done.)
3. Proofs of `SharersStayTogether`, `SplitIsClean` and `ImplementsWiring`, of
   ChannelWiring, and of the resume.  (Done.)
4. Composition of ToolJobs with AgentTurn, so that completion events of promoted
   jobs become arrivals.
5. Laboratory streams: ordered delivery and credit over LabLink's connections.

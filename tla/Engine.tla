------------------------------- MODULE Engine -------------------------------
(***************************************************************************)
(* The engine's own books about creatures and graphs, and the lifecycle of *)
(* a creature across the awaits of its start and its stop                  *)
(* (terrarium/engine.py, terrarium/creature_host.py, core/agent.py and     *)
(* agent_lifecycle.py, the bookkeeping of channels.py and                  *)
(* channel_lifecycle.py).                                                  *)
(*                                                                         *)
(* The module extends Partition, which Topology implements.  Merges and    *)
(* splits run without an await.  Starting an agent, stopping it and        *)
(* waiting for its input loop are awaited, by any number of callers that   *)
(* do not know of each other: the studio, tools of other creatures, the    *)
(* command line, the shutdown.                                             *)
(*                                                                         *)
(* apply_recipe is the addition of creatures that are not started and then *)
(* their starts, stop_graph a sequence of stops.  Creature ids are not     *)
(* used again.                                                             *)
(***************************************************************************)
EXTENDS Partition, Integers, FiniteSets

LOCAL INSTANCE FiniteSetsExt

CONSTANT MaxStarts      \* bound on the starts of all creatures

ASSUME MaxStartsAssumption == MaxStarts \in Nat

Caller == {"stop", "remove", "shutdown"}
Task == 1 .. MaxStarts
NoTask == 0

VARIABLES
    minted,     \* graph ids ever used
    born,       \* creatures ever added
    table,      \* Terrarium._creatures
    graph_id,   \* Creature.graph_id
    envs,       \* the keys of Terrarium._environments
    bound,      \* Agent.environment, by the graph id it was made for
    running,    \* Creature._running
    agent,      \* Agent._running
    modules,    \* the agent's triggers, outputs, jobs and clients are up
    begun,      \* how many starts of the creature were begun
    starts,     \* starts under way, by how far they are
    loops,      \* input loops that are alive
    input,      \* Creature._input_task
    stops,      \* stops under way, by caller and how far they are
    reaped,     \* the task each of them waits for
    leaving,    \* the graph id a removal read before it awaited the stop
    due,        \* creatures the shutdown has still to look at
    closing,    \* the shutdown is under way
    swept,      \* creatures that were up when it was called, not started since
    overlapped, \* creatures that two callers have started or stopped at once
    mishap,     \* what befell a creature since its modules last came up or down
    raced       \* a creature changed graphs while its removal awaited the stop

books == <<minted, born, table, graph_id, envs, bound>>
life == <<running, agent, modules, begun, starts, loops, input, overlapped, mishap, swept>>
shutting == <<due, closing>>
evars == <<partition, books, life, stops, reaped, leaving, shutting, raced>>

EngineInit ==
    /\ PartitionInit
    /\ minted = {} /\ born = {} /\ table = {} /\ envs = {}
    /\ graph_id = [c \in Creature |-> NoGraph]
    /\ bound = [c \in Creature |-> NoGraph]
    /\ running = [c \in Creature |-> FALSE]
    /\ agent = [c \in Creature |-> FALSE]
    /\ modules = [c \in Creature |-> FALSE]
    /\ begun = [c \in Creature |-> 0]
    /\ starts = [c \in Creature |-> [p \in {"modules", "tail"} |-> 0]]
    /\ loops = [c \in Creature |-> {}]
    /\ input = [c \in Creature |-> NoTask]
    /\ stops = [c \in Creature |-> [w \in Caller |-> "none"]]
    /\ reaped = [c \in Creature |-> [w \in Caller |-> NoTask]]
    /\ leaving = [c \in Creature |-> NoGraph]
    /\ due = {} /\ closing = FALSE
    /\ swept = {}
    /\ overlapped = {}
    /\ mishap = [c \in Creature |-> "none"]
    /\ raced = FALSE

is_running(c) == running[c] /\ agent[c]
Starting(c) == \E p \in {"modules", "tail"} : starts[c][p] > 0
Stopping(c) == \E w \in Caller : stops[c][w] # "none"
Quiet(c) == ~ Starting(c) /\ ~ Stopping(c)

Overlap(c, other) == overlapped' = IF other THEN overlapped \cup {c} ELSE overlapped
Befalls(c, what) == mishap' = [mishap EXCEPT ![c] = what]

Minting ==
    /\ (graphs' \ graphs) \cap minted = {}
    /\ minted' = minted \cup graphs'

-----------------------------------------------------------------------------
(* Merging and splitting.                                                  *)

\* A removal that has read the creature's graph id, and has it wrong now.
Races == raced' = (raced \/ \E c \in Creature :
    /\ stops[c]["remove"] # "none"
    /\ graphOf'[c] # graphOf[c])

\* Mutant of MergedBindings: only those who come from the dropped graph.
MergedBindingsByOldGraph(a, b) ==
    [c \in Creature |-> IF graph_id'[c] = b THEN a ELSE bound[c]]

\* The creatures of the surviving graph, in its environment.
MergedBindings(a, b) ==
    [c \in Creature |-> IF c \in table /\ graphOf'[c] = a THEN a ELSE bound[c]]

\* connect_creatures, ensure_same_graph, with _merge_environment_into.
Merging(a, b) ==
    /\ Merge(a, b)
    /\ envs' = envs \ {b}
    /\ graph_id' = [c \in Creature |-> IF c \in table THEN graphOf'[c] ELSE graph_id[c]]
    /\ bound' = MergedBindings(a, b)
    /\ Races
    /\ UNCHANGED <<minted, born, table, life, stops, reaped, leaving, shutting>>

\* apply_split_bookkeeping, given the creatures that are left in the table.
SplitBookkeeping(g, left, kept) ==
    LET split == graphs' \ graphs # {}
        moved(c) == split /\ c \in left /\ graphOf[c] = g
    IN  /\ envs' = kept \cup (graphs' \ graphs)
        /\ graph_id' = [c \in Creature |-> IF moved(c) THEN graphOf'[c] ELSE graph_id[c]]
        /\ bound' = [c \in Creature |-> IF moved(c) THEN graphOf'[c] ELSE bound[c]]

\* disconnect, remove_channel, unwire.
Splitting(g) ==
    /\ Split(g)
    /\ Minting
    /\ SplitBookkeeping(g, table, envs)
    /\ Races
    /\ UNCHANGED <<born, table, life, stops, reaped, leaving, shutting>>

\* apply_recipe's graph, before its creatures are added.
RecipeGraph(g) ==
    /\ NewGraph(g)
    /\ Minting
    /\ envs' = envs \cup {g}
    /\ UNCHANGED <<born, table, graph_id, bound, life, stops, reaped, leaving, shutting, raced>>

-----------------------------------------------------------------------------
(* Starting.                                                               *)

\* Mutant of Begin: a creature that is up is started again.
BeginAgain(c) ==
    /\ MapThenSumSet(LAMBDA d : begun[d], Creature) < MaxStarts
    /\ begun' = [begun EXCEPT ![c] = @ + 1]
    /\ starts' = [starts EXCEPT ![c]["modules"] = @ + 1]
    /\ swept' = swept \ {c}
    /\ Overlap(c, Starting(c) \/ Stopping(c))
    /\ UNCHANGED <<running, agent, modules, loops, input, mishap>>

\* Creature.start up to its await; a creature that is up is left alone.
Begin(c) ==
    /\ ~ running[c]
    /\ MapThenSumSet(LAMBDA d : begun[d], Creature) < MaxStarts
    /\ begun' = [begun EXCEPT ![c] = @ + 1]
    /\ starts' = [starts EXCEPT ![c]["modules"] = @ + 1]
    /\ swept' = swept \ {c}
    /\ Overlap(c, Starting(c) \/ Stopping(c))
    /\ UNCHANGED <<running, agent, modules, loops, input, mishap>>

\* add_creature: everything is in the books before the start is awaited.
Add(c, g, start) ==
    /\ c \notin born
    /\ Join(c, g)
    /\ Minting
    /\ born' = born \cup {c}
    /\ table' = table \cup {c}
    /\ graph_id' = [graph_id EXCEPT ![c] = g]
    /\ envs' = envs \cup {g}
    /\ bound' = [bound EXCEPT ![c] = g]
    /\ \/ start /\ Begin(c)
       \/ ~ start /\ UNCHANGED life
    /\ UNCHANGED <<stops, reaped, leaving, shutting, raced>>

Start(c) ==
    /\ c \in table
    /\ Begin(c)
    /\ UNCHANGED <<partition, books, stops, reaped, leaving, shutting, raced>>

\* Agent.start has brought the modules up, or what was not up of them, and says
\* it is running.
AgentUp(c) ==
    /\ starts[c]["modules"] > 0
    /\ starts' = [starts EXCEPT ![c]["modules"] = @ - 1, ![c]["tail"] = @ + 1]
    /\ modules' = [modules EXCEPT ![c] = TRUE]
    /\ agent' = [agent EXCEPT ![c] = TRUE]
    /\ Befalls(c, "none")
    /\ UNCHANGED <<running, begun, loops, input, overlapped, swept>>
    /\ UNCHANGED <<partition, books, stops, reaped, leaving, shutting, raced>>

\* The tasks of a creature are numbered by the starts that were begun before
\* them and have ended.
NewTask(c) == begun[c] - starts[c]["modules"] - starts[c]["tail"] + 1

\* The rest of Creature.start.
Started(c) ==
    /\ starts[c]["tail"] > 0
    /\ starts' = [starts EXCEPT ![c]["tail"] = @ - 1]
    /\ running' = [running EXCEPT ![c] = TRUE]
    /\ loops' = [loops EXCEPT ![c] = @ \cup {NewTask(c)}]
    /\ input' = [input EXCEPT ![c] = NewTask(c)]
    /\ UNCHANGED <<agent, modules, begun, overlapped, mishap, swept>>
    /\ UNCHANGED <<partition, books, stops, reaped, leaving, shutting, raced>>

\* Agent.start raises, before, between or after its modules; nothing is undone.
StartFails(c) ==
    /\ \E p \in {"modules", "tail"} :
          /\ starts[c][p] > 0
          /\ starts' = [starts EXCEPT ![c][p] = @ - 1]
    /\ \E up \in {modules[c], TRUE} : modules' = [modules EXCEPT ![c] = up]
    /\ Befalls(c, "failed")
    /\ UNCHANGED <<running, agent, begun, loops, input, overlapped, swept>>
    /\ UNCHANGED <<partition, books, stops, reaped, leaving, shutting, raced>>

\* _drive_input ends, and _on_input_task_done: because the agent has stopped, or
\* for a reason of its own, an exit or an exception.
LoopEnds(c, t) ==
    /\ t \in loops[c]
    /\ loops' = [loops EXCEPT ![c] = @ \ {t}]
    /\ running' = [running EXCEPT ![c] = FALSE]
    /\ IF agent[c] THEN Befalls(c, "quit") ELSE UNCHANGED mishap
    /\ UNCHANGED <<agent, modules, begun, starts, input, overlapped, swept>>
    /\ UNCHANGED <<partition, books, stops, reaped, leaving, shutting, raced>>

\* _check_termination in a turn of the creature: the budget is spent, or a
\* condition to terminate is met.  Only the flag falls.  Modules are not stopped,
\* and the input loop sees the flag when it has an input next.
Terminates(c) ==
    /\ agent[c]
    /\ agent' = [agent EXCEPT ![c] = FALSE]
    /\ Befalls(c, "terminated")
    /\ UNCHANGED <<running, modules, begun, starts, loops, input, overlapped, swept>>
    /\ UNCHANGED <<partition, books, stops, reaped, leaving, shutting, raced>>

-----------------------------------------------------------------------------
(* Stopping.                                                               *)

\* The stop of a creature for one of the callers, which all look at is_running
\* before they call it.
BeginStop(c, w) ==
    /\ stops[c][w] = "none"
    /\ is_running(c)
    /\ running' = [running EXCEPT ![c] = FALSE]
    /\ stops' = [stops EXCEPT ![c][w] = "notify"]
    /\ Overlap(c, Starting(c) \/ Stopping(c))
    /\ UNCHANGED <<agent, modules, begun, starts, loops, input, mishap, swept, reaped>>

Stop(c) ==
    /\ c \in table
    /\ BeginStop(c, "stop")
    /\ UNCHANGED <<partition, books, leaving, shutting, raced>>

\* Agent.stop has told its plugins, and says that it is not running.
AgentDown(c, w) ==
    /\ stops[c][w] = "notify"
    /\ stops' = [stops EXCEPT ![c][w] = "modules"]
    /\ agent' = [agent EXCEPT ![c] = FALSE]
    /\ UNCHANGED <<running, modules, begun, starts, loops, input, overlapped, mishap, swept>>
    /\ UNCHANGED <<partition, books, reaped, leaving, shutting, raced>>

\* Agent.stop is through, and _reap_input_task takes the task that is there.
ModulesDown(c, w) ==
    /\ stops[c][w] = "modules"
    /\ stops' = [stops EXCEPT ![c][w] = "reap"]
    /\ modules' = [modules EXCEPT ![c] = FALSE]
    /\ reaped' = [reaped EXCEPT ![c][w] = input[c]]
    /\ input' = [input EXCEPT ![c] = NoTask]
    /\ Befalls(c, "none")
    /\ UNCHANGED <<running, agent, begun, starts, loops, overlapped, swept>>
    /\ UNCHANGED <<partition, books, leaving, shutting, raced>>

\* The task has ended, or is cancelled after five seconds.
ReapedLoop(c, w) ==
    \/ /\ reaped[c][w] \notin loops[c]
       /\ UNCHANGED <<loops, running>>
    \/ /\ reaped[c][w] \in loops[c]
       /\ loops' = [loops EXCEPT ![c] = @ \ {reaped[c][w]}]
       /\ running' = [running EXCEPT ![c] = FALSE]

\* The stop returns to its caller.
StopReturns(c, w) ==
    /\ stops[c][w] = "reap"
    /\ stops' = [stops EXCEPT ![c][w] = "none"]
    /\ reaped' = [reaped EXCEPT ![c][w] = NoTask]
    /\ ReapedLoop(c, w)
    /\ UNCHANGED <<agent, modules, begun, starts, input, overlapped, mishap, swept>>

Stopped(c) ==
    \E w \in {"stop", "shutdown"} :
        /\ StopReturns(c, w)
        /\ UNCHANGED <<partition, books, leaving, shutting, raced>>

-----------------------------------------------------------------------------
(* Removing.                                                               *)

\* Mutant of Shed: the environment goes with any creature.
ShedAlways(c, old) == {old}

\* The environment remove_creature drops: that of the graph it read at first.
Shed(c, old) == IF old \notin graphs' THEN {old} ELSE {}

\* The rest of remove_creature.  Somebody else may have removed the creature in
\* the meantime, and the call raises.
Unregister(c, old) ==
    \/ /\ Leave(c)
       /\ Minting
       /\ table' = table \ {c}
       /\ SplitBookkeeping(graphOf[c], table \ {c}, envs \ Shed(c, old))
       /\ Races
       /\ UNCHANGED born
    \/ /\ graphOf[c] = NoGraph
       /\ UNCHANGED <<partition, books, raced>>

\* A creature that is not running is not stopped: one that is being started
\* goes on with that, one that was terminated or has quit keeps what is up.
Remove(c) ==
    /\ c \in table
    /\ \/ /\ BeginStop(c, "remove")
          /\ leaving' = [leaving EXCEPT ![c] = graph_id[c]]
          /\ UNCHANGED <<partition, books, raced>>
       \/ /\ ~ is_running(c)
          /\ Unregister(c, graph_id[c])
          /\ Overlap(c, Starting(c) \/ Stopping(c))
          /\ UNCHANGED <<running, agent, modules, begun, starts, loops, input, mishap, swept>>
          /\ UNCHANGED <<stops, reaped, leaving>>
    /\ UNCHANGED shutting

Removed(c) ==
    /\ StopReturns(c, "remove")
    /\ Unregister(c, leaving[c])
    /\ leaving' = [leaving EXCEPT ![c] = NoGraph]
    /\ UNCHANGED shutting

-----------------------------------------------------------------------------
(* Shutdown: one creature after the other.                                 *)

Shutdown ==
    /\ ~ closing
    /\ table # {}
    /\ closing' = TRUE
    /\ due' = table
    /\ swept' = {c \in table : is_running(c)}
    /\ UNCHANGED <<partition, books, running, agent, modules, begun, starts, loops, input>>
    /\ UNCHANGED <<overlapped, mishap, stops, reaped, leaving, raced>>

AwaitsNobody == \A c \in Creature : stops[c]["shutdown"] = "none"

\* Mutant of PassOver: who is being stopped by somebody else ends the shutdown.
PassOverAll(c) == due' = IF Stopping(c) THEN {} ELSE due \ {c}

PassOver(c) == due' = due \ {c}

Visit(c) ==
    /\ c \in due
    /\ AwaitsNobody
    /\ \/ /\ BeginStop(c, "shutdown")
          /\ due' = due \ {c}
       \/ /\ ~ is_running(c)
          /\ PassOver(c)
          /\ UNCHANGED <<life, stops, reaped>>
    /\ UNCHANGED closing
    /\ UNCHANGED <<partition, books, leaving, raced>>

ShutdownReturns ==
    /\ closing
    /\ due = {}
    /\ AwaitsNobody
    /\ closing' = FALSE
    /\ UNCHANGED due
    /\ UNCHANGED <<partition, books, life, stops, reaped, leaving, raced>>

-----------------------------------------------------------------------------
StartStep(c) == AgentUp(c) \/ Started(c)

StopStep(c) ==
    \/ \E w \in Caller : AgentDown(c, w) \/ ModulesDown(c, w)
    \/ Stopped(c)
    \/ Removed(c)

EngineNext ==
    \/ \E a, b \in GraphId : Merging(a, b)
    \/ \E g \in GraphId :
          \/ Splitting(g)
          \/ RecipeGraph(g)
          \/ \E c \in Creature, start \in BOOLEAN : Add(c, g, start)
    \/ \E c \in Creature :
          \/ Start(c) \/ StartStep(c) \/ StartFails(c) \/ Terminates(c)
          \/ \E t \in Task : LoopEnds(c, t)
          \/ Stop(c) \/ StopStep(c)
          \/ Remove(c)
          \/ Visit(c)
    \/ Shutdown
    \/ ShutdownReturns

EngineSpec == EngineInit /\ [][EngineNext]_evars

\* What awaits something goes on: modules start and stop, the shutdown visits.
\* An input loop may wait for its input for ever.
EngineFairSpec ==
    /\ EngineSpec
    /\ \A c \in Creature : WF_evars(StopStep(c)) /\ WF_evars(Visit(c))
    /\ WF_evars(ShutdownReturns)

-----------------------------------------------------------------------------
(* Properties.                                                             *)

\* What a step may not do to the shape of the tables, whatever the bound on starts.
EngineTypeOK ==
    /\ PartitionTypeOK
    /\ graphs \subseteq minted /\ minted \subseteq GraphId
    /\ table \subseteq born /\ born \subseteq Creature
    /\ envs \subseteq GraphId
    /\ {graph_id, bound, leaving} \subseteq [Creature -> GraphId \cup {NoGraph}]
    /\ {running, agent, modules} \subseteq [Creature -> BOOLEAN]
    /\ begun \in [Creature -> Nat]
    /\ starts \in [Creature -> [{"modules", "tail"} -> Nat]]
    /\ loops \in [Creature -> SUBSET Int]
    /\ input \in [Creature -> Int]
    /\ stops \in [Creature -> [Caller -> {"none", "notify", "modules", "reap"}]]
    /\ reaped \in [Creature -> [Caller -> Int]]
    /\ due \cup swept \subseteq Creature
    /\ {closing, raced} \subseteq BOOLEAN
    /\ overlapped \subseteq Creature
    /\ mishap \in [Creature -> {"none", "failed", "quit", "terminated"}]

\* The topology, the creature table, each creature's own graph id and the
\* environment its tools see tell the same story, between any two awaits of any
\* operations that overlap.
BooksAgree ==
    \A c \in Creature :
        /\ c \in table <=> graphOf[c] # NoGraph
        /\ c \in table => graph_id[c] = graphOf[c] /\ bound[c] = graphOf[c]

\* Every graph has an environment: the merge, the connect and the recipe look it
\* up without a check, after the topology has changed already.  One without a
\* graph stays behind only where a removal was overtaken by a merge or a split.
EnvironmentsFollowGraphs ==
    /\ graphs \subseteq envs
    /\ ~ raced => envs = graphs

\* When nobody is starting or stopping a creature, and never did two at once, it
\* is wholly up or wholly down unless something befell it: its start failed, its
\* input loop ended by itself, or a turn terminated it.  Even then no agent runs
\* without its modules, its one input loop is there just as long as it says it
\* is running, and only a termination parts what the creature says from what its
\* agent says.  A creature that is up is in the table.
WhollyUpOrDown ==
    \A c \in Creature : c \notin overlapped /\ Quiet(c) =>
        /\ mishap[c] = "none" => running[c] = agent[c] /\ running[c] = modules[c]
        /\ running[c] \/ agent[c] => modules[c]
        /\ running[c] /\ ~ agent[c] => mishap[c] = "terminated"
        /\ loops[c] = IF running[c] THEN {input[c]} ELSE {}
        /\ is_running(c) => c \in table

\* When the shutdown returns, whoever was up when it was called and was not
\* started again is down, or in the hands of another caller that is stopping it,
\* or has quit or was terminated while the shutdown awaited the others: it looks
\* at is_running only when a creature's turn comes, and passes over those.
ShutdownLeavesNobody ==
    [][closing /\ ~ closing' =>
          \A c \in (table \cap swept) \ overlapped :
              modules[c] => Stopping(c) \/ mishap[c] \in {"quit", "terminated"}]_evars

\* What _on_input_task_done says of a creature whose input loop has ended: its
\* drivers, the shutdown among them, "notice and proceed to stop".
ExitIsFollowedByStop ==
    [][closing /\ ~ closing' =>
          \A c \in table :
              c \notin overlapped /\ mishap[c] = "quit" /\ Quiet(c) => ~ modules[c]]_evars
=============================================================================

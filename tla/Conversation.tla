---------------------------- MODULE Conversation ----------------------------
(***************************************************************************)
(* What an agent knows: the conversation in memory, the event log and the   *)
(* snapshot its session store keeps of it, the edits that cut it, the       *)
(* compaction that summarises its beginning in the background, and the      *)
(* resume that rebuilds it (core/compact.py, core/single_flight.py,         *)
(* core/conversation.py, core/agent_messages.py, session/output.py,         *)
(* session/history.py, session/resume.py, the /clear command).             *)
(*                                                                         *)
(* A message is its number; said gives its kind:                            *)
(*   "user"  input of the user, logged as user_message and a role "user";   *)
(*   "told"  what a channel or a trigger says: role "user", not logged;     *)
(*   "reply" what the model says, role "assistant": its text and the tools  *)
(*           it calls, if any, of which the log keeps the text only;        *)
(*   "result" a tool's result, role "tool" (native tool format).            *)
(* An entry of role "text" is a reply that has lost its calls.              *)
(* A summary stands for the set of messages it was made from.  The system   *)
(* prompt is left out, so conv[i] is messages[i] of the code.  Events that  *)
(* carry no message are notes; the events one handler records without an    *)
(* await in between are one event.  One message at a time is logged but not *)
(* yet in the conversation.  Edits and rewinds come while no turn runs.     *)
(* A view is the set of the branches the user has switched to, as pairs of  *)
(* a turn and a branch.                                                     *)
(***************************************************************************)
EXTENDS Naturals, Sequences, FiniteSets, FiniteSetsExt

CONSTANTS
    None,
    KeepTurns,      \* CompactConfig.keep_recent_turns, 8 by default
    MinCompactable, \* MIN_COMPACTABLE, 8 in the code
    MaxMessages,    \* bound on messages said
    MaxRounds,      \* bound on compactions triggered
    MaxCuts,        \* bound on edits, regenerations, rewinds and clears
    MaxRestarts     \* bound on restarts of the process

ASSUME ConfigAssumption ==
    KeepTurns \in Nat \ {0} /\ MinCompactable \in Nat \ {0, 1}
ASSUME ConversationBounds ==
    /\ MaxMessages \in Nat /\ MaxRounds \in Nat
    /\ MaxCuts \in Nat /\ MaxRestarts \in Nat

VARIABLES
    said,       \* the kinds of the messages so far
    conv,       \* Conversation._messages: entries [role, of]
    log,        \* the agent's rows of the events table; event_id is the index
    kept,       \* how many of them have left the write cache
    snapshot,   \* the saved conversation, or None
    watermark,  \* state["<agent>:snapshot_event_id"], or None
    at,         \* _turn_index, _branch_id, _parent_branch_path
    stage,      \* "idle", or while the processing lock is held "turn", and
                \* "replied" once the model has said something
    flight,     \* the message that is logged but not yet in conv, or 0
    job,        \* the compaction and its lease
    unstamped,  \* the snapshot is saved, the watermark still to be stamped
    missed,     \* messages in flight when a compaction stamped the watermark,
                \* and those that an edit under a view brought back
    used        \* what the bounds count

vars == <<said, conv, log, kept, snapshot, watermark, at, stage, flight, job,
          unstamped, missed, used>>

Fresh == [turn |-> 0, branch |-> 0, path |-> {}]
NoJob == [stage |-> "none", boundary |-> 0, zone |-> {}]

Init ==
    /\ said = <<>> /\ conv = <<>>
    /\ log = <<>> /\ kept = 0
    /\ snapshot = None /\ watermark = None
    /\ at = Fresh
    /\ stage = "idle" /\ flight = 0
    /\ job = NoJob
    /\ unstamped = FALSE
    /\ missed = {}
    /\ used = [rounds |-> 0, cuts |-> 0, restarts |-> 0]

-----------------------------------------------------------------------------
(* Helpers. *)

\* The messages an entry list says something about.
Known(c) == UNION {c[i].of : i \in DOMAIN c}

\* The entries with role "user", and how many of them precede entry i.
Users(c) == {i \in DOMAIN c : c[i].role \in {"user", "told"}}
Position(c, i) == Cardinality({j \in Users(c) : j < i})

\* An event at a place of the branch tree; note events carry no message.
Event(place, m, role) ==
    [msg |-> m, role |-> role,
     turn |-> place.turn, branch |-> place.branch, path |-> place.path]
Note(place) == Event(place, 0, "note")

\* The highest branch of a turn in a log, 0 when the turn is not in it.
TopBranch(l, t) ==
    Max({0} \cup {l[i].branch : i \in {j \in DOMAIN l : l[j].turn = t}})

\* A parent path agrees with the branches chosen for the turns it names;
\* a turn without a chosen branch (0) agrees with any.
Agrees(path, chosen) ==
    \A p \in path :
        p[1] \in DOMAIN chosen => chosen[p[1]] \in {0, p[2]}

\* The branches of turn t that agree with the ones chosen before.  The first
\* event of a branch gives its path.
Candidates(l, t, before) ==
    LET Opens(i) == \A j \in 1 .. i - 1 :
                        <<l[j].turn, l[j].branch>> # <<l[i].turn, l[i].branch>>
    IN  {l[i].branch : i \in {j \in DOMAIN l : /\ l[j].turn = t
                                               /\ Opens(j)
                                               /\ Agrees(l[j].path, before)}}

\* Of these the one the view asks for, else the highest; 0 when there is none.
Choice(l, t, before, view) ==
    LET candidates == Candidates(l, t, before)
        asked == {b \in candidates : <<t, b>> \in view}
    IN  Max({0} \cup IF asked # {} THEN asked ELSE candidates)

\* For each turn in order, the branch chosen.
Chosen(l, view) ==
    LET Last == Max({0} \cup {l[i].turn : i \in DOMAIN l})
        upTo[t \in 0 .. Last] ==
            IF t = 0 THEN <<>>
            ELSE Append(upTo[t - 1], Choice(l, t, upTo[t - 1], view))
    IN  upTo[Last]

\* The events of the branch the user sees; those before turn 1 have none.
Live(l, view) ==
    LET chosen == Chosen(l, view)
    IN  {i \in DOMAIN l :
            \/ l[i].turn = 0
            \/ /\ chosen[l[i].turn] = l[i].branch
               /\ Agrees(l[i].path, SubSeq(chosen, 1, l[i].turn - 1))}

\* The k-th of a set of positions.
Nth(M, k) == CHOOSE i \in M : Cardinality({j \in M : j <= i}) = k

\* replay_conversation: the messages of the live events, in order.
Replayed(l, view) ==
    LET rows == {i \in Live(l, view) : l[i].msg # 0}
    IN  [k \in 1 .. Cardinality(rows) |->
            [role |-> l[Nth(rows, k)].role, of |-> {l[Nth(rows, k)].msg}]]

\* The turn, branch and parent path of the last turn a view shows.
Leaf(l, view) ==
    LET chosen == Chosen(l, view)
        turns == {t \in DOMAIN chosen : chosen[t] # 0}
        last == Max(turns)
    IN  IF turns = {} THEN Fresh
        ELSE [turn |-> last, branch |-> chosen[last],
              path |-> {<<t, chosen[t]>> : t \in turns \ {last}}]

\* sanitize_orphan_tool_pairs: results that no call announces are dropped, and
\* calls that no result follows; their text stays.
Orphans(c) ==
    {i \in DOMAIN c :
        /\ c[i].role = "result"
        /\ \A k \in 1 .. i - 1 :
              c[k].role = "reply" => \E j \in k + 1 .. i : c[j].role # "result"}

Sanitized(c) ==
    LET rows == DOMAIN c \ Orphans(c)
        answered(i) == i + 1 \in DOMAIN c /\ c[i + 1].role = "result"
        entry(i) == IF c[i].role = "reply" /\ ~ answered(i)
                    THEN [role |-> "text", of |-> c[i].of] ELSE c[i]
    IN  [k \in 1 .. Cardinality(rows) |-> entry(Nth(rows, k))]

\* The messages that a request to the model would show it.
Shown(c) == UNION {c[i].of : i \in DOMAIN c \ Orphans(c)}

\* Mutant: a resume takes any snapshot, however old.
ResumedFromAnySnapshot(l, saved, mark) ==
    IF saved # None THEN saved ELSE Replayed(l, {})

\* The conversation a resume builds from what is on disk.
Resumed(l, saved, mark) ==
    LET fallback == IF saved = None THEN <<>> ELSE saved
        trusted == saved # None /\ (mark = None \/ mark >= Len(l))
        replay == Replayed(l, {})
    IN  IF l = <<>> \/ trusted \/ replay = <<>> THEN fallback ELSE replay

\* The turn, branch and parent path a resume restores.
Restored(l) ==
    LET turns == {l[i].turn : i \in DOMAIN l} \ {0}
        last == Max(turns)
    IN  IF turns = {} THEN Fresh
        ELSE [turn |-> last, branch |-> TopBranch(l, last),
              path |-> {<<t, TopBranch(l, t)>> : t \in turns \ {last}}]

\* Where the live zone starts: at the KeepTurns-th last user entry, else at
\* the half of a long conversation; 1 says there is nothing to compact.
Boundary(c) ==
    LET n == Len(c) + 1
        enough == {i \in Users(c) :
                    Cardinality({j \in Users(c) : j >= i}) = KeepTurns}
    IN  IF enough # {} THEN Max(enough)
        ELSE IF n < MinCompactable THEN 1
        ELSE n - (n \div 2)

\* messages[1:boundary] of the code.
Zone(c, boundary) == SubSeq(c, 1, Min({boundary - 1, Len(c)}))

\* Mutant: the live zone is measured anew at the splice, not at the summary's start.
LiveZoneOfNow(c, boundary) == SubSeq(c, Boundary(c), Len(c))

\* _splice_conversation: the entries from the boundary stay.
LiveZone(c, boundary) == SubSeq(c, boundary, Len(c))

-----------------------------------------------------------------------------
(* Turns. *)

\* The place of a new user turn: after the present one, on a fresh branch.
NextTurn ==
    [turn |-> at.turn + 1,
     branch |-> TopBranch(log, at.turn + 1) + 1,
     path |-> IF at.turn > 0 /\ at.branch > 0
              THEN at.path \cup {<<at.turn, at.branch>>} ELSE at.path]

Say(kind) ==
    /\ Len(said) < MaxMessages
    /\ said' = Append(said, kind)
    /\ flight' = Len(said) + 1

\* Input of the user: looking for a free branch flushes the log.
BeginUser ==
    /\ stage = "idle"
    /\ Say("user")
    /\ at' = NextTurn
    /\ kept' = Len(log)
    /\ log' = Append(log, Event(at', flight', "user"))
    /\ stage' = "turn"
    /\ UNCHANGED <<conv, snapshot, watermark, job, unstamped, missed, used>>

\* An event of a channel or a trigger: the log only notes the processing.
BeginTold ==
    /\ stage = "idle"
    /\ Say("told")
    /\ log' = Append(log, Note(at))
    /\ stage' = "turn"
    /\ UNCHANGED <<conv, kept, snapshot, watermark, at, job, unstamped, missed, used>>

\* The model's text is streamed to the log; that it calls tools is not put there.
Reply ==
    /\ stage # "idle" /\ flight = 0
    /\ Say("reply")
    /\ log' = Append(log, Event(at, flight', "text"))
    /\ stage' = "replied"
    /\ UNCHANGED <<conv, kept, snapshot, watermark, at, job, unstamped, missed, used>>

\* The result of a tool the model has called.
ToolResult ==
    /\ stage = "replied" /\ flight = 0
    /\ Say("result")
    /\ log' = Append(log, Event(at, flight', "result"))
    /\ UNCHANGED <<conv, kept, snapshot, watermark, at, stage, job, unstamped,
                   missed, used>>

\* conversation.append
Join ==
    /\ flight # 0
    /\ conv' = Append(conv, [role |-> said[flight], of |-> {flight}])
    /\ flight' = 0
    /\ UNCHANGED <<said, log, kept, snapshot, watermark, at, stage, job, unstamped,
                   missed, used>>

\* on_processing_end, up to the stamp.  An interrupt drops what is in flight.
End ==
    /\ stage # "idle"
    /\ flight # 0 => said[flight] \in {"reply", "result"}
    /\ stage' = "idle"
    /\ flight' = 0
    /\ log' = Append(log, Note(at))
    /\ kept' = Len(log')
    /\ snapshot' = Sanitized(conv)
    /\ unstamped' = TRUE
    /\ UNCHANGED <<said, conv, watermark, at, job, missed, used>>

-----------------------------------------------------------------------------
(* Cuts. *)

Cut ==
    /\ used.cuts < MaxCuts
    /\ used' = [used EXCEPT !.cuts = @ + 1]
    /\ UNCHANGED <<watermark, job, unstamped>>

\* The views a user can switch to: a branch of a turn that has several.
Views ==
    {{<<log[i].turn, log[i].branch>>} :
        i \in {j \in DOMAIN log : log[j].turn # 0 /\ TopBranch(log, log[j].turn) > 1}}

\* _reload_conversation_under_branch_view: what an edit starts from.
Loaded(view) == IF view = {} THEN conv ELSE Replayed(log, view)
Seated(view) == IF view = {} THEN at ELSE Leaf(log, view)

\* The turns whose user_message is live, and the entry taken for turn t: the
\* user entry at the position turn t has among them.
LiveTurns(view) ==
    {log[i].turn : i \in {j \in Live(log, view) : log[j].role = "user"}}
Targets(t, view) ==
    {i \in Users(Loaded(view)) :
        Position(Loaded(view), i) = Cardinality({u \in LiveTurns(view) : u < t})}

\* edit_and_rerun with a turn_index, and a branch_view unless view is empty.
Edit(t, view) ==
    /\ stage = "idle"
    /\ Cut
    /\ t \in LiveTurns(view)
    /\ \E i \in Targets(t, view) : conv' = SubSeq(Loaded(view), 1, i - 1)
    /\ Say("user")
    /\ at' = [turn |-> t, branch |-> TopBranch(log, t) + 1,
              path |-> {p \in Seated(view).path : p[1] < t}]
    /\ kept' = Len(log)
    /\ log' = Append(log, Event(at', flight', "user"))
    /\ stage' = "turn"
    /\ missed' = missed \cup (Shown(conv') \ Shown(conv))
    /\ UNCHANGED snapshot

\* edit_and_rerun of a turn the view does not show: only the view is loaded.
EditMissing(view) ==
    /\ stage = "idle"
    /\ Cut
    /\ conv' = Loaded(view)
    /\ at' = Seated(view)
    /\ kept' = Len(log)
    /\ missed' = missed \cup (Shown(conv') \ Shown(conv))
    /\ UNCHANGED <<said, log, snapshot, stage, flight>>

\* regenerate_last_response: the user_message of the branch before is logged
\* once more, and nothing joins the conversation.
Regenerate ==
    LET before == {i \in DOMAIN log : log[i].turn = at.turn
                                      /\ log[i].role = "user"}
        again == CHOOSE i \in before :
                    \A j \in before : log[j].branch <= log[i].branch
    IN  /\ stage = "idle"
        /\ Cut
        /\ Users(conv) # {}
        /\ conv' = SubSeq(conv, 1, Max(Users(conv)))
        /\ at' = [at EXCEPT !.branch = TopBranch(log, at.turn) + 1]
        /\ kept' = Len(log)
        /\ log' = Append(log, IF before = {} THEN Note(at')
                              ELSE Event(at', log[again].msg, "user"))
        /\ stage' = "turn"
        /\ UNCHANGED <<said, snapshot, flight, missed>>

\* rewind_to: the snapshot is saved, the watermark stays.
Rewind(i) ==
    /\ stage = "idle"
    /\ Cut
    /\ i \in DOMAIN conv
    /\ conv' = SubSeq(conv, 1, i - 1)
    /\ snapshot' = Sanitized(conv')
    /\ UNCHANGED <<said, log, kept, at, stage, flight, missed>>

\* /clear: noted in the log, the snapshot is saved, the watermark stays.
Clear ==
    /\ Cut
    /\ conv' = <<>>
    /\ log' = Append(log, Note(at))
    /\ snapshot' = Sanitized(conv')
    /\ UNCHANGED <<said, kept, at, stage, flight, missed>>

-----------------------------------------------------------------------------
(* Compaction. *)

\* trigger_compact: a job is started unless one holds the lease.
Trigger ==
    /\ used.rounds < MaxRounds
    /\ Boundary(conv) > 1
    /\ job = NoJob
    /\ used' = [used EXCEPT !.rounds = @ + 1]
    /\ job' = [NoJob EXCEPT !.stage = "created"]
    /\ log' = Append(log, Note(at))
    /\ UNCHANGED <<said, conv, kept, snapshot, watermark, at, stage, flight, unstamped,
                   missed>>

\* _run_compact up to its first await; a conversation that has become too
\* short releases the lease.
StartJob ==
    LET boundary == Boundary(conv)
    IN  /\ job.stage = "created"
        /\ job' = IF boundary <= 1 THEN NoJob
                  ELSE [stage |-> "summarizing", boundary |-> boundary,
                        zone |-> Known(Zone(conv, boundary))]
        /\ UNCHANGED <<said, conv, log, kept, snapshot, watermark, at, stage,
                       flight, unstamped, missed, used>>

\* A plugin's veto or a failed summary: the conversation stays as it is.
GiveUp ==
    /\ job.stage = "summarizing"
    /\ job' = NoJob
    /\ log' = Append(log, Note(at))
    /\ UNCHANGED <<said, conv, kept, snapshot, watermark, at, stage, flight,
                   unstamped, missed, used>>

\* Mutant: the watermark is stamped although the compacted conversation is not saved.
SpliceUnsaved ==
    /\ job.stage = "summarizing"
    /\ conv' = <<[role |-> "summary", of |-> job.zone]>>
                 \o LiveZone(conv, job.boundary)
    /\ log' = Append(log, Note(at))
    /\ unstamped' = TRUE
    /\ job' = NoJob
    /\ UNCHANGED <<said, kept, snapshot, watermark, at, stage, flight, missed, used>>

\* The summary has come: splice, note, save, and release the lease; the stamp
\* is to follow.
Splice ==
    /\ job.stage = "summarizing"
    /\ conv' = <<[role |-> "summary", of |-> job.zone]>>
                 \o LiveZone(conv, job.boundary)
    /\ log' = Append(log, Note(at))
    /\ snapshot' = Sanitized(conv')
    /\ unstamped' = TRUE
    /\ job' = NoJob
    /\ UNCHANGED <<said, kept, watermark, at, stage, flight, missed, used>>

-----------------------------------------------------------------------------
(* The store and the process. *)

\* What End and Splice do last, with no await in between: the log is read, which
\* flushes it, and its last event_id becomes the watermark.
Stamp ==
    /\ unstamped
    /\ kept' = Len(log)
    /\ watermark' = Len(log)
    /\ missed' = missed \cup ({flight} \ {0})
    /\ unstamped' = FALSE
    /\ UNCHANGED <<said, conv, log, snapshot, at, stage, flight, job, used>>

\* The write cache goes to disk by count, by time or at a clean close.
Flush ==
    /\ kept < Len(log)
    /\ kept' = Len(log)
    /\ UNCHANGED <<said, conv, log, snapshot, watermark, at, stage, flight, job,
                   unstamped, missed, used>>

\* The process ends and the session is resumed (inject_saved_state).
Restart ==
    /\ used.restarts < MaxRestarts
    /\ used' = [used EXCEPT !.restarts = @ + 1]
    /\ log' = SubSeq(log, 1, kept)
    /\ conv' = Resumed(log', snapshot, watermark)
    /\ at' = Restored(log')
    /\ stage' = "idle"
    /\ flight' = 0
    /\ job' = NoJob
    /\ unstamped' = FALSE
    /\ UNCHANGED <<said, kept, snapshot, watermark, missed>>

\* What the user may do to the conversation while no turn runs.
Revise ==
    \/ \E view \in {{}} \cup Views, t \in 1 .. MaxMessages : Edit(t, view)
    \/ \E view \in Views : EditMissing(view)
    \/ Regenerate
    \/ \E i \in 1 .. MaxMessages : Rewind(i)

\* The steps of the agent, of which none comes between a save and its stamp.
Act ==
    \/ BeginUser \/ BeginTold \/ Reply \/ ToolResult \/ Join \/ End
    \/ stage = "idle" /\ used.cuts < MaxCuts /\ Revise
    \/ Clear
    \/ Trigger \/ StartJob \/ GiveUp \/ Splice

Next == (~ unstamped /\ Act) \/ Stamp \/ Flush \/ Restart

Spec == Init /\ [][Next]_vars

-----------------------------------------------------------------------------
(* Properties. *)

\* The log on disk; the messages of some events of a log; those whose events
\* are all off its live branch.
Durable == SubSeq(log, 1, kept)
OnRecord(l, events) == {l[i].msg : i \in events} \ {0}
Dead(l) == OnRecord(l, DOMAIN l) \ OnRecord(l, Live(l, {}))

\* When the compact zone is still the beginning of the conversation, the
\* splice loses nothing that was said, however much was said meanwhile
\* (compact.py:8-13, "Live zone (recent, untouched)", "no silent data loss").
SpliceLosesNothing ==
    [][Splice /\ Known(Zone(conv, job.boundary)) = job.zone
        => Known(conv') = Known(conv)]_vars

\* A resume, from the snapshot or by replay, knows every message that a request
\* to the model would have shown and whose event is on disk and on the live
\* branch.  A request shows no result of a tool whose call a compaction or a
\* resume took away, nor does a snapshot (conversation.py:230-353).  Left out are
\* the messages of missed, and a session that has a snapshot and no watermark:
\* one cleared or rewound before its first turn ended, or that ended between the
\* first save and the first stamp.
ResumeKnowsWhatWasSaid ==
    [][Restart /\ (watermark = None => snapshot = None)
        => (Shown(conv) \cap OnRecord(Durable, Live(Durable, {}))) \ missed
                \subseteq Known(conv')]_vars

\* What an edit or a regeneration took off the live branch, on disk, after
\* the watermark was stamped, a resume does not bring back.
ResumeForgetsWhatWasCut ==
    [][Restart /\ (watermark = None => snapshot = None)
        => Known(conv') \cap Dead(Durable)
                \subseteq IF watermark = None THEN {}
                          ELSE Dead(SubSeq(log, 1, watermark))]_vars

\* Refuted.  An edit of turn t removes from the conversation turn t's message
\* and what came after it, and nothing from before it (agent_messages.py,
\* edit_and_rerun: "pass a stable turn_index ... so system/tool messages
\* cannot shift the target").
EditHitsItsTurn ==
    [][\A t \in 1 .. MaxMessages : Edit(t, {}) =>
        \E i \in Live(log, {}) :
            /\ log[i].turn = t /\ log[i].role = "user"
            /\ Known(conv') = {m \in Known(conv) : m < log[i].msg}]_vars

\* Refuted.  A conversation that was cleared is empty after a resume (clear.py,
\* "Save conversation snapshot AFTER clearing (so resume gets cleared state)").
ClearedStaysCleared ==
    [][Restart /\ conv = <<>> /\ snapshot = <<>> => conv' = <<>>]_vars
=============================================================================

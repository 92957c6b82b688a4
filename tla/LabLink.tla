------------------------------ MODULE LabLink ------------------------------
(***************************************************************************)
(* The link between a laboratory host and its clients                      *)
(* (laboratory/_internal/host.py, client.py, membership.py, addressing.py, *)
(* backpressure.py): handshake and registration under a name, the session  *)
(* of a connection until it is taken down, the reaper of silent clients,   *)
(* requests of the host and the clients' answers, a subscription, and the  *)
(* reconnection of a client with the frames it has not sent.               *)
(*                                                                         *)
(* Connections fail in two ways: both ends learn of it, or the client does *)
(* and the host is left with a session that only the reaper can end.       *)
(*                                                                         *)
(* The Welcome is the first frame of its connection, and sending it does   *)
(* not suspend; so checking a name, welcoming and registering are one      *)
(* step.  A connection can be used again once nobody refers to it, which   *)
(* leaves the number of reconnections unbounded.  Heartbeats and clocks    *)
(* are not modelled: a node is found overdue whenever it likes, and one    *)
(* that is cut off sooner or later.                                        *)
(***************************************************************************)
EXTENDS Naturals, Sequences, FiniteSets

CONSTANTS
    Client,         \* connectors
    Name,           \* client names, which are the node ids of clients
    Conn,           \* connections
    NoConn,
    Req,            \* requests of the host
    NoName,
    MaxFaults,      \* bound on connections that break
    MaxDelays       \* bound on nodes found overdue that are not cut off

ASSUME NoConnAssumption == NoConn \notin Conn
ASSUME NameAssumption == IsFiniteSet(Name) /\ NoName \notin Name
ASSUME BoundAssumption ==
    MaxFaults \in Nat /\ MaxDelays \in Nat

Hello == [kind |-> "hello"]
Welcome == [kind |-> "welcome"]
NameConflict == [kind |-> "reject"]
Subscribe == [kind |-> "subscribe"]
Request(r) == [kind |-> "request", id |-> r]
Reply(r) == [kind |-> "reply", id |-> r]

VARIABLES
    \* The wire.
    up,         \* frames on their way to the host
    down,       \* frames in the session's outbox or on their way to the client
    clientEnd,  \* the client's end is open
    hostEnd,    \* the host's end is open, closed, or cut off from the client's
    \* A client.
    named,      \* ClientConfig.client_name
    phase,      \* where _main_loop is: down, hello, up, refused or stopped
    conn,       \* ClientConnector._connection
    first,      \* first_attempt
    subscribed, \* _BaseEndpoint._subscribed of the one channel there is
    outbox,     \* ClientConnector._send_buffer
    handling,   \* requests in the hands of an extension
    \* The host.
    session,    \* per connection: its stage and the name it was opened with
    clients,    \* HostEngine._clients
    members,    \* the keys of Membership._nodes
    listeners,  \* AddressDirectory: who listens to the channel
    late,       \* names for which a frame was routed after they were evicted
    lost,       \* names the reaper found overdue and has still to look up
    request,    \* per request: its state, and while it waits its target
                \* (_pending_request_targets) and the connection it was sent on
    faults,
    delays

wire == <<up, down, clientEnd, hostEnd>>
client == <<named, phase, conn, first, subscribed, outbox, handling>>
registry == <<clients, members, listeners, late>>
bounds == <<faults, delays>>
vars == <<wire, client, session, registry, lost, request, bounds>>

\* Stages of a session: hello, live, leaving (disconnected, but about to read).
Over == [stage |-> "over", name |-> NoName]

NotWaiting(state) == [state |-> state, target |-> NoName, on |-> NoConn]
Waiting(w, n) == [state |-> "waiting", target |-> w, on |-> n]

Init ==
    /\ up = [n \in Conn |-> <<>>] /\ down = [n \in Conn |-> <<>>]
    /\ clientEnd = [n \in Conn |-> FALSE] /\ hostEnd = [n \in Conn |-> "closed"]
    /\ named \in [Client -> Name]
    /\ phase = [k \in Client |-> "down"]
    /\ conn = [k \in Client |-> NoConn]
    /\ first = [k \in Client |-> TRUE]
    /\ subscribed = [k \in Client |-> FALSE]
    /\ outbox = [k \in Client |-> <<>>]
    /\ handling = [k \in Client |-> {}]
    /\ session = [n \in Conn |-> Over]
    /\ clients = [w \in Name |-> NoConn]
    /\ members = {} /\ listeners = {} /\ late = {}
    /\ lost = {}
    /\ request = [r \in Req |-> NotWaiting("idle")]
    /\ faults = 0 /\ delays = 0

-----------------------------------------------------------------------------
(* The client.                                                             *)

Free(n) == session[n] = Over /\ ~ clientEnd[n] /\ \A k \in Client : conn[k] # n

Open(n) == clientEnd[n] /\ hostEnd[n] = "open"

\* _connect_once up to its wait for the Welcome.
Connect(k) ==
    /\ phase[k] = "down"
    /\ \E n \in Conn :
          /\ Free(n)
          /\ up' = [up EXCEPT ![n] = <<Hello>>]
          /\ down' = [down EXCEPT ![n] = <<>>]
          /\ clientEnd' = [clientEnd EXCEPT ![n] = TRUE]
          /\ hostEnd' = [hostEnd EXCEPT ![n] = "open"]
          /\ session' = [session EXCEPT ![n] = [stage |-> "hello", name |-> named[k]]]
          /\ conn' = [conn EXCEPT ![k] = n]
    /\ phase' = [phase EXCEPT ![k] = "hello"]
    /\ UNCHANGED <<named, first, subscribed, outbox, handling, registry, lost, request, bounds>>

\* Mutant of TearDown: the connection is closed but not given up.
TearDownKeepingIt(k, next) ==
    /\ clientEnd' = [clientEnd EXCEPT ![conn[k]] = FALSE]
    /\ down' = [down EXCEPT ![conn[k]] = <<>>]
    /\ phase' = [phase EXCEPT ![k] = next]
    /\ UNCHANGED conn

\* _tear_down_connection; the frames in the outbox stay for the next connection.
TearDown(k, next) ==
    /\ clientEnd' = [clientEnd EXCEPT ![conn[k]] = FALSE]
    /\ down' = [down EXCEPT ![conn[k]] = <<>>]
    /\ conn' = [conn EXCEPT ![k] = NoConn]
    /\ phase' = [phase EXCEPT ![k] = next]

\* Mutant of AfterConflict: a name conflict is always final.
AfterConflictStop(k) == "refused"

\* A conflict on the first attempt means that the name is taken; later it is
\* taken for the session before, which the host has not taken down yet.
AfterConflict(k) == IF first[k] THEN "refused" ELSE "down"

Handshaken(k) ==
    /\ phase[k] = "hello"
    /\ LET n == conn[k]
       IN  \/ /\ down[n] # <<>> /\ Head(down[n]) = Welcome
              /\ down' = [down EXCEPT ![n] = Tail(@)]
              /\ phase' = [phase EXCEPT ![k] = "up"]
              /\ first' = [first EXCEPT ![k] = FALSE]
              /\ UNCHANGED <<clientEnd, conn>>
           \/ /\ down[n] # <<>> /\ Head(down[n]) = NameConflict
              /\ TearDown(k, AfterConflict(k))
              /\ UNCHANGED first
    /\ UNCHANGED <<up, hostEnd, named, subscribed, outbox, handling>>
    /\ UNCHANGED <<session, registry, lost, request, bounds>>

\* The connection is found closed, during the handshake or later.
HostIsGone(k) ==
    /\ phase[k] \in {"hello", "up"}
    /\ down[conn[k]] = <<>>
    /\ hostEnd[conn[k]] = "closed" \/ ~ clientEnd[conn[k]]
    /\ TearDown(k, "down")
    /\ UNCHANGED <<up, hostEnd, named, first, subscribed, outbox, handling>>
    /\ UNCHANGED <<session, registry, lost, request, bounds>>

\* _read_loop hands a request to its extension.
ClientRead(k) ==
    /\ phase[k] = "up"
    /\ clientEnd[conn[k]]
    /\ \E r \in Req :
          /\ down[conn[k]] # <<>> /\ Head(down[conn[k]]) = Request(r)
          /\ handling' = [handling EXCEPT ![k] = @ \cup {r}]
    /\ down' = [down EXCEPT ![conn[k]] = Tail(@)]
    /\ UNCHANGED <<up, clientEnd, hostEnd, named, phase, conn, first, subscribed, outbox>>
    /\ UNCHANGED <<session, registry, lost, request, bounds>>

\* _run_handler_and_reply ends, in whatever state the connection is.
Handled(k) ==
    /\ phase[k] \notin {"stopped", "refused"}
    /\ \E r \in handling[k] :
          /\ handling' = [handling EXCEPT ![k] = @ \ {r}]
          /\ outbox' = [outbox EXCEPT ![k] = Append(@, Reply(r))]
    /\ UNCHANGED <<wire, named, phase, conn, first, subscribed>>
    /\ UNCHANGED <<session, registry, lost, request, bounds>>

\* Channel.subscribe or Topic.subscribe, once in the endpoint's life.
ClientSubscribes(k) ==
    /\ phase[k] \notin {"stopped", "refused"}
    /\ ~ subscribed[k]
    /\ subscribed' = [subscribed EXCEPT ![k] = TRUE]
    /\ outbox' = [outbox EXCEPT ![k] = Append(@, Subscribe)]
    /\ UNCHANGED <<wire, named, phase, conn, first, handling>>
    /\ UNCHANGED <<session, registry, lost, request, bounds>>

\* _write_loop: a frame it has taken is lost if the connection is closed.
ClientWrite(k) ==
    /\ phase[k] = "up"
    /\ outbox[k] # <<>>
    /\ outbox' = [outbox EXCEPT ![k] = Tail(@)]
    /\ LET n == conn[k]
       IN  \/ /\ Open(n)
              /\ up' = [up EXCEPT ![n] = Append(@, Head(outbox[k]))]
              /\ UNCHANGED <<down, clientEnd, conn, phase>>
           \/ /\ ~ Open(n)
              /\ TearDown(k, "down")
              /\ UNCHANGED up
    /\ UNCHANGED <<hostEnd, named, first, subscribed, handling>>
    /\ UNCHANGED <<session, registry, lost, request, bounds>>

\* ClientConnector.stop.  Nobody will see what it still holds.
ClientStops(k) ==
    /\ \/ /\ phase[k] \in {"hello", "up"}
          /\ TearDown(k, "stopped")
       \/ /\ phase[k] = "down"
          /\ phase' = [phase EXCEPT ![k] = "stopped"]
          /\ UNCHANGED <<clientEnd, down, conn>>
    /\ outbox' = [outbox EXCEPT ![k] = <<>>]
    /\ handling' = [handling EXCEPT ![k] = {}]
    /\ UNCHANGED <<up, hostEnd, named, first, subscribed>>
    /\ UNCHANGED <<session, registry, lost, request, bounds>>

-----------------------------------------------------------------------------
(* The connection.                                                         *)

Breaks(n) ==
    /\ faults < MaxFaults
    /\ faults' = faults + 1
    /\ Open(n)
    /\ clientEnd' = [clientEnd EXCEPT ![n] = FALSE]
    /\ down' = [down EXCEPT ![n] = <<>>]
    /\ UNCHANGED <<client, session, registry, lost, request, delays>>

\* Both ends learn of it, the host after some of the frames that were on their
\* way; or the host does not.
Break(n) ==
    /\ Breaks(n)
    /\ \E i \in 0 .. Len(up[n]) : up' = [up EXCEPT ![n] = SubSeq(@, 1, i)]
    /\ hostEnd' = hostEnd

CutOff(n) ==
    /\ Breaks(n)
    /\ up' = [up EXCEPT ![n] = <<>>]
    /\ hostEnd' = [hostEnd EXCEPT ![n] = "cut"]

AtEnd(n) == up[n] = <<>> /\ ~ clientEnd[n] /\ hostEnd[n] # "cut"

-----------------------------------------------------------------------------
(* The host.                                                               *)

\* Mutant of Taken: nobody looks whether the name is in use.
TakenNever(w) == FALSE

Taken(w) == clients[w] # NoConn

Send(n, frame) == down' = [down EXCEPT ![n] = Append(@, frame)]

\* _perform_handshake and _handle_new_connection.
Handshake(n) ==
    /\ session[n].stage = "hello"
    /\ up[n] # <<>>
    /\ up' = [up EXCEPT ![n] = Tail(@)]
    /\ LET w == session[n].name
       IN  \/ /\ Taken(w)
              /\ session' = [session EXCEPT ![n] = Over]
              /\ hostEnd' = [hostEnd EXCEPT ![n] = "closed"]
              /\ IF clientEnd[n] THEN Send(n, NameConflict) ELSE UNCHANGED down
              /\ UNCHANGED <<clients, members>>
           \/ /\ ~ Taken(w)
              /\ session' = [session EXCEPT ![n] = [stage |-> "live", name |-> w]]
              /\ clients' = [clients EXCEPT ![w] = n]
              /\ members' = members \cup {w}
              /\ IF clientEnd[n] THEN Send(n, Welcome) ELSE UNCHANGED down
              /\ UNCHANGED hostEnd
    /\ UNCHANGED <<clientEnd, client, listeners, late, lost, request, bounds>>

\* The connection is closed before its Hello arrives or the Welcome is sent.  One
\* that is cut off has its handshake wait for ever, and nobody waits for it.
NoHandshake(n) ==
    /\ session[n].stage = "hello"
    /\ ~ clientEnd[n]
    /\ up' = [up EXCEPT ![n] = <<>>]
    /\ session' = [session EXCEPT ![n] = Over]
    /\ hostEnd' = [hostEnd EXCEPT ![n] = "closed"]
    /\ UNCHANGED <<down, clientEnd, client, registry, lost, request, bounds>>

\* Mutant of Aborted: requests are left to their timeout.
AbortedNone(w) == {}

\* The requests a disconnect fails.
Aborted(w) == {r \in Req : request[r].state = "waiting" /\ request[r].target = w}

\* Mutant of Evicted: the node stays in the address directory.
EvictedNot(w) == listeners

Evicted(w) == listeners \ {w}

\* Mutant of Left: a disconnection leaves the membership to the reaper.
LeftNot(w) == members

\* Membership.leave.
Left(w) == members \ {w}

\* _disconnect_client up to its first await.  The read loop of a session that
\* somebody else disconnects may be about to get one more frame; of the frames in
\* the outbox some may be on their way to the client already.
Disconnect(n, after) ==
    LET w == session[n].name
    IN  /\ session' = [session EXCEPT ![n] = after]
        /\ hostEnd' = [hostEnd EXCEPT ![n] = "closed"]
        /\ clients' = [clients EXCEPT ![w] = NoConn]
        /\ listeners' = Evicted(w)
        /\ \E i \in 0 .. Len(down[n]) : down' = [down EXCEPT ![n] = SubSeq(@, 1, i)]
        /\ request' = [r \in Req |-> IF r \in Aborted(w) THEN NotWaiting("failed") ELSE request[r]]

\* What _route_envelope does with a frame.
Route(n, frame) ==
    LET w == session[n].name
        replied == {r \in Req : frame = Reply(r) /\ request[r].state = "waiting"}
    IN  /\ listeners' = IF frame = Subscribe THEN listeners \cup {w} ELSE listeners
        /\ late' = IF session[n].stage = "leaving" THEN late \cup {w} ELSE late
        /\ request' = [r \in Req |-> IF r \in replied THEN NotWaiting("answered") ELSE request[r]]

\* _client_read_loop: it looks at is_disconnecting after each frame.
HostRead(n) ==
    /\ up[n] # <<>>
    /\ Route(n, Head(up[n]))
    /\ \/ /\ session[n].stage = "live"
          /\ up' = [up EXCEPT ![n] = Tail(@)]
          /\ UNCHANGED session
       \/ /\ session[n].stage = "leaving"
          /\ up' = [up EXCEPT ![n] = <<>>]
          /\ session' = [session EXCEPT ![n] = Over]
    /\ UNCHANGED <<down, clientEnd, hostEnd, client, clients, members, lost, bounds>>

\* The read loop ends, and its session with it unless that is over already.
HostReadEnds(n) ==
    /\ \/ /\ session[n].stage = "live"
          /\ AtEnd(n)
          /\ Disconnect(n, Over)
          /\ members' = Left(session[n].name)
       \/ /\ session[n].stage = "leaving"
          /\ up[n] = <<>>
          /\ session' = [session EXCEPT ![n] = Over]
          /\ UNCHANGED <<hostEnd, clients, members, listeners, request, down>>
    /\ UNCHANGED <<up, clientEnd, client, late, lost, bounds>>

\* The reaper looks a lost name up and disconnects whoever has it by now.
Reap(w) ==
    /\ \/ /\ clients[w] # NoConn
          /\ Disconnect(clients[w], [stage |-> "leaving", name |-> w])
       \/ /\ clients[w] = NoConn
          /\ UNCHANGED <<session, hostEnd, clients, listeners, request, down>>
    /\ UNCHANGED <<up, clientEnd, client, late>>

Delayed(L) == {w \in L : hostEnd[clients[w]] # "cut"}

\* check_lost takes all overdue nodes from the membership, and the reaper begins
\* with one of them.
CheckLost(L) ==
    /\ lost = {}
    /\ L \subseteq members /\ L # {}
    /\ delays + Cardinality(Delayed(L)) <= MaxDelays
    /\ delays' = delays + Cardinality(Delayed(L))
    /\ members' = members \ L
    /\ \E w \in L :
          /\ Reap(w)
          /\ lost' = L \ {w}
    /\ UNCHANGED faults

\* It goes on when the disconnection before has been awaited.
ReapNext(w) ==
    /\ w \in lost
    /\ lost' = lost \ {w}
    /\ Reap(w)
    /\ members' = IF Taken(w) THEN Left(w) ELSE members
    /\ UNCHANGED bounds

\* request: registered as pending and put into the outbox of the session the
\* name has now, unless that is full.
HostRequest(r, w) ==
    /\ request[r].state = "idle"
    /\ clients[w] # NoConn
    /\ LET n == clients[w]
       IN  \/ /\ request' = [request EXCEPT ![r] = Waiting(w, n)]
              /\ IF clientEnd[n] THEN Send(n, Request(r)) ELSE UNCHANGED down
           \/ /\ down[n] # <<>>
              /\ request' = [request EXCEPT ![r] = NotWaiting("failed")]
              /\ UNCHANGED down
    /\ UNCHANGED <<up, clientEnd, hostEnd, client, session, registry, lost, bounds>>

RequestExpires(r) ==
    /\ request[r].state = "waiting"
    /\ request' = [request EXCEPT ![r] = NotWaiting("failed")]
    /\ UNCHANGED <<wire, client, session, registry, lost, bounds>>

-----------------------------------------------------------------------------
ConnStep(n) ==
    \/ Handshake(n)
    \/ NoHandshake(n)
    \/ HostRead(n)
    \/ HostReadEnds(n)

ClientStep(k) ==
    \/ Connect(k)
    \/ Handshaken(k)
    \/ HostIsGone(k)
    \/ ClientRead(k)

Next ==
    \/ \E k \in Client :
          \/ ClientStep(k)
          \/ Handled(k)
          \/ ClientSubscribes(k)
          \/ ClientWrite(k)
          \/ ClientStops(k)
    \/ \E n \in Conn : ConnStep(n) \/ Break(n) \/ CutOff(n)
    \/ \E L \in SUBSET Name : CheckLost(L)
    \/ \E w \in Name :
          \/ ReapNext(w)
          \/ \E r \in Req : HostRequest(r, w)
    \/ \E r \in Req : RequestExpires(r)

Spec == Init /\ [][Next]_vars

\* A node that is cut off sends no heartbeats.
Overdue(w) == w \in members /\ hostEnd[clients[w]] = "cut" /\ CheckLost({w})

\* Both event loops run what is ready, a client tries again, the reaper comes by.
Fairness ==
    /\ \A k \in Client : WF_vars(ClientStep(k))
    /\ \A n \in Conn : WF_vars(ConnStep(n))
    /\ \A w \in Name : WF_vars(Overdue(w)) /\ WF_vars(ReapNext(w))

FairSpec == Spec /\ Fairness

-----------------------------------------------------------------------------
(* Properties.                                                             *)

Frame == {Hello, Welcome, NameConflict, Subscribe}
    \cup {Request(r) : r \in Req} \cup {Reply(r) : r \in Req}

Session == [stage : {"hello", "live", "leaving"}, name : Name] \cup {Over}

RequestState ==
    {Waiting(w, n) : w \in Name, n \in Conn}
        \cup {NotWaiting(x) : x \in {"idle", "answered", "failed"}}

TypeOK ==
    /\ {up, down} \subseteq [Conn -> Seq(Frame)]
    /\ clientEnd \in [Conn -> BOOLEAN]
    /\ hostEnd \in [Conn -> {"open", "cut", "closed"}]
    /\ named \in [Client -> Name]
    /\ phase \in [Client -> {"down", "hello", "up", "refused", "stopped"}]
    /\ conn \in [Client -> Conn \cup {NoConn}]
    /\ \A k \in Client : phase[k] \in {"hello", "up"} <=> conn[k] # NoConn
    /\ {first, subscribed} \subseteq [Client -> BOOLEAN]
    /\ outbox \in [Client -> Seq(Frame)]
    /\ handling \in [Client -> SUBSET Req]
    /\ session \in [Conn -> Session]
    /\ clients \in [Name -> Conn \cup {NoConn}]
    /\ members \cup listeners \cup late \cup lost \subseteq Name
    /\ request \in [Req -> RequestState]
    /\ faults \in 0 .. MaxFaults /\ delays \in 0 .. MaxDelays

\* A name is the address of one live session, and every live session can be
\* reached under its name: a session is never replaced by another one of its
\* name, and never left behind without an entry by the clean-up of one before.
OneSessionPerName ==
    \A n \in Conn, w \in Name :
        clients[w] = n <=> session[n].stage = "live" /\ session[n].name = w

\* The membership is the table of clients, except for names the reaper has
\* struck off and has not looked up yet.
MembersAreClients ==
    \A w \in Name :
        /\ w \in members => clients[w] # NoConn
        /\ clients[w] # NoConn => w \in members \/ w \in lost

\* Nobody is in the address directory without a session, unless one of its
\* frames was routed when its session had been evicted already.
ListenersAreClients ==
    \A w \in listeners : clients[w] # NoConn \/ w \in late

\* A request is answered over the session it was sent on and no other: a client
\* keeps its answers across reconnections, and one that arrives over a later
\* session finds nobody waiting.
AnsweredBySessionAsked ==
    [][\A r \in Req :
          request[r].state = "waiting" /\ request'[r].state = "answered"
              => up[request[r].on] # up'[request[r].on]]_vars

\* What client.py says of a conflict on the first attempt: the name is taken, by
\* another client that is.
RefusedForAnother ==
    [][\A k \in Client :
          phase[k] = "hello" /\ phase'[k] = "refused"
              => \E j \in Client \ {k} : named[j] = named[k]]_vars

Registered(k) == phase[k] = "up" /\ clients[named[k]] = conn[k]

\* A client that lost its connection, whether or not the host knows, is
\* registered again, unless another one got the name.
ClientsComeBack ==
    \A k \in Client :
        (phase[k] = "down" /\ ~ first[k]) ~>
            (phase[k] = "stopped" \/ \E j \in Client : named[j] = named[k] /\ Registered(j))
=============================================================================

--------------------------- MODULE LabLinkProofs ---------------------------
(***************************************************************************)
(* The host's books of its clients, for any sets of clients, names and     *)
(* connections and any number of failures.  The table of clients is what   *)
(* everything hangs on: OneSessionPerName is inductive with the types, and *)
(* the membership and the address directory follow from it.                *)
(***************************************************************************)
EXTENDS LabLink, FiniteSetTheorems, SequenceTheorems, TLAPS

\* The types of what the host keeps.
HostTypes ==
    /\ session \in [Conn -> [stage : {"hello", "live", "leaving"}, name : Name] \cup {Over}]
    /\ clients \in [Name -> Conn \cup {NoConn}]
    /\ members \cup listeners \cup late \cup lost \subseteq Name

Books ==
    /\ HostTypes
    /\ named \in [Client -> Name]
    /\ OneSessionPerName

USE NoConnAssumption, NameAssumption

-----------------------------------------------------------------------------
\* A disconnection takes exactly the session's name out of the table.
LEMMA DisconnectKeepsBooks ==
    ASSUME Books,
           NEW n \in Conn, session[n].stage = "live",
           NEW after, after = Over \/ after = [stage |-> "leaving", name |-> session[n].name],
           Disconnect(n, after)
    PROVE  /\ session' \in [Conn -> [stage : {"hello", "live", "leaving"}, name : Name] \cup {Over}]
           /\ clients' \in [Name -> Conn \cup {NoConn}]
           /\ listeners' \subseteq Name
           /\ OneSessionPerName'
BY DEF Books, HostTypes, OneSessionPerName, Disconnect, Over, Evicted

\* Whatever step is taken, the books are kept.
LEMMA BooksStep == Books /\ [Next]_vars => Books'
<1> SUFFICES ASSUME Books, [Next]_vars PROVE Books'
    OBVIOUS
<1> USE DEF Books
<1>1. ASSUME NEW k \in Client, Connect(k) PROVE Books'
  BY <1>1 DEF Connect, registry, HostTypes, OneSessionPerName, Free, Over
<1>2. ASSUME NEW k \in Client, Handshaken(k) \/ HostIsGone(k) \/ ClientRead(k) \/ Handled(k)
                  \/ ClientSubscribes(k) \/ ClientWrite(k) \/ ClientStops(k)
      PROVE  Books'
  BY <1>2 DEF Handshaken, HostIsGone, ClientRead, Handled, ClientSubscribes, ClientWrite,
              ClientStops, registry, HostTypes, OneSessionPerName
<1>3. ASSUME NEW n \in Conn, Break(n) \/ CutOff(n) PROVE Books'
  BY <1>3 DEF Break, CutOff, Breaks, client, registry, HostTypes, OneSessionPerName
<1>4. ASSUME NEW n \in Conn, Handshake(n) PROVE Books'
  BY <1>4 DEF Handshake, client, HostTypes, OneSessionPerName, Taken, Over
<1>5. ASSUME NEW n \in Conn, NoHandshake(n) PROVE Books'
  BY <1>5 DEF NoHandshake, client, registry, HostTypes, OneSessionPerName, Over
<1>6. ASSUME NEW n \in Conn, HostRead(n) PROVE Books'
  BY <1>6 DEF HostRead, Route, client, HostTypes, OneSessionPerName, Over
<1>7. ASSUME NEW n \in Conn, HostReadEnds(n) PROVE Books'
  <2>1. CASE session[n].stage = "live"
    BY <1>7, <2>1, DisconnectKeepsBooks DEF HostReadEnds, client, HostTypes, Left
  <2>2. CASE session[n].stage = "leaving"
    BY <1>7, <2>2 DEF HostReadEnds, client, HostTypes, OneSessionPerName, Over
  <2> QED BY <1>7, <2>1, <2>2 DEF HostReadEnds
<1>8. ASSUME NEW w \in Name, Reap(w), members' \cup lost' \subseteq Name PROVE Books'
  <2>1. CASE clients[w] # NoConn
    BY <1>8, <2>1, DisconnectKeepsBooks DEF Reap, client, HostTypes, OneSessionPerName
  <2>2. CASE clients[w] = NoConn
    BY <1>8, <2>2 DEF Reap, client, HostTypes, OneSessionPerName
  <2> QED BY <2>1, <2>2
<1>9. ASSUME NEW L \in SUBSET Name, CheckLost(L) PROVE Books'
  BY <1>8, <1>9 DEF CheckLost, HostTypes
<1>10. ASSUME NEW w \in Name, ReapNext(w) PROVE Books'
  BY <1>8, <1>10 DEF ReapNext, HostTypes, Left
<1>11. ASSUME NEW w \in Name, NEW r \in Req, HostRequest(r, w) PROVE Books'
  BY <1>11 DEF HostRequest, client, registry, HostTypes, OneSessionPerName
<1>12. ASSUME NEW r \in Req, RequestExpires(r) PROVE Books'
  BY <1>12 DEF RequestExpires, client, registry, HostTypes, OneSessionPerName
<1>13. CASE UNCHANGED vars
  BY <1>13 DEF vars, client, registry, HostTypes, OneSessionPerName
<1> QED
  BY <1>1, <1>2, <1>3, <1>4, <1>5, <1>6, <1>7, <1>9, <1>10, <1>11, <1>12, <1>13
     DEF Next, ClientStep, ConnStep

LEMMA BooksInit == Init => Books
BY DEF Init, Books, HostTypes, OneSessionPerName, Over

-----------------------------------------------------------------------------
\* The table of clients and the live sessions are the same thing, so a session is
\* never replaced by another of its name nor left behind without an entry
\* (host.py: _handle_new_connection, _disconnect_client).
THEOREM OneSession == Spec => []OneSessionPerName
<1>1. Books => OneSessionPerName
  BY DEF Books
<1> QED BY <1>1, BooksInit, BooksStep, PTL DEF Spec

\* The membership follows the table of clients (Membership and the reaper).
LEMMA MembersStep ==
    Books /\ MembersAreClients /\ [Next]_vars => MembersAreClients'
<1> SUFFICES ASSUME Books, MembersAreClients, [Next]_vars PROVE MembersAreClients'
    OBVIOUS
<1> USE DEF Books, HostTypes
<1>1. CASE UNCHANGED <<clients, members, lost>>
  BY <1>1 DEF MembersAreClients
<1>2. ASSUME NEW n \in Conn, Handshake(n) PROVE MembersAreClients'
  BY <1>2 DEF Handshake, MembersAreClients, Over
<1>3. ASSUME NEW n \in Conn, HostReadEnds(n) PROVE MembersAreClients'
  <2>1. CASE session[n].stage = "live"
    BY <1>3, <2>1 DEF HostReadEnds, Disconnect, MembersAreClients, OneSessionPerName, Left, Over
  <2>2. CASE session[n].stage = "leaving"
    BY <1>3, <2>2 DEF HostReadEnds, MembersAreClients
  <2> QED BY <1>3, <2>1, <2>2 DEF HostReadEnds
<1>4. ASSUME NEW w \in Name, Reap(w)
      PROVE  clients' = [clients EXCEPT ![w] = NoConn]
  BY <1>4 DEF Reap, Disconnect, OneSessionPerName, Over
<1>5. ASSUME NEW L \in SUBSET Name, CheckLost(L) PROVE MembersAreClients'
  BY <1>4, <1>5 DEF CheckLost, MembersAreClients
<1>6. ASSUME NEW w \in Name, ReapNext(w) PROVE MembersAreClients'
  BY <1>4, <1>6 DEF ReapNext, MembersAreClients, Left, Taken
<1> QED
  BY <1>1, <1>2, <1>3, <1>5, <1>6
     DEF Next, ClientStep, ConnStep, Connect, Handshaken, HostIsGone, ClientRead, Handled,
         ClientSubscribes, ClientWrite, ClientStops, Break, CutOff, Breaks, NoHandshake, HostRead,
         HostRequest, RequestExpires, registry, vars

\* Every member has a session and every session is a member's, but for the names
\* the reaper has struck off and not yet looked up (Membership.check_lost).
THEOREM Members == Spec => []MembersAreClients
<1>1. Init => MembersAreClients
  BY DEF Init, MembersAreClients
<1> QED BY <1>1, BooksInit, BooksStep, MembersStep, PTL DEF Spec

\* The address directory follows it too.
LEMMA ListenersStep ==
    Books /\ ListenersAreClients /\ [Next]_vars => ListenersAreClients'
<1> SUFFICES ASSUME Books, ListenersAreClients, [Next]_vars PROVE ListenersAreClients'
    OBVIOUS
<1> USE DEF Books, HostTypes
<1>1. CASE UNCHANGED <<clients, listeners, late>>
  BY <1>1 DEF ListenersAreClients
<1>2. ASSUME NEW n \in Conn, Handshake(n) PROVE ListenersAreClients'
  BY <1>2 DEF Handshake, ListenersAreClients, Over
<1>3. ASSUME NEW n \in Conn, HostRead(n) PROVE ListenersAreClients'
  <2>1. session[n].stage \in {"live", "leaving"}
    BY <1>3 DEF HostRead
  <2>2. CASE session[n].stage = "live"
    BY <1>3, <2>2 DEF HostRead, Route, ListenersAreClients, OneSessionPerName, Over
  <2>3. CASE session[n].stage = "leaving"
    BY <1>3, <2>3 DEF HostRead, Route, ListenersAreClients, Over
  <2> QED BY <2>1, <2>2, <2>3
<1>4. ASSUME NEW n \in Conn, HostReadEnds(n) PROVE ListenersAreClients'
  BY <1>4 DEF HostReadEnds, Disconnect, Evicted, ListenersAreClients, Over
<1>5. ASSUME NEW w \in Name, Reap(w) PROVE ListenersAreClients'
  BY <1>5 DEF Reap, Disconnect, Evicted, ListenersAreClients, OneSessionPerName, Over
<1>6. ASSUME NEW L \in SUBSET Name, CheckLost(L) PROVE ListenersAreClients'
  BY <1>5, <1>6 DEF CheckLost
<1>7. ASSUME NEW w \in Name, ReapNext(w) PROVE ListenersAreClients'
  BY <1>5, <1>7 DEF ReapNext
<1> QED
  BY <1>1, <1>2, <1>3, <1>4, <1>6, <1>7
     DEF Next, ClientStep, ConnStep, Connect, Handshaken, HostIsGone, ClientRead, Handled,
         ClientSubscribes, ClientWrite, ClientStops, Break, CutOff, Breaks, NoHandshake,
         HostRequest, RequestExpires, registry, vars

\* Nobody listens without a session, unless a frame of his was routed after his
\* eviction (AddressDirectory.evict_node).
THEOREM Listeners == Spec => []ListenersAreClients
<1>1. Init => ListenersAreClients
  BY DEF Init, ListenersAreClients
<1> QED BY <1>1, BooksInit, BooksStep, ListenersStep, PTL DEF Spec

-----------------------------------------------------------------------------
LEMMA FrameTypes ==
    /\ {Hello, Welcome, NameConflict, Subscribe} \subseteq Frame
    /\ \A r \in Req : Request(r) \in Frame /\ Reply(r) \in Frame
BY DEF Frame

LEMMA PrefixType ==
    ASSUME NEW s \in Seq(Frame), NEW i \in 0 .. Len(s)
    PROVE  SubSeq(s, 1, i) \in Seq(Frame)
OBVIOUS

\* What the steps do to the frames of one connection or client.
LEMMA Queues ==
    ASSUME NEW I, NEW f \in [I -> Seq(Frame)], NEW n \in I
    PROVE  /\ [f EXCEPT ![n] = <<>>] \in [I -> Seq(Frame)]
           /\ [f EXCEPT ![n] = <<Hello>>] \in [I -> Seq(Frame)]
           /\ \A m \in Frame : [f EXCEPT ![n] = Append(@, m)] \in [I -> Seq(Frame)]
           /\ f[n] # <<>> => /\ Head(f[n]) \in Frame
                             /\ [f EXCEPT ![n] = Tail(@)] \in [I -> Seq(Frame)]
           /\ \A i \in 0 .. Len(f[n]) : [f EXCEPT ![n] = SubSeq(@, 1, i)] \in [I -> Seq(Frame)]
<1>1. f[n] \in Seq(Frame)
  OBVIOUS
<1>2. <<>> \in Seq(Frame) /\ <<Hello>> \in Seq(Frame)
  BY FrameTypes
<1>3. \A m \in Frame : Append(f[n], m) \in Seq(Frame)
  BY <1>1
<1>4. f[n] # <<>> => Head(f[n]) \in Frame /\ Tail(f[n]) \in Seq(Frame)
  BY <1>1
<1>5. \A i \in 0 .. Len(f[n]) : SubSeq(f[n], 1, i) \in Seq(Frame)
  BY <1>1, PrefixType
<1> QED BY <1>2, <1>3, <1>4, <1>5

LEMMA StateTypes ==
    /\ \A w \in Name, n \in Conn : Waiting(w, n) \in RequestState
    /\ \A x \in {"idle", "answered", "failed"} : NotWaiting(x) \in RequestState
    /\ \A x \in {"hello", "live", "leaving"}, w \in Name : [stage |-> x, name |-> w] \in Session
    /\ Over \in Session
    /\ \A s \in Session \ {Over} : s.stage \in {"hello", "live", "leaving"} /\ s.name \in Name
    /\ Over.stage \notin {"hello", "live", "leaving"}
BY DEF RequestState, Session, Over

\* The types, in the parts that a step disturbs.
WireOK ==
    /\ up \in [Conn -> Seq(Frame)] /\ down \in [Conn -> Seq(Frame)]
    /\ clientEnd \in [Conn -> BOOLEAN]
    /\ hostEnd \in [Conn -> {"open", "cut", "closed"}]

LoopOK ==
    /\ named \in [Client -> Name]
    /\ phase \in [Client -> {"down", "hello", "up", "refused", "stopped"}]
    /\ conn \in [Client -> Conn \cup {NoConn}]
    /\ \A k \in Client : phase[k] \in {"hello", "up"} <=> conn[k] # NoConn
    /\ first \in [Client -> BOOLEAN] /\ subscribed \in [Client -> BOOLEAN]

BufferOK == outbox \in [Client -> Seq(Frame)] /\ handling \in [Client -> SUBSET Req]

RequestOK == request \in [Req -> RequestState]

BoundOK == faults \in 0 .. MaxFaults /\ delays \in 0 .. MaxDelays

LEMMA TypeParts ==
    TypeOK <=> WireOK /\ LoopOK /\ BufferOK /\ HostTypes /\ RequestOK /\ BoundOK
BY DEF TypeOK, WireOK, LoopOK, BufferOK, HostTypes, RequestOK, BoundOK, Session

LEMMA TypeInit == Init => TypeOK
<1> SUFFICES ASSUME Init PROVE TypeOK
    OBVIOUS
<1>1. WireOK /\ LoopOK /\ BufferOK
  BY DEF Init, WireOK, LoopOK, BufferOK
<1>2. HostTypes
  BY BooksInit DEF Books
<1>3. RequestOK /\ BoundOK
  BY StateTypes, BoundAssumption DEF Init, RequestOK, BoundOK
<1> QED BY <1>1, <1>2, <1>3, TypeParts

LEMMA WireStep ==
    ASSUME WireOK, LoopOK, BufferOK, Books, [Next]_vars
    PROVE  WireOK'
<1> USE FrameTypes DEF WireOK, LoopOK
<1>0. ASSUME NEW n \in Conn, NEW frame \in Frame, Send(n, frame)
      PROVE  down' \in [Conn -> Seq(Frame)]
  BY <1>0, Queues DEF Send
<1>1. CASE UNCHANGED wire
  BY <1>1 DEF wire
<1>2. ASSUME NEW k \in Client, Connect(k) PROVE WireOK'
  BY <1>2, Queues DEF Connect
<1>3. ASSUME NEW k \in Client, NEW next, TearDown(k, next), conn[k] # NoConn
      PROVE  clientEnd' \in [Conn -> BOOLEAN] /\ down' \in [Conn -> Seq(Frame)]
  BY <1>3, Queues DEF TearDown
<1>4. ASSUME NEW k \in Client, Handshaken(k) PROVE WireOK'
  <2>1. conn[k] \in Conn
    BY <1>4 DEF Handshaken
  <2>2. down' \in [Conn -> Seq(Frame)] /\ clientEnd' \in [Conn -> BOOLEAN]
    <3>1. ASSUME down' = [down EXCEPT ![conn[k]] = Tail(@)], down[conn[k]] # <<>>
          PROVE  down' \in [Conn -> Seq(Frame)]
      BY <2>1, <3>1, Queues
    <3>2. ASSUME NEW next, TearDown(k, next)
          PROVE  down' \in [Conn -> Seq(Frame)] /\ clientEnd' \in [Conn -> BOOLEAN]
      BY <1>3, <2>1, <3>2
    <3> QED BY <1>4, <3>1, <3>2 DEF Handshaken
  <2> QED BY <1>4, <2>2 DEF Handshaken
<1>5. ASSUME NEW k \in Client, HostIsGone(k) PROVE WireOK'
  BY <1>3, <1>5 DEF HostIsGone
<1>6. ASSUME NEW k \in Client, ClientRead(k) PROVE WireOK'
  BY <1>6, Queues DEF ClientRead
<1>7. ASSUME NEW k \in Client, ClientWrite(k) PROVE WireOK'
  <2>1. conn[k] \in Conn
    BY <1>7 DEF ClientWrite
  <2>2. Head(outbox[k]) \in Frame
    BY <1>7 DEF ClientWrite, BufferOK
  <2>3. up' \in [Conn -> Seq(Frame)]
    <3>1. up' = [up EXCEPT ![conn[k]] = Append(@, Head(outbox[k]))] \/ up' = up
      BY <1>7 DEF ClientWrite
    <3>2. Append(up[conn[k]], Head(outbox[k])) \in Seq(Frame)
      BY <2>1, <2>2
    <3> QED BY <2>1, <3>1, <3>2
  <2> QED BY <1>3, <1>7, <2>1, <2>3 DEF ClientWrite
<1>8. ASSUME NEW k \in Client, ClientStops(k) PROVE WireOK'
  BY <1>3, <1>8 DEF ClientStops
<1>9. ASSUME NEW n \in Conn, Break(n) \/ CutOff(n) PROVE WireOK'
  <2>1. Breaks(n)
    BY <1>9 DEF Break, CutOff
  <2>2. down' \in [Conn -> Seq(Frame)] /\ clientEnd' \in [Conn -> BOOLEAN]
    BY <2>1, Queues DEF Breaks
  <2>3. CASE Break(n)
    <3>1. PICK i \in 0 .. Len(up[n]) : up' = [up EXCEPT ![n] = SubSeq(@, 1, i)]
      BY <2>3 DEF Break
    <3>2. up' \in [Conn -> Seq(Frame)]
      BY <3>1, Queues
    <3> QED BY <2>2, <2>3, <3>2 DEF Break
  <2>4. CASE CutOff(n)
    BY <2>2, <2>4, Queues DEF CutOff
  <2> QED BY <1>9, <2>3, <2>4
<1>10. ASSUME NEW n \in Conn, Handshake(n) PROVE WireOK'
  <2>1. up' \in [Conn -> Seq(Frame)] /\ clientEnd' \in [Conn -> BOOLEAN]
    BY <1>10, Queues DEF Handshake
  <2>2. down' \in [Conn -> Seq(Frame)]
    BY <1>10, <1>0 DEF Handshake
  <2>3. hostEnd' \in [Conn -> {"open", "cut", "closed"}]
    BY <1>10 DEF Handshake
  <2> QED BY <2>1, <2>2, <2>3
<1>11. ASSUME NEW n \in Conn, NoHandshake(n) PROVE WireOK'
  BY <1>11, Queues DEF NoHandshake
<1>12. ASSUME NEW n \in Conn, HostRead(n) PROVE WireOK'
  <2>1. up[n] # <<>> /\ (up' = [up EXCEPT ![n] = Tail(@)] \/ up' = [up EXCEPT ![n] = <<>>])
    BY <1>12 DEF HostRead
  <2>2. Tail(up[n]) \in Seq(Frame) /\ <<>> \in Seq(Frame)
    BY <2>1
  <2>3. up' \in [Conn -> Seq(Frame)]
    BY <2>1, <2>2
  <2> QED BY <1>12, <2>3 DEF HostRead
<1>13. ASSUME NEW n \in Conn, NEW after, Disconnect(n, after)
       PROVE  down' \in [Conn -> Seq(Frame)] /\ hostEnd' \in [Conn -> {"open", "cut", "closed"}]
  BY <1>13, PrefixType DEF Disconnect
<1>14. ASSUME NEW n \in Conn, HostReadEnds(n) PROVE WireOK'
  BY <1>13, <1>14 DEF HostReadEnds
<1>15. ASSUME NEW w \in Name, Reap(w) PROVE WireOK'
  BY <1>13, <1>15 DEF Reap, Books, HostTypes
<1>16. ASSUME NEW L \in SUBSET Name, CheckLost(L) PROVE WireOK'
  BY <1>15, <1>16 DEF CheckLost
<1>17. ASSUME NEW w \in Name, ReapNext(w) PROVE WireOK'
  BY <1>15, <1>17 DEF ReapNext
<1>18. ASSUME NEW w \in Name, NEW r \in Req, HostRequest(r, w) PROVE WireOK'
  <2>1. down' \in [Conn -> Seq(Frame)]
    BY <1>18, <1>0 DEF HostRequest, Books, HostTypes
  <2> QED BY <1>18, <2>1 DEF HostRequest
<1> QED
  BY <1>1, <1>2, <1>4, <1>5, <1>6, <1>7, <1>8, <1>9, <1>10, <1>11, <1>12, <1>14, <1>16, <1>17, <1>18
     DEF Next, ClientStep, ConnStep, Handled, ClientSubscribes, RequestExpires, vars

LEMMA LoopStep ==
    ASSUME LoopOK, [Next]_vars
    PROVE  LoopOK'
<1> USE DEF LoopOK
<1>1. CASE UNCHANGED client
  BY <1>1 DEF client
<1>2. ASSUME NEW k \in Client, ClientStep(k) PROVE LoopOK'
  <2>1. CASE Connect(k)
    BY <2>1 DEF Connect
  <2>2. CASE Handshaken(k)
    BY <2>2 DEF Handshaken, TearDown, AfterConflict
  <2>3. CASE HostIsGone(k)
    BY <2>3 DEF HostIsGone, TearDown
  <2>4. CASE ClientRead(k)
    BY <2>4 DEF ClientRead
  <2> QED BY <1>2, <2>1, <2>2, <2>3, <2>4 DEF ClientStep
<1>3. ASSUME NEW k \in Client, Handled(k) \/ ClientSubscribes(k) PROVE LoopOK'
  BY <1>3 DEF Handled, ClientSubscribes
<1>4. ASSUME NEW k \in Client, ClientWrite(k) \/ ClientStops(k) PROVE LoopOK'
  BY <1>4 DEF ClientWrite, ClientStops, TearDown
<1> QED
  BY <1>1, <1>2, <1>3, <1>4
     DEF Next, ConnStep, Break, CutOff, Breaks, Handshake, NoHandshake, HostRead, HostReadEnds, Reap,
         CheckLost, ReapNext, HostRequest, RequestExpires, vars

LEMMA BufferStep ==
    ASSUME BufferOK, [Next]_vars
    PROVE  BufferOK'
<1> USE FrameTypes, Queues DEF BufferOK
<1>1. CASE UNCHANGED <<outbox, handling>>
  BY <1>1
<1>2. ASSUME NEW k \in Client, ClientRead(k) \/ Handled(k) PROVE BufferOK'
  <2>1. CASE ClientRead(k)
    BY <2>1 DEF ClientRead
  <2>2. CASE Handled(k)
    BY <2>2 DEF Handled
  <2> QED BY <1>2, <2>1, <2>2
<1>3. ASSUME NEW k \in Client, ClientSubscribes(k) \/ ClientWrite(k) \/ ClientStops(k) PROVE BufferOK'
  <2>1. CASE ClientSubscribes(k)
    BY <2>1 DEF ClientSubscribes
  <2>2. CASE ClientWrite(k)
    BY <2>2 DEF ClientWrite
  <2>3. CASE ClientStops(k)
    BY <2>3 DEF ClientStops
  <2> QED BY <1>3, <2>1, <2>2, <2>3
<1> QED
  BY <1>1, <1>2, <1>3
     DEF Next, ClientStep, ConnStep, Connect, Handshaken, HostIsGone, Break, CutOff, Breaks, Handshake,
         NoHandshake, HostRead, HostReadEnds, Reap, CheckLost, ReapNext, HostRequest, RequestExpires,
         client, vars

LEMMA RequestStep ==
    ASSUME RequestOK, Books, [Next]_vars
    PROVE  RequestOK'
<1> USE StateTypes DEF RequestOK, Books, HostTypes
<1>1. CASE UNCHANGED request
  BY <1>1
<1>2. ASSUME NEW n \in Conn, HostRead(n) PROVE RequestOK'
  BY <1>2 DEF HostRead, Route
<1>3. ASSUME NEW n, NEW after, Disconnect(n, after) PROVE RequestOK'
  BY <1>3 DEF Disconnect
<1>4. ASSUME NEW w \in Name, NEW r \in Req, HostRequest(r, w) PROVE RequestOK'
  BY <1>4 DEF HostRequest
<1>5. ASSUME NEW r \in Req, RequestExpires(r) PROVE RequestOK'
  BY <1>5 DEF RequestExpires
<1> QED
  BY <1>1, <1>2, <1>3, <1>4, <1>5
     DEF Next, ClientStep, ConnStep, Connect, Handshaken, HostIsGone, ClientRead, Handled,
         ClientSubscribes, ClientWrite, ClientStops, Break, CutOff, Breaks, Handshake, NoHandshake,
         HostReadEnds, Reap, CheckLost, ReapNext, vars

LEMMA BoundStep ==
    ASSUME BoundOK, [Next]_vars
    PROVE  BoundOK'
<1> USE BoundAssumption DEF BoundOK
<1>1. CASE UNCHANGED bounds
  BY <1>1 DEF bounds
<1>2. ASSUME NEW n \in Conn, Break(n) \/ CutOff(n) PROVE BoundOK'
  BY <1>2 DEF Break, CutOff, Breaks
<1>3. ASSUME NEW L \in SUBSET Name, CheckLost(L) PROVE BoundOK'
  <2>1. Cardinality(Delayed(L)) \in Nat
    BY FS_Subset, FS_CardinalityType DEF Delayed
  <2> QED BY <1>3, <2>1 DEF CheckLost
<1> QED
  BY <1>1, <1>2, <1>3
     DEF Next, ClientStep, ConnStep, Connect, Handshaken, HostIsGone, ClientRead, Handled,
         ClientSubscribes, ClientWrite, ClientStops, Handshake, NoHandshake, HostRead, HostReadEnds,
         ReapNext, HostRequest, RequestExpires, vars

LEMMA TypesStep == TypeOK /\ Books /\ [Next]_vars => TypeOK'
<1> SUFFICES ASSUME TypeOK, Books, [Next]_vars PROVE TypeOK'
  OBVIOUS
<1>1. WireOK' /\ LoopOK' /\ BufferOK' /\ RequestOK' /\ BoundOK'
  BY WireStep, LoopStep, BufferStep, RequestStep, BoundStep, TypeParts
<1>2. HostTypes'
  BY BooksStep DEF Books
<1> QED
  BY <1>1, <1>2 DEF TypeOK, WireOK, LoopOK, BufferOK, HostTypes, RequestOK, BoundOK, Session

\* The types of the whole state.
THEOREM Types == Spec => []TypeOK
BY TypesStep, TypeInit, BooksInit, BooksStep, PTL DEF Spec

-----------------------------------------------------------------------------
(***************************************************************************)
(* Answers.  A connection belongs to the client that opened it (Owned),    *)
(* the host holds no connection open without a session (Ends), and a       *)
(* client that is up is up on a session that is live (Welcomed): so a      *)
(* client writes to the session of its own name.  While a request waits,   *)
(* its frame is on the connection it was sent on, its answer with a client *)
(* of the target's name or on that connection (Tracked).                   *)
(***************************************************************************)
Holds(s, frame) == \E i \in 1 .. Len(s) : s[i] = frame

Owned ==
    \A k \in Client, n \in Conn :
        conn[k] = n /\ session[n] # Over => session[n].name = named[k]

Ends == \A n \in Conn : hostEnd[n] # "closed" => session[n].stage \in {"hello", "live"}

Welcomed ==
    /\ \A n \in Conn : Open(n) /\ Holds(down[n], Welcome) => session[n].stage = "live"
    /\ \A k \in Client : phase[k] = "up" /\ Open(conn[k]) => session[conn[k]].stage = "live"

LEMMA HoldsFacts ==
    ASSUME NEW s \in Seq(Frame), NEW frame
    PROVE  /\ ~ Holds(<<>>, frame)
           /\ Holds(<<Hello>>, frame) => frame = Hello
           /\ s # <<>> => Holds(s, Head(s))
           /\ s # <<>> /\ Holds(Tail(s), frame) => Holds(s, frame)
           /\ \A m \in Frame : Holds(Append(s, m), frame) => Holds(s, frame) \/ frame = m
           /\ \A i \in 0 .. Len(s) : Holds(SubSeq(s, 1, i), frame) => Holds(s, frame)
<1>1. ~ Holds(<<>>, frame) /\ (Holds(<<Hello>>, frame) => frame = Hello)
  BY DEF Holds
<1>2. s # <<>> => Holds(s, Head(s))
  BY DEF Holds
<1>3. s # <<>> /\ Holds(Tail(s), frame) => Holds(s, frame)
  BY DEF Holds
<1>4. ASSUME NEW m \in Frame, Holds(Append(s, m), frame)
      PROVE  Holds(s, frame) \/ frame = m
  <2>1. PICK i \in 1 .. Len(Append(s, m)) : Append(s, m)[i] = frame
    BY <1>4 DEF Holds
  <2>2. CASE i = Len(s) + 1
    BY <2>1, <2>2
  <2>3. CASE i \in 1 .. Len(s)
    BY <2>1, <2>3 DEF Holds
  <2> QED BY <2>1, <2>2, <2>3
<1>5. ASSUME NEW i \in 0 .. Len(s), Holds(SubSeq(s, 1, i), frame)
      PROVE  Holds(s, frame)
  BY <1>5 DEF Holds
<1> QED BY <1>1, <1>2, <1>3, <1>4, <1>5

LEMMA FramesDiffer ==
    /\ Welcome \notin {Hello, NameConflict, Subscribe}
    /\ \A r \in Req : {Request(r), Reply(r)} \cap {Hello, Welcome, NameConflict, Subscribe} = {}
    /\ \A r, q \in Req : Request(r) # Reply(q)
    /\ \A r, q \in Req : Request(r) = Request(q) \/ Reply(r) = Reply(q) => r = q
BY DEF Hello, Welcome, NameConflict, Subscribe, Request, Reply

\* One host reads one frame, so every step but Connect leaves a session its name.
LEMMA OwnedStep ==
    ASSUME LoopOK, Books, Owned, [Next]_vars
    PROVE  Owned'
<1> USE DEF LoopOK, Books, HostTypes, Owned
<1>1. CASE UNCHANGED <<conn, session, named>>
  BY <1>1
<1>2. ASSUME NEW k \in Client, Connect(k) PROVE Owned'
  BY <1>2 DEF Connect, Free, Over
<1>3. ASSUME NEW k \in Client, NEW next, TearDown(k, next), UNCHANGED <<session, named>> PROVE Owned'
  BY <1>3 DEF TearDown
<1>4. ASSUME NEW k \in Client, Handshaken(k) \/ HostIsGone(k) \/ ClientWrite(k) \/ ClientStops(k)
      PROVE  Owned'
  BY <1>1, <1>3, <1>4 DEF Handshaken, HostIsGone, ClientWrite, ClientStops
<1>5. ASSUME NEW n \in Conn, Handshake(n) PROVE Owned'
  BY <1>5 DEF Handshake, client, Over
<1>6. ASSUME NEW n \in Conn, NoHandshake(n) \/ HostRead(n) PROVE Owned'
  BY <1>6 DEF NoHandshake, HostRead, client
<1>7. ASSUME NEW n \in Conn, HostReadEnds(n) PROVE Owned'
  BY <1>7 DEF HostReadEnds, Disconnect, client
<1>8. ASSUME NEW w \in Name, Reap(w) PROVE Owned'
  BY <1>8 DEF Reap, Disconnect, OneSessionPerName, client, Over
<1>9. ASSUME NEW L \in SUBSET Name, CheckLost(L) PROVE Owned'
  BY <1>8, <1>9 DEF CheckLost
<1>10. ASSUME NEW w \in Name, ReapNext(w) PROVE Owned'
  BY <1>8, <1>10 DEF ReapNext
<1> QED
  BY <1>1, <1>2, <1>4, <1>5, <1>6, <1>7, <1>9, <1>10
     DEF Next, ClientStep, ConnStep, ClientRead, Handled, ClientSubscribes, Break, CutOff, Breaks,
         HostRequest, RequestExpires, client, vars

LEMMA EndsStep ==
    ASSUME WireOK, Books, Ends, [Next]_vars
    PROVE  Ends'
<1> USE DEF WireOK, Books, HostTypes, Ends
<1>1. CASE UNCHANGED <<hostEnd, session>>
  BY <1>1
<1>2. ASSUME NEW k \in Client, Connect(k) PROVE Ends'
  BY <1>2 DEF Connect
<1>3. ASSUME NEW n \in Conn, CutOff(n) PROVE Ends'
  BY <1>3 DEF CutOff, Breaks, Open
<1>4. ASSUME NEW n \in Conn, Handshake(n) PROVE Ends'
  <2>1. CASE Taken(session[n].name)
    <3>1. session' = [session EXCEPT ![n] = Over] /\ hostEnd' = [hostEnd EXCEPT ![n] = "closed"]
      BY <1>4, <2>1 DEF Handshake
    <3> QED BY <3>1
  <2>2. CASE ~ Taken(session[n].name)
    <3>1. /\ session' = [session EXCEPT ![n] = [stage |-> "live", name |-> session[n].name]]
          /\ hostEnd' = hostEnd
      BY <1>4, <2>2 DEF Handshake
    <3> QED BY <3>1
  <2> QED BY <2>1, <2>2
<1>5. ASSUME NEW n \in Conn, NoHandshake(n) PROVE Ends'
  BY <1>5 DEF NoHandshake
<1>6. ASSUME NEW n \in Conn, HostRead(n) PROVE Ends'
  BY <1>6 DEF HostRead
<1>7. ASSUME NEW n \in Conn, HostReadEnds(n) PROVE Ends'
  BY <1>7 DEF HostReadEnds, Disconnect
<1>8. ASSUME NEW w \in Name, Reap(w) PROVE Ends'
  BY <1>8 DEF Reap, Disconnect
<1>9. ASSUME NEW L \in SUBSET Name, CheckLost(L) PROVE Ends'
  BY <1>8, <1>9 DEF CheckLost
<1>10. ASSUME NEW w \in Name, ReapNext(w) PROVE Ends'
  BY <1>8, <1>10 DEF ReapNext
<1> QED
  BY <1>1, <1>2, <1>3, <1>4, <1>5, <1>6, <1>7, <1>9, <1>10
     DEF Next, ClientStep, ConnStep, Handshaken, HostIsGone, ClientRead, Handled, ClientSubscribes,
         ClientWrite, ClientStops, Break, Breaks, HostRequest, RequestExpires, wire, vars

\* A step keeps Welcomed if whoever is open stays on a live session, no Welcome is
\* sent but with the session, and whoever comes up has been welcomed.
LEMMA WelcomedKept ==
    ASSUME Welcomed,
           \A n \in Conn : Open(n)' =>
               Open(n) /\ (session[n].stage = "live" => session'[n].stage = "live"),
           \A n \in Conn : Open(n)' /\ Holds(down'[n], Welcome) =>
               Holds(down[n], Welcome) \/ session'[n].stage = "live",
           \A k \in Client : phase'[k] = "up" =>
               /\ conn'[k] = conn[k] /\ conn[k] \in Conn
               /\ phase[k] = "up" \/ (Open(conn[k]) => session[conn[k]].stage = "live")
    PROVE  Welcomed'
BY DEF Welcomed, Open

LEMMA WelcomedStep ==
    ASSUME WireOK, LoopOK, BufferOK, Books, Ends, Welcomed, [Next]_vars
    PROVE  Welcomed'
<1> USE FrameTypes DEF WireOK, LoopOK, Books, HostTypes
<1>0. \A k \in Client : phase[k] \in {"hello", "up"} => conn[k] \in Conn
  OBVIOUS
<1>1. CASE UNCHANGED <<down, clientEnd, hostEnd, session, phase, conn>>
  BY <1>1 DEF Welcomed, Open
<1>2. ASSUME NEW k \in Client, Connect(k) PROVE Welcomed'
  <2>1. PICK n \in Conn :
           /\ Free(n)
           /\ down' = [down EXCEPT ![n] = <<>>]
           /\ session' = [session EXCEPT ![n] = [stage |-> "hello", name |-> named[k]]]
           /\ clientEnd' = [clientEnd EXCEPT ![n] = TRUE]
           /\ hostEnd' = [hostEnd EXCEPT ![n] = "open"]
           /\ conn' = [conn EXCEPT ![k] = n] /\ phase' = [phase EXCEPT ![k] = "hello"]
    BY <1>2 DEF Connect
  <2>2. ~ Holds(<<>>, Welcome)
    BY DEF Holds
  <2>3. ASSUME NEW m \in Conn, Open(m)', Holds(down'[m], Welcome) PROVE session'[m].stage = "live"
    BY <2>1, <2>2, <2>3 DEF Welcomed, Open
  <2>4. ASSUME NEW j \in Client, phase'[j] = "up", Open(conn[j])' PROVE session'[conn'[j]].stage = "live"
    BY <2>1, <2>4 DEF Welcomed, Open, Free
  <2> QED BY <2>3, <2>4 DEF Welcomed
<1>3. ASSUME NEW k \in Client, NEW next, next # "up", TearDown(k, next), phase[k] \in {"hello", "up"},
             UNCHANGED <<session, hostEnd>>
      PROVE  Welcomed'
  <2>1. ~ Holds(<<>>, Welcome)
    BY DEF Holds
  <2> QED BY <1>0, <1>3, <2>1, WelcomedKept DEF TearDown, Open
<1>4. ASSUME NEW k \in Client, Handshaken(k) PROVE Welcomed'
  <2> DEFINE n == conn[k]
  <2>1. n \in Conn /\ down[n] \in Seq(Frame)
    BY <1>0, <1>4 DEF Handshaken
  <2>2. CASE /\ down[n] # <<>> /\ Head(down[n]) = Welcome
             /\ down' = [down EXCEPT ![n] = Tail(@)]
             /\ phase' = [phase EXCEPT ![k] = "up"]
             /\ UNCHANGED <<clientEnd, conn>>
    <3>1. Holds(down[n], Welcome) /\ (Holds(Tail(down[n]), Welcome) => Holds(down[n], Welcome))
      BY <2>1, <2>2, HoldsFacts
    <3>2. Open(n) => session[n].stage = "live"
      BY <2>1, <3>1 DEF Welcomed
    <3>3. UNCHANGED <<session, hostEnd>>
      BY <1>4 DEF Handshaken
    <3>4. \A m \in Conn : Holds(down'[m], Welcome) => Holds(down[m], Welcome)
      BY <2>1, <2>2, <3>1
    <3> HIDE DEF n
    <3> QED BY <1>0, <2>1, <2>2, <3>2, <3>3, <3>4, WelcomedKept DEF Open, n
  <2>3. CASE TearDown(k, AfterConflict(k))
    BY <1>3, <1>4, <2>3 DEF Handshaken, AfterConflict
  <2> QED BY <1>4, <2>2, <2>3 DEF Handshaken
<1>5. ASSUME NEW k \in Client, HostIsGone(k) \/ ClientStops(k) \/ ClientWrite(k) PROVE Welcomed'
  <2>1. UNCHANGED <<session, hostEnd>>
    BY <1>5 DEF HostIsGone, ClientStops, ClientWrite
  <2>2. CASE phase[k] = "down"
    BY <1>0, <1>5, <2>1, <2>2, WelcomedKept DEF HostIsGone, ClientStops, ClientWrite, Open
  <2>3. CASE TearDown(k, "down") \/ TearDown(k, "stopped")
    BY <1>3, <1>5, <2>1, <2>2, <2>3 DEF HostIsGone, ClientStops, ClientWrite
  <2> QED BY <1>1, <1>5, <2>1, <2>2, <2>3 DEF HostIsGone, ClientStops, ClientWrite
<1>6. ASSUME NEW k \in Client, ClientRead(k) PROVE Welcomed'
  <2>1. conn[k] \in Conn /\ down[conn[k]] \in Seq(Frame) /\ down[conn[k]] # <<>>
    BY <1>0, <1>6 DEF ClientRead
  <2>2. Holds(Tail(down[conn[k]]), Welcome) => Holds(down[conn[k]], Welcome)
    BY <2>1, HoldsFacts
  <2>3. down' = [down EXCEPT ![conn[k]] = Tail(@)]
    BY <1>6 DEF ClientRead
  <2>4. UNCHANGED <<clientEnd, hostEnd, session, phase, conn>>
    BY <1>6 DEF ClientRead
  <2> QED BY <1>0, <2>1, <2>2, <2>3, <2>4, WelcomedKept DEF Open
<1>7. ASSUME NEW n \in Conn, Break(n) \/ CutOff(n) PROVE Welcomed'
  BY <1>0, <1>7, WelcomedKept DEF Break, CutOff, Breaks, Open, client
<1>8. ASSUME NEW n \in Conn, Handshake(n) PROVE Welcomed'
  <2>1. UNCHANGED <<clientEnd, phase, conn>>
    BY <1>8 DEF Handshake, client
  <2>2. \A m \in Conn \ {n} : down'[m] = down[m] /\ hostEnd'[m] = hostEnd[m] /\ session'[m] = session[m]
    BY <1>8 DEF Handshake, Send
  <2>3. CASE Taken(session[n].name)
    <3>1. hostEnd'[n] = "closed"
      BY <1>8, <2>3 DEF Handshake
    <3> QED BY <1>0, <2>1, <2>2, <3>1, WelcomedKept DEF Open
  <2>4. CASE ~ Taken(session[n].name)
    <3>1. session'[n].stage = "live" /\ hostEnd' = hostEnd
      BY <1>8, <2>4 DEF Handshake
    <3> QED BY <1>0, <2>1, <2>2, <3>1, WelcomedKept DEF Open
  <2> QED BY <2>3, <2>4
<1>9. ASSUME NEW n \in Conn, hostEnd'[n] = "closed", UNCHANGED <<clientEnd, phase, conn>>,
             \A m \in Conn \ {n} : down'[m] = down[m] /\ hostEnd'[m] = hostEnd[m] /\ session'[m] = session[m]
      PROVE  Welcomed'
  BY <1>0, <1>9, WelcomedKept DEF Open
<1>10. ASSUME NEW n \in Conn, NoHandshake(n) PROVE Welcomed'
  BY <1>9, <1>10 DEF NoHandshake, client
<1>11. ASSUME NEW n \in Conn, HostRead(n) PROVE Welcomed'
  <2>1. CASE session[n].stage = "live"
    BY <1>1, <1>11, <2>1 DEF HostRead, client
  <2>2. CASE session[n].stage = "leaving"
    BY <1>9, <1>11, <2>2 DEF HostRead, client, Ends
  <2> QED BY <1>11, <2>1, <2>2 DEF HostRead
<1>12. ASSUME NEW n \in Conn, NEW after, Disconnect(n, after), UNCHANGED <<clientEnd, phase, conn>>
       PROVE  Welcomed'
  BY <1>9, <1>12 DEF Disconnect
<1>13. ASSUME NEW n \in Conn, HostReadEnds(n) PROVE Welcomed'
  <2>1. CASE session[n].stage = "live"
    BY <1>12, <1>13, <2>1 DEF HostReadEnds, client
  <2>2. CASE session[n].stage = "leaving"
    BY <1>9, <1>13, <2>2 DEF HostReadEnds, client, Ends
  <2> QED BY <1>13, <2>1, <2>2 DEF HostReadEnds
<1>14. ASSUME NEW w \in Name, Reap(w) PROVE Welcomed'
  BY <1>1, <1>12, <1>14 DEF Reap, client
<1>15. ASSUME NEW L \in SUBSET Name, CheckLost(L) PROVE Welcomed'
  BY <1>14, <1>15 DEF CheckLost
<1>16. ASSUME NEW w \in Name, ReapNext(w) PROVE Welcomed'
  BY <1>14, <1>16 DEF ReapNext
<1>17. ASSUME NEW w \in Name, NEW r \in Req, HostRequest(r, w) PROVE Welcomed'
  <2> DEFINE n == clients[w]
  <2>1. n \in Conn /\ down[n] \in Seq(Frame)
    BY <1>17 DEF HostRequest
  <2>2. Holds(Append(down[n], Request(r)), Welcome) => Holds(down[n], Welcome)
    BY <2>1, HoldsFacts, FramesDiffer
  <2>3. UNCHANGED <<clientEnd, hostEnd, session, phase, conn>>
    BY <1>17 DEF HostRequest, client
  <2>4. down' = down \/ down' = [down EXCEPT ![n] = Append(@, Request(r))]
    BY <1>17 DEF HostRequest, Send
  <2> HIDE DEF n
  <2> QED BY <1>0, <2>1, <2>2, <2>3, <2>4, WelcomedKept DEF Open
<1> QED
  BY <1>1, <1>2, <1>4, <1>5, <1>6, <1>7, <1>8, <1>10, <1>11, <1>13, <1>15, <1>16, <1>17
     DEF Next, ClientStep, ConnStep, Handled, ClientSubscribes, RequestExpires, wire, client, vars

-----------------------------------------------------------------------------
\* Where a request or its answer may be: nowhere before it is sent, anywhere once
\* nobody waits for it.
MayBeOn(r) ==
    IF request[r].state = "idle" THEN {}
    ELSE IF request[r].state = "waiting" THEN {request[r].on} ELSE Conn

MayHave(r) ==
    IF request[r].state = "idle" THEN {}
    ELSE IF request[r].state = "waiting" THEN {k \in Client : named[k] = request[r].target} ELSE Client

Tracked ==
    \A r \in Req :
        /\ \A n \in Conn :
              Holds(down[n], Request(r)) \/ Holds(up[n], Reply(r)) => n \in MayBeOn(r)
        /\ \A k \in Client :
              r \in handling[k] \/ Holds(outbox[k], Reply(r)) => k \in MayHave(r)

\* A request waits only for the session its target has now.
Asked ==
    \A r \in Req :
        request[r].state = "waiting" => clients[request[r].target] = request[r].on

LEMMA WaitingTypes ==
    ASSUME RequestOK, NEW r \in Req
    PROVE  /\ request[r].state \in {"idle", "waiting", "answered", "failed"}
           /\ request[r].state = "waiting" => request[r].target \in Name /\ request[r].on \in Conn
BY DEF RequestOK, RequestState, Waiting, NotWaiting

LEMMA AskedStep ==
    ASSUME RequestOK, Books, Asked, [Next]_vars
    PROVE  Asked'
<1> USE WaitingTypes DEF Asked, Books, HostTypes
<1>1. CASE UNCHANGED <<request, clients>>
  BY <1>1
<1>2. ASSUME NEW n \in Conn, Handshake(n) PROVE Asked'
  BY <1>2 DEF Handshake, Taken, Over
<1>3. ASSUME NEW n \in Conn, HostRead(n) PROVE Asked'
  BY <1>3 DEF HostRead, Route, NotWaiting, RequestOK
<1>4. ASSUME NEW n \in Conn, NEW after, session[n].stage = "live", Disconnect(n, after) PROVE Asked'
  BY <1>4 DEF Disconnect, Aborted, NotWaiting, OneSessionPerName, Over, RequestOK
<1>5. ASSUME NEW n \in Conn, HostReadEnds(n) PROVE Asked'
  BY <1>1, <1>4, <1>5 DEF HostReadEnds
<1>6. ASSUME NEW w \in Name, Reap(w) PROVE Asked'
  BY <1>1, <1>4, <1>6 DEF Reap, OneSessionPerName
<1>7. ASSUME NEW L \in SUBSET Name, CheckLost(L) PROVE Asked'
  BY <1>6, <1>7 DEF CheckLost
<1>8. ASSUME NEW w \in Name, ReapNext(w) PROVE Asked'
  BY <1>6, <1>8 DEF ReapNext
<1>9. ASSUME NEW w \in Name, NEW r \in Req, HostRequest(r, w) PROVE Asked'
  BY <1>9 DEF HostRequest, Waiting, NotWaiting, registry, RequestOK
<1>10. ASSUME NEW r \in Req, RequestExpires(r) PROVE Asked'
  BY <1>10 DEF RequestExpires, NotWaiting, registry, RequestOK
<1> QED
  BY <1>1, <1>2, <1>3, <1>5, <1>7, <1>8, <1>9, <1>10
     DEF Next, ClientStep, ConnStep, Connect, Handshaken, HostIsGone, ClientRead, Handled,
         ClientSubscribes, ClientWrite, ClientStops, Break, CutOff, Breaks, NoHandshake, registry, vars

\* A request is sent once and settled once.
LEMMA RequestMoves ==
    ASSUME RequestOK, [Next]_vars
    PROVE  /\ \A r \in Req : \/ request'[r] = request[r]
                             \/ request[r].state = "idle"
                             \/ request'[r].state \in {"answered", "failed"}
           /\ named' = named
<1> USE DEF RequestOK
<1>1. CASE UNCHANGED <<request, named>>
  BY <1>1
<1>2. ASSUME NEW n \in Conn, HostRead(n)
      PROVE  \A r \in Req : request'[r] = request[r] \/ request'[r].state = "answered"
  BY <1>2 DEF HostRead, Route, NotWaiting
<1>3. ASSUME NEW n, NEW after, Disconnect(n, after)
      PROVE  \A r \in Req : request'[r] = request[r] \/ request'[r].state = "failed"
  BY <1>3 DEF Disconnect, NotWaiting
<1>4. ASSUME NEW w \in Name, NEW q \in Req, HostRequest(q, w)
      PROVE  \A r \in Req : request'[r] = request[r] \/ request[r].state = "idle"
  BY <1>4 DEF HostRequest
<1>5. ASSUME NEW q \in Req, RequestExpires(q)
      PROVE  \A r \in Req : request'[r] = request[r] \/ request'[r].state = "failed"
  BY <1>5 DEF RequestExpires, NotWaiting
<1>6. named' = named
  BY DEF Next, ClientStep, ConnStep, Connect, Handshaken, HostIsGone, ClientRead, Handled,
         ClientSubscribes, ClientWrite, ClientStops, Break, CutOff, Breaks, Handshake, NoHandshake,
         HostRead, HostReadEnds, Reap, CheckLost, ReapNext, HostRequest, RequestExpires, client, vars
<1>7. CASE request' = request
  BY <1>6, <1>7
<1> QED
  BY <1>2, <1>3, <1>4, <1>5, <1>6, <1>7
     DEF Next, ClientStep, ConnStep, Connect, Handshaken, HostIsGone, ClientRead, Handled,
         ClientSubscribes, ClientWrite, ClientStops, Break, CutOff, Breaks, Handshake, NoHandshake,
         HostReadEnds, Reap, CheckLost, ReapNext, vars

LEMMA MayGrow ==
    ASSUME RequestOK, [Next]_vars, NEW r \in Req
    PROVE  MayBeOn(r) \subseteq MayBeOn(r)' /\ MayHave(r) \subseteq MayHave(r)'
BY RequestMoves, WaitingTypes DEF MayBeOn, MayHave

\* So Tracked is kept if no frame goes where it may not be.
LEMMA TrackedKept ==
    ASSUME Tracked, RequestOK, [Next]_vars,
           \A r \in Req, n \in Conn :
               /\ Holds(down'[n], Request(r)) => Holds(down[n], Request(r)) \/ n \in MayBeOn(r)'
               /\ Holds(up'[n], Reply(r)) => Holds(up[n], Reply(r)) \/ n \in MayBeOn(r)',
           \A r \in Req, k \in Client :
               /\ r \in handling'[k] => r \in handling[k] \/ k \in MayHave(r)'
               /\ Holds(outbox'[k], Reply(r)) => Holds(outbox[k], Reply(r)) \/ k \in MayHave(r)'
    PROVE  Tracked'
BY MayGrow DEF Tracked

LEMMA TrackedStep ==
    ASSUME WireOK, LoopOK, BufferOK, RequestOK, Books, Owned, Welcomed, Asked, Tracked, [Next]_vars
    PROVE  Tracked'
<1> USE FrameTypes DEF WireOK, LoopOK, BufferOK, Books, HostTypes
<1>0. \A r \in Req : ~ Holds(<<>>, Request(r)) /\ ~ Holds(<<>>, Reply(r)) /\ ~ Holds(<<Hello>>, Reply(r))
  <2>1. <<>> \in Seq(Frame)
    OBVIOUS
  <2> QED BY <2>1, HoldsFacts, FramesDiffer
<1>1. CASE UNCHANGED <<up, down, outbox, handling>>
  BY <1>1, TrackedKept
<1>2. ASSUME NEW k \in Client, Connect(k) PROVE Tracked'
  <2>1. UNCHANGED <<outbox, handling>>
    BY <1>2 DEF Connect
  <2>2. PICK n \in Conn : up' = [up EXCEPT ![n] = <<Hello>>] /\ down' = [down EXCEPT ![n] = <<>>]
    BY <1>2 DEF Connect
  <2> QED BY <1>0, <2>1, <2>2, TrackedKept
<1>3. ASSUME NEW k \in Client, NEW next, TearDown(k, next), phase[k] \in {"hello", "up"},
             UNCHANGED up,
             outbox' = outbox \/ (outbox[k] # <<>> /\ outbox' = [outbox EXCEPT ![k] = Tail(@)])
               \/ outbox' = [outbox EXCEPT ![k] = <<>>],
             handling' = handling \/ handling' = [handling EXCEPT ![k] = {}]
      PROVE  Tracked'
  <2>1. \A r \in Req, n \in Conn : Holds(down'[n], Request(r)) => Holds(down[n], Request(r))
    BY <1>0, <1>3 DEF TearDown
  <2>2. outbox[k] # <<>> => \A r \in Req : Holds(Tail(outbox[k]), Reply(r)) => Holds(outbox[k], Reply(r))
    BY HoldsFacts
  <2>3. \A r \in Req, j \in Client : Holds(outbox'[j], Reply(r)) => Holds(outbox[j], Reply(r))
    BY <1>0, <1>3, <2>2
  <2>4. \A r \in Req, j \in Client : r \in handling'[j] => r \in handling[j]
    BY <1>3
  <2> QED BY <1>3, <2>1, <2>3, <2>4, TrackedKept
<1>4. ASSUME NEW k \in Client, NEW n \in Conn, down[n] # <<>>, down' = [down EXCEPT ![n] = Tail(@)],
             UNCHANGED <<up, outbox, handling>>
      PROVE  Tracked'
  <2>1. \A r \in Req : Holds(Tail(down[n]), Request(r)) => Holds(down[n], Request(r))
    BY <1>4, HoldsFacts
  <2> QED BY <1>4, <2>1, TrackedKept
<1>5. ASSUME NEW k \in Client, Handshaken(k) PROVE Tracked'
  <2>1. UNCHANGED <<up, outbox, handling>> /\ phase[k] = "hello"
    BY <1>5 DEF Handshaken
  <2>2. CASE down[conn[k]] # <<>> /\ down' = [down EXCEPT ![conn[k]] = Tail(@)]
    BY <1>4, <2>1, <2>2
  <2>3. CASE TearDown(k, AfterConflict(k))
    BY <1>3, <2>1, <2>3
  <2> QED BY <1>5, <2>2, <2>3 DEF Handshaken
<1>6. ASSUME NEW k \in Client, HostIsGone(k) PROVE Tracked'
  BY <1>3, <1>6 DEF HostIsGone
<1>7. ASSUME NEW k \in Client, ClientRead(k) PROVE Tracked'
  <2> DEFINE n == conn[k]
  <2>1. n \in Conn /\ down[n] \in Seq(Frame) /\ down[n] # <<>> /\ phase[k] = "up"
    BY <1>7 DEF ClientRead
  <2>2. PICK r \in Req : Head(down[n]) = Request(r) /\ handling' = [handling EXCEPT ![k] = @ \cup {r}]
    BY <1>7 DEF ClientRead
  <2>3. Holds(down[n], Request(r))
    BY <2>1, <2>2, HoldsFacts
  <2>4. n \in MayBeOn(r)
    BY <2>1, <2>3 DEF Tracked
  <2>5. k \in MayHave(r)
    <3>1. CASE request[r].state = "waiting"
      <4>1. clients[request[r].target] = n /\ request[r].target \in Name
        BY <2>4, <3>1, WaitingTypes DEF MayBeOn, Asked
      <4>2. session[n] # Over /\ session[n].name = request[r].target
        BY <2>1, <4>1 DEF OneSessionPerName, Over
      <4>3. session[n].name = named[k]
        BY <2>1, <4>2 DEF Owned
      <4> QED BY <3>1, <4>2, <4>3 DEF MayHave
    <3> QED BY <2>4, <3>1 DEF MayBeOn, MayHave
  <2>6. k \in MayHave(r)'
    BY <2>5, MayGrow
  <2>7. \A q \in Req : Holds(Tail(down[n]), Request(q)) => Holds(down[n], Request(q))
    BY <2>1, HoldsFacts
  <2>8. UNCHANGED <<up, outbox>> /\ down' = [down EXCEPT ![n] = Tail(@)]
    BY <1>7 DEF ClientRead
  <2>9. \A q \in Req, m \in Conn : Holds(down'[m], Request(q)) => Holds(down[m], Request(q))
    BY <2>1, <2>7, <2>8
  <2>10. \A q \in Req, j \in Client : q \in handling'[j] => q \in handling[j] \/ j \in MayHave(q)'
    BY <2>2, <2>6
  <2> QED BY <2>8, <2>9, <2>10, TrackedKept
<1>8. ASSUME NEW k \in Client, NEW m \in Frame, outbox' = [outbox EXCEPT ![k] = Append(@, m)],
             \A r \in Req : m = Reply(r) => r \in handling[k],
             \A r \in Req, j \in Client : r \in handling'[j] => r \in handling[j],
             UNCHANGED <<up, down>>
      PROVE  Tracked'
  <2>1. \A r \in Req : Holds(Append(outbox[k], m), Reply(r)) => Holds(outbox[k], Reply(r)) \/ m = Reply(r)
    BY HoldsFacts
  <2>2. \A r \in Req : m = Reply(r) => k \in MayHave(r)'
    BY <1>8, MayGrow DEF Tracked
  <2>3. \A r \in Req, j \in Client : Holds(outbox'[j], Reply(r)) => Holds(outbox[j], Reply(r)) \/ j \in MayHave(r)'
    BY <1>8, <2>1, <2>2
  <2> QED BY <1>8, <2>3, TrackedKept
<1>9. ASSUME NEW k \in Client, Handled(k) PROVE Tracked'
  <2>1. PICK r \in handling[k] : /\ handling' = [handling EXCEPT ![k] = @ \ {r}]
                                 /\ outbox' = [outbox EXCEPT ![k] = Append(@, Reply(r))]
    BY <1>9 DEF Handled
  <2>2. UNCHANGED <<up, down>>
    BY <1>9 DEF Handled, wire
  <2>3. r \in Req /\ Reply(r) \in Frame
    OBVIOUS
  <2>4. \A q \in Req : Reply(r) = Reply(q) => q \in handling[k]
    BY <2>3, FramesDiffer
  <2>5. \A q \in Req, j \in Client : q \in handling'[j] => q \in handling[j]
    BY <2>1
  <2> QED BY <1>8, <2>1, <2>2, <2>3, <2>4, <2>5
<1>10. ASSUME NEW k \in Client, ClientSubscribes(k) PROVE Tracked'
  BY <1>8, <1>10, FramesDiffer DEF ClientSubscribes, wire
<1>11. ASSUME NEW k \in Client, ClientWrite(k) PROVE Tracked'
  <2> DEFINE n == conn[k]
  <2>1. n \in Conn /\ phase[k] = "up" /\ outbox[k] \in Seq(Frame) /\ outbox[k] # <<>>
    BY <1>11 DEF ClientWrite
  <2>2. outbox' = [outbox EXCEPT ![k] = Tail(@)] /\ handling' = handling
    BY <1>11 DEF ClientWrite
  <2>3. CASE Open(n) /\ up' = [up EXCEPT ![n] = Append(@, Head(outbox[k]))] /\ down' = down
    <3>1. Head(outbox[k]) \in Frame /\ up[n] \in Seq(Frame)
      BY <2>1
    <3>2. \A r \in Req : Holds(Append(up[n], Head(outbox[k])), Reply(r))
                            => Holds(up[n], Reply(r)) \/ Head(outbox[k]) = Reply(r)
      BY <3>1, HoldsFacts
    <3>3. ASSUME NEW r \in Req, Head(outbox[k]) = Reply(r) PROVE n \in MayBeOn(r)
      <4>1. k \in MayHave(r)
        BY <2>1, <3>3, HoldsFacts DEF Tracked
      <4>2. CASE request[r].state = "waiting"
        <5>1. named[k] = request[r].target
          BY <4>1, <4>2 DEF MayHave
        <5>2. session[n].stage = "live" /\ session[n] # Over
          BY <2>1, <2>3 DEF Welcomed, Over
        <5>3. session[n].name = named[k]
          BY <2>1, <5>2 DEF Owned
        <5>4. clients[request[r].target] = n
          BY <2>1, <5>1, <5>2, <5>3 DEF OneSessionPerName
        <5> QED BY <4>2, <5>4 DEF Asked, MayBeOn
      <4> QED BY <2>1, <4>1, <4>2 DEF MayHave, MayBeOn
    <3>4. \A r \in Req : Head(outbox[k]) = Reply(r) => n \in MayBeOn(r)'
      BY <3>3, MayGrow
    <3>5. \A r \in Req, m \in Conn : Holds(up'[m], Reply(r)) => Holds(up[m], Reply(r)) \/ m \in MayBeOn(r)'
      <4> HIDE DEF n
      <4> QED BY <2>1, <2>3, <3>2, <3>4
    <3>6. \A r \in Req : Holds(Tail(outbox[k]), Reply(r)) => Holds(outbox[k], Reply(r))
      BY <2>1, HoldsFacts
    <3>7. \A r \in Req, j \in Client : Holds(outbox'[j], Reply(r)) => Holds(outbox[j], Reply(r))
      BY <2>2, <3>6
    <3> QED BY <2>2, <2>3, <3>5, <3>7, TrackedKept
  <2>4. CASE TearDown(k, "down") /\ UNCHANGED up
    BY <1>3, <2>1, <2>2, <2>4
  <2> QED BY <1>11, <2>3, <2>4 DEF ClientWrite
<1>12. ASSUME NEW k \in Client, ClientStops(k) PROVE Tracked'
  <2>1. /\ outbox' = [outbox EXCEPT ![k] = <<>>]
        /\ handling' = [handling EXCEPT ![k] = {}]
        /\ UNCHANGED up
    BY <1>12 DEF ClientStops
  <2>2. CASE TearDown(k, "stopped") /\ phase[k] \in {"hello", "up"}
    BY <1>3, <2>1, <2>2
  <2>3. CASE UNCHANGED down
    BY <1>0, <2>1, <2>3, TrackedKept
  <2> QED BY <1>12, <2>2, <2>3 DEF ClientStops
<1>13. ASSUME NEW n \in Conn, NEW i \in 0 .. Len(up[n]), up' = [up EXCEPT ![n] = SubSeq(@, 1, i)],
              down' = [down EXCEPT ![n] = <<>>], UNCHANGED <<outbox, handling>>
       PROVE  Tracked'
  <2>1. \A r \in Req : Holds(SubSeq(up[n], 1, i), Reply(r)) => Holds(up[n], Reply(r))
    BY HoldsFacts
  <2> QED BY <1>0, <1>13, <2>1, TrackedKept
<1>14. ASSUME NEW n \in Conn, Break(n) PROVE Tracked'
  <2>1. PICK i \in 0 .. Len(up[n]) : up' = [up EXCEPT ![n] = SubSeq(@, 1, i)]
    BY <1>14 DEF Break
  <2> QED BY <1>13, <1>14, <2>1 DEF Break, Breaks, client
<1>15. ASSUME NEW n \in Conn, CutOff(n) PROVE Tracked'
  BY <1>0, <1>15, TrackedKept DEF CutOff, Breaks, client
<1>16. ASSUME NEW n \in Conn, NEW m \in Frame, Send(n, m) \/ UNCHANGED down,
              \A r \in Req : m = Request(r) => n \in MayBeOn(r)',
              \A r \in Req, c \in Conn : Holds(up'[c], Reply(r)) => Holds(up[c], Reply(r)),
              UNCHANGED <<outbox, handling>>
       PROVE  Tracked'
  <2>1. \A r \in Req : Holds(Append(down[n], m), Request(r)) => Holds(down[n], Request(r)) \/ m = Request(r)
    BY HoldsFacts
  <2>2. \A r \in Req, c \in Conn : Holds(down'[c], Request(r)) => Holds(down[c], Request(r)) \/ c \in MayBeOn(r)'
    <3>1. CASE UNCHANGED down
      BY <3>1
    <3>2. CASE Send(n, m)
      <4>1. down' = [down EXCEPT ![n] = Append(@, m)]
        BY <3>2 DEF Send
      <4> QED BY <1>16, <2>1, <4>1
    <3> QED BY <1>16, <3>1, <3>2
  <2> QED BY <1>16, <2>2, TrackedKept
<1>17. ASSUME NEW n \in Conn, up[n] # <<>>, up' = [up EXCEPT ![n] = Tail(@)]
       PROVE  \A r \in Req, c \in Conn : Holds(up'[c], Reply(r)) => Holds(up[c], Reply(r))
  <2>1. \A r \in Req : Holds(Tail(up[n]), Reply(r)) => Holds(up[n], Reply(r))
    BY <1>17, HoldsFacts
  <2> QED BY <1>17, <2>1
<1>18. ASSUME NEW n \in Conn, up' = [up EXCEPT ![n] = <<>>]
       PROVE  \A r \in Req, c \in Conn : Holds(up'[c], Reply(r)) => Holds(up[c], Reply(r))
  BY <1>0, <1>18
<1>19. ASSUME NEW n \in Conn, Handshake(n) PROVE Tracked'
  <2>1. Send(n, NameConflict) \/ Send(n, Welcome) \/ UNCHANGED down
    BY <1>19 DEF Handshake
  <2>2. \A r \in Req, c \in Conn : Holds(up'[c], Reply(r)) => Holds(up[c], Reply(r))
    BY <1>17, <1>19 DEF Handshake
  <2>3. UNCHANGED <<outbox, handling>>
    BY <1>19 DEF Handshake, client
  <2> QED BY <1>16, <2>1, <2>2, <2>3, FramesDiffer
<1>20. ASSUME NEW n \in Conn, NoHandshake(n) PROVE Tracked'
  BY <1>18, <1>20, TrackedKept DEF NoHandshake, client
<1>21. ASSUME NEW n \in Conn, HostRead(n) PROVE Tracked'
  <2>1. \A r \in Req, c \in Conn : Holds(up'[c], Reply(r)) => Holds(up[c], Reply(r))
    BY <1>17, <1>18, <1>21 DEF HostRead
  <2> QED BY <1>21, <2>1, TrackedKept DEF HostRead, client
<1>22. ASSUME NEW n \in Conn, NEW after, Disconnect(n, after), UNCHANGED <<up, outbox, handling>>
       PROVE  Tracked'
  <2>1. PICK i \in 0 .. Len(down[n]) : down' = [down EXCEPT ![n] = SubSeq(@, 1, i)]
    BY <1>22 DEF Disconnect
  <2>2. \A r \in Req : Holds(SubSeq(down[n], 1, i), Request(r)) => Holds(down[n], Request(r))
    BY HoldsFacts
  <2>3. \A r \in Req, c \in Conn : Holds(down'[c], Request(r)) => Holds(down[c], Request(r))
    BY <2>1, <2>2
  <2> QED BY <1>22, <2>3, TrackedKept
<1>23. ASSUME NEW n \in Conn, HostReadEnds(n) PROVE Tracked'
  BY <1>1, <1>22, <1>23 DEF HostReadEnds, client
<1>24. ASSUME NEW w \in Name, Reap(w) PROVE Tracked'
  BY <1>1, <1>22, <1>24 DEF Reap, client
<1>25. ASSUME NEW L \in SUBSET Name, CheckLost(L) PROVE Tracked'
  BY <1>24, <1>25 DEF CheckLost
<1>26. ASSUME NEW w \in Name, ReapNext(w) PROVE Tracked'
  BY <1>24, <1>26 DEF ReapNext
<1>27. ASSUME NEW w \in Name, NEW r \in Req, HostRequest(r, w) PROVE Tracked'
  <2> DEFINE n == clients[w]
  <2>1. n \in Conn /\ UNCHANGED <<up, outbox, handling>>
    BY <1>27 DEF HostRequest, client
  <2>2. CASE request' = [request EXCEPT ![r] = Waiting(w, n)] /\ (Send(n, Request(r)) \/ UNCHANGED down)
    <3>1. request'[r] = Waiting(w, n)
      BY <2>2 DEF RequestOK
    <3>2. n \in MayBeOn(r)'
      BY <3>1 DEF MayBeOn, Waiting
    <3>3. \A q \in Req : Request(r) = Request(q) => n \in MayBeOn(q)'
      BY <3>2, FramesDiffer
    <3> HIDE DEF n
    <3> QED BY <1>16, <2>1, <2>2, <3>3
  <2>3. CASE UNCHANGED down
    BY <1>1, <2>1, <2>3
  <2> QED BY <1>27, <2>2, <2>3 DEF HostRequest
<1> QED
  BY <1>1, <1>2, <1>5, <1>6, <1>7, <1>9, <1>10, <1>11, <1>12, <1>14, <1>15, <1>19, <1>20, <1>21, <1>23,
     <1>25, <1>26, <1>27
     DEF Next, ClientStep, ConnStep, RequestExpires, wire, client, vars

\* A request is answered over the connection it was sent on and no other
\* (_pending_request_targets and the abort in _disconnect_client).
THEOREM Answers == Spec => AnsweredBySessionAsked
<1> DEFINE Inv == TypeOK /\ Books /\ Owned /\ Ends /\ Welcomed /\ Asked /\ Tracked
           Asks == \A r \in Req :
                      request[r].state = "waiting" /\ request'[r].state = "answered"
                          => up[request[r].on] # up'[request[r].on]
<1>1. Init => Inv
  <2> SUFFICES ASSUME Init PROVE Inv
    OBVIOUS
  <2>1. TypeOK /\ Books
    BY TypeInit, BooksInit
  <2>2. \A frame : ~ Holds(<<>>, frame)
    BY DEF Holds
  <2>3. Owned /\ Ends /\ Welcomed
    BY <2>2 DEF Init, Owned, Ends, Welcomed, Open
  <2>4. Asked /\ Tracked
    BY <2>2 DEF Init, Asked, Tracked, NotWaiting
  <2> QED BY <2>1, <2>3, <2>4
<1>2. Inv /\ [Next]_vars => Inv'
  BY TypesStep, BooksStep, OwnedStep, EndsStep, WelcomedStep, AskedStep, TrackedStep, TypeParts
<1>3. Inv /\ [Next]_vars => [Asks]_vars
  <2> SUFFICES ASSUME Inv, [Next]_vars, NEW r \in Req,
                      request[r].state = "waiting", request'[r].state = "answered"
               PROVE  up[request[r].on] # up'[request[r].on]
    OBVIOUS
  <2>1. PICK n \in Conn : HostRead(n)
    <3>1. ASSUME NEW n, NEW after, Disconnect(n, after) PROVE FALSE
      BY <3>1 DEF Disconnect, NotWaiting
    <3>2. ASSUME NEW q \in Req, RequestExpires(q) \/ \E w \in Name : HostRequest(q, w) PROVE FALSE
      BY <3>2, TypeParts DEF RequestExpires, HostRequest, NotWaiting, RequestOK
    <3>3. request' # request
      OBVIOUS
    <3> QED
      BY <3>1, <3>2, <3>3
         DEF Next, ClientStep, ConnStep, Connect, Handshaken, HostIsGone, ClientRead, Handled,
             ClientSubscribes, ClientWrite, ClientStops, Break, CutOff, Breaks, Handshake, NoHandshake,
             HostReadEnds, Reap, CheckLost, ReapNext, vars
  <2>2. Head(up[n]) = Reply(r) /\ up[n] # <<>>
    BY <2>1 DEF HostRead, Route
  <2>3. up[n] \in Seq(Frame)
    BY TypeParts DEF WireOK
  <2>4. n = request[r].on
    BY <2>2, <2>3, HoldsFacts DEF Tracked, MayBeOn
  <2>5. up'[n] = Tail(up[n]) \/ up'[n] = <<>>
    BY <2>1, TypeParts DEF HostRead, WireOK
  <2>6. Len(Tail(up[n])) = Len(up[n]) - 1 /\ Len(up[n]) \in Nat
    BY <2>2, <2>3
  <2>7. Len(Tail(up[n])) # Len(up[n])
    BY <2>6
  <2>8. up'[n] # up[n]
    BY <2>2, <2>5, <2>7, Zenon
  <2> QED BY <2>4, <2>8
<1> QED BY <1>1, <1>2, <1>3, PTL DEF Spec, AnsweredBySessionAsked
=============================================================================

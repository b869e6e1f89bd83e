---------------------------- MODULE RoutingProofs ----------------------------
(* The invariant of the socket's routing tables, for any number of         *)
(* connections, ids and addresses and any channel capacities.              *)
EXTENDS SocketRouting, TLAPS

(* What removing an id does to the tables.                                 *)
LEMMA RemoveEffect ==
  ASSUME RTypeOK, TablesAgree, NEW c \in Cid,
         SetTables(remove_connection_by_cid(tables, c))
  PROVE  /\ active_connections' \in [Cid -> Conn \cup {None}]
         /\ address_routing' \in [Addr -> Cid \cup {None}]
         /\ draining_pool' \subseteq Cid
         /\ \A d \in Cid : active_connections'[d] = active_connections[d]
                           \/ (d = c /\ active_connections'[d] = None)
         /\ \A a \in Addr : address_routing'[a] = address_routing[a]
                            \/ address_routing'[a] = None
         /\ \A d \in Cid : active_connections'[d] # None => d \notin draining_pool'
<1> DEFINE t == tables
<1>1. PICK u \in remove_connection_by_cid(tables, c) :
        active_connections' = u[1] /\ address_routing' = u[2] /\ draining_pool' = u[3]
  BY DEF SetTables
<1>2. t[1] = active_connections /\ t[2] = address_routing /\ t[3] = draining_pool
  BY DEF tables
<1>3. CASE active_connections[c] = None
  <2>1. u = tables
    BY <1>1, <1>2, <1>3 DEF remove_connection_by_cid
  <2> QED BY <2>1, <1>1, <1>2 DEF RTypeOK, TablesAgree
<1>4. CASE active_connections[c] # None
  <2>1. PICK r \in WithoutOne(address_routing, c) :
          u = <<[active_connections EXCEPT ![c] = None], r, draining_pool \cup {c}>>
    BY <1>1, <1>2, <1>4 DEF remove_connection_by_cid
  <2>2. r \in [Addr -> Cid \cup {None}]
        /\ \A a \in Addr : r[a] = address_routing[a] \/ r[a] = None
    BY <2>1 DEF WithoutOne, MappingsOf, RTypeOK
  <2>3. /\ active_connections' = [active_connections EXCEPT ![c] = None]
        /\ address_routing' = r /\ draining_pool' = draining_pool \cup {c}
    BY <2>1, <1>1
  <2> QED BY <2>2, <2>3 DEF RTypeOK, TablesAgree
<1> QED BY <1>3, <1>4

(* What giving an id a new address does.                                   *)
LEMMA UpdateEffect ==
  ASSUME RTypeOK, NEW c \in Cid, NEW a \in Addr,
         SetTables(update_connection_address(tables, c, a))
  PROVE  /\ active_connections' = active_connections
         /\ draining_pool' = draining_pool
         /\ address_routing' \in [Addr -> Cid \cup {None}]
         /\ \A b \in Addr : \/ address_routing'[b] \in {address_routing[b], None}
                            \/ b = a /\ address_routing'[b] = c
<1>1. PICK u \in update_connection_address(tables, c, a) :
        active_connections' = u[1] /\ address_routing' = u[2] /\ draining_pool' = u[3]
  BY DEF SetTables
<1>2. PICK r \in WithoutOne(address_routing, c) :
        u = <<active_connections, [r EXCEPT ![a] = c], draining_pool>>
  BY <1>1 DEF update_connection_address, tables
<1>3. r \in [Addr -> Cid \cup {None}]
      /\ \A b \in Addr : r[b] = address_routing[b] \/ r[b] = None
  BY <1>2 DEF WithoutOne, MappingsOf, RTypeOK
<1>4. /\ active_connections' = active_connections /\ draining_pool' = draining_pool
      /\ address_routing' = [r EXCEPT ![a] = c]
  BY <1>1, <1>2
<1> QED BY <1>3, <1>4

(* What registering a connection under a fresh id does.                    *)
LEMMA RegisterEffect ==
  ASSUME RTypeOK, TablesAgree, NEW i \in Conn, NEW a \in Addr,
         NEW c \in generate_unique_connection_id,
         SetTables(register_connection(tables, c, a, i))
  PROVE  /\ active_connections' \in [Cid -> Conn \cup {None}]
         /\ address_routing' \in [Addr -> Cid \cup {None}]
         /\ draining_pool' \subseteq Cid
         /\ \A d \in Cid : \/ active_connections'[d] = active_connections[d]
                           \/ d = address_routing[a] /\ active_connections'[d] = None
                           \/ d = c /\ active_connections'[d] = i
         /\ \A b \in Addr : \/ address_routing'[b] \in {address_routing[b], None}
                            \/ b = a /\ address_routing'[b] = c
         /\ \A d \in Cid : active_connections'[d] # None => d \notin draining_pool'
         /\ active_connections'[c] = i
<1>1. c \in Cid /\ active_connections[c] = None /\ c \notin draining_pool
  BY DEF generate_unique_connection_id
<1>2. PICK w \in register_connection(tables, c, a, i) :
        active_connections' = w[1] /\ address_routing' = w[2] /\ draining_pool' = w[3]
  BY DEF SetTables
<1> DEFINE o == address_routing[a]
<1>3. PICK u \in IF o \notin {None, c} THEN remove_connection_by_cid(tables, o) ELSE {tables} :
        w = <<[u[1] EXCEPT ![c] = i], [u[2] EXCEPT ![a] = c], u[3]>>
  BY <1>2 DEF register_connection, tables
<1>4. /\ u[1] \in [Cid -> Conn \cup {None}] /\ u[2] \in [Addr -> Cid \cup {None}]
      /\ u[3] \subseteq Cid /\ c \notin u[3]
      /\ \A d \in Cid : u[1][d] = active_connections[d] \/ (d = o /\ u[1][d] = None)
      /\ \A b \in Addr : u[2][b] = address_routing[b] \/ u[2][b] = None
      /\ \A d \in Cid : u[1][d] # None => d \notin u[3]
  <2>1. CASE ~(o \notin {None, c} /\ active_connections[o] # None)
    <3>1. u = tables
      BY <1>3, <2>1 DEF remove_connection_by_cid, tables
    <3> QED BY <3>1, <1>1 DEF RTypeOK, TablesAgree, tables
  <2>2. CASE o \notin {None, c} /\ active_connections[o] # None
    <3>1. PICK r \in WithoutOne(address_routing, o) :
            u = <<[active_connections EXCEPT ![o] = None], r, draining_pool \cup {o}>>
      BY <1>3, <2>2 DEF remove_connection_by_cid, tables
    <3>2. r \in [Addr -> Cid \cup {None}]
          /\ \A b \in Addr : r[b] = address_routing[b] \/ r[b] = None
      BY <3>1 DEF WithoutOne, MappingsOf, RTypeOK
    <3>3. o \in Cid
      BY <2>2 DEF RTypeOK
    <3> QED BY <3>1, <3>2, <3>3, <2>2, <1>1 DEF RTypeOK, TablesAgree
  <2> QED BY <2>1, <2>2
<1>5. /\ active_connections' = [u[1] EXCEPT ![c] = i]
      /\ address_routing' = [u[2] EXCEPT ![a] = c] /\ draining_pool' = u[3]
  BY <1>2, <1>3
<1> QED
  <2>1. \A d \in Cid : active_connections'[d] # None => d \notin draining_pool'
    BY <1>1, <1>4, <1>5
  <2> QED BY <1>1, <1>4, <1>5, <2>1

-----------------------------------------------------------------------------
(* Histories only grow: an id stays with its connection, an end is final.  *)
Grown(i) ==
  /\ Born(i)' /\ endpoint'[i].cid = endpoint[i].cid
  /\ peer_addrs[i] \subseteq peer_addrs'[i]
  /\ endpoint[i].status = "ended" => endpoint'[i].status = "ended"

(* No step takes anything of that back.                                    *)
LEMMA Monotone ==
  ASSUME RTypeOK, RNext, NEW i \in Conn, Born(i)
  PROVE  Grown(i)
<1> USE DEF Grown, Born, RTypeOK, Endpoint
<1>1. ASSUME NEW a \in Addr, UserConnect(a)
      PROVE  Grown(i)
  BY <1>1 DEF UserConnect
<1>2. ASSUME UpdateAddr
      PROVE  Grown(i)
  BY <1>2 DEF UpdateAddr
<1>3. ASSUME RemoveConnection
      PROVE  Grown(i)
  BY <1>3 DEF RemoveConnection
<1>4. ASSUME NEW j \in Conn, NEW c \in Cid, Connect(j, c)
      PROVE  Grown(i)
  BY <1>4 DEF Connect, Register, Spawned
<1>5. ASSUME NEW j \in Conn, NEW c \in Cid, NEW a \in Addr, NEW client \in Client, NEW n \in 0..MaxZeroRtt,
             ReceiveSyn(j, c, a, client, n)
      PROVE  Grown(i)
  BY <1>5 DEF ReceiveSyn, Register, Spawned
<1>6. ASSUME Offer
      PROVE  Grown(i)
  BY <1>6 DEF Offer
<1>7. ASSUME Accept
      PROVE  Grown(i)
  BY <1>7 DEF Accept
<1>8. ASSUME NEW f \in Frame, Dispatch(f)
      PROVE  Grown(i)
  BY <1>8 DEF Dispatch
<1>9. ASSUME NEW f \in actor.frames, Send(f)
      PROVE  Grown(i)
  BY <1>9 DEF Send
<1>10. ASSUME SendFails
      PROVE  Grown(i)
  BY <1>10 DEF SendFails
<1>11. ASSUME NEW ids \in SUBSET draining_pool, NEW old \in SUBSET pending_frames,
             Cleanup(ids, old)
      PROVE  Grown(i)
  BY <1>11 DEF Cleanup
<1>12. ASSUME NEW j \in Conn, Consume(j)
      PROVE  Grown(i)
  <2>1. peer_addrs' = peer_addrs
    BY <1>12 DEF Consume
  <2>2. endpoint[j].status = "running"
    BY <1>12 DEF Consume
  <2>3. CASE endpoint' = [endpoint EXCEPT ![j] = Moved(@, Head(inbox[j]).from)]
    BY <2>1, <2>2, <2>3 DEF Moved
  <2>5. CASE endpoint' = endpoint
    BY <2>1, <2>5
  <2> QED BY <1>12, <2>3, <2>5 DEF Consume
<1>13. ASSUME NEW j \in Conn, ReportAddr(j)
      PROVE  Grown(i)
  BY <1>13 DEF ReportAddr
<1>14. ASSUME NEW j \in Conn, End(j)
      PROVE  Grown(i)
  BY <1>14 DEF End
<1>15. ASSUME NEW j \in Conn, NEW a \in Addr, PeerMoves(j, a)
      PROVE  Grown(i)
  BY <1>15 DEF PeerMoves
<1> QED
  BY <1>1, <1>2, <1>3, <1>4, <1>5, <1>6, <1>7, <1>8, <1>9, <1>10, <1>11, <1>12, <1>13, <1>14, <1>15
     DEF RNext, HandleCommand, EndpointStep

(* The command at the head of the channel.                                 *)
LEMMA HeadCommand ==
  ASSUME RTypeOK, command_rx # <<>>
  PROVE  /\ Tail(command_rx) \in Seq(Command) /\ Head(command_rx) \in Command
         /\ Head(command_rx).addr \in Addr \/ Head(command_rx).op = "remove"
         /\ Head(command_rx).op \in {"update", "remove"} =>
              Head(command_rx).cid \in Cid /\ Head(command_rx).conn \in Conn
         /\ 1 \in DOMAIN command_rx /\ command_rx[1] = Head(command_rx)
         /\ \A k \in DOMAIN Tail(command_rx) :
              k + 1 \in DOMAIN command_rx /\ Tail(command_rx)[k] = command_rx[k + 1]
<1>1. Tail(command_rx) \in Seq(Command) /\ Head(command_rx) \in Command
  BY DEF RTypeOK
<1>2. /\ Head(command_rx).addr \in Addr \/ Head(command_rx).op = "remove"
      /\ Head(command_rx).op \in {"update", "remove"} =>
           Head(command_rx).cid \in Cid /\ Head(command_rx).conn \in Conn
  BY <1>1 DEF Command
<1>3. /\ 1 \in DOMAIN command_rx /\ command_rx[1] = Head(command_rx)
      /\ \A k \in DOMAIN Tail(command_rx) :
           k + 1 \in DOMAIN command_rx /\ Tail(command_rx)[k] = command_rx[k + 1]
  BY DEF RTypeOK
<1> QED BY <1>1, <1>2, <1>3

(* A step leaves a table entry, clears it, or enters what is true.         *)
TablesMove ==
  /\ active_connections' \in [Cid -> Conn \cup {None}]
  /\ address_routing' \in [Addr -> Cid \cup {None}]
  /\ draining_pool' \subseteq Cid
  /\ \A d \in Cid : \/ active_connections'[d] \in {active_connections[d], None}
                    \/ \E i \in Conn : /\ active_connections'[d] = i
                                       /\ Born(i)' /\ endpoint'[i].cid = d
  /\ \A b \in Addr : \/ address_routing'[b] \in {address_routing[b], None}
                     \/ \E i \in Conn : /\ Born(i)' /\ endpoint'[i].cid = address_routing'[b]
                                        /\ b \in peer_addrs'[i]
  /\ \A d \in Cid : active_connections'[d] # None => d \notin draining_pool'

(* Every step moves the tables that way.                                   *)
LEMMA TableSteps ==
  ASSUME RInv, RNext
  PROVE  TablesMove
<1>1. ASSUME NEW a \in Addr, UserConnect(a)
      PROVE  TablesMove
  <2>1. UNCHANGED tables
    BY <1>1 DEF UserConnect
  <2> QED BY <2>1 DEF tables, TablesMove, RInv, RTypeOK, TablesAgree
<1>2. ASSUME UpdateAddr
      PROVE  TablesMove
  <2>1. /\ Head(command_rx).cid \in Cid /\ Head(command_rx).addr \in Addr
        /\ Head(command_rx).conn \in Conn /\ Head(command_rx).op = "update"
        /\ 1 \in DOMAIN command_rx /\ command_rx[1] = Head(command_rx)
    BY <1>2, HeadCommand DEF UpdateAddr, RInv
  <2>2. PICK i \in Conn, c \in Cid, a \in Addr :
          i = Head(command_rx).conn /\ c = Head(command_rx).cid /\ a = Head(command_rx).addr
    BY <2>1
  <2>3. Born(i) /\ endpoint[i].cid = c /\ a \in peer_addrs[i]
    BY <2>1, <2>2 DEF RInv, CommandsTrue
  <2>4. SetTables(update_connection_address(tables, c, a))
        /\ endpoint' = endpoint /\ peer_addrs' = peer_addrs
    BY <1>2, <2>2 DEF UpdateAddr
  <2>5. /\ active_connections' = active_connections /\ draining_pool' = draining_pool
        /\ address_routing' \in [Addr -> Cid \cup {None}]
        /\ \A b \in Addr : \/ address_routing'[b] \in {address_routing[b], None}
                           \/ b = a /\ address_routing'[b] = c
    BY <2>4, UpdateEffect DEF RInv
  <2>6. Born(i)' /\ endpoint'[i].cid = c /\ a \in peer_addrs'[i]
    BY <2>3, <2>4 DEF Born
  <2> QED BY <2>5, <2>6 DEF TablesMove, RInv, RTypeOK, TablesAgree
<1>3. ASSUME RemoveConnection
      PROVE  TablesMove
  <2>1. Head(command_rx).cid \in Cid
    BY <1>3, HeadCommand DEF RemoveConnection, RInv
  <2>2. SetTables(remove_connection_by_cid(tables, Head(command_rx).cid))
    BY <1>3 DEF RemoveConnection
  <2> QED BY <2>1, <2>2, RemoveEffect DEF TablesMove, RInv
<1>4. ASSUME NEW j \in Conn, NEW c \in Cid, Connect(j, c)
      PROVE  TablesMove
  <2>1. Head(command_rx).addr \in Addr
    BY <1>4, HeadCommand DEF Connect, RInv
  <2>2. /\ c \in generate_unique_connection_id
        /\ SetTables(register_connection(tables, c, Head(command_rx).addr, j))
        /\ endpoint' = [endpoint EXCEPT ![j] = Spawned(c, Head(command_rx).addr, None)]
        /\ peer_addrs' = [peer_addrs EXCEPT ![j] = {Head(command_rx).addr}]
    BY <1>4 DEF Connect, Register
  <2>3. Born(j)' /\ endpoint'[j].cid = c /\ Head(command_rx).addr \in peer_addrs'[j]
    BY <2>2 DEF Born, Spawned, RInv, RTypeOK
  <2> QED BY <2>1, <2>2, <2>3, RegisterEffect DEF TablesMove, RInv
<1>5. ASSUME NEW j \in Conn, NEW c \in Cid, NEW a \in Addr, NEW client \in Client, NEW n \in 0..MaxZeroRtt,
             ReceiveSyn(j, c, a, client, n)
      PROVE  TablesMove
  <2>1. a \in Addr
    BY <1>5
  <2>2. /\ c \in generate_unique_connection_id
        /\ SetTables(register_connection(tables, c, a, j))
        /\ endpoint' = [endpoint EXCEPT ![j] = Spawned(c, a, client)]
        /\ peer_addrs' = [peer_addrs EXCEPT ![j] = {a}]
    BY <1>5 DEF ReceiveSyn, Register
  <2>3. Born(j)' /\ endpoint'[j].cid = c /\ a \in peer_addrs'[j]
    BY <2>2 DEF Born, Spawned, RInv, RTypeOK
  <2> QED BY <2>1, <2>2, <2>3, RegisterEffect DEF TablesMove, RInv
<1>6. ASSUME Offer
      PROVE  TablesMove
  <2>1. endpoint[actor.to].cid \in Cid
    BY <1>6 DEF Offer, RInv, ActorKnows, EndpointsPlaced
  <2>2. CASE UNCHANGED tables
    BY <2>2 DEF tables, TablesMove, RInv, RTypeOK, TablesAgree
  <2>3. CASE SetTables(remove_connection_by_cid(tables, endpoint[actor.to].cid))
    BY <2>1, <2>3, RemoveEffect DEF TablesMove, RInv
  <2> QED BY <1>6, <2>2, <2>3 DEF Offer
<1>7. ASSUME Accept
      PROVE  TablesMove
  <2>1. UNCHANGED tables
    BY <1>7 DEF Accept
  <2> QED BY <2>1 DEF tables, TablesMove, RInv, RTypeOK, TablesAgree
<1>8. ASSUME NEW f \in Frame, Dispatch(f)
      PROVE  TablesMove
  <2>1. /\ active_connections' = active_connections /\ draining_pool' = draining_pool
        /\ address_routing' = address_routing
           \/ address_routing' = [address_routing EXCEPT ![f.from] = None]
    BY <1>8 DEF Dispatch
  <2> QED BY <2>1 DEF TablesMove, RInv, RTypeOK, TablesAgree
<1>9. ASSUME NEW f \in actor.frames, Send(f)
      PROVE  TablesMove
  <2>1. UNCHANGED tables
    BY <1>9 DEF Send
  <2> QED BY <2>1 DEF tables, TablesMove, RInv, RTypeOK, TablesAgree
<1>10. ASSUME SendFails
      PROVE  TablesMove
  <2>1. endpoint[actor.to].cid \in Cid
    BY <1>10 DEF SendFails, RInv, ActorKnows, EndpointsPlaced
  <2>2. CASE UNCHANGED tables
    BY <2>2 DEF tables, TablesMove, RInv, RTypeOK, TablesAgree
  <2>3. CASE SetTables(remove_connection_by_cid(tables, endpoint[actor.to].cid))
    BY <2>1, <2>3, RemoveEffect DEF TablesMove, RInv
  <2> QED BY <1>10, <2>2, <2>3 DEF SendFails
<1>11. ASSUME NEW ids \in SUBSET draining_pool, NEW old \in SUBSET pending_frames,
             Cleanup(ids, old)
      PROVE  TablesMove
  <2>1. /\ UNCHANGED <<active_connections, address_routing>>
        /\ draining_pool' = draining_pool \ ids
    BY <1>11 DEF Cleanup
  <2> QED BY <2>1 DEF TablesMove, RInv, RTypeOK, TablesAgree
<1>12. ASSUME NEW j \in Conn, Consume(j)
      PROVE  TablesMove
  <2>1. UNCHANGED tables
    BY <1>12 DEF Consume
  <2> QED BY <2>1 DEF tables, TablesMove, RInv, RTypeOK, TablesAgree
<1>13. ASSUME NEW j \in Conn, ReportAddr(j)
      PROVE  TablesMove
  <2>1. UNCHANGED tables
    BY <1>13 DEF ReportAddr
  <2> QED BY <2>1 DEF tables, TablesMove, RInv, RTypeOK, TablesAgree
<1>14. ASSUME NEW j \in Conn, End(j)
      PROVE  TablesMove
  <2>1. UNCHANGED tables
    BY <1>14 DEF End
  <2> QED BY <2>1 DEF tables, TablesMove, RInv, RTypeOK, TablesAgree
<1>15. ASSUME NEW j \in Conn, NEW a \in Addr, PeerMoves(j, a)
      PROVE  TablesMove
  <2>1. UNCHANGED tables
    BY <1>15 DEF PeerMoves
  <2> QED BY <2>1 DEF tables, TablesMove, RInv, RTypeOK, TablesAgree
<1> QED
  BY <1>1, <1>2, <1>3, <1>4, <1>5, <1>6, <1>7, <1>8, <1>9, <1>10, <1>11, <1>12, <1>13, <1>14, <1>15
     DEF RNext, HandleCommand, EndpointStep

-----------------------------------------------------------------------------
LEMMA SendableStays ==
  ASSUME RInv, RNext, NEW f \in Frame, Sendable(f)
  PROVE  Sendable(f)'
<1>1. CASE f.owner = None /\ f.cid = Zero /\ f.kind = "push"
  BY <1>1 DEF Sendable
<1>2. CASE f.owner \in Conn /\ Born(f.owner)
           /\ f.from \in peer_addrs[f.owner] /\ f.cid = endpoint[f.owner].cid
  <2>1. Grown(f.owner)
    BY <1>2, Monotone DEF RInv
  <2> QED BY <1>2, <2>1 DEF Grown, Sendable
<1> QED BY <1>1, <1>2 DEF Sendable

LEMMA KnownStays ==
  ASSUME RInv, RNext, NEW i \in Conn, NEW a, KnownTo(i, a)
  PROVE  KnownTo(i, a)'
<1>1. PICK j \in Conn : Born(j) /\ endpoint[j].cid = endpoint[i].cid /\ a \in peer_addrs[j]
  BY DEF KnownTo, Namesakes
<1>2. Born(i)
  BY <1>1, RoutingAssumption DEF RInv, EndpointsPlaced
<1>3. Grown(i) /\ Grown(j)
  BY <1>1, <1>2, Monotone DEF RInv
<1> QED BY <1>1, <1>3 DEF Grown, KnownTo, Namesakes

(* Where the frames are after a step, and why they may be there: a frame   *)
(* was there before, was sent by a peer, or belongs to a connection that   *)
(* begins with this step.                                                  *)
NewAt(i, a) == Born(i)' /\ a \in peer_addrs'[i]
HeldRightly(i, f) ==
  \/ Sendable(f) /\ KnownTo(i, f.from)
  \/ Sendable(f)' /\ NewAt(i, f.from)
FramesMove ==
  /\ pending_frames' \subseteq Frame /\ actor' \in Actor /\ inbox' \in [Conn -> Seq(Frame)]
  /\ ActorKnows'
  /\ \A f \in pending_frames' \cup actor'.frames : Sendable(f)
  /\ \A i \in Conn, f \in Frame : i = actor'.to /\ f \in actor'.frames => HeldRightly(i, f)
  /\ \A i \in Conn, f \in Frame :
       (\E k \in DOMAIN inbox'[i] : f = inbox'[i][k]) => HeldRightly(i, f)

(* What the invariant says of the frames before the step, in that form.    *)
LEMMA FramesBefore ==
  ASSUME RInv
  PROVE  /\ pending_frames \subseteq Frame /\ actor \in Actor /\ inbox \in [Conn -> Seq(Frame)]
         /\ ActorKnows
         /\ \A f \in pending_frames \cup actor.frames : Sendable(f)
         /\ \A i \in Conn, f \in Frame : i = actor.to /\ f \in actor.frames => HeldRightly(i, f)
         /\ \A i \in Conn, f \in Frame :
              (\E k \in DOMAIN inbox[i] : f = inbox[i][k]) => HeldRightly(i, f)
<1>1. /\ pending_frames \subseteq Frame /\ actor \in Actor /\ inbox \in [Conn -> Seq(Frame)]
      /\ ActorKnows
      /\ \A f \in pending_frames \cup actor.frames : Sendable(f)
  BY DEF RInv, RTypeOK, FramesGenuine
<1>2. \A i \in Conn, f \in Frame : i = actor.to /\ f \in actor.frames => HeldRightly(i, f)
  BY DEF RInv, FramesGenuine, NoStrangers, HeldRightly
<1>3. \A i \in Conn, f \in Frame :
        (\E k \in DOMAIN inbox[i] : f = inbox[i][k]) => HeldRightly(i, f)
  BY DEF RInv, FramesGenuine, NoStrangers, HeldRightly
<1> QED BY <1>1, <1>2, <1>3

(* Every step moves the frames that way.                                   *)
LEMMA FrameSteps ==
  ASSUME RInv, RNext
  PROVE  FramesMove
<1>1. ASSUME NEW a \in Addr, UserConnect(a)
      PROVE  FramesMove
  <2>1. UNCHANGED <<pending_frames, actor, inbox>> /\ ActorKnows'
    BY <1>1, Monotone, FramesBefore DEF UserConnect, RInv, ActorKnows, Grown
  <2> QED BY <2>1, FramesBefore DEF FramesMove
<1>2. ASSUME UpdateAddr
      PROVE  FramesMove
  <2>1. UNCHANGED <<pending_frames, actor, inbox>> /\ ActorKnows'
    BY <1>2, Monotone, FramesBefore DEF UpdateAddr, RInv, ActorKnows, Grown
  <2> QED BY <2>1, FramesBefore DEF FramesMove
<1>3. ASSUME RemoveConnection
      PROVE  FramesMove
  <2>1. UNCHANGED <<pending_frames, actor, inbox>> /\ ActorKnows'
    BY <1>3, Monotone, FramesBefore DEF RemoveConnection, RInv, ActorKnows, Grown
  <2> QED BY <2>1, FramesBefore DEF FramesMove
<1>4. ASSUME NEW j \in Conn, NEW c \in Cid, Connect(j, c)
      PROVE  FramesMove
  <2>1. PICK a0 \in Addr : a0 = Head(command_rx).addr
    BY <1>4, HeadCommand DEF Connect, RInv
  <2> DEFINE F == Forwardable(c, a0)
  <2>2. /\ pending_frames' = pending_frames \ F /\ peer_addrs' = [peer_addrs EXCEPT ![j] = {a0}]
        /\ actor' = [at |-> "forward", to |-> j, frames |-> F]
        /\ endpoint' = [endpoint EXCEPT ![j] = Spawned(c, a0, None)]
    BY <1>4, <2>1 DEF Connect, Register
  <2>3. F \subseteq pending_frames /\ \A f \in F : f.from = a0
    BY DEF Forwardable
  <2>4. Born(j)' /\ endpoint'[j].cid = c /\ a0 \in peer_addrs'[j]
    BY <2>2 DEF Born, Spawned, RInv, RTypeOK
  <2>5. actor' \in Actor /\ ActorKnows' /\ pending_frames' \subseteq pending_frames
    BY <2>2, <2>3, <2>4, FramesBefore DEF Actor, ActorKnows
  <2>6. \A i \in Conn, f \in Frame : i = actor'.to /\ f \in actor'.frames => HeldRightly(i, f)
    <3> SUFFICES ASSUME NEW f \in Frame, f \in F PROVE HeldRightly(j, f)
      BY <2>2
    <3>1. Sendable(f) /\ f.from = a0
      BY <2>3, FramesBefore
    <3> QED BY <3>1, <2>4, SendableStays DEF HeldRightly, NewAt
  <2>7. inbox' = inbox
    BY <1>4 DEF Connect
  <2> QED BY <2>2, <2>3, <2>5, <2>6, <2>7, FramesBefore DEF FramesMove
<1>5. ASSUME NEW j \in Conn, NEW c \in Cid, NEW a \in Addr, NEW client \in Client, NEW n \in 0..MaxZeroRtt,
             ReceiveSyn(j, c, a, client, n)
      PROVE  FramesMove
  <2>1. PICK a0 \in Addr : a0 = a
    BY <1>5
  <2> DEFINE F == Forwardable(c, a0)
  <2>2. /\ pending_frames' = pending_frames \ F /\ peer_addrs' = [peer_addrs EXCEPT ![j] = {a0}]
        /\ actor' = [at |-> "forward", to |-> j, frames |-> F]
        /\ endpoint' = [endpoint EXCEPT ![j] = Spawned(c, a0, client)]
    BY <1>5, <2>1 DEF ReceiveSyn, Register
  <2>3. F \subseteq pending_frames /\ \A f \in F : f.from = a0
    BY DEF Forwardable
  <2>4. Born(j)' /\ endpoint'[j].cid = c /\ a0 \in peer_addrs'[j]
    BY <2>2 DEF Born, Spawned, RInv, RTypeOK
  <2>5. actor' \in Actor /\ ActorKnows' /\ pending_frames' \subseteq pending_frames
    BY <2>2, <2>3, <2>4, FramesBefore DEF Actor, ActorKnows
  <2>6. \A i \in Conn, f \in Frame : i = actor'.to /\ f \in actor'.frames => HeldRightly(i, f)
    <3> SUFFICES ASSUME NEW f \in Frame, f \in F PROVE HeldRightly(j, f)
      BY <2>2
    <3>1. Sendable(f) /\ f.from = a0
      BY <2>3, FramesBefore
    <3> QED BY <3>1, <2>4, SendableStays DEF HeldRightly, NewAt
  <2> DEFINE z == [cid |-> Zero, from |-> a0, kind |-> "push", owner |-> None]
            m == IF n <= InboxCap THEN n ELSE InboxCap
  <2>7. inbox' = [inbox EXCEPT ![j] = [k \in 1..m |-> z]]
    BY <1>5, <2>1 DEF ReceiveSyn, handle_zero_rtt_frames
  <2>8. z \in Frame /\ m \in Nat
    BY RoutingAssumption DEF Frame
  <2>9. inbox' \in [Conn -> Seq(Frame)]
    <3>1. [k \in 1..m |-> z] \in Seq(Frame)
      BY <2>8
    <3> QED BY <2>7, <3>1 DEF RInv, RTypeOK
  <2>10. HeldRightly(j, z)
    BY <2>4 DEF HeldRightly, NewAt, Sendable
  <2>11. ASSUME NEW i \in Conn, NEW g \in Frame, NEW k \in DOMAIN inbox'[i], g = inbox'[i][k]
         PROVE  HeldRightly(i, g)
    <3>1. CASE i # j
      BY <2>7, <2>11, <3>1, FramesBefore
    <3>2. CASE i = j
      <4>1. inbox'[j] = [l \in 1..m |-> z]
        BY <2>7 DEF RInv, RTypeOK
      <4>2. g = z
        BY <4>1, <2>11, <3>2
      <4> QED BY <2>10, <4>2, <3>2
    <3> QED BY <3>1, <3>2
  <2> QED BY <2>2, <2>3, <2>5, <2>6, <2>9, <2>11, FramesBefore DEF FramesMove
<1>6. ASSUME Offer
      PROVE  FramesMove
  <2>1. UNCHANGED <<pending_frames, inbox>> /\ actor' = Select
    BY <1>6 DEF Offer
  <2>2. actor' \in Actor /\ ActorKnows' /\ actor'.frames = {}
    BY <2>1 DEF Select, Actor, ActorKnows
  <2> QED BY <2>1, <2>2, FramesBefore DEF FramesMove
<1>7. ASSUME Accept
      PROVE  FramesMove
  <2>1. UNCHANGED <<pending_frames, actor, inbox>> /\ ActorKnows'
    BY <1>7, Monotone, FramesBefore DEF Accept, RInv, ActorKnows, Grown
  <2> QED BY <2>1, FramesBefore DEF FramesMove
<1>8. ASSUME NEW f \in Frame, Dispatch(f)
      PROVE  FramesMove
  <2>1. Sendable(f) /\ inbox' = inbox /\ endpoint' = endpoint
    BY <1>8 DEF Dispatch
  <2>2. CASE /\ UNCHANGED <<actor>> /\ pending_frames' \subseteq pending_frames \cup {f}
    BY <2>1, <2>2, FramesBefore DEF FramesMove, ActorKnows, Born
  <2>3. ASSUME NEW t \in Conn, Born(t), KnownTo(t, f.from), UNCHANGED pending_frames,
               actor' = [at |-> "dispatch", to |-> t, frames |-> {f}]
        PROVE  FramesMove
    <3>1. actor' \in Actor /\ ActorKnows'
      BY <2>1, <2>3 DEF Actor, ActorKnows, Born
    <3>2. HeldRightly(t, f)
      BY <2>1, <2>3 DEF HeldRightly
    <3> QED BY <2>1, <2>3, <3>1, <3>2, FramesBefore DEF FramesMove
  <2>4. CASE ByCid(f) /\ UNCHANGED pending_frames
             /\ actor' = [at |-> "dispatch", to |-> active_connections[f.cid], frames |-> {f}]
    <3> DEFINE t == active_connections[f.cid]
    <3>1. t \in Conn /\ Born(t) /\ endpoint[t].cid = f.cid
      BY <2>4 DEF ByCid, RInv, RTypeOK, TablesAgree
    <3>2. f.owner \in Conn /\ f.owner \in Namesakes(t) /\ f.from \in peer_addrs[f.owner]
      BY <2>1, <2>4, <3>1 DEF Sendable, ByCid, Namesakes, Frame
    <3>3. KnownTo(t, f.from)
      BY <3>2 DEF KnownTo
    <3> QED BY <2>3, <2>4, <3>1, <3>3
  <2>5. CASE ByAddr(f) /\ UNCHANGED pending_frames
             /\ actor' = [at |-> "dispatch", to |-> active_connections[AddrCid(f)], frames |-> {f}]
    <3> DEFINE t == active_connections[AddrCid(f)]
    <3>1. f.from \in Addr
      BY DEF Frame
    <3>2. AddrCid(f) \in Cid /\ t # None
      BY <2>5, <3>1 DEF ByAddr, AddrCid, RInv, RTypeOK
    <3>3. t \in Conn /\ Born(t) /\ endpoint[t].cid = AddrCid(f)
      BY <3>2 DEF RInv, RTypeOK, TablesAgree
    <3>4. PICK i \in Conn : Born(i) /\ endpoint[i].cid = AddrCid(f) /\ f.from \in peer_addrs[i]
      BY <3>1, <3>2, RoutingAssumption DEF AddrCid, RInv, AddressesKnown
    <3>5. KnownTo(t, f.from)
      BY <3>3, <3>4 DEF KnownTo, Namesakes
    <3> QED BY <2>3, <2>5, <3>3, <3>5
  <2> QED BY <1>8, <2>2, <2>4, <2>5 DEF Dispatch
<1>9. ASSUME NEW f \in actor.frames, Send(f)
      PROVE  FramesMove
  <2>1. /\ UNCHANGED <<pending_frames, endpoint>>
        /\ actor' = Select \/ actor' = [actor EXCEPT !.frames = @ \ {f}]
        /\ inbox' = [inbox EXCEPT ![actor.to] = Append(@, f)]
    BY <1>9 DEF Send
  <2>2. actor.to \in Conn /\ f \in Frame
    BY <1>9 DEF RInv, RTypeOK, Actor, ActorKnows
  <2>3. /\ actor' \in Actor /\ ActorKnows' /\ actor'.frames \subseteq actor.frames
        /\ actor'.frames # {} => actor'.to = actor.to
    BY <2>1 DEF Select, Actor, ActorKnows, RInv, RTypeOK, Born
  <2>4. inbox' \in [Conn -> Seq(Frame)]
    BY <2>1, <2>2 DEF RInv, RTypeOK
  <2>5. ASSUME NEW i \in Conn, NEW g \in Frame, NEW k \in DOMAIN inbox'[i], g = inbox'[i][k]
        PROVE  HeldRightly(i, g)
    <3>1. CASE i # actor.to
      BY <2>1, <2>5, <3>1, FramesBefore
    <3>2. CASE i = actor.to
      <4>1. inbox[i] \in Seq(Frame) /\ inbox'[i] = Append(inbox[i], f)
        BY <2>1, <3>2 DEF RInv, RTypeOK
      <4>2. g = f \/ \E m \in DOMAIN inbox[i] : g = inbox[i][m]
        BY <2>2, <2>5, <4>1
      <4> QED BY <1>9, <2>2, <3>2, <4>2, FramesBefore
    <3> QED BY <3>1, <3>2
  <2>6. \A i \in Conn, g \in Frame : i = actor'.to /\ g \in actor'.frames => HeldRightly(i, g)
    BY <2>3, FramesBefore
  <2> QED BY <2>1, <2>3, <2>4, <2>5, <2>6, FramesBefore DEF FramesMove
<1>10. ASSUME SendFails
      PROVE  FramesMove
  <2>1. /\ pending_frames' \subseteq pending_frames /\ UNCHANGED <<inbox, endpoint>>
        /\ actor' = Select \/ actor' = [actor EXCEPT !.frames = {}]
    BY <1>10 DEF SendFails
  <2>2. actor' \in Actor /\ ActorKnows' /\ actor'.frames = {}
    <3>1. CASE actor' = Select
      BY <3>1 DEF Select, Actor, ActorKnows
    <3>2. CASE actor' = [actor EXCEPT !.frames = {}]
      <4>1. actor' \in Actor /\ actor'.at = actor.at /\ actor'.to = actor.to /\ actor'.frames = {}
        BY <3>2 DEF Actor, RInv, RTypeOK
      <4> QED BY <4>1, <2>1 DEF ActorKnows, RInv, Born
    <3> QED BY <2>1, <3>1, <3>2
  <2> QED BY <2>1, <2>2, FramesBefore DEF FramesMove
<1>11. ASSUME NEW ids \in SUBSET draining_pool, NEW old \in SUBSET pending_frames,
             Cleanup(ids, old)
      PROVE  FramesMove
  <2>1. pending_frames' = pending_frames \ old /\ UNCHANGED <<actor, inbox>> /\ ActorKnows'
    BY <1>11, Monotone DEF Cleanup, RInv, ActorKnows, Grown
  <2> QED BY <2>1, FramesBefore DEF FramesMove
<1>12. ASSUME NEW j \in Conn, Consume(j)
      PROVE  FramesMove
  <2>1. /\ UNCHANGED <<pending_frames, actor>> /\ inbox' = [inbox EXCEPT ![j] = Tail(@)]
        /\ ActorKnows' /\ inbox[j] # <<>>
    BY <1>12, Monotone DEF Consume, RInv, ActorKnows, Grown
  <2>2. inbox[j] \in Seq(Frame) /\ inbox'[j] = Tail(inbox[j])
    BY <2>1 DEF RInv, RTypeOK
  <2>3. inbox' \in [Conn -> Seq(Frame)]
    BY <2>1, <2>2 DEF RInv, RTypeOK
  <2>4. \A k \in DOMAIN inbox'[j] : \E m \in DOMAIN inbox[j] : inbox'[j][k] = inbox[j][m]
    <3>1. \A k \in DOMAIN Tail(inbox[j]) : k + 1 \in DOMAIN inbox[j] /\ Tail(inbox[j])[k] = inbox[j][k + 1]
      BY <2>1, <2>2
    <3> QED BY <3>1, <2>2
  <2>5. \A i \in Conn : \A k \in DOMAIN inbox'[i] : \E m \in DOMAIN inbox[i] : inbox'[i][k] = inbox[i][m]
    BY <2>1, <2>4 DEF RInv, RTypeOK
  <2> QED BY <2>1, <2>3, <2>5, FramesBefore DEF FramesMove
<1>13. ASSUME NEW j \in Conn, ReportAddr(j)
      PROVE  FramesMove
  <2>1. UNCHANGED <<pending_frames, actor, inbox>> /\ ActorKnows'
    BY <1>13, Monotone, FramesBefore DEF ReportAddr, RInv, ActorKnows, Grown
  <2> QED BY <2>1, FramesBefore DEF FramesMove
<1>14. ASSUME NEW j \in Conn, End(j)
      PROVE  FramesMove
  <2>1. /\ UNCHANGED <<pending_frames, actor>> /\ inbox' = [inbox EXCEPT ![j] = <<>>]
        /\ ActorKnows'
    BY <1>14, Monotone DEF End, RInv, ActorKnows, Grown
  <2>2. inbox' \in [Conn -> Seq(Frame)]
    BY <2>1 DEF RInv, RTypeOK
  <2>3. \A i \in Conn : inbox'[i] = inbox[i] \/ inbox'[i] = <<>>
    BY <2>1 DEF RInv, RTypeOK
  <2> QED BY <2>1, <2>2, <2>3, FramesBefore DEF FramesMove
<1>15. ASSUME NEW j \in Conn, NEW a \in Addr, PeerMoves(j, a)
      PROVE  FramesMove
  <2>1. UNCHANGED <<pending_frames, actor, inbox>> /\ ActorKnows'
    BY <1>15, Monotone, FramesBefore DEF PeerMoves, RInv, ActorKnows, Grown
  <2> QED BY <2>1, FramesBefore DEF FramesMove
<1> QED
  BY <1>1, <1>2, <1>3, <1>4, <1>5, <1>6, <1>7, <1>8, <1>9, <1>10, <1>11, <1>12, <1>13, <1>14, <1>15
     DEF RNext, HandleCommand, EndpointStep

-----------------------------------------------------------------------------
(* The endpoints after a step.                                             *)
EndpointsMove ==
  /\ endpoint' \in [Conn -> Endpoint] /\ peer_addrs' \in [Conn -> SUBSET Addr]
  /\ EndpointsPlaced'

(* Every step keeps the endpoints in place.                                *)
LEMMA EndpointSteps ==
  ASSUME RInv, RNext
  PROVE  EndpointsMove
<1>1. ASSUME NEW a \in Addr, UserConnect(a)
      PROVE  EndpointsMove
  <2>1. UNCHANGED <<endpoint, peer_addrs>>
    BY <1>1 DEF UserConnect
  <2> QED BY <2>1 DEF EndpointsMove, RInv, RTypeOK, EndpointsPlaced, Born
<1>2. ASSUME UpdateAddr
      PROVE  EndpointsMove
  <2>1. UNCHANGED <<endpoint, peer_addrs>>
    BY <1>2 DEF UpdateAddr
  <2> QED BY <2>1 DEF EndpointsMove, RInv, RTypeOK, EndpointsPlaced, Born
<1>3. ASSUME RemoveConnection
      PROVE  EndpointsMove
  <2>1. UNCHANGED <<endpoint, peer_addrs>>
    BY <1>3 DEF RemoveConnection
  <2> QED BY <2>1 DEF EndpointsMove, RInv, RTypeOK, EndpointsPlaced, Born
<1>4. ASSUME NEW j \in Conn, NEW c \in Cid, Connect(j, c)
      PROVE  EndpointsMove
  <2>1. PICK a0 \in Addr : a0 = Head(command_rx).addr
    BY <1>4, HeadCommand DEF Connect, RInv
  <2>2. /\ peer_addrs' = [peer_addrs EXCEPT ![j] = {a0}]
        /\ endpoint' = [endpoint EXCEPT ![j] = Spawned(c, a0, None)]
    BY <1>4, <2>1 DEF Connect, Register
  <2>3. /\ Spawned(c, a0, None) \in Endpoint /\ Spawned(c, a0, None).cid = c
        /\ Spawned(c, a0, None).addr = a0 /\ Spawned(c, a0, None).status = "running"
    BY DEF Spawned, Endpoint
  <2> QED BY <2>2, <2>3 DEF EndpointsMove, RInv, RTypeOK, EndpointsPlaced, Born
<1>5. ASSUME NEW j \in Conn, NEW c \in Cid, NEW a \in Addr, NEW client \in Client, NEW n \in 0..MaxZeroRtt,
             ReceiveSyn(j, c, a, client, n)
      PROVE  EndpointsMove
  <2>1. PICK a0 \in Addr : a0 = a
    BY <1>5
  <2>2. /\ peer_addrs' = [peer_addrs EXCEPT ![j] = {a0}]
        /\ endpoint' = [endpoint EXCEPT ![j] = Spawned(c, a0, client)]
    BY <1>5, <2>1 DEF ReceiveSyn, Register
  <2>3. /\ Spawned(c, a0, client) \in Endpoint /\ Spawned(c, a0, client).cid = c
        /\ Spawned(c, a0, client).addr = a0 /\ Spawned(c, a0, client).status = "running"
    BY DEF Spawned, Endpoint
  <2> QED BY <2>2, <2>3 DEF EndpointsMove, RInv, RTypeOK, EndpointsPlaced, Born
<1>6. ASSUME Offer
      PROVE  EndpointsMove
  <2>1. UNCHANGED <<endpoint, peer_addrs>>
    BY <1>6 DEF Offer
  <2> QED BY <2>1 DEF EndpointsMove, RInv, RTypeOK, EndpointsPlaced, Born
<1>7. ASSUME Accept
      PROVE  EndpointsMove
  <2>1. UNCHANGED <<endpoint, peer_addrs>>
    BY <1>7 DEF Accept
  <2> QED BY <2>1 DEF EndpointsMove, RInv, RTypeOK, EndpointsPlaced, Born
<1>8. ASSUME NEW f \in Frame, Dispatch(f)
      PROVE  EndpointsMove
  <2>1. UNCHANGED <<endpoint, peer_addrs>>
    BY <1>8 DEF Dispatch
  <2> QED BY <2>1 DEF EndpointsMove, RInv, RTypeOK, EndpointsPlaced, Born
<1>9. ASSUME NEW f \in actor.frames, Send(f)
      PROVE  EndpointsMove
  <2>1. UNCHANGED <<endpoint, peer_addrs>>
    BY <1>9 DEF Send
  <2> QED BY <2>1 DEF EndpointsMove, RInv, RTypeOK, EndpointsPlaced, Born
<1>10. ASSUME SendFails
      PROVE  EndpointsMove
  <2>1. UNCHANGED <<endpoint, peer_addrs>>
    BY <1>10 DEF SendFails
  <2> QED BY <2>1 DEF EndpointsMove, RInv, RTypeOK, EndpointsPlaced, Born
<1>11. ASSUME NEW ids \in SUBSET draining_pool, NEW old \in SUBSET pending_frames,
             Cleanup(ids, old)
      PROVE  EndpointsMove
  <2>1. UNCHANGED <<endpoint, peer_addrs>>
    BY <1>11 DEF Cleanup
  <2> QED BY <2>1 DEF EndpointsMove, RInv, RTypeOK, EndpointsPlaced, Born
<1>12. ASSUME NEW j \in Conn, Consume(j)
      PROVE  EndpointsMove
  <2>1. peer_addrs' = peer_addrs /\ endpoint[j].status = "running" /\ inbox[j] # <<>>
    BY <1>12 DEF Consume
  <2>2. endpoint[j] \in Endpoint
    BY DEF RInv, RTypeOK
  <2>3. CASE Migrates(j, Head(inbox[j])) /\ endpoint' = [endpoint EXCEPT ![j] = Moved(@, Head(inbox[j]).from)]
    <3>1. /\ inbox[j] \in Seq(Frame) /\ 1 \in DOMAIN inbox[j] /\ Head(inbox[j]) = inbox[j][1]
          /\ Head(inbox[j]) \in Frame
      BY <2>1 DEF RInv, RTypeOK
    <3>2. Sendable(Head(inbox[j]))
      BY <3>1 DEF RInv, FramesGenuine
    <3>3. PICK b \in Addr : b = Head(inbox[j]).from /\ b \in peer_addrs[j]
      BY <2>3, <3>1, <3>2 DEF Sendable, Migrates, Frame
    <3>4. endpoint' = [endpoint EXCEPT ![j] = Moved(endpoint[j], b)]
      BY <2>3, <3>3
    <3>5. /\ Moved(endpoint[j], b) \in Endpoint /\ Moved(endpoint[j], b).cid = endpoint[j].cid
          /\ Moved(endpoint[j], b).addr = b /\ Moved(endpoint[j], b).status = "updating"
      BY <2>2 DEF Moved, Endpoint
    <3> QED BY <2>1, <3>3, <3>4, <3>5 DEF EndpointsMove, RInv, RTypeOK, EndpointsPlaced, Born
  <2>5. CASE endpoint' = endpoint
    BY <2>1, <2>5 DEF EndpointsMove, RInv, RTypeOK, EndpointsPlaced, Born
  <2> QED BY <1>12, <2>3, <2>5 DEF Consume
<1>13. ASSUME NEW j \in Conn, ReportAddr(j)
      PROVE  EndpointsMove
  <2>1. /\ peer_addrs' = peer_addrs /\ endpoint' = [endpoint EXCEPT ![j].status = "running"]
        /\ endpoint[j].status # "unborn"
    BY <1>13 DEF ReportAddr
  <2>2. endpoint' \in [Conn -> Endpoint]
    BY <2>1 DEF RInv, RTypeOK, Endpoint
  <2>3. \A i \in Conn : /\ endpoint'[i].cid = endpoint[i].cid /\ endpoint'[i].addr = endpoint[i].addr
                        /\ endpoint'[i].status = "unborn" <=> endpoint[i].status = "unborn"
    BY <2>1 DEF RInv, RTypeOK, Endpoint
  <2> QED BY <2>1, <2>2, <2>3 DEF EndpointsMove, RInv, RTypeOK, EndpointsPlaced, Born
<1>14. ASSUME NEW j \in Conn, End(j)
      PROVE  EndpointsMove
  <2>1. /\ peer_addrs' = peer_addrs /\ endpoint' = [endpoint EXCEPT ![j].status = "ended"]
        /\ endpoint[j].status # "unborn"
    BY <1>14 DEF End
  <2>2. endpoint' \in [Conn -> Endpoint]
    BY <2>1 DEF RInv, RTypeOK, Endpoint
  <2>3. \A i \in Conn : /\ endpoint'[i].cid = endpoint[i].cid /\ endpoint'[i].addr = endpoint[i].addr
                        /\ endpoint'[i].status = "unborn" <=> endpoint[i].status = "unborn"
    BY <2>1 DEF RInv, RTypeOK, Endpoint
  <2> QED BY <2>1, <2>2, <2>3 DEF EndpointsMove, RInv, RTypeOK, EndpointsPlaced, Born
<1>15. ASSUME NEW j \in Conn, NEW a \in Addr, PeerMoves(j, a)
      PROVE  EndpointsMove
  <2>1. endpoint' = endpoint /\ peer_addrs' = [peer_addrs EXCEPT ![j] = @ \cup {a}]
    BY <1>15 DEF PeerMoves
  <2> QED BY <2>1 DEF EndpointsMove, RInv, RTypeOK, EndpointsPlaced, Born
<1> QED
  BY <1>1, <1>2, <1>3, <1>4, <1>5, <1>6, <1>7, <1>8, <1>9, <1>10, <1>11, <1>12, <1>13, <1>14, <1>15
     DEF RNext, HandleCommand, EndpointStep

(* The command channel after a step.                                       *)
True(m) ==
  /\ m.op = "update" => /\ Born(m.conn) /\ endpoint[m.conn].cid = m.cid
                        /\ m.addr \in peer_addrs[m.conn]
  /\ m.op = "remove" => endpoint[m.conn].status = "ended" /\ endpoint[m.conn].cid = m.cid

LEMMA TruthStays ==
  ASSUME RInv, RNext, NEW m \in Command, True(m)
  PROVE  True(m)'
<1>1. CASE m.op = "update"
  <2>1. m.conn \in Conn /\ Born(m.conn)
    BY <1>1 DEF Command, True
  <2> QED BY <1>1, <2>1, Monotone DEF RInv, Grown, True
<1>2. CASE m.op = "remove"
  <2>1. m.conn \in Conn /\ Born(m.conn)
    BY <1>2 DEF Command, True, Born
  <2> QED BY <1>2, <2>1, Monotone DEF RInv, Grown, True
<1>3. CASE m.op = "connect"
  BY <1>3 DEF True
<1> QED BY <1>1, <1>2, <1>3 DEF Command

(* A command is what it was, or a new one that is true.                    *)
CommandsMove ==
  /\ command_rx' \in Seq(Command) /\ accept_queue' \in Seq(Conn)
  /\ \A m \in Command : (\E k \in DOMAIN command_rx' : m = command_rx'[k]) => True(m)'

LEMMA CommandsKept ==
  ASSUME RInv, RNext, UNCHANGED command_rx, accept_queue' \in Seq(Conn)
  PROVE  CommandsMove
<1>1. \A m \in Command : (\E k \in DOMAIN command_rx : m = command_rx[k]) => True(m)
  BY DEF RInv, CommandsTrue, True
<1> QED BY <1>1, TruthStays DEF CommandsMove, RInv, RTypeOK

LEMMA CommandTaken ==
  ASSUME RInv, RNext, command_rx # <<>>, command_rx' = Tail(command_rx), UNCHANGED accept_queue
  PROVE  CommandsMove
<1>1. \A m \in Command : (\E k \in DOMAIN command_rx : m = command_rx[k]) => True(m)
  BY DEF RInv, CommandsTrue, True
<1>2. \A k \in DOMAIN command_rx' : k + 1 \in DOMAIN command_rx /\ command_rx'[k] = command_rx[k + 1]
  BY HeadCommand DEF RInv
<1> QED BY <1>1, <1>2, TruthStays, HeadCommand DEF CommandsMove, RInv, RTypeOK

LEMMA CommandAdded ==
  ASSUME RInv, RNext, NEW m \in Command, command_rx' = Append(command_rx, m), True(m)',
         UNCHANGED accept_queue
  PROVE  CommandsMove
<1>1. \A l \in Command : (\E k \in DOMAIN command_rx : l = command_rx[k]) => True(l)
  BY DEF RInv, CommandsTrue, True
<1>2. command_rx \in Seq(Command)
  BY DEF RInv, RTypeOK
<1>3. \A k \in DOMAIN command_rx' :
        command_rx'[k] = m \/ \E l \in DOMAIN command_rx : command_rx'[k] = command_rx[l]
  BY <1>2
<1> QED BY <1>1, <1>2, <1>3, TruthStays DEF CommandsMove, RInv, RTypeOK

(* Every step keeps the channel truthful.                                  *)
LEMMA CommandSteps ==
  ASSUME RInv, RNext
  PROVE  CommandsMove
<1>1. ASSUME NEW a \in Addr, UserConnect(a)
      PROVE  CommandsMove
  <2> DEFINE m == [op |-> "connect", addr |-> a]
  <2>1. m \in Command /\ m.op = "connect"
    BY DEF Command
  <2>2. True(m)'
    BY DEF True
  <2> QED BY <1>1, <2>1, <2>2, CommandAdded DEF UserConnect
<1>2. ASSUME UpdateAddr
      PROVE  CommandsMove
  BY <1>2, CommandTaken DEF UpdateAddr
<1>3. ASSUME RemoveConnection
      PROVE  CommandsMove
  BY <1>3, CommandTaken DEF RemoveConnection
<1>4. ASSUME NEW j \in Conn, NEW c \in Cid, Connect(j, c)
      PROVE  CommandsMove
  BY <1>4, CommandTaken DEF Connect
<1>5. ASSUME NEW j \in Conn, NEW c \in Cid, NEW a \in Addr, NEW client \in Client, NEW n \in 0..MaxZeroRtt,
             ReceiveSyn(j, c, a, client, n)
      PROVE  CommandsMove
  <2>1. UNCHANGED <<command_rx, accept_queue>>
    BY <1>5 DEF ReceiveSyn
  <2> QED BY <2>1, CommandsKept DEF RInv, RTypeOK
<1>6. ASSUME Offer
      PROVE  CommandsMove
  <2>1. UNCHANGED command_rx /\ (accept_queue' = accept_queue \/ accept_queue' = Append(accept_queue, actor.to))
    BY <1>6 DEF Offer
  <2>2. actor.to \in Conn
    BY <1>6 DEF Offer, RInv, ActorKnows
  <2>3. accept_queue \in Seq(Conn)
    BY DEF RInv, RTypeOK
  <2>4. Append(accept_queue, actor.to) \in Seq(Conn)
    BY <2>2, <2>3
  <2>5. accept_queue' \in Seq(Conn)
    BY <2>1, <2>3, <2>4
  <2> QED BY <2>1, <2>5, CommandsKept
<1>7. ASSUME Accept
      PROVE  CommandsMove
  <2>1. UNCHANGED command_rx /\ accept_queue # <<>> /\ accept_queue' = Tail(accept_queue)
    BY <1>7 DEF Accept
  <2>2. accept_queue' \in Seq(Conn)
    BY <2>1 DEF RInv, RTypeOK
  <2> QED BY <2>1, <2>2, CommandsKept
<1>8. ASSUME NEW f \in Frame, Dispatch(f)
      PROVE  CommandsMove
  <2>1. UNCHANGED <<command_rx, accept_queue>>
    BY <1>8 DEF Dispatch
  <2> QED BY <2>1, CommandsKept DEF RInv, RTypeOK
<1>9. ASSUME NEW f \in actor.frames, Send(f)
      PROVE  CommandsMove
  <2>1. UNCHANGED <<command_rx, accept_queue>>
    BY <1>9 DEF Send
  <2> QED BY <2>1, CommandsKept DEF RInv, RTypeOK
<1>10. ASSUME SendFails
      PROVE  CommandsMove
  <2>1. UNCHANGED <<command_rx, accept_queue>>
    BY <1>10 DEF SendFails
  <2> QED BY <2>1, CommandsKept DEF RInv, RTypeOK
<1>11. ASSUME NEW ids \in SUBSET draining_pool, NEW old \in SUBSET pending_frames,
             Cleanup(ids, old)
      PROVE  CommandsMove
  <2>1. UNCHANGED <<command_rx, accept_queue>>
    BY <1>11 DEF Cleanup
  <2> QED BY <2>1, CommandsKept DEF RInv, RTypeOK
<1>12. ASSUME NEW j \in Conn, Consume(j)
      PROVE  CommandsMove
  <2>1. UNCHANGED <<command_rx, accept_queue>>
    BY <1>12 DEF Consume
  <2> QED BY <2>1, CommandsKept DEF RInv, RTypeOK
<1>13. ASSUME NEW j \in Conn, ReportAddr(j)
      PROVE  CommandsMove
  <2>1. endpoint[j].cid \in Cid /\ endpoint[j].addr \in Addr /\ endpoint[j].addr \in peer_addrs[j] /\ Born(j)
    BY <1>13 DEF ReportAddr, RInv, RTypeOK, EndpointsPlaced, Born
  <2>2. PICK c \in Cid, a \in Addr : c = endpoint[j].cid /\ a = endpoint[j].addr
    BY <2>1
  <2> DEFINE m == [op |-> "update", conn |-> j, cid |-> c, addr |-> a]
  <2>3. m \in Command
    BY DEF Command
  <2>4. True(m)'
    <3>1. True(m)
      BY <2>1, <2>2 DEF True
    <3> QED BY <2>3, <3>1, TruthStays
  <2> QED BY <1>13, <2>2, <2>3, <2>4, CommandAdded DEF ReportAddr
<1>14. ASSUME NEW j \in Conn, End(j)
      PROVE  CommandsMove
  <2>1. endpoint[j].cid \in Cid
    BY <1>14 DEF End, RInv, EndpointsPlaced, Born
  <2>2. PICK c \in Cid : c = endpoint[j].cid
    BY <2>1
  <2> DEFINE m == [op |-> "remove", conn |-> j, cid |-> c]
  <2>3. m \in Command
    BY DEF Command
  <2>4. endpoint'[j].status = "ended" /\ endpoint'[j].cid = c
    BY <1>14, <2>2 DEF End, RInv, RTypeOK, Endpoint
  <2>5. True(m)'
    BY <2>4 DEF True
  <2>6. CASE command_rx' = Append(command_rx, m)
    BY <1>14, <2>3, <2>5, <2>6, CommandAdded DEF End
  <2>7. CASE command_rx' = command_rx
    BY <1>14, <2>7, CommandsKept DEF End, RInv, RTypeOK
  <2> QED BY <1>14, <2>2, <2>6, <2>7 DEF End
<1>15. ASSUME NEW j \in Conn, NEW a \in Addr, PeerMoves(j, a)
      PROVE  CommandsMove
  <2>1. UNCHANGED <<command_rx, accept_queue>>
    BY <1>15 DEF PeerMoves
  <2> QED BY <2>1, CommandsKept DEF RInv, RTypeOK
<1> QED
  BY <1>1, <1>2, <1>3, <1>4, <1>5, <1>6, <1>7, <1>8, <1>9, <1>10, <1>11, <1>12, <1>13, <1>14, <1>15
     DEF RNext, HandleCommand, EndpointStep

-----------------------------------------------------------------------------
LEMMA ForwardTargetKept ==
  ASSUME RInv, RNext, UNCHANGED <<active_connections, actor>>
  PROVE  ForwardsToRegistered'
<1>1. CASE actor.at = "forward"
  <2>1. Grown(actor.to)
    BY <1>1, Monotone DEF RInv, ActorKnows
  <2> QED BY <2>1 DEF Grown, ForwardsToRegistered, RInv
<1>2. CASE actor.at # "forward"
  BY <1>2 DEF ForwardsToRegistered
<1> QED BY <1>1, <1>2

(* While cached frames are forwarded, the new connection stays registered. *)
LEMMA ForwardSteps ==
  ASSUME RInv, RNext
  PROVE  ForwardsToRegistered'
<1>1. ASSUME NEW a \in Addr, UserConnect(a)
      PROVE  ForwardsToRegistered'
  <2>1. UNCHANGED <<active_connections, actor>>
    BY <1>1 DEF UserConnect, tables
  <2> QED BY <2>1, ForwardTargetKept
<1>2. ASSUME UpdateAddr
      PROVE  ForwardsToRegistered'
  <2>1. actor'.at # "forward"
    BY <1>2 DEF UpdateAddr
  <2> QED BY <2>1 DEF ForwardsToRegistered
<1>3. ASSUME RemoveConnection
      PROVE  ForwardsToRegistered'
  <2>1. actor'.at # "forward"
    BY <1>3 DEF RemoveConnection
  <2> QED BY <2>1 DEF ForwardsToRegistered
<1>4. ASSUME NEW j \in Conn, NEW c \in Cid, Connect(j, c)
      PROVE  ForwardsToRegistered'
  <2>1. PICK a0 \in Addr : a0 = Head(command_rx).addr
    BY <1>4, HeadCommand DEF Connect, RInv
  <2>2. /\ c \in generate_unique_connection_id
        /\ SetTables(register_connection(tables, c, a0, j))
        /\ actor'.to = j /\ endpoint' = [endpoint EXCEPT ![j] = Spawned(c, a0, None)]
    BY <1>4, <2>1 DEF Connect, Register
  <2>3. endpoint'[j].cid = c
    BY <2>2 DEF Spawned, RInv, RTypeOK
  <2> QED BY <2>2, <2>3, RegisterEffect DEF ForwardsToRegistered, RInv
<1>5. ASSUME NEW j \in Conn, NEW c \in Cid, NEW a \in Addr, NEW client \in Client, NEW n \in 0..MaxZeroRtt,
             ReceiveSyn(j, c, a, client, n)
      PROVE  ForwardsToRegistered'
  <2>1. PICK a0 \in Addr : a0 = a
    BY <1>5
  <2>2. /\ c \in generate_unique_connection_id
        /\ SetTables(register_connection(tables, c, a0, j))
        /\ actor'.to = j /\ endpoint' = [endpoint EXCEPT ![j] = Spawned(c, a0, client)]
    BY <1>5, <2>1 DEF ReceiveSyn, Register
  <2>3. endpoint'[j].cid = c
    BY <2>2 DEF Spawned, RInv, RTypeOK
  <2> QED BY <2>2, <2>3, RegisterEffect DEF ForwardsToRegistered, RInv
<1>6. ASSUME Offer
      PROVE  ForwardsToRegistered'
  BY <1>6 DEF Offer, Select, ForwardsToRegistered
<1>7. ASSUME Accept
      PROVE  ForwardsToRegistered'
  <2>1. UNCHANGED <<active_connections, actor>>
    BY <1>7 DEF Accept, tables
  <2> QED BY <2>1, ForwardTargetKept
<1>8. ASSUME NEW f \in Frame, Dispatch(f)
      PROVE  ForwardsToRegistered'
  <2>1. actor'.at # "forward"
    BY <1>8 DEF Dispatch
  <2> QED BY <2>1 DEF ForwardsToRegistered
<1>9. ASSUME NEW f \in actor.frames, Send(f)
      PROVE  ForwardsToRegistered'
  <2>1. UNCHANGED <<active_connections, endpoint>>
    BY <1>9 DEF Send, tables
  <2>2. actor'.at # "forward" \/ (actor'.at = actor.at /\ actor'.to = actor.to)
    BY <1>9 DEF Send, Select, RInv, RTypeOK, Actor
  <2> QED BY <2>1, <2>2 DEF ForwardsToRegistered, RInv
<1>10. ASSUME SendFails
      PROVE  ForwardsToRegistered'
  <2>1. CASE actor' = Select
    BY <2>1 DEF Select, ForwardsToRegistered
  <2>2. CASE actor' = [actor EXCEPT !.frames = {}] /\ UNCHANGED tables
    <3>1. UNCHANGED <<active_connections, endpoint>>
      BY <1>10, <2>2 DEF SendFails, tables
    <3>2. actor'.at = actor.at /\ actor'.to = actor.to
      BY <2>2 DEF RInv, RTypeOK, Actor
    <3> QED BY <3>1, <3>2 DEF ForwardsToRegistered, RInv
  <2> QED BY <1>10, <2>1, <2>2 DEF SendFails
<1>11. ASSUME NEW ids \in SUBSET draining_pool, NEW old \in SUBSET pending_frames,
             Cleanup(ids, old)
      PROVE  ForwardsToRegistered'
  <2>1. actor'.at # "forward"
    BY <1>11 DEF Cleanup
  <2> QED BY <2>1 DEF ForwardsToRegistered
<1>12. ASSUME NEW j \in Conn, Consume(j)
      PROVE  ForwardsToRegistered'
  <2>1. UNCHANGED <<active_connections, actor>>
    BY <1>12 DEF Consume, tables
  <2> QED BY <2>1, ForwardTargetKept
<1>13. ASSUME NEW j \in Conn, ReportAddr(j)
      PROVE  ForwardsToRegistered'
  <2>1. UNCHANGED <<active_connections, actor>>
    BY <1>13 DEF ReportAddr, tables
  <2> QED BY <2>1, ForwardTargetKept
<1>14. ASSUME NEW j \in Conn, End(j)
      PROVE  ForwardsToRegistered'
  <2>1. UNCHANGED <<active_connections, actor>>
    BY <1>14 DEF End, tables
  <2> QED BY <2>1, ForwardTargetKept
<1>15. ASSUME NEW j \in Conn, NEW a \in Addr, PeerMoves(j, a)
      PROVE  ForwardsToRegistered'
  <2>1. UNCHANGED <<active_connections, actor>>
    BY <1>15 DEF PeerMoves, tables
  <2> QED BY <2>1, ForwardTargetKept
<1> QED
  BY <1>1, <1>2, <1>3, <1>4, <1>5, <1>6, <1>7, <1>8, <1>9, <1>10, <1>11, <1>12, <1>13, <1>14, <1>15
     DEF RNext, HandleCommand, EndpointStep

-----------------------------------------------------------------------------
LEMMA RInvInit == RInit => RInv
<1> SUFFICES ASSUME RInit PROVE RInv
  OBVIOUS
<1>1. \A i \in Conn : endpoint[i] = Unborn /\ ~Born(i) /\ inbox[i] = <<>>
  BY DEF RInit, Unborn, Born
<1>2. actor.at = "select" /\ actor.frames = {} /\ actor \in Actor
  BY DEF RInit, Select, Actor
<1>3. RTypeOK
  <2>1. Unborn \in Endpoint
    BY DEF Unborn, Endpoint
  <2> QED BY <1>2, <2>1 DEF RInit, RTypeOK
<1>4. EndpointsPlaced
  BY <1>1 DEF EndpointsPlaced, Unborn
<1>5. FramesGenuine /\ NoStrangers
  BY <1>1, <1>2 DEF RInit, FramesGenuine, NoStrangers
<1>6. AddressesKnown /\ TablesAgree /\ CommandsTrue /\ ActorKnows /\ ForwardsToRegistered
  BY <1>2 DEF RInit, AddressesKnown, TablesAgree, CommandsTrue, ActorKnows, ForwardsToRegistered
<1> QED BY <1>3, <1>4, <1>5, <1>6 DEF RInv

LEMMA RInvStep == RInv /\ [RNext]_vars => RInv'
<1> SUFFICES ASSUME RInv, [RNext]_vars PROVE RInv'
  OBVIOUS
<1>1. CASE UNCHANGED vars
  BY <1>1 DEF vars, RInv, RTypeOK, ActorKnows, EndpointsPlaced, FramesGenuine, Sendable,
     AddressesKnown, CommandsTrue, ForwardsToRegistered, TablesAgree, NoStrangers, KnownTo,
     Namesakes, Born
<1>2. CASE RNext
  <2>1. TablesMove /\ FramesMove /\ EndpointsMove /\ CommandsMove /\ ForwardsToRegistered'
    BY <1>2, TableSteps, FrameSteps, EndpointSteps, CommandSteps, ForwardSteps
  <2>2. RTypeOK'
    BY <2>1 DEF RTypeOK, TablesMove, FramesMove, EndpointsMove, CommandsMove
  <2>3. TablesAgree'
    <3> SUFFICES ASSUME NEW c \in Cid, active_connections'[c] # None
                 PROVE  \E i \in Conn : active_connections'[c] = i /\ Born(i)' /\ endpoint'[i].cid = c
      BY <2>1 DEF TablesAgree, TablesMove, Born
    <3>1. CASE active_connections'[c] = active_connections[c]
      <4>1. PICK i \in Conn : active_connections[c] = i /\ Born(i) /\ endpoint[i].cid = c
        BY <3>1 DEF RInv, RTypeOK, TablesAgree
      <4> QED BY <1>2, <3>1, <4>1, Monotone DEF RInv, Grown
    <3> QED BY <2>1, <3>1 DEF TablesMove
  <2>4. AddressesKnown'
    <3> SUFFICES ASSUME NEW a \in Addr, address_routing'[a] # None
                 PROVE  \E j \in Conn : /\ Born(j)' /\ endpoint'[j].cid = address_routing'[a]
                                        /\ a \in peer_addrs'[j]
      BY DEF AddressesKnown
    <3>1. CASE address_routing'[a] = address_routing[a]
      <4>1. PICK j \in Conn : Born(j) /\ endpoint[j].cid = address_routing[a] /\ a \in peer_addrs[j]
        BY <3>1 DEF RInv, AddressesKnown
      <4> QED BY <1>2, <3>1, <4>1, Monotone DEF RInv, Grown
    <3> QED BY <2>1, <3>1 DEF TablesMove
  <2>5. CommandsTrue'
    BY <2>1 DEF CommandsMove, CommandsTrue, True
  <2>6. \A i \in Conn, f \in Frame : HeldRightly(i, f) => Sendable(f)' /\ KnownTo(i, f.from)'
    <3> SUFFICES ASSUME NEW i \in Conn, NEW f \in Frame, HeldRightly(i, f)
                 PROVE  Sendable(f)' /\ KnownTo(i, f.from)'
      OBVIOUS
    <3>1. CASE Sendable(f) /\ KnownTo(i, f.from)
      <4>1. f.from = f.from /\ KnownTo(i, f.from)'
        BY <1>2, <3>1, KnownStays
      <4> QED BY <1>2, <3>1, <4>1, SendableStays
    <3>2. CASE Sendable(f)' /\ NewAt(i, f.from)
      BY <3>2 DEF NewAt, KnownTo, Namesakes
    <3> QED BY <3>1, <3>2 DEF HeldRightly
  <2>7. /\ \A f \in actor'.frames : actor'.to \in Conn /\ f \in Frame
        /\ \A i \in Conn : \A k \in DOMAIN inbox'[i] : inbox'[i][k] \in Frame
    BY <2>1 DEF FramesMove, Actor, ActorKnows
  <2>8. NoStrangers'
    <3>1. \A i \in Conn : \A k \in DOMAIN inbox'[i] : KnownTo(i, inbox[i][k].from)'
      BY <2>1, <2>6, <2>7 DEF FramesMove, KnownTo, Namesakes, Born
    <3>2. \A f \in actor'.frames : KnownTo(actor.to, f.from)'
      BY <2>1, <2>6, <2>7 DEF FramesMove, KnownTo, Namesakes, Born
    <3> QED BY <3>1, <3>2 DEF NoStrangers
  <2>9. FramesGenuine'
    <3>1. \A f \in pending_frames' \cup actor'.frames : Sendable(f)'
      BY <1>2, <2>1, <2>7, SendableStays DEF FramesMove
    <3>2. \A i \in Conn : \A k \in DOMAIN inbox'[i] : Sendable(inbox[i][k])'
      BY <2>1, <2>6, <2>7 DEF FramesMove, Sendable, Born
    <3> QED BY <3>1, <3>2 DEF FramesGenuine
  <2> QED BY <2>1, <2>2, <2>3, <2>4, <2>5, <2>8, <2>9 DEF RInv, FramesMove, EndpointsMove
<1> QED BY <1>1, <1>2

(* The routing tables, the frames in flight inside the socket and the      *)
(* queued commands stay consistent (FrameRouter, SocketEventLoop).         *)
THEOREM RoutingInvariance == RSpec => []RInv
<1>1. RInit => RInv
  BY RInvInit
<1>2. RInv /\ [RNext]_vars => RInv'
  BY RInvStep
<1> QED BY <1>1, <1>2, PTL DEF RSpec

(* No frame reaches a connection from an address that its peer never used  *)
(* (dispatch_frame, forward_cached_frames).                                *)
THEOREM NoStrangersEver == RSpec => []NoStrangers
<1>1. RInv => NoStrangers
  BY DEF RInv
<1> QED BY <1>1, RoutingInvariance, PTL

(* An id leads to the connection created with it, and is not draining      *)
(* while it does (remove_connection_by_cid, generate_unique_connection_id).*)
THEOREM TablesAlwaysAgree == RSpec => []TablesAgree
<1>1. RInv => TablesAgree
  BY DEF RInv
<1> QED BY <1>1, RoutingInvariance, PTL

(* Why a step unregisters a connection that has not ended.                 *)
LEMMA CutOffSteps ==
  ASSUME RInv, RNext, NEW i \in Conn, Registered(i), endpoint[i].status # "ended",
         ~Registered(i)'
  PROVE  CutOffReason(i)
<1>1. PICK c \in Cid : active_connections[c] = i /\ active_connections'[c] # i
  BY DEF Registered
<1>2. Born(i) /\ endpoint[i].cid = c
  BY <1>1, RoutingAssumption DEF RInv, TablesAgree
<1>3. ASSUME UpdateAddr
      PROVE  FALSE
  <2>1. /\ Head(command_rx).cid \in Cid /\ Head(command_rx).addr \in Addr
        /\ SetTables(update_connection_address(tables, Head(command_rx).cid, Head(command_rx).addr))
    BY <1>3, HeadCommand DEF UpdateAddr, RInv
  <2>2. active_connections' = active_connections
    BY <2>1, UpdateEffect DEF RInv
  <2> QED BY <2>2, <1>1
<1>4. ASSUME RemoveConnection
      PROVE  CutOffReason(i)
  <2>1. /\ Head(command_rx).cid \in Cid /\ Head(command_rx).conn \in Conn
        /\ Head(command_rx).op = "remove"
        /\ 1 \in DOMAIN command_rx /\ command_rx[1] = Head(command_rx)
        /\ SetTables(remove_connection_by_cid(tables, Head(command_rx).cid))
    BY <1>4, HeadCommand DEF RemoveConnection, RInv
  <2>2. Head(command_rx).cid = c
    BY <1>1, <2>1, RemoveEffect DEF RInv
  <2>3. PICK j \in Conn : j = Head(command_rx).conn
    BY <2>1
  <2>4. endpoint[j].status = "ended" /\ endpoint[j].cid = c
    BY <2>1, <2>2, <2>3 DEF RInv, CommandsTrue
  <2> QED BY <1>2, <2>4 DEF CutOffReason, Namesakes, Born
<1>5. ASSUME NEW j \in Conn, NEW d \in generate_unique_connection_id, NEW a \in Addr,
             ~Born(j), Born(j)', endpoint'[j].addr = a,
             SetTables(register_connection(tables, d, a, j))
      PROVE  CutOffReason(i)
  <2>1. c # d
    BY <1>1, RoutingAssumption DEF generate_unique_connection_id
  <2>2. address_routing[a] = c
    BY <1>1, <1>5, <2>1, RegisterEffect DEF RInv
  <2>3. PICK k \in Conn : Born(k) /\ endpoint[k].cid = c /\ a \in peer_addrs[k]
    BY <2>2, RoutingAssumption DEF RInv, AddressesKnown
  <2>4. KnownTo(i, a)
    BY <1>2, <2>3 DEF KnownTo, Namesakes
  <2> QED BY <1>5, <2>4 DEF CutOffReason
<1>6. ASSUME NEW j \in Conn, NEW d \in Cid, Connect(j, d)
      PROVE  CutOffReason(i)
  <2>1. PICK a \in Addr : a = Head(command_rx).addr
    BY <1>6, HeadCommand DEF Connect, RInv
  <2>2. /\ d \in generate_unique_connection_id /\ ~Born(j)
        /\ SetTables(register_connection(tables, d, a, j))
        /\ endpoint' = [endpoint EXCEPT ![j] = Spawned(d, a, None)]
    BY <1>6, <2>1 DEF Connect, Register
  <2>3. Born(j)' /\ endpoint'[j].addr = a
    BY <2>2 DEF Born, Spawned, RInv, RTypeOK
  <2> QED BY <1>5, <2>2, <2>3
<1>7. ASSUME NEW j \in Conn, NEW d \in Cid, NEW a \in Addr, NEW client \in Client,
             NEW n \in 0..MaxZeroRtt, ReceiveSyn(j, d, a, client, n)
      PROVE  CutOffReason(i)
  <2>1. /\ d \in generate_unique_connection_id /\ ~Born(j)
        /\ SetTables(register_connection(tables, d, a, j))
        /\ endpoint' = [endpoint EXCEPT ![j] = Spawned(d, a, client)]
    BY <1>7 DEF ReceiveSyn, Register
  <2>2. Born(j)' /\ endpoint'[j].addr = a
    BY <2>1 DEF Born, Spawned, RInv, RTypeOK
  <2> QED BY <1>5, <2>1, <2>2
<1>8. ASSUME Offer
      PROVE  CutOffReason(i)
  <2>1. SetTables(remove_connection_by_cid(tables, endpoint[actor.to].cid))
    BY <1>1, <1>8 DEF Offer, tables
  <2>2. actor.at = "forward" /\ actor.to \in Conn /\ endpoint[actor.to].cid \in Cid
    BY <1>8 DEF Offer, RInv, ActorKnows, EndpointsPlaced
  <2>3. endpoint[actor.to].cid = c
    BY <1>1, <2>1, <2>2, RemoveEffect DEF RInv
  <2>4. actor.to = i
    BY <1>1, <2>2, <2>3 DEF RInv, ForwardsToRegistered
  <2> QED BY <2>2, <2>4 DEF CutOffReason
<1>9. ASSUME SendFails
      PROVE  CutOffReason(i)
  <2>1. /\ SetTables(remove_connection_by_cid(tables, endpoint[actor.to].cid))
        /\ actor.at = "dispatch" /\ endpoint[actor.to].status = "ended"
    BY <1>1, <1>9 DEF SendFails, tables
  <2>2. PICK j \in Conn : j = actor.to /\ Born(j) /\ endpoint[j].cid \in Cid
    BY <2>1 DEF RInv, ActorKnows, EndpointsPlaced
  <2>3. endpoint[j].cid = c
    BY <1>1, <2>1, <2>2, RemoveEffect DEF RInv
  <2> QED BY <1>2, <2>1, <2>2, <2>3 DEF CutOffReason, Namesakes
<1>10. ASSUME NEW a \in Addr, UserConnect(a)
      PROVE  FALSE
  BY <1>1, <1>10 DEF UserConnect, tables
<1>11. ASSUME Accept
      PROVE  FALSE
  BY <1>1, <1>11 DEF Accept, tables
<1>12. ASSUME NEW f \in Frame, Dispatch(f)
      PROVE  FALSE
  BY <1>1, <1>12 DEF Dispatch
<1>13. ASSUME NEW f \in actor.frames, Send(f)
      PROVE  FALSE
  BY <1>1, <1>13 DEF Send, tables
<1>14. ASSUME NEW ids \in SUBSET draining_pool, NEW old \in SUBSET pending_frames, Cleanup(ids, old)
      PROVE  FALSE
  BY <1>1, <1>14 DEF Cleanup
<1>15. ASSUME NEW j \in Conn, Consume(j)
      PROVE  FALSE
  BY <1>1, <1>15 DEF Consume, tables
<1>16. ASSUME NEW j \in Conn, ReportAddr(j)
      PROVE  FALSE
  BY <1>1, <1>16 DEF ReportAddr, tables
<1>17. ASSUME NEW j \in Conn, End(j)
      PROVE  FALSE
  BY <1>1, <1>17 DEF End, tables
<1>18. ASSUME NEW j \in Conn, NEW a \in Addr, PeerMoves(j, a)
      PROVE  FALSE
  BY <1>1, <1>18 DEF PeerMoves, tables
<1> QED
  BY <1>3, <1>4, <1>6, <1>7, <1>8, <1>9, <1>10, <1>11, <1>12, <1>13, <1>14, <1>15, <1>16, <1>17, <1>18
     DEF RNext, HandleCommand, EndpointStep

(* A connection that has not ended is unregistered only by its refusal at  *)
(* the listener, by a new connection from an address of its peer, or by    *)
(* the end of a connection with the same id (remove_connection_by_cid).    *)
THEOREM CutOffOnlyForAReason == RSpec => CutOffForAReason
<1>1. RInv /\ [RNext]_vars => [CutOffs]_vars
  BY CutOffSteps DEF CutOffs
<1> QED BY <1>1, RoutingInvariance, PTL DEF RSpec, CutOffForAReason
=============================================================================

---------------------------- MODULE SocketRouting ----------------------------
(***************************************************************************)
(* The socket actor of src/socket/event_loop.rs, the FrameRouter and the   *)
(* DrainingPool it owns, and the endpoint tasks as the actor sees them.    *)
(*                                                                         *)
(* The actor takes one event at a time: a command, a datagram or the       *)
(* cleanup tick.  It hands frames to an endpoint through a bounded channel *)
(* and waits there while that channel is full.  An endpoint talks back     *)
(* through the one bounded command channel: it waits there to report a new *)
(* address, and only tries once to report its own end.                     *)
(*                                                                         *)
(* A connection is one Endpoint object, a member of Conn.  A frame is known*)
(* by its destination id, its source address, whether it is a PUSH, and    *)
(* (history) the connection whose peer sent it, or None for the 0-RTT PUSH *)
(* of a client, which may overtake the SYN.  "path" stands for all the     *)
(* frames that are not cached, among them PATH_RESPONSE.  The network may  *)
(* deliver any frame that a peer can have sent, late and repeatedly.       *)
(***************************************************************************)
EXTENDS Naturals, Sequences, FiniteSets

CONSTANTS
  Conn,         (* the connections that may be created (a bound)          *)
  Cid,          (* the connection ids rand::random may return             *)
  Zero,         (* the id 0: a destination that is not known yet          *)
  Addr,         (* remote addresses                                       *)
  Client,       (* source ids of clients that send a SYN                  *)
  None,         (* no entry in a table                                    *)
  InboxCap,     (* capacity of an endpoint's frame channel                *)
  CommandCap,   (* capacity of the command channel                        *)
  AcceptCap,    (* capacity of the listener's channel                     *)
  MaxZeroRtt,   (* bound: 0-RTT frames behind a SYN                       *)
  MaxPending,   (* bound: early frames in the cache                       *)
  MaxMoves,     (* bound: addresses a peer moves to                       *)
  SlowReaders   (* connections whose user may stop reading                *)

ASSUME RoutingAssumption ==
  /\ None \notin Conn \cup Cid \cup Addr \cup Client \cup {Zero}
  /\ InboxCap \in Nat \ {0} /\ CommandCap \in Nat \ {0}
  /\ AcceptCap \in Nat /\ MaxZeroRtt \in Nat /\ MaxPending \in Nat /\ MaxMoves \in Nat
  /\ SlowReaders \subseteq Conn

VARIABLES
  active_connections, (* id -> the connection its sender belongs to        *)
  address_routing,    (* address -> id                                     *)
  draining_pool,      (* ids of removed connections                        *)
  pending_frames,     (* early PUSH frames                                 *)
  command_rx,         (* the actor's command channel                       *)
  accept_queue,       (* server connections waiting for accept()           *)
  actor,              (* where the actor's task is                         *)
  endpoint,           (* the endpoint tasks                                *)
  inbox,              (* an endpoint's frame channel                       *)
  peer_addrs          (* history: addresses the peer has sent from         *)

vars == <<active_connections, address_routing, draining_pool, pending_frames,
          command_rx, accept_queue, actor, endpoint, inbox, peer_addrs>>
tables == <<active_connections, address_routing, draining_pool>>

Frame == [cid : Cid \cup {Zero}, from : Addr, kind : {"push", "path"},
          owner : Conn \cup {None}]
Command ==
       [op : {"connect"}, addr : Addr]
  \cup [op : {"update"}, conn : Conn, cid : Cid, addr : Addr]
  \cup [op : {"remove"}, conn : Conn, cid : Cid]
Endpoint == [status : {"unborn", "running", "updating", "ended"},
             cid : Cid \cup {None}, addr : Addr \cup {None},
             client : Client \cup {None}]
Unborn == [status |-> "unborn", cid |-> None, addr |-> None, client |-> None]
Actor == [at : {"select", "dispatch", "forward"}, to : Conn \cup {None},
          frames : SUBSET Frame]
Select == [at |-> "select", to |-> None, frames |-> {}]

RTypeOK ==
  /\ active_connections \in [Cid -> Conn \cup {None}]
  /\ address_routing \in [Addr -> Cid \cup {None}]
  /\ draining_pool \subseteq Cid
  /\ pending_frames \subseteq Frame
  /\ command_rx \in Seq(Command)
  /\ accept_queue \in Seq(Conn)
  /\ actor \in Actor
  /\ endpoint \in [Conn -> Endpoint]
  /\ inbox \in [Conn -> Seq(Frame)]
  /\ peer_addrs \in [Conn -> SUBSET Addr]

RInit ==
  /\ active_connections = [c \in Cid |-> None]
  /\ address_routing = [a \in Addr |-> None]
  /\ draining_pool = {}
  /\ pending_frames = {}
  /\ command_rx = <<>>
  /\ accept_queue = <<>>
  /\ actor = Select
  /\ endpoint = [i \in Conn |-> Unborn]
  /\ inbox = [i \in Conn |-> <<>>]
  /\ peer_addrs = [i \in Conn |-> {}]

-----------------------------------------------------------------------------
(* The routing tables, as values <<active, addresses, draining>>.          *)

Born(i) == endpoint[i].status # "unborn"
Registered(i) == \E c \in Cid : active_connections[c] = i

(* An address mapped to c, if there is one: the loops over address_routing *)
(* stop at the first hit of a hash map's iteration.                        *)
MappingsOf(routing, c) == {a \in Addr : routing[a] = c}
WithoutOne(routing, c) ==
  IF MappingsOf(routing, c) = {} THEN {routing}
  ELSE {[routing EXCEPT ![a] = None] : a \in MappingsOf(routing, c)}

(* FrameRouter::remove_connection_by_cid.                                  *)
remove_connection_by_cid(t, c) ==
  IF t[1][c] = None THEN {t}
  ELSE {<<[t[1] EXCEPT ![c] = None], r, t[3] \cup {c}>> : r \in WithoutOne(t[2], c)}

(* Mutant: the connection that had the new address is thrown out.          *)
MutantUpdateAddress(t, c, a) ==
  {<<u[1], [u[2] EXCEPT ![a] = c], u[3]>> :
     u \in IF t[2][a] \notin {None, c} THEN remove_connection_by_cid(t, t[2][a]) ELSE {t}}

(* FrameRouter::update_connection_address.                                 *)
update_connection_address(t, c, a) ==
  {<<t[1], [r EXCEPT ![a] = c], t[3]>> : r \in WithoutOne(t[2], c)}

(* The table part of FrameRouter::register_connection; the id is not in    *)
(* use, so an old mapping of the address never names it as registered.     *)
register_connection(t, c, a, i) ==
  {<<[u[1] EXCEPT ![c] = i], [u[2] EXCEPT ![a] = c], u[3]>> :
     u \in IF t[2][a] \notin {None, c} THEN remove_connection_by_cid(t, t[2][a]) ELSE {t}}

(* The tables become one of the values in S.                               *)
SetTables(S) == \E t \in S :
  active_connections' = t[1] /\ address_routing' = t[2] /\ draining_pool' = t[3]

(* Mutant: the draining pool is not consulted.                             *)
MutantGenerateId == {c \in Cid : active_connections[c] = None}

(* generate_unique_connection_id: any id that is neither active nor draining. *)
generate_unique_connection_id ==
  {c \in Cid : active_connections[c] = None /\ c \notin draining_pool}

(* Mutant: the source address of a cached frame is not compared.           *)
MutantForwardable(c, a) == {f \in pending_frames : f.cid \in {c, Zero}}

(* The cached frames that forward_cached_frames hands to connection id c   *)
(* at address a: those under the key of c and those under the key of a     *)
(* (id 0), as far as they came from a.  The others stay.                   *)
Forwardable(c, a) == {f \in pending_frames : f.from = a /\ f.cid \in {c, Zero}}

-----------------------------------------------------------------------------
(* New connections                                                         *)

Spawned(c, a, client) ==
  [status |-> "running", cid |-> c, addr |-> a, client |-> client]

(* Bound: an endpoint is left for every queued connect() and for one more. *)
Spare == Cardinality({i \in Conn : ~Born(i)})
           > Cardinality({k \in DOMAIN command_rx : command_rx[k].op = "connect"})

(* Registration: the tables, and the frames that are to be forwarded.      *)
Register(i, c, a) ==
  /\ SetTables(register_connection(tables, c, a, i))
  /\ pending_frames' = pending_frames \ Forwardable(c, a)
  /\ actor' = [at |-> "forward", to |-> i, frames |-> Forwardable(c, a)]
  /\ peer_addrs' = [peer_addrs EXCEPT ![i] = {a}]

(* The user calls connect(): the command waits for room in the channel.    *)
UserConnect(a) ==
  /\ Len(command_rx) < CommandCap /\ Spare
  /\ command_rx' = Append(command_rx, [op |-> "connect", addr |-> a])
  /\ UNCHANGED <<tables, pending_frames, accept_queue, actor, endpoint, inbox, peer_addrs>>

(* Command Connect: create_client_connection.                              *)
Connect(i, c) ==
  /\ actor.at = "select"
  /\ command_rx # <<>> /\ Head(command_rx).op = "connect"
  /\ ~Born(i) /\ c \in generate_unique_connection_id
  /\ endpoint' = [endpoint EXCEPT ![i] = Spawned(c, Head(command_rx).addr, None)]
  /\ Register(i, c, Head(command_rx).addr)
  /\ command_rx' = Tail(command_rx)
  /\ UNCHANGED <<accept_queue, inbox>>

(* The n PUSH frames behind a SYN from a, as far as the new channel holds  *)
(* them; the others are dropped.                                           *)
handle_zero_rtt_frames(a, n) ==
  [k \in 1..(IF n <= InboxCap THEN n ELSE InboxCap) |->
     [cid |-> Zero, from |-> a, kind |-> "push", owner |-> None]]

(* A datagram that begins with a SYN: handle_new_connection.  The address  *)
(* table is not consulted.                                                 *)
ReceiveSyn(i, c, a, client, n) ==
  /\ actor.at = "select" /\ Spare
  /\ ~Born(i) /\ c \in generate_unique_connection_id
  /\ endpoint' = [endpoint EXCEPT ![i] = Spawned(c, a, client)]
  /\ inbox' = [inbox EXCEPT ![i] = handle_zero_rtt_frames(a, n)]
  /\ Register(i, c, a)
  /\ UNCHANGED <<command_rx, accept_queue>>

(* The end of a registration.  A server connection is offered to the       *)
(* listener; without room there it is removed again, and its endpoint is   *)
(* left to time out.                                                       *)
Offer ==
  /\ actor.at = "forward" /\ actor.frames = {}
  /\ actor' = Select
  /\ \/ /\ endpoint[actor.to].client = None
        /\ UNCHANGED <<tables, accept_queue>>
     \/ /\ endpoint[actor.to].client # None
        /\ Len(accept_queue) < AcceptCap
        /\ accept_queue' = Append(accept_queue, actor.to)
        /\ UNCHANGED tables
     \/ /\ endpoint[actor.to].client # None
        /\ Len(accept_queue) >= AcceptCap
        /\ SetTables(remove_connection_by_cid(tables, endpoint[actor.to].cid))
        /\ UNCHANGED accept_queue
  /\ UNCHANGED <<pending_frames, command_rx, endpoint, inbox, peer_addrs>>

Accept ==
  /\ accept_queue # <<>>
  /\ accept_queue' = Tail(accept_queue)
  /\ UNCHANGED <<tables, pending_frames, command_rx, actor, endpoint, inbox, peer_addrs>>

-----------------------------------------------------------------------------
(* Frames                                                                  *)

(* What the network may bring: a frame to the id of a connection, from an  *)
(* address its peer has used, or a client's 0-RTT PUSH, its SYN seen or    *)
(* not (external).                                                         *)
Sendable(f) ==
  \/ /\ f.owner \in Conn /\ Born(f.owner)
     /\ f.from \in peer_addrs[f.owner] /\ f.cid = endpoint[f.owner].cid
  \/ f.owner = None /\ f.cid = Zero /\ f.kind = "push"

(* dispatch_frame, first by id, then by address.                           *)
ByCid(f) == f.cid # Zero /\ f.cid \in Cid /\ active_connections[f.cid] # None
AddrCid(f) == address_routing[f.from]
ByAddr(f) == AddrCid(f) # None /\ active_connections[AddrCid(f)] # None

Dispatch(f) ==
  /\ actor.at = "select" /\ Sendable(f)
  /\ \/ /\ ByCid(f)
        /\ actor' = [at |-> "dispatch", to |-> active_connections[f.cid], frames |-> {f}]
        /\ UNCHANGED <<address_routing, pending_frames>>
     \/ /\ ~ByCid(f) /\ ByAddr(f)
        /\ actor' = [at |-> "dispatch", to |-> active_connections[AddrCid(f)], frames |-> {f}]
        /\ UNCHANGED <<address_routing, pending_frames>>
     \/ /\ ~ByCid(f) /\ ~ByAddr(f)
        /\ address_routing' = [address_routing EXCEPT ![f.from] = None]
        /\ pending_frames' = IF f.kind = "push" /\ f.cid \notin draining_pool
                             THEN pending_frames \cup {f} ELSE pending_frames
        /\ Cardinality(pending_frames') <= MaxPending
        /\ UNCHANGED actor
  /\ UNCHANGED <<active_connections, draining_pool, command_rx, accept_queue,
                 endpoint, inbox, peer_addrs>>

(* sender.send(frame).await: the actor waits while the channel is full.    *)
Send(f) ==
  /\ f \in actor.frames
  /\ endpoint[actor.to].status # "ended"
  /\ Len(inbox[actor.to]) < InboxCap
  /\ inbox' = [inbox EXCEPT ![actor.to] = Append(@, f)]
  /\ actor' = IF actor.at = "dispatch" THEN Select
              ELSE [actor EXCEPT !.frames = @ \ {f}]
  /\ UNCHANGED <<tables, pending_frames, command_rx, accept_queue, endpoint, peer_addrs>>

(* Mutant: a failed forward is tried again.                                *)
MutantSendFails ==
  /\ actor.frames # {}
  /\ endpoint[actor.to].status = "ended"
  /\ actor.at = "dispatch"
  /\ SetTables(remove_connection_by_cid(tables, endpoint[actor.to].cid))
  /\ actor' = Select
  /\ UNCHANGED <<pending_frames, command_rx, accept_queue, endpoint, inbox, peer_addrs>>

(* The send fails because the endpoint is gone: dispatch_frame removes the *)
(* connection; forward_cached_frames drops the frames it took, and of the  *)
(* ones that do not match its address those behind the failure.            *)
SendFails ==
  /\ actor.frames # {}
  /\ endpoint[actor.to].status = "ended"
  /\ \/ /\ actor.at = "dispatch"
        /\ SetTables(remove_connection_by_cid(tables, endpoint[actor.to].cid))
        /\ actor' = Select
        /\ UNCHANGED pending_frames
     \/ /\ actor.at = "forward"
        /\ actor' = [actor EXCEPT !.frames = {}]
        /\ \E lost \in SUBSET {f \in pending_frames :
                f.cid # Zero /\ f.cid = endpoint[actor.to].cid} :
             pending_frames' = pending_frames \ lost
        /\ UNCHANGED tables
  /\ UNCHANGED <<command_rx, accept_queue, endpoint, inbox, peer_addrs>>

-----------------------------------------------------------------------------
(* The other commands, and the cleanup tick                                *)

UpdateAddr ==
  /\ actor.at = "select"
  /\ command_rx # <<>> /\ Head(command_rx).op = "update"
  /\ SetTables(update_connection_address(tables, Head(command_rx).cid, Head(command_rx).addr))
  /\ command_rx' = Tail(command_rx)
  /\ UNCHANGED <<pending_frames, accept_queue, actor, endpoint, inbox, peer_addrs>>

RemoveConnection ==
  /\ actor.at = "select"
  /\ command_rx # <<>> /\ Head(command_rx).op = "remove"
  /\ SetTables(remove_connection_by_cid(tables, Head(command_rx).cid))
  /\ command_rx' = Tail(command_rx)
  /\ UNCHANGED <<pending_frames, accept_queue, actor, endpoint, inbox, peer_addrs>>

(* cleanup_draining_pool and cleanup_expired_frames: what has been kept    *)
(* for its time is dropped.  Time is left out, so that is any part of it.  *)
Cleanup(ids, old) ==
  /\ actor.at = "select"
  /\ draining_pool' = draining_pool \ ids
  /\ pending_frames' = pending_frames \ old
  /\ UNCHANGED <<active_connections, address_routing, command_rx, accept_queue,
                 actor, endpoint, inbox, peer_addrs>>

-----------------------------------------------------------------------------
(* The endpoint tasks and their peers                                      *)

(* The endpoint takes a frame.  A frame that is not a PUSH may be the      *)
(* PATH_RESPONSE to its own challenge; from a new address it sets          *)
(* remote_addr, and then the endpoint waits to report it.  An endpoint     *)
(* that waits for its user to read is one that takes no step.              *)
Migrates(i, f) == f.kind = "path" /\ f.owner = i /\ f.from # endpoint[i].addr
Moved(e, a) == [status |-> "updating", cid |-> e.cid, addr |-> a, client |-> e.client]
Consume(i) ==
  /\ endpoint[i].status = "running" /\ inbox[i] # <<>>
  /\ inbox' = [inbox EXCEPT ![i] = Tail(@)]
  /\ \/ /\ Migrates(i, Head(inbox[i]))
        /\ endpoint' = [endpoint EXCEPT ![i] = Moved(@, Head(inbox[i]).from)]
     \/ UNCHANGED endpoint
  /\ UNCHANGED <<tables, pending_frames, command_rx, accept_queue, actor, peer_addrs>>

ReportAddr(i) ==
  /\ endpoint[i].status = "updating"
  /\ Len(command_rx) < CommandCap
  /\ command_rx' = Append(command_rx, [op |-> "update", conn |-> i,
                                       cid |-> endpoint[i].cid, addr |-> endpoint[i].addr])
  /\ endpoint' = [endpoint EXCEPT ![i].status = "running"]
  /\ UNCHANGED <<tables, pending_frames, accept_queue, actor, inbox, peer_addrs>>

(* Mutant: the end is not reported.                                        *)
MutantEnd(i) ==
  /\ endpoint[i].status = "running"
  /\ endpoint' = [endpoint EXCEPT ![i].status = "ended"]
  /\ inbox' = [inbox EXCEPT ![i] = <<>>]
  /\ UNCHANGED <<tables, pending_frames, command_rx, accept_queue, actor, peer_addrs>>

(* run() returns (close, idle timeout, error): ConnectionCleaner tries to  *)
(* send RemoveConnection once and the frame channel is dropped.            *)
End(i) ==
  /\ endpoint[i].status = "running"
  /\ endpoint' = [endpoint EXCEPT ![i].status = "ended"]
  /\ inbox' = [inbox EXCEPT ![i] = <<>>]
  /\ command_rx' = IF Len(command_rx) < CommandCap
                   THEN Append(command_rx, [op |-> "remove", conn |-> i, cid |-> endpoint[i].cid])
                   ELSE command_rx
  /\ UNCHANGED <<tables, pending_frames, accept_queue, actor, peer_addrs>>

(* The peer of a connection goes on from another address (external).       *)
PeerMoves(i, a) ==
  /\ Born(i) /\ a \notin peer_addrs[i]
  /\ Cardinality(peer_addrs[i]) <= MaxMoves
  /\ peer_addrs' = [peer_addrs EXCEPT ![i] = @ \cup {a}]
  /\ UNCHANGED <<tables, pending_frames, command_rx, accept_queue, actor, endpoint, inbox>>

-----------------------------------------------------------------------------
HandleCommand == UpdateAddr \/ RemoveConnection \/ \E i \in Conn, c \in Cid : Connect(i, c)
EndpointStep(i) == Consume(i) \/ ReportAddr(i)

RNext ==
  \/ \E a \in Addr : UserConnect(a)
  \/ HandleCommand
  \/ \E i \in Conn, c \in Cid, a \in Addr, client \in Client, n \in 0..MaxZeroRtt :
       ReceiveSyn(i, c, a, client, n)
  \/ Offer
  \/ Accept
  \/ \E f \in Frame : Dispatch(f)
  \/ \E f \in actor.frames : Send(f)
  \/ SendFails
  \/ \E ids \in SUBSET draining_pool, old \in SUBSET pending_frames : Cleanup(ids, old)
  \/ \E i \in Conn : EndpointStep(i)
  \/ \E i \in Conn : End(i)
  \/ \E i \in Conn, a \in Addr : PeerMoves(i, a)

RSpec == RInit /\ [][RNext]_vars

-----------------------------------------------------------------------------
(* Properties                                                              *)

(* The connections that were given the same id; with random 32-bit ids     *)
(* usually i alone.                                                        *)
Namesakes(i) == {j \in Conn : Born(j) /\ endpoint[j].cid = endpoint[i].cid}
KnownTo(i, a) == \E j \in Namesakes(i) : a \in peer_addrs[j]

(* A frame reaches a connection only if it came from an address that the   *)
(* connection's peer has used, whatever was registered, migrated, removed  *)
(* and forgotten in between (dispatch_frame, forward_cached_frames).       *)
NoStrangers ==
  /\ \A i \in Conn : \A k \in DOMAIN inbox[i] : KnownTo(i, inbox[i][k].from)
  /\ \A f \in actor.frames : KnownTo(actor.to, f.from)

(* The tables agree: an id leads to the connection that was created with   *)
(* it, and is not draining while it does (remove_connection_by_cid,        *)
(* generate_unique_connection_id).                                         *)
TablesAgree ==
  \A c \in Cid : active_connections[c] # None =>
    /\ Born(active_connections[c]) /\ endpoint[active_connections[c]].cid = c
    /\ c \notin draining_pool

(* The inductive invariant: besides the two above, every frame that is kept *)
(* somewhere is one the network may bring, every mapped address was used   *)
(* by the peer of a connection with that id, a queued command tells the    *)
(* truth about the connection it names, the actor waits only for one that  *)
(* exists, and forwards only to one that is registered.                    *)
FramesGenuine ==
  /\ \A f \in pending_frames \cup actor.frames : Sendable(f)
  /\ \A i \in Conn : \A k \in DOMAIN inbox[i] : Sendable(inbox[i][k])
AddressesKnown ==
  \A a \in Addr : address_routing[a] # None =>
    \E j \in Conn : Born(j) /\ endpoint[j].cid = address_routing[a] /\ a \in peer_addrs[j]
CommandsTrue ==
  \A k \in DOMAIN command_rx :
    /\ command_rx[k].op = "update" =>
         /\ Born(command_rx[k].conn) /\ endpoint[command_rx[k].conn].cid = command_rx[k].cid
         /\ command_rx[k].addr \in peer_addrs[command_rx[k].conn]
    /\ command_rx[k].op = "remove" =>
         /\ endpoint[command_rx[k].conn].status = "ended"
         /\ endpoint[command_rx[k].conn].cid = command_rx[k].cid
EndpointsPlaced ==
  \A i \in Conn : IF Born(i) THEN endpoint[i].cid \in Cid /\ endpoint[i].addr \in peer_addrs[i]
                            ELSE endpoint[i].cid = None
ActorKnows ==
  /\ actor.at # "select" => actor.to \in Conn /\ Born(actor.to)
  /\ actor.at = "select" => actor.frames = {}
ForwardsToRegistered ==
  actor.at = "forward" => active_connections[endpoint[actor.to].cid] = actor.to

(* The conjunction; what it says of the code is said by its parts          *)
(* (FrameRouter, SocketEventLoop).                                         *)
RInv ==
  /\ RTypeOK /\ ActorKnows /\ EndpointsPlaced /\ FramesGenuine /\ AddressesKnown
  /\ CommandsTrue /\ ForwardsToRegistered /\ TablesAgree /\ NoStrangers

(* What may unregister a connection.                                       *)
CutOffReason(i) ==
  \/ actor.to = i /\ actor.at = "forward"
  \/ \E j \in Conn : ~Born(j) /\ Born(j)' /\ KnownTo(i, endpoint'[j].addr)
  \/ \E j \in Namesakes(i) : endpoint[j].status = "ended"
CutOffs ==
  \A i \in Conn : Registered(i) /\ endpoint[i].status # "ended" /\ ~Registered(i)' => CutOffReason(i)
(* A connection that has not ended is unregistered only by its own refusal *)
(* at the listener, by a new connection from an address its peer has used, *)
(* or by the end of another connection with the same id                    *)
(* (remove_connection_by_cid and its callers).                             *)
CutOffForAReason == [][CutOffs]_vars

(* The tasks run, channels hand out what they hold, and the select does    *)
(* not starve its branches.  Nothing is assumed of users and peers, nor of *)
(* an endpoint whose user may stop reading.                                *)
RFairness ==
  /\ SF_vars(HandleCommand)
  /\ WF_vars(Offer)
  /\ SF_vars(\E f \in actor.frames : Send(f))
  /\ WF_vars(SendFails)
  /\ \A i \in Conn \ SlowReaders : WF_vars(EndpointStep(i))
RFairSpec == RSpec /\ RFairness

(* An endpoint that has ended leaves the tables (ConnectionCleaner,        *)
(* RemoveConnection).                                                      *)
EndedIsRemoved == \A i \in Conn : endpoint[i].status = "ended" ~> ~Registered(i)

(* The actor does not stay in one send for ever: it comes back to its      *)
(* select for the other connections (event_loop::run).                     *)
ActorReturns == actor.at # "select" ~> actor.at = "select"
=============================================================================

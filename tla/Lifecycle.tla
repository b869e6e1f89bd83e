------------------------------ MODULE Lifecycle ------------------------------
(***************************************************************************)
(* The life of one connection: handshake with early data, migration of     *)
(* either side to another address, and the end, by close or by timeout.    *)
(*                                                                         *)
(* An endpoint is the record of what src/core/endpoint/ keeps of it, and   *)
(* every handler is an operator from an endpoint to the endpoint it leaves *)
(* and the frames it sends.  As in Connection, the loop takes an event,    *)
(* drains what else is ready on that channel, and runs its tail.           *)
(*                                                                         *)
(* The network keeps every datagram for ever: one is received late, more   *)
(* than once, in any order, or never, but only while its receiver is at the*)
(* address it was sent to.  Windows and losses of congestion are the       *)
(* subject of Connection: here everything in the send buffer goes out.     *)
(***************************************************************************)
EXTENDS Naturals, FiniteSets, Sequences

CONSTANTS
  None,
  Addr,          (* the addresses                                          *)
  Home,          (* side -> the addresses it can be at                     *)
  Start,         (* side -> the one it starts at                           *)
  InitialData,   (* how many units connect() may be called with            *)
  MaxSends,      (* bound: side -> units its user sends later              *)
  MaxEvents,     (* bound: changes of address and calls of migrate or close*)
  MaxSeq,        (* bound: side -> its sequence numbers                    *)
  Migrators,     (* the sides whose user may call migrate()                *)
  Closers,       (* the sides whose user may close                         *)
  Firing         (* side -> the timers that may fire                       *)

Side == {"client", "server"}
Timers == {"idle", "conn", "path"}
Peer(s) == IF s = "client" THEN "server" ELSE "client"

ASSUME LifecycleAssumption ==
  /\ None \notin Addr /\ None \notin Nat
  /\ Home \in [Side -> SUBSET Addr]
  /\ Start \in [Side -> Addr] /\ \A s \in Side : Start[s] \in Home[s]
  /\ InitialData \subseteq Nat /\ InitialData # {}
  /\ MaxSends \in [Side -> Nat] /\ MaxEvents \in Nat /\ MaxSeq \in [Side -> Nat]
  /\ Migrators \subseteq Side /\ Closers \subseteq Side
  /\ Firing \in [Side -> SUBSET Timers]

VARIABLES
  endpoint,   (* the two endpoints                                        *)
  where,      (* the address a side is at                                 *)
  net,        (* the datagrams sent so far                                *)
  moves       (* changes of address so far                                *)

vars == <<endpoint, where, net, moves>>

States == {"Unborn", "Connecting", "SynReceived", "Established", "ValidatingPath",
           "Closing", "ClosingWait", "FinWait", "Closed"}

NewEndpoint(state, remote, timers) ==
  [state |-> state, loop |-> "select", remote |-> remote,
   peer_cid |-> state = "SynReceived",     (* is the peer's id known?      *)
   new_addr |-> None, challenge |-> None,  (* of ValidatingPath            *)
   notifier |-> FALSE,                     (* of ValidatingPath            *)
   migrate |-> "none",                     (* what migrate() has returned  *)
   seq |-> 0, buf |-> 0, flight |-> {}, fin |-> None,
   got |-> {}, fins |-> {}, next |-> 0, eof |-> FALSE,
   armed |-> timers, expired |-> {}, aborted |-> FALSE,
   sends |-> 0, closed |-> FALSE,          (* history: calls of the user   *)
   seen |-> {}]                            (* history: where the peer has  *)
                                           (* been during the validation   *)

(* Mutant: the client does not register a connection timeout.              *)
MutantNewClient == [NewEndpoint("Connecting", Start["server"], {"idle"}) EXCEPT !.loop = "start"]

(* new_client and new_server: the idle timer is registered here and nowhere*)
(* else.                                                                   *)
new_client ==
  [NewEndpoint("Connecting", Start["server"], {"idle", "conn"}) EXCEPT !.loop = "start"]
new_server(src) == NewEndpoint("SynReceived", src, {"idle"})

Init ==
  /\ endpoint = [s \in Side |-> IF s = "client" THEN new_client
                                ELSE NewEndpoint("Unborn", None, {})]
  /\ where = Start
  /\ net = {}
  /\ moves = 0

(* A frame of s.  Before the SYN-ACK the client has no id to address.      *)
Frame(s, e, kind, dst, n) ==
  [kind |-> kind, to |-> Peer(s), src |-> where[s], dst |-> dst, n |-> n,
   got |-> IF kind = "ack" THEN e.got ELSE {}, cid0 |-> ~e.peer_cid]

Sending(e, out) == [e |-> e, out |-> out]
Then(r, op(_)) == LET t == op(r.e) IN Sending(t.e, r.out \cup t.out)

-----------------------------------------------------------------------------
(* The lifecycle manager.                                                  *)

is_valid_transition(from, to) ==
  \/ to = "Closed" \/ to = from
  \/ from = "Connecting" /\ to \in {"Established", "Closing"}
  \/ from = "SynReceived" /\ to \in {"Established", "FinWait", "Closing"}
  \/ from = "Established" /\ to \in {"FinWait", "Closing", "ValidatingPath"}
  \/ from = "ValidatingPath" /\ to \in {"Established", "FinWait", "Closing"}
  \/ from = "FinWait" /\ to = "Closing"
  \/ from = "Closing" /\ to = "ClosingWait"

can_start_path_validation(e) == e.state = "Established"

(* ConnectionState::clone: a copy of ValidatingPath has no notifier.       *)
clone(e) == [e EXCEPT !.notifier = FALSE]

(* execute_transition: the old state goes, with a notifier nobody has used:*)
(* then migrate() fails.  An invalid transition is an error.               *)
execute_transition(e, to) ==
  [e EXCEPT !.state = to, !.new_addr = None, !.challenge = None, !.seen = {},
            !.notifier = FALSE, !.migrate = IF e.notifier THEN "failed" ELSE @]
transition_to(e, to) ==
  IF ~is_valid_transition(e.state, to) THEN e
  ELSE IF to # "ValidatingPath" /\ clone(e).notifier
    THEN [execute_transition(e, to) EXCEPT !.migrate = "failed"]
  ELSE execute_transition(e, to)

(* transition_state(..)? : an error ends run().                            *)
TransitionOrAbort(e, to) ==
  IF is_valid_transition(e.state, to) THEN transition_to(e, to)
  ELSE [e EXCEPT !.aborted = TRUE]

begin_graceful_shutdown(e) ==
  IF e.state \in {"Closing", "ClosingWait", "Closed"} THEN e
  ELSE execute_transition(e, "Closing")

(* force_close, then run() returns an error.                               *)
force_close(e) == [transition_to(e, "Closed") EXCEPT !.aborted = TRUE]

start_path_validation(s, e, addr, n, notifier) ==
  [transition_to(e, "ValidatingPath") EXCEPT
     !.new_addr = addr, !.challenge = n, !.seen = {where[Peer(s)]},
     !.notifier = notifier, !.migrate = IF notifier THEN "pending" ELSE @]

complete_path_validation(e) == TransitionOrAbort(e, "Established")

-----------------------------------------------------------------------------
(* Sending.                                                                *)

(* packetize_and_send: number the buffer, and in Closing a FIN.            *)
packetize_and_send(s, e) ==
  LET pushes == e.seq .. e.seq + e.buf - 1
      last == e.seq + e.buf
      fin == e.state = "Closing" /\ e.fin = None
  IN Sending([e EXCEPT !.seq = IF fin THEN last + 1 ELSE last, !.buf = 0,
                       !.flight = @ \cup pushes, !.fin = IF fin THEN last ELSE @],
             {Frame(s, e, "push", e.remote, n) : n \in pushes}
               \cup (IF fin THEN {Frame(s, e, "fin", e.remote, last)} ELSE {}))

(* A challenge takes a sequence number, is sent once and not tracked.  Its *)
(* 64 random bits are that number.                                         *)
SendChallenge(s, e, addr) ==
  Sending([e EXCEPT !.seq = @ + 1], {Frame(s, e, "challenge", addr, e.seq)})

-----------------------------------------------------------------------------
(* Frames.                                                                 *)

(* Mutant: the validation is not timed.                                    *)
MutantCheckPathMigration(s, e, src) ==
  IF src # e.remote /\ e.state = "Established"
    THEN SendChallenge(s, start_path_validation(s, e, src, e.seq, FALSE), src)
    ELSE Sending(e, {})

(* check_path_migration: a frame from elsewhere, in Established only.      *)
check_path_migration(s, e, src) ==
  IF src # e.remote /\ e.state = "Established"
    THEN SendChallenge(s,
           [start_path_validation(s, e, src, e.seq, FALSE) EXCEPT !.armed = @ \cup {"path"}],
           src)
    ELSE Sending(e, {})

Accepts(e, n) == ~e.eof /\ n \notin e.got
WithAck(s, e) == Sending(e, {Frame(s, e, "ack", e.remote, 0)})

(* handle_push_in_*: early data is taken without an acknowledgement.       *)
handle_push(s, e, n) ==
  LET taken == [e EXCEPT !.got = @ \cup {n}] IN
  IF ~Accepts(e, n) THEN Sending(e, {})
  ELSE IF e.state = "SynReceived" THEN Sending(taken, {})
  ELSE WithAck(s, taken)

process_push(s, e, f) ==
  IF e.state = "Connecting" THEN Sending(e, {}) ELSE handle_push(s, e, f.n)

(* handle_fin_frame: Established waits for reassembly, the others move on  *)
(* with any FIN that is new.                                               *)
process_fin(s, e, f) ==
  LET taken == [e EXCEPT !.got = @ \cup {f.n}, !.fins = @ \cup {f.n}]
      moved == CASE e.state \in {"SynReceived", "ValidatingPath"} -> transition_to(taken, "FinWait")
                 [] e.state = "Closing" -> transition_to(taken, "ClosingWait")
                 [] OTHER -> taken
  IN IF e.state \in {"Connecting", "ClosingWait"} \/ ~Accepts(e, f.n) THEN Sending(e, {})
     ELSE Sending(moved, WithAck(s, taken).out)

(* process_ack_common, the same in every state that takes an ACK.  What it *)
(* resends at once, Timeout may resend at any moment.                      *)
process_ack_common(e, f) ==
  [e EXCEPT !.flight = @ \ f.got, !.fin = IF @ \in f.got THEN None ELSE @]

process_ack(s, e, f) ==
  Sending(IF e.state = "Connecting" THEN e ELSE process_ack_common(e, f), {})

(* handle_syn_ack_frame.  Nothing has been received yet, so there is no    *)
(* acknowledgement to send.                                                *)
process_syn_ack(s, e, f) ==
  IF e.state # "Connecting" THEN Sending(e, {})
  ELSE packetize_and_send(s, [TransitionOrAbort(e, "Established") EXCEPT
                                !.peer_cid = TRUE, !.armed = @ \ {"conn"}])

(* handle_path_challenge_frame: answered to where it came from.            *)
process_challenge(s, e, f) == Sending(e, {Frame(s, e, "response", f.src, f.n)})

(* Mutant: any response from the new address will do.                      *)
MutantProcessResponse(s, e, f) ==
  IF e.state = "ValidatingPath" /\ f.src = e.new_addr
    THEN Sending([complete_path_validation(e) EXCEPT !.remote = e.new_addr], {})
    ELSE Sending(e, {})

(* handle_path_response_frame, on a copy of the state.  The timer stays.   *)
process_response(s, e, f) ==
  LET context == clone(e)
      done == [complete_path_validation(e) EXCEPT !.remote = e.new_addr]
  IN IF e.state = "ValidatingPath" /\ f.src = context.new_addr /\ f.n = context.challenge
       THEN Sending(IF context.notifier THEN [done EXCEPT !.migrate = "ok"] ELSE done, {})
       ELSE Sending(e, {})

(* The processors of connection and of path frames.  (A SYN never gets to  *)
(* one: the socket takes it.)                                              *)
process_connection_frame(s, e, f) ==
  IF f.kind = "fin" THEN process_fin(s, e, f) ELSE process_syn_ack(s, e, f)
process_path_frame(s, e, f) ==
  IF f.kind = "challenge" THEN process_challenge(s, e, f) ELSE process_response(s, e, f)

process_frame(s, e, f) ==
  CASE f.kind = "push" -> process_push(s, e, f)
    [] f.kind = "ack" -> process_ack(s, e, f)
    [] f.kind \in {"fin", "synack"} -> process_connection_frame(s, e, f)
    [] f.kind \in {"challenge", "response"} -> process_path_frame(s, e, f)

(* route_frame.                                                            *)
route_frame(s, e, f) ==
  Then(check_path_migration(s, e, f.src), LAMBDA c : process_frame(s, c, f))

-----------------------------------------------------------------------------
(* The steps of an endpoint.                                               *)

Events == moves + Cardinality({s \in Side : endpoint[s].closed})
                + Cardinality({s \in Side : endpoint[s].migrate # "none"})

Live(s) == endpoint[s].state \notin {"Unborn", "Closed"} /\ ~endpoint[s].aborted
CanTake(s, source) == Live(s) /\ endpoint[s].loop \in {"select", source}

(* Endpoint s becomes r.e at place `loop`, and what it sends is on its way.*)
Step(s, r, loop) ==
  /\ r.e.seq <= MaxSeq[s]
  /\ endpoint' = [endpoint EXCEPT ![s] = [r.e EXCEPT !.loop = loop]]
  /\ net' = net \cup r.out
  /\ UNCHANGED <<where, moves>>

(* The datagram reaches the socket of its receiver, which knows the        *)
(* connection by its id or, without one, by the address it came from.      *)
Arrives(f) == f.dst = where[f.to] /\ (f.cid0 => f.src = endpoint[f.to].remote)

(* (A frame that leaves the endpoint as it is, and whose answer is in the  *)
(* network already, is not taken: the tail of the loop has nothing to do   *)
(* after it.)                                                              *)
Receive(f) ==
  LET r == route_frame(f.to, endpoint[f.to], f) IN
  /\ f.kind # "syn" /\ Arrives(f)
  /\ CanTake(f.to, "frames")
  /\ r.e # endpoint[f.to] \/ ~(r.out \subseteq net)
  /\ Step(f.to, r, "frames")

(* run, before the loop: send_initial_syn with the data of connect().      *)
SendInitialSyn(n) ==
  LET e == [endpoint["client"] EXCEPT !.buf = n] IN
  /\ e.loop = "start"
  /\ Step("client",
          Then(Sending(e, {Frame("client", e, "syn", e.remote, 0)}),
               LAMBDA c : packetize_and_send("client", c)),
          "select")

(* The listener's socket creates the endpoint of a SYN.                    *)
AcceptSyn(f) ==
  /\ f.kind = "syn" /\ f.dst = where["server"]
  /\ endpoint["server"].state = "Unborn"
  /\ endpoint' = [endpoint EXCEPT !["server"] = new_server(f.src)]
  /\ UNCHANGED <<where, net, moves>>

(* Mutant: the server answers but stays in SynReceived.                    *)
MutantSendData(s, e) ==
  LET written == [e EXCEPT !.buf = @ + 1, !.sends = @ + 1] IN
  IF e.state = "SynReceived"
    THEN Then(Sending(written, {Frame(s, e, "synack", e.remote, 0)}),
              LAMBDA c : packetize_and_send(s, c))
    ELSE Sending(written, {})

(* StreamCommand::SendData: the first one answers the SYN.                 *)
send_data(s, e) ==
  LET written == [e EXCEPT !.buf = @ + 1, !.sends = @ + 1] IN
  IF e.state = "SynReceived"
    THEN Then(Sending(TransitionOrAbort(written, "Established"),
                      {Frame(s, e, "synack", e.remote, 0)}),
              LAMBDA c : packetize_and_send(s, c))
    ELSE Sending(written, {})

UserSend(s) ==
  /\ CanTake(s, "commands")
  /\ endpoint[s].sends < MaxSends[s] /\ ~endpoint[s].closed
  /\ Step(s, send_data(s, endpoint[s]), "commands")

(* StreamCommand::Close.                                                   *)
UserClose(s) ==
  /\ CanTake(s, "commands") /\ Events < MaxEvents
  /\ s \in Closers /\ ~endpoint[s].closed
  /\ Step(s, packetize_and_send(s, [begin_graceful_shutdown(endpoint[s]) EXCEPT !.closed = TRUE]),
          "commands")

(* StreamCommand::Migrate: no timer is registered.                         *)
UserMigrate(s, addr) ==
  LET e == endpoint[s] IN
  /\ CanTake(s, "commands") /\ Events < MaxEvents
  /\ s \in Migrators /\ e.migrate = "none" /\ ~e.closed
  /\ Step(s, IF can_start_path_validation(e)
               THEN SendChallenge(s, start_path_validation(s, e, addr, e.seq, TRUE), addr)
               ELSE Sending([e EXCEPT !.migrate = "failed"], {}),
          "commands")

-----------------------------------------------------------------------------
(* Timers.  A timer that fires puts an event into the endpoint's channel,  *)
(* where cancelling does not reach it.  Two timers of one kind count as    *)
(* one (TimerTask shows how they come about).                              *)

Expire(s, t) ==
  /\ Live(s) /\ t \in endpoint[s].armed \cap Firing[s]
  /\ endpoint' = [endpoint EXCEPT ![s].armed = @ \ {t}, ![s].expired = @ \cup {t}]
  /\ UNCHANGED <<where, net, moves>>

(* handle_path_validation_timeout.                                         *)
handle_path_validation_timeout(e) ==
  IF e.state = "ValidatingPath" THEN TransitionOrAbort(e, "Established") ELSE e

Tracked(e) == e.flight \cup ({e.fin} \ {None})
Resent(s, n) ==
  Frame(s, endpoint[s], IF n = endpoint[s].fin THEN "fin" ELSE "push", endpoint[s].remote, n)

(* check_all_timeouts: the events, and the frames in flight that are due.  *)
(* A FIN that is due too often is forgotten.                               *)
check_all_timeouts(s, due, forget) ==
  LET e == endpoint[s]
      f == [e EXCEPT !.expired = {}, !.fin = IF forget THEN None ELSE @]
      resent == {Resent(s, n) : n \in due}
      path == IF "path" \in e.expired THEN handle_path_validation_timeout(f) ELSE f
  IN IF e.expired \cap {"idle", "conn"} # {} THEN Sending(force_close(e), {})
     ELSE Sending(path, resent)

(* (What the network has anyway is not sent again.)                        *)
Timeout(s, due, forget) ==
  LET e == endpoint[s] IN
  /\ Live(s) /\ e.loop = "select"
  /\ forget => e.fin # None
  /\ \A n \in due : Resent(s, n) \notin net
  /\ e.expired # {} \/ forget \/ due # {}
  /\ Step(s, check_all_timeouts(s, due, forget), "timer")

-----------------------------------------------------------------------------
(* The tail of the loop.                                                   *)

(* reassemble: what is contiguous is handed on, up to a FIN.               *)
ReassembledTo(e) ==
  CHOOSE n \in e.next .. e.next + Cardinality(e.got) :
    /\ \A k \in e.next .. n - 1 : k \in e.got \ e.fins
    /\ n \notin e.got \ e.fins
reassemble(e) ==
  LET n == ReassembledTo(e) IN
  IF e.eof THEN e ELSE [e EXCEPT !.next = n, !.eof = n \in e.fins]

AfterFin(e) ==
  CASE e.state \in {"Established", "SynReceived"} -> transition_to(e, "FinWait")
    [] e.state = "Closing" -> transition_to(e, "ClosingWait")
    [] OTHER -> e

(* Mutant: only the FIN is waited for.                                     *)
MutantShouldClose(e) == e.state \in {"Closing", "ClosingWait"} /\ e.fin = None

should_close(e) ==
  e.state \in {"Closing", "ClosingWait"} /\ Tracked(e) = {}

FollowUp(s) ==
  LET e == endpoint[s]
      r == reassemble(e)
      moved == IF r.eof /\ ~e.eof THEN AfterFin(r) ELSE r
      sent == IF moved.state \in {"Established", "FinWait", "Closing"}
                THEN packetize_and_send(s, moved) ELSE Sending(moved, {})
  IN /\ Live(s) /\ e.loop \notin {"select", "start"}
     /\ Step(s, IF should_close(sent.e)
                  THEN Sending(transition_to(sent.e, "Closed"), sent.out) ELSE sent,
             "select")

(* The environment: a side gets another address (a NAT, another network,   *)
(* rebind()).                                                              *)
Move(s, a) ==
  /\ Events < MaxEvents /\ a \in Home[s] /\ a # where[s]
  /\ where' = [where EXCEPT ![s] = a]
  /\ moves' = moves + 1
  /\ endpoint' = [endpoint EXCEPT ![Peer(s)].seen =
                    IF endpoint[Peer(s)].state = "ValidatingPath" THEN @ \cup {a} ELSE @]
  /\ UNCHANGED net

Next ==
  \/ \E n \in InitialData : SendInitialSyn(n)
  \/ \E f \in net : AcceptSyn(f) \/ Receive(f)
  \/ \E s \in Side :
       \/ UserSend(s) \/ UserClose(s) \/ FollowUp(s)
       \/ \E a \in Home[Peer(s)] : UserMigrate(s, a)
       \/ \E t \in Timers : Expire(s, t)
       \/ \E due \in SUBSET Tracked(endpoint[s]), forget \in BOOLEAN : Timeout(s, due, forget)
       \/ \E a \in Addr : Move(s, a)

Spec == Init /\ [][Next]_vars

(* No endpoint leaves a connection or a path timer armed, or an event in   *)
(* its channel, for ever: the timer task fires what is due, and frames do  *)
(* not arrive so densely that the biased select of run never gets to its   *)
(* timeout branch.  (WF and SF of Expire and Timeout come to the same; the *)
(* states are what TLC checks fast.)                                       *)
Fairness ==
  \A s \in Side :
    /\ []<>(Live(s) => endpoint[s].expired = {})
    /\ \A t \in Timers \ {"idle"} : []<>(Live(s) => t \notin endpoint[s].armed)
FairSpec == Spec /\ Fairness

-----------------------------------------------------------------------------
(* Properties.                                                             *)

EndpointType ==
  [state : States, loop : {"start", "select", "frames", "commands", "timer"},
   remote : Addr \cup {None}, peer_cid : BOOLEAN, new_addr : Addr \cup {None},
   challenge : Nat \cup {None}, notifier : BOOLEAN,
   migrate : {"none", "pending", "ok", "failed"},
   seq : Nat, buf : Nat, flight : SUBSET Nat, fin : Nat \cup {None},
   got : SUBSET Nat, fins : SUBSET Nat, next : Nat, eof : BOOLEAN,
   armed : SUBSET Timers, expired : SUBSET Timers, aborted : BOOLEAN,
   sends : Nat, closed : BOOLEAN, seen : SUBSET Addr]

FrameType ==
  [kind : {"syn", "synack", "push", "fin", "ack", "challenge", "response"}, to : Side,
   src : Addr, dst : Addr \cup {None}, n : Nat, got : SUBSET Nat, cid0 : BOOLEAN]

(* Every variable has its type.                                            *)
LTypeOK ==
  /\ endpoint \in [Side -> EndpointType]
  /\ where \in [Side -> Addr]
  /\ net \subseteq FrameType
  /\ moves \in 0 .. MaxEvents

(* An endpoint by itself: the states are those of its role, it tracks only *)
(* numbers it has given out, it knows of a new address exactly while it    *)
(* validates one, the peer is at one of the places seen since then, and it *)
(* has the notifier of every migrate() that is still waiting.              *)
Sound(s, e) ==
  /\ e.state = "Unborn" => s = "server" /\ e = NewEndpoint("Unborn", None, {})
  /\ e.state = "Connecting" => s = "client"
  /\ e.state = "SynReceived" => s = "server"
  /\ e.loop = "start" => s = "client" /\ e.state = "Connecting" /\ ~e.aborted
  /\ e.remote = None <=> e.state = "Unborn"
  /\ \A n \in Tracked(e) : n < e.seq
  /\ e.new_addr # None <=> e.state = "ValidatingPath"
  /\ e.state = "ValidatingPath" =>
       e.challenge \in Nat /\ e.challenge < e.seq /\ where[Peer(s)] \in e.seen
  /\ e.migrate = "pending" <=> e.notifier
  /\ e.state = "Closed" /\ ~e.aborted => e.flight = {}

(* A datagram, however old, and the endpoints: its number was given out by *)
(* its sender (for a response, by its receiver), a PUSH is tracked until it*)
(* is received, an ACK tells only of what has been received, a SYN-ACK is  *)
(* the word of a server that has answered, and a response to the challenge *)
(* of a validation comes from where the peer has been since it began.      *)
FrameSound(f) ==
  LET to == endpoint[f.to]
      from == endpoint[Peer(f.to)]
  IN CASE f.kind = "syn" -> f.to = "server"
       [] f.kind = "synack" -> f.to = "client" /\ from.state \notin {"Unborn", "SynReceived"}
       [] f.kind = "push" -> f.n < from.seq /\ f.n \in from.flight \cup to.got
       [] f.kind \in {"fin", "challenge"} -> f.n < from.seq
       [] f.kind = "ack" -> f.got \subseteq from.got
       [] f.kind = "response" ->
            f.n < to.seq /\ (to.state = "ValidatingPath" /\ f.n = to.challenge => f.src \in to.seen)

(* The address an endpoint sends to changes only to one at which the peer  *)
(* has been since the validation of that address began: no response to an  *)
(* earlier challenge, delayed or repeated, moves the connection to an      *)
(* address the peer has left before (check_path_migration, PathProcessor). *)
PathIsLive ==
  [][\A s \in Side : endpoint[s].remote # None /\ endpoint'[s].remote # endpoint[s].remote
       => endpoint'[s].remote \in endpoint[s].seen]_vars

(* A client that has the id of its peer talks to a server that has answered*)
(* it: SYN-ACK, early data and an early close do not let one side believe  *)
(* in a connection the other has not entered (handle_syn_ack_frame).       *)
HandshakeAgreement ==
  endpoint["client"].peer_cid => endpoint["server"].state \notin {"Unborn", "SynReceived"}

(* However often the addresses changed meanwhile, an endpoint that ends    *)
(* gracefully leaves no PUSH behind that the peer has not received         *)
(* (should_close).                                                         *)
ClosedMeansReceived ==
  \A s \in Side : endpoint[s].state = "Closed" /\ ~endpoint[s].aborted =>
    \A f \in net : f.kind = "push" /\ f.to = Peer(s) => f.n \in endpoint[Peer(s)].got

(* run() ends with an error only when an idle or a connection timeout is   *)
(* due: a path timer that outlives its validation, or a frame that comes in*)
(* an unexpected state, never leads to an invalid transition.              *)
AbortsOnlyOnTimeout ==
  \A s \in Side : endpoint[s].aborted => endpoint[s].expired \cap {"idle", "conn"} # {}

(* What both endpoints and the network agree on at any moment: numbers and *)
(* paths fit the states, only what the peer has sent is received, the ends *)
(* believe in the same connection, and no order of frames, timers and      *)
(* commands leads to an invalid transition.                                *)
LInv ==
  /\ LTypeOK
  /\ \A s \in Side : Sound(s, endpoint[s])
  /\ \A s \in Side : \A n \in endpoint[s].got : n < endpoint[Peer(s)].seq
  /\ \A f \in net : FrameSound(f)
  /\ HandshakeAgreement
  /\ AbortsOnlyOnTimeout

(* Without any answer the client does not stay in Connecting, even if its  *)
(* idle timer is not due for long (register_connection_timeout).           *)
ConnectingEnds == endpoint["client"].state = "Connecting" ~> endpoint["client"].state # "Connecting"

(* A validation that a frame from another address has started ends, whether*)
(* or not the peer answers (register_path_validation_timeout).             *)
PassiveValidationEnds ==
  \A s \in Side :
    endpoint[s].state = "ValidatingPath" /\ ~endpoint[s].notifier
      ~> endpoint[s].state # "ValidatingPath"
=============================================================================

--------------------------- MODULE LifecycleProofs ---------------------------
(***************************************************************************)
(* LInv is inductive, for every value of the constants: the two endpoints  *)
(* and everything that is still in the network agree, whatever is lost,    *)
(* repeated, delayed or sent from another address.                         *)
(***************************************************************************)
EXTENDS Lifecycle, FiniteSetTheorems, TLAPS

(* A set of natural numbers has a least element.                           *)
LEMMA Least ==
  ASSUME NEW T \in SUBSET Nat, T # {}
  PROVE \E n \in T : \A m \in T : n <= m
<1> DEFINE Down == {1..n : n \in T}
           R == StrictSubsetOrdering(Nat)
<1>1. ASSUME NEW n \in T PROVE 1..n \in FiniteSubsetsOf(Nat)
  BY FS_Interval DEF FiniteSubsetsOf
<1>2. Down \subseteq FiniteSubsetsOf(Nat) /\ Down # {}
  BY <1>1
<1>3. IsWellFoundedOn(R, FiniteSubsetsOf(Nat))
  BY FS_StrictSubsetOrderingWellFounded
<1>4. PICK x \in Down : \A y \in Down : ~ (<<y, x>> \in R)
  <2> HIDE DEF Down, R
  <2> QED BY <1>2, <1>3, WFMin
<1>5. PICK n \in T : x = 1..n
  BY <1>4
<1>6. ASSUME NEW m \in T, m < n PROVE FALSE
  <2>1. 1..m \in Down
    OBVIOUS
  <2>2. 1..m \in SUBSET Nat /\ 1..n \in SUBSET Nat /\ 1..m \subseteq 1..n
    BY <1>6
  <2>3. n \in 1..n /\ n \notin 1..m
    BY <1>6
  <2>4. <<1..m, x>> \in R
    BY <1>5, <2>2, <2>3 DEF StrictSubsetOrdering
  <2> QED BY <1>4, <2>1, <2>4
<1> QED BY <1>6

(* t is e with another state, and nothing is left of a validation.         *)
Moved(e, t, to) ==
  /\ t \in EndpointType /\ t.state = to
  /\ t.new_addr = None /\ t.migrate # "pending" /\ ~t.notifier
  /\ t.loop = e.loop /\ t.remote = e.remote /\ t.peer_cid = e.peer_cid
  /\ t.seq = e.seq /\ t.buf = e.buf /\ t.flight = e.flight /\ t.fin = e.fin
  /\ t.got = e.got /\ t.fins = e.fins /\ t.next = e.next /\ t.eof = e.eof
  /\ t.armed = e.armed /\ t.expired = e.expired /\ t.aborted = e.aborted

(* What every handler of s guarantees for the endpoint t that it makes of e*)
Succ(s, e, t) ==
  /\ t \in EndpointType /\ Sound(s, t)
  /\ t.state # "Unborn"
  /\ e.state # "SynReceived" => t.state # "SynReceived"
  /\ t.seq >= e.seq
  /\ e.got \subseteq t.got
  /\ \A n \in t.got \ e.got : n < endpoint[Peer(s)].seq
  /\ e.flight \subseteq t.flight \cup endpoint[Peer(s)].got
  /\ s = "client" /\ t.peer_cid =>
       e.peer_cid \/ endpoint["server"].state \notin {"Unborn", "SynReceived"}
  /\ t.aborted => t.expired \cap {"idle", "conn"} # {}
  /\ t.state = "ValidatingPath" =>
       \/ t.challenge = e.challenge /\ t.seen = e.seen /\ e.state = "ValidatingPath"
       \/ t.challenge >= e.seq
  /\ t.remote = e.remote \/ t.remote \in e.seen

(* ... and for every frame f that it sends.                                *)
Out(s, t, f) ==
  /\ f \in FrameType /\ f.to = Peer(s) /\ f.src = where[s]
  /\ f.kind = "syn" => s = "client"
  /\ f.kind = "synack" => s = "server" /\ t.state \notin {"Unborn", "SynReceived"}
  /\ f.kind \in {"push", "fin", "challenge"} => f.n < t.seq
  /\ f.kind = "push" => f.n \in t.flight \cup endpoint[Peer(s)].got
  /\ f.kind = "ack" => f.got \subseteq t.got
  /\ f.kind = "response" => f.n < endpoint[Peer(s)].seq

Good(s, e, r) == Succ(s, e, r.e) /\ \A f \in r.out : Out(s, r.e, f)

(* An endpoint that takes events, before the step.                         *)
Ready(s, e) ==
  /\ s \in Side /\ LTypeOK /\ e \in EndpointType /\ Sound(s, e)
  /\ e.state \notin {"Unborn", "Closed"} /\ ~e.aborted

LEMMA Pending ==
  ASSUME NEW e \in EndpointType, NEW to \in States, e.migrate = "pending" <=> e.notifier
  PROVE  Moved(e, execute_transition(e, to), to)
<1> DEFINE t == execute_transition(e, to)
<1>1. t \in EndpointType
  <2> DEFINE m == IF e.notifier THEN "failed" ELSE e.migrate
  <2>1. m \in {"none", "pending", "ok", "failed"}
    BY DEF EndpointType
  <2>2. t = [e EXCEPT !.state = to, !.new_addr = None, !.challenge = None, !.seen = {},
                      !.notifier = FALSE, !.migrate = m]
    BY DEF execute_transition
  <2> HIDE DEF m, t
  <2> QED BY <2>1, <2>2 DEF EndpointType
<1>2. t.state = to /\ t.new_addr = None /\ ~t.notifier
  BY DEF EndpointType, execute_transition
<1>3. t.migrate # "pending"
  BY DEF EndpointType, execute_transition
<1>4. /\ t.loop = e.loop /\ t.remote = e.remote /\ t.peer_cid = e.peer_cid
      /\ t.seq = e.seq /\ t.buf = e.buf /\ t.flight = e.flight /\ t.fin = e.fin
      /\ t.got = e.got /\ t.fins = e.fins /\ t.next = e.next /\ t.eof = e.eof
      /\ t.armed = e.armed /\ t.expired = e.expired /\ t.aborted = e.aborted
  BY DEF EndpointType, execute_transition
<1> QED BY <1>1, <1>2, <1>3, <1>4 DEF Moved

LEMMA TransitionTo ==
  ASSUME NEW e \in EndpointType, NEW to \in States, e.migrate = "pending" <=> e.notifier,
         is_valid_transition(e.state, to)
  PROVE  /\ transition_to(e, to) = execute_transition(e, to)
         /\ Moved(e, transition_to(e, to), to)
<1>1. ~clone(e).notifier
  BY DEF clone, EndpointType
<1>2. transition_to(e, to) = execute_transition(e, to)
  BY <1>1 DEF transition_to
<1> QED BY <1>2, Pending

LEMMA MovedSucc ==
  ASSUME NEW s, NEW e, Ready(s, e), NEW to \in States, NEW t, Moved(e, t, to),
         to \notin {"Unborn", "Connecting", "SynReceived", "ValidatingPath", "Closed"},
         e.loop # "start"
  PROVE  Succ(s, e, t)
<1>1. Sound(s, t)
  BY DEF Moved, Ready, Sound, Tracked
<1> QED BY <1>1 DEF Moved, Ready, Succ, EndpointType

LEMMA PeerSide ==
  ASSUME NEW s \in Side
  PROVE  Peer(s) \in Side /\ Peer(s) # s /\ Peer(Peer(s)) = s
BY DEF Side, Peer

LEMMA FrameIs ==
  ASSUME NEW s, NEW e, Ready(s, e), NEW dst \in Addr \cup {None}, NEW n \in Nat,
         NEW kind \in {"syn", "synack", "push", "fin", "ack", "challenge", "response"}
  PROVE  LET f == Frame(s, e, kind, dst, n) IN
         /\ f \in FrameType /\ f.to = Peer(s) /\ f.src = where[s]
         /\ f.kind = kind /\ f.n = n /\ f.got = IF kind = "ack" THEN e.got ELSE {}
<1> DEFINE f == Frame(s, e, kind, dst, n)
           g == IF kind = "ack" THEN e.got ELSE {}
           c == ~e.peer_cid
<1>1. g \in SUBSET Nat /\ c \in BOOLEAN
  BY DEF Ready, EndpointType
<1>2. Peer(s) \in Side /\ where[s] \in Addr
  BY PeerSide DEF Ready, LTypeOK
<1>3. f = [kind |-> kind, to |-> Peer(s), src |-> where[s], dst |-> dst, n |-> n,
           got |-> g, cid0 |-> c]
  BY DEF Frame
<1> HIDE DEF f, g, c
<1>4. f \in FrameType /\ f.to = Peer(s) /\ f.src = where[s] /\ f.kind = kind /\ f.n = n
        /\ f.got = g
  BY <1>1, <1>2, <1>3 DEF FrameType
<1> QED BY <1>4 DEF f, g

(* Everything an endpoint numbers it tracks, and its frames say so.        *)
LEMMA PacketizeGood ==
  ASSUME NEW s, NEW e, Ready(s, e)
  PROVE  LET r == packetize_and_send(s, e) IN
         /\ Good(s, e, r)
         /\ r.e.state = e.state /\ r.e.remote = e.remote /\ r.e.aborted = e.aborted
         /\ r.e.loop = e.loop /\ r.e.migrate = e.migrate /\ r.e.notifier = e.notifier
         /\ Ready(s, r.e)
<1> DEFINE r == packetize_and_send(s, e)
           pushes == e.seq .. e.seq + e.buf - 1
           last == e.seq + e.buf
           fin == e.state = "Closing" /\ e.fin = None
           seq2 == IF fin THEN last + 1 ELSE last
           fin2 == IF fin THEN last ELSE e.fin
           t == [e EXCEPT !.seq = seq2, !.buf = 0, !.flight = e.flight \cup pushes, !.fin = fin2]
           out == {Frame(s, e, "push", e.remote, n) : n \in pushes}
                    \cup (IF fin THEN {Frame(s, e, "fin", e.remote, last)} ELSE {})
<1>1. r.e = t /\ r.out = out
  BY DEF packetize_and_send, Sending
<1>2. /\ last \in Nat /\ seq2 \in Nat /\ fin2 \in Nat \cup {None} /\ pushes \subseteq Nat
      /\ e.seq <= last /\ last <= seq2 /\ \A n \in pushes : n < last
      /\ e.flight \cup pushes \in SUBSET Nat
      /\ fin => fin2 = last /\ last < seq2
      /\ ~fin => fin2 = e.fin
  BY DEF Ready, EndpointType
<1>3. fin \in BOOLEAN
  OBVIOUS
<1> HIDE DEF last, seq2, fin2, pushes, fin
<1>4. /\ t \in EndpointType /\ t.seq = seq2 /\ t.flight = e.flight \cup pushes /\ t.fin = fin2
      /\ t.state = e.state /\ t.loop = e.loop /\ t.remote = e.remote
      /\ t.new_addr = e.new_addr /\ t.challenge = e.challenge /\ t.seen = e.seen
      /\ t.migrate = e.migrate /\ t.notifier = e.notifier /\ t.got = e.got
      /\ t.aborted = e.aborted /\ t.expired = e.expired /\ t.peer_cid = e.peer_cid
  BY <1>2 DEF Ready, EndpointType
<1> HIDE DEF t
<1>5. Sound(s, t)
  <2>1. \A n \in Tracked(t) : n < t.seq
    BY <1>2, <1>4 DEF Ready, Sound, Tracked, EndpointType
  <2>2. t.state = "ValidatingPath" =>
          t.challenge \in Nat /\ t.challenge < t.seq /\ where[Peer(s)] \in t.seen
    BY <1>2, <1>4 DEF Ready, Sound, EndpointType
  <2> QED BY <1>4, <2>1, <2>2 DEF Ready, Sound
<1>6. Succ(s, e, t)
  BY <1>2, <1>4, <1>5 DEF Ready, Succ, EndpointType
<1>7. ASSUME NEW f \in out PROVE Out(s, t, f)
  <2>0. e.remote \in Addr \cup {None}
    BY DEF Ready, EndpointType
  <2>1. CASE \E n \in pushes : f = Frame(s, e, "push", e.remote, n)
    <3>1. PICK n \in pushes : f = Frame(s, e, "push", e.remote, n)
      BY <2>1
    <3>2. n \in Nat /\ n < seq2 /\ n \in t.flight
      BY <1>2, <1>4
    <3> QED BY <3>1, <3>2, <2>0, <1>4, FrameIs DEF Out
  <2>2. CASE fin /\ f = Frame(s, e, "fin", e.remote, last)
    BY <2>2, <2>0, <1>2, <1>4, FrameIs DEF Out
  <2> QED BY <2>1, <2>2
<1>8. Ready(s, t)
  BY <1>4, <1>5 DEF Ready
<1> QED BY <1>1, <1>4, <1>6, <1>7, <1>8 DEF Good

LEMMA SuccTrans ==
  ASSUME NEW s, NEW e, NEW t, NEW u, Ready(s, e), Succ(s, e, t), Succ(s, t, u),
         u.remote = e.remote \/ u.remote \in e.seen
  PROVE  Succ(s, e, u)
<1>1. e.seq \in Nat /\ t.seq \in Nat /\ u.seq \in Nat /\ u.challenge \in Nat \cup {None}
  BY DEF Ready, Succ, EndpointType
<1>2. u.seq >= e.seq
  BY <1>1 DEF Succ
<1>3. u.state = "ValidatingPath" =>
       \/ u.challenge = e.challenge /\ u.seen = e.seen /\ e.state = "ValidatingPath"
       \/ u.challenge >= e.seq
  BY <1>1 DEF Succ, Sound
<1> QED BY <1>2, <1>3 DEF Succ

LEMMA OutMono ==
  ASSUME NEW s, NEW t, NEW u, NEW f, t \in EndpointType, Out(s, t, f), Succ(s, t, u)
  PROVE  Out(s, u, f)
<1>1. t.seq \in Nat /\ u.seq \in Nat /\ u.seq >= t.seq /\ f.n \in Nat
  BY DEF Out, Succ, EndpointType, FrameType
<1> QED BY <1>1 DEF Out, Succ

-----------------------------------------------------------------------------
(* A validation that begins in e: its challenge is the next number of e,   *)
(* which no frame has had.                                                 *)
Started(s, e, t, addr) ==
  /\ t \in EndpointType /\ t.state = "ValidatingPath"
  /\ t.new_addr = addr /\ t.challenge = e.seq /\ t.seen = {where[Peer(s)]}
  /\ t.migrate = "pending" <=> t.notifier
  /\ t.loop = e.loop /\ t.remote = e.remote /\ t.peer_cid = e.peer_cid
  /\ t.seq = e.seq /\ t.flight = e.flight /\ t.fin = e.fin /\ t.got = e.got
  /\ t.expired = e.expired /\ t.aborted = e.aborted

LEMMA StartedIs ==
  ASSUME NEW s, NEW e, Ready(s, e), e.state = "Established", NEW addr \in Addr,
         NEW notifier \in BOOLEAN
  PROVE  Started(s, e, start_path_validation(s, e, addr, e.seq, notifier), addr)
<1> DEFINE m == transition_to(e, "ValidatingPath")
           p == IF notifier THEN "pending" ELSE m.migrate
           t == start_path_validation(s, e, addr, e.seq, notifier)
<1>1. Moved(e, m, "ValidatingPath")
  BY TransitionTo DEF Ready, Sound, is_valid_transition, States
<1>2. /\ t = [m EXCEPT !.new_addr = addr, !.challenge = e.seq, !.seen = {where[Peer(s)]},
                       !.notifier = notifier, !.migrate = p]
      /\ e.seq \in Nat /\ {where[Peer(s)]} \in SUBSET Addr
  <2>1. e.seq \in Nat /\ where[Peer(s)] \in Addr
    BY PeerSide DEF Ready, EndpointType, LTypeOK
  <2>2. t = [m EXCEPT !.new_addr = addr, !.challenge = e.seq, !.seen = {where[Peer(s)]},
                       !.notifier = notifier, !.migrate = p]
    BY DEF start_path_validation
  <2> QED BY <2>1, <2>2
<1>3. /\ p \in {"none", "pending", "ok", "failed"}
      /\ p = "pending" <=> notifier
  BY <1>1 DEF Moved, EndpointType
<1> HIDE DEF m, p, t
<1>4. t \in EndpointType
  <2> DEFINE q == e.seq
             w == {where[Peer(s)]}
  <2>1. m \in EndpointType /\ q \in Nat /\ w \in SUBSET Addr
    BY <1>1, <1>2 DEF Moved
  <2>2. t = [m EXCEPT !.new_addr = addr, !.challenge = q, !.seen = w,
                      !.notifier = notifier, !.migrate = p]
    BY <1>2
  <2> HIDE DEF q, w
  <2> QED BY <2>1, <2>2, <1>3 DEF EndpointType
<1>5. /\ t.new_addr = addr /\ t.challenge = e.seq /\ t.seen = {where[Peer(s)]}
      /\ t.notifier = notifier /\ t.migrate = p /\ t.state = m.state
      /\ t.loop = m.loop /\ t.remote = m.remote /\ t.peer_cid = m.peer_cid
      /\ t.seq = m.seq /\ t.flight = m.flight /\ t.fin = m.fin /\ t.got = m.got
      /\ t.expired = m.expired /\ t.aborted = m.aborted
  BY <1>1, <1>2 DEF Moved, EndpointType
<1>6. Started(s, e, t, addr)
  BY <1>1, <1>3, <1>4, <1>5 DEF Moved, Started
<1> QED BY <1>6 DEF t

LEMMA ChallengeGood ==
  ASSUME NEW s, NEW e, Ready(s, e), e.state = "Established", NEW addr \in Addr,
         NEW t, Started(s, e, t, addr), e.loop # "start"
  PROVE  LET r == SendChallenge(s, t, addr) IN
         /\ Good(s, e, r) /\ Ready(s, r.e)
         /\ r.e.remote = e.remote /\ r.e.challenge = e.seq /\ r.e.state = "ValidatingPath"
         /\ r.e.loop = e.loop
<1> DEFINE r == SendChallenge(s, t, addr)
           u == [t EXCEPT !.seq = t.seq + 1]
           f == Frame(s, t, "challenge", addr, t.seq)
<1>1. r.e = u /\ r.out = {f}
  BY DEF SendChallenge, Sending
<1>2. /\ u \in EndpointType /\ u.seq = e.seq + 1 /\ u.state = t.state /\ u.new_addr = addr
      /\ u.challenge = e.seq /\ u.seen = t.seen /\ u.notifier = t.notifier
      /\ u.migrate = t.migrate /\ u.loop = t.loop /\ u.remote = t.remote
      /\ u.peer_cid = t.peer_cid /\ u.flight = t.flight /\ u.fin = t.fin /\ u.got = t.got
      /\ u.expired = t.expired /\ u.aborted = t.aborted
  BY DEF Started, EndpointType
<1> HIDE DEF u, r, f
<1>3. e.seq \in Nat /\ addr # None
  BY LifecycleAssumption DEF Ready, EndpointType
<1>4. Sound(s, u)
  BY <1>2, <1>3 DEF Ready, Started, Sound, Tracked, EndpointType
<1>5. Succ(s, e, u)
  BY <1>2, <1>3, <1>4 DEF Ready, Started, Succ
<1>6. /\ f \in FrameType /\ f.to = Peer(s) /\ f.src = where[s]
      /\ f.kind = "challenge" /\ f.n = e.seq
  <2>1. f = [kind |-> "challenge", to |-> Peer(s), src |-> where[s], dst |-> addr, n |-> e.seq,
             got |-> {}, cid0 |-> ~t.peer_cid]
    BY DEF f, Frame, Started
  <2>2. Peer(s) \in Side /\ where[s] \in Addr /\ (~t.peer_cid) \in BOOLEAN
    BY PeerSide DEF Ready, LTypeOK
  <2> QED BY <2>1, <2>2, <1>3 DEF FrameType
<1>7. Out(s, u, f)
  BY <1>2, <1>3, <1>6 DEF Out
<1>8. Ready(s, u)
  BY <1>2, <1>4 DEF Ready, Started
<1> QED BY <1>1, <1>2, <1>5, <1>7, <1>8 DEF Good, r, Started

LEMMA SuccRefl ==
  ASSUME NEW s, NEW e, Ready(s, e)
  PROVE  Succ(s, e, e)
BY DEF Ready, Succ, EndpointType

LEMMA MigrationGood ==
  ASSUME NEW s, NEW e, Ready(s, e), NEW src \in Addr, e.loop # "start"
  PROVE  LET r == check_path_migration(s, e, src) IN
         /\ Good(s, e, r) /\ Ready(s, r.e)
         /\ r.e = e \/ (r.e.challenge = e.seq /\ r.e.remote = e.remote)
         /\ r.e.loop = e.loop
<1> DEFINE v == start_path_validation(s, e, src, e.seq, FALSE)
           t == [v EXCEPT !.armed = v.armed \cup {"path"}]
<1>1. CASE src # e.remote /\ e.state = "Established"
  <2>1. Started(s, e, v, src)
    BY <1>1, StartedIs
  <2> HIDE DEF v
  <2>2. Started(s, e, t, src)
    BY <2>1 DEF Started, EndpointType, Timers
  <2>3. check_path_migration(s, e, src) = SendChallenge(s, t, src)
    BY <1>1 DEF check_path_migration, v
  <2> HIDE DEF t
  <2> QED BY <1>1, <2>2, <2>3, ChallengeGood
<1>2. CASE ~(src # e.remote /\ e.state = "Established")
  <2>1. check_path_migration(s, e, src) = Sending(e, {})
    BY <1>2 DEF check_path_migration
  <2>2. Sending(e, {}).e = e /\ Sending(e, {}).out = {}
    BY DEF Sending
  <2> QED BY <2>1, <2>2, SuccRefl DEF Good
<1> QED BY <1>1, <1>2

-----------------------------------------------------------------------------
(* A frame f for endpoint e of s, and what FrameSound says of it.          *)
Incoming(s, e, f) ==
  /\ f \in FrameType /\ f.kind # "syn"
  /\ f.kind = "synack" =>
       s = "client" /\ endpoint["server"].state \notin {"Unborn", "SynReceived"}
  /\ f.kind \in {"push", "fin", "challenge"} => f.n < endpoint[Peer(s)].seq
  /\ f.kind = "ack" => f.got \subseteq endpoint[Peer(s)].got
  /\ f.kind = "response" /\ e.state = "ValidatingPath" /\ f.n = e.challenge => f.src \in e.seen

LEMMA SendingIs ==
  ASSUME NEW e, NEW out
  PROVE  Sending(e, out).e = e /\ Sending(e, out).out = out
BY DEF Sending

LEMMA NothingGood ==
  ASSUME NEW s, NEW e, Ready(s, e)
  PROVE  Good(s, e, Sending(e, {}))
BY SuccRefl, SendingIs DEF Good

LEMMA TakenSucc ==
  ASSUME NEW s, NEW e, Ready(s, e), NEW n \in Nat, n < endpoint[Peer(s)].seq,
         NEW t \in EndpointType, t.got = e.got \cup {n},
         t.state = e.state /\ t.loop = e.loop /\ t.remote = e.remote /\ t.peer_cid = e.peer_cid,
         t.new_addr = e.new_addr /\ t.challenge = e.challenge /\ t.seen = e.seen,
         t.migrate = e.migrate /\ t.notifier = e.notifier,
         t.seq = e.seq /\ t.flight = e.flight /\ t.fin = e.fin,
         t.expired = e.expired /\ t.aborted = e.aborted
  PROVE  Succ(s, e, t) /\ Ready(s, t)
<1>1. Sound(s, t)
  BY DEF Ready, Sound, Tracked
<1>2. Ready(s, t)
  BY <1>1 DEF Ready
<1>3. Succ(s, e, t)
  BY <1>1 DEF Ready, Succ, EndpointType
<1> QED BY <1>2, <1>3

LEMMA AckOut ==
  ASSUME NEW s, NEW e, Ready(s, e)
  PROVE  /\ WithAck(s, e).e = e
         /\ \A f \in WithAck(s, e).out : Out(s, e, f)
<1>1. e.remote \in Addr \cup {None} /\ 0 \in Nat
  BY DEF Ready, EndpointType
<1>2. WithAck(s, e).e = e /\ WithAck(s, e).out = {Frame(s, e, "ack", e.remote, 0)}
  BY DEF WithAck, Sending
<1>3. Out(s, e, Frame(s, e, "ack", e.remote, 0))
  BY <1>1, FrameIs DEF Out
<1> QED BY <1>2, <1>3

LEMMA PushGood ==
  ASSUME NEW s, NEW e, Ready(s, e), NEW f, Incoming(s, e, f), f.kind = "push"
  PROVE  LET r == process_push(s, e, f) IN Good(s, e, r) /\ r.e.remote = e.remote
<1> DEFINE t == [e EXCEPT !.got = e.got \cup {f.n}]
<1>1. f.n \in Nat /\ f.n < endpoint[Peer(s)].seq
  BY DEF Incoming, FrameType
<1>2. Succ(s, e, t) /\ Ready(s, t) /\ t.remote = e.remote
  <2>1. t \in EndpointType
    BY <1>1 DEF Ready, EndpointType
  <2>2. /\ t.got = e.got \cup {f.n}
        /\ t.state = e.state /\ t.loop = e.loop /\ t.remote = e.remote /\ t.peer_cid = e.peer_cid
        /\ t.new_addr = e.new_addr /\ t.challenge = e.challenge /\ t.seen = e.seen
        /\ t.migrate = e.migrate /\ t.notifier = e.notifier
        /\ t.seq = e.seq /\ t.flight = e.flight /\ t.fin = e.fin
        /\ t.expired = e.expired /\ t.aborted = e.aborted
    BY DEF Ready, EndpointType
  <2> HIDE DEF t
  <2> QED BY <1>1, <2>1, <2>2, TakenSucc
<1>3. process_push(s, e, f) \in {Sending(e, {}), Sending(t, {}), WithAck(s, t)}
  BY DEF process_push, handle_push
<1> HIDE DEF t
<1> QED BY <1>2, <1>3, NothingGood, AckOut, SendingIs DEF Good

LEMMA FinGood ==
  ASSUME NEW s, NEW e, Ready(s, e), e.loop # "start",
         NEW f, Incoming(s, e, f), f.kind = "fin"
  PROVE  LET r == process_fin(s, e, f) IN Good(s, e, r) /\ r.e.remote = e.remote
<1> DEFINE t == [e EXCEPT !.got = e.got \cup {f.n}, !.fins = e.fins \cup {f.n}]
           moved == CASE e.state \in {"SynReceived", "ValidatingPath"} -> transition_to(t, "FinWait")
                      [] e.state = "Closing" -> transition_to(t, "ClosingWait")
                      [] OTHER -> t
<1>1. f.n \in Nat /\ f.n < endpoint[Peer(s)].seq
  BY DEF Incoming, FrameType
<1>2. Succ(s, e, t) /\ Ready(s, t) /\ t.remote = e.remote /\ t.loop = e.loop /\ t.state = e.state
  <2>1. t \in EndpointType
    BY <1>1 DEF Ready, EndpointType
  <2>2. /\ t.got = e.got \cup {f.n}
        /\ t.state = e.state /\ t.loop = e.loop /\ t.remote = e.remote /\ t.peer_cid = e.peer_cid
        /\ t.new_addr = e.new_addr /\ t.challenge = e.challenge /\ t.seen = e.seen
        /\ t.migrate = e.migrate /\ t.notifier = e.notifier
        /\ t.seq = e.seq /\ t.flight = e.flight /\ t.fin = e.fin
        /\ t.expired = e.expired /\ t.aborted = e.aborted
    BY DEF Ready, EndpointType
  <2> HIDE DEF t
  <2> QED BY <1>1, <2>1, <2>2, TakenSucc
<1>3. \/ process_fin(s, e, f) = Sending(e, {})
      \/ process_fin(s, e, f) = Sending(moved, WithAck(s, t).out)
  BY DEF process_fin
<1> HIDE DEF t
<1>4. Succ(s, t, moved) /\ moved.remote = t.remote
  <2>1. t \in EndpointType /\ (t.migrate = "pending" <=> t.notifier)
    BY <1>2 DEF Ready, Sound
  <2>2. CASE e.state \in {"SynReceived", "ValidatingPath"}
    <3>1. Moved(t, moved, "FinWait")
      BY <2>1, <2>2, <1>2, TransitionTo DEF is_valid_transition, States
    <3> QED BY <3>1, <1>2, MovedSucc DEF Moved, States
  <2>3. CASE e.state = "Closing"
    <3>1. Moved(t, moved, "ClosingWait")
      BY <2>1, <2>3, <1>2, TransitionTo DEF is_valid_transition, States
    <3> QED BY <3>1, <1>2, MovedSucc DEF Moved, States
  <2>4. CASE e.state \notin {"SynReceived", "ValidatingPath", "Closing"}
    <3>1. moved = t
      BY <2>4
    <3> QED BY <3>1, <1>2, SuccRefl
  <2> QED BY <2>2, <2>3, <2>4
<1> HIDE DEF moved
<1>5. Succ(s, e, moved)
  BY <1>2, <1>4, SuccTrans
<1>6. \A g \in WithAck(s, t).out : Out(s, moved, g)
  BY <1>2, <1>4, AckOut, OutMono DEF Ready
<1> QED BY <1>2, <1>3, <1>4, <1>5, <1>6, NothingGood, SendingIs DEF Good

LEMMA AckGood ==
  ASSUME NEW s, NEW e, Ready(s, e), NEW f, Incoming(s, e, f), f.kind = "ack"
  PROVE  LET r == process_ack(s, e, f) IN Good(s, e, r) /\ r.e.remote = e.remote
<1> DEFINE fin == IF e.fin \in f.got THEN None ELSE e.fin
           flight == e.flight \ f.got
           t == [e EXCEPT !.flight = flight, !.fin = fin]
<1>1. process_ack(s, e, f) = Sending(e, {}) \/ process_ack(s, e, f) = Sending(t, {})
  BY DEF process_ack, process_ack_common
<1>2. /\ fin \in Nat \cup {None} /\ flight \in SUBSET Nat
      /\ flight \subseteq e.flight /\ e.flight \subseteq flight \cup endpoint[Peer(s)].got
      /\ fin = None \/ fin = e.fin
  BY DEF Ready, EndpointType, Incoming, FrameType
<1> HIDE DEF fin, flight
<1>3. /\ t \in EndpointType /\ t.got = e.got /\ t.flight = flight /\ t.fin = fin
      /\ t.state = e.state /\ t.loop = e.loop /\ t.remote = e.remote /\ t.peer_cid = e.peer_cid
      /\ t.new_addr = e.new_addr /\ t.challenge = e.challenge /\ t.seen = e.seen
      /\ t.migrate = e.migrate /\ t.notifier = e.notifier
      /\ t.seq = e.seq /\ t.expired = e.expired /\ t.aborted = e.aborted
  BY <1>2 DEF Ready, EndpointType
<1> HIDE DEF t
<1>4. Sound(s, t)
  BY <1>2, <1>3 DEF Ready, Sound, Tracked
<1>5. Succ(s, e, t)
  BY <1>2, <1>3, <1>4 DEF Ready, Succ, EndpointType
<1> QED BY <1>1, <1>3, <1>5, NothingGood, SendingIs DEF Good

LEMMA SynAckGood ==
  ASSUME NEW s, NEW e, Ready(s, e), e.loop # "start",
         NEW f, Incoming(s, e, f), f.kind = "synack"
  PROVE  LET r == process_syn_ack(s, e, f) IN Good(s, e, r) /\ r.e.remote = e.remote
<1>1. CASE e.state # "Connecting"
  BY <1>1, NothingGood, SendingIs DEF process_syn_ack
<1>2. CASE e.state = "Connecting"
  <2> DEFINE m == transition_to(e, "Established")
             u == [m EXCEPT !.peer_cid = TRUE, !.armed = m.armed \ {"conn"}]
  <2>1. Moved(e, m, "Established")
    BY <1>2, TransitionTo DEF Ready, Sound, is_valid_transition, States
  <2>2. process_syn_ack(s, e, f) = packetize_and_send(s, u)
    BY <1>2 DEF process_syn_ack, TransitionOrAbort, is_valid_transition
  <2> HIDE DEF m
  <2>3. /\ u \in EndpointType
        /\ u.state = m.state /\ u.loop = m.loop /\ u.remote = m.remote
        /\ u.new_addr = m.new_addr /\ u.challenge = m.challenge /\ u.seen = m.seen
        /\ u.migrate = m.migrate /\ u.notifier = m.notifier
        /\ u.seq = m.seq /\ u.flight = m.flight /\ u.fin = m.fin /\ u.got = m.got
        /\ u.expired = m.expired /\ u.aborted = m.aborted
    BY <2>1 DEF Moved, EndpointType
  <2> HIDE DEF u
  <2>4. Succ(s, e, m)
    BY <2>1, MovedSucc DEF States
  <2>5. Sound(s, u)
    BY <2>1, <2>3, <2>4 DEF Moved, Succ, Sound, Tracked
  <2>6. Ready(s, u)
    BY <2>1, <2>3, <2>5 DEF Moved, Ready
  <2>7. Succ(s, e, u)
    BY <2>1, <2>3, <2>4, <2>5 DEF Moved, Succ, Incoming
  <2>8. Good(s, u, packetize_and_send(s, u)) /\ packetize_and_send(s, u).e.remote = u.remote
    BY <2>6, PacketizeGood
  <2>9. packetize_and_send(s, u).e.remote = e.remote
    BY <2>8, <2>3, <2>1 DEF Moved
  <2>10. Succ(s, e, packetize_and_send(s, u).e)
    BY <2>7, <2>8, <2>9, SuccTrans DEF Good
  <2> QED BY <2>2, <2>8, <2>9, <2>10 DEF Good
<1> QED BY <1>1, <1>2

LEMMA ChallengeAnswered ==
  ASSUME NEW s, NEW e, Ready(s, e), NEW f, Incoming(s, e, f), f.kind = "challenge"
  PROVE  LET r == process_challenge(s, e, f) IN Good(s, e, r) /\ r.e.remote = e.remote
<1> DEFINE g == Frame(s, e, "response", f.src, f.n)
<1>1. f.src \in Addr /\ f.n \in Nat /\ f.n < endpoint[Peer(s)].seq
  BY DEF Incoming, FrameType
<1>2. Out(s, e, g)
  BY <1>1, FrameIs DEF Out
<1>3. process_challenge(s, e, f) = Sending(e, {g})
  BY DEF process_challenge
<1> HIDE DEF g
<1> QED BY <1>2, <1>3, SendingIs, SuccRefl DEF Good

(* Only the answer to the challenge of this validation changes the address.*)
LEMMA ResponseGood ==
  ASSUME NEW s, NEW e, Ready(s, e), e.loop # "start",
         NEW f, Incoming(s, e, f), f.kind = "response"
  PROVE  LET r == process_response(s, e, f) IN
         /\ Good(s, e, r)
         /\ r.e.remote = e.remote \/ (e.state = "ValidatingPath" /\ f.n = e.challenge)
<1> DEFINE m == transition_to(e, "Established")
           u == [m EXCEPT !.remote = e.new_addr]
<1>0. /\ clone(e).new_addr = e.new_addr /\ clone(e).challenge = e.challenge
      /\ ~clone(e).notifier
  BY DEF clone, Ready, EndpointType
<1>1. CASE e.state = "ValidatingPath" /\ f.src = e.new_addr /\ f.n = e.challenge
  <2>1. Moved(e, m, "Established")
    BY <1>1, TransitionTo DEF Ready, Sound, is_valid_transition, States
  <2>2. process_response(s, e, f) = Sending(u, {})
    BY <1>0, <1>1 DEF process_response, complete_path_validation, TransitionOrAbort,
                      is_valid_transition
  <2> HIDE DEF m
  <2>3. /\ u \in EndpointType /\ u.remote = e.new_addr
        /\ u.state = m.state /\ u.loop = m.loop /\ u.peer_cid = m.peer_cid
        /\ u.new_addr = m.new_addr /\ u.challenge = m.challenge /\ u.seen = m.seen
        /\ u.migrate = m.migrate /\ u.notifier = m.notifier
        /\ u.seq = m.seq /\ u.flight = m.flight /\ u.fin = m.fin /\ u.got = m.got
        /\ u.expired = m.expired /\ u.aborted = m.aborted
    <3>1. e.new_addr \in Addr \cup {None} /\ m \in EndpointType
      BY <2>1 DEF Ready, Moved, EndpointType
    <3> QED BY <3>1 DEF EndpointType
  <2> HIDE DEF u
  <2>4. Succ(s, e, m)
    BY <2>1, MovedSucc DEF States
  <2>5. e.new_addr # None /\ e.new_addr \in e.seen
    BY <1>1 DEF Ready, Sound, Incoming
  <2>6. Sound(s, u)
    BY <2>1, <2>3, <2>4, <2>5 DEF Moved, Succ, Sound, Tracked
  <2>7. Succ(s, e, u)
    BY <2>1, <2>3, <2>4, <2>5, <2>6 DEF Moved, Succ
  <2> QED BY <1>1, <2>2, <2>7, SendingIs DEF Good
<1>2. CASE ~(e.state = "ValidatingPath" /\ f.src = e.new_addr /\ f.n = e.challenge)
  <2>1. process_response(s, e, f) = Sending(e, {})
    BY <1>0, <1>2 DEF process_response
  <2> QED BY <2>1, NothingGood, SendingIs
<1> QED BY <1>1, <1>2

LEMMA ProcessGood ==
  ASSUME NEW s, NEW e, Ready(s, e), e.loop # "start", NEW f, Incoming(s, e, f)
  PROVE  LET r == process_frame(s, e, f) IN
         /\ Good(s, e, r)
         /\ r.e.remote = e.remote
              \/ (f.kind = "response" /\ e.state = "ValidatingPath" /\ f.n = e.challenge)
<1>1. f.kind \in {"synack", "push", "fin", "ack", "challenge", "response"}
  BY DEF Incoming, FrameType
<1>2. CASE f.kind = "push"
  BY <1>2, PushGood DEF process_frame
<1>3. CASE f.kind = "ack"
  BY <1>3, AckGood DEF process_frame
<1>4. CASE f.kind = "fin"
  BY <1>4, FinGood DEF process_frame, process_connection_frame
<1>5. CASE f.kind = "synack"
  BY <1>5, SynAckGood DEF process_frame, process_connection_frame
<1>6. CASE f.kind = "challenge"
  BY <1>6, ChallengeAnswered DEF process_frame, process_path_frame
<1>7. CASE f.kind = "response"
  BY <1>7, ResponseGood DEF process_frame, process_path_frame
<1> QED BY <1>1, <1>2, <1>3, <1>4, <1>5, <1>6, <1>7

(* A frame from elsewhere begins a validation before it is processed; it   *)
(* is never the answer to that validation's challenge.                     *)
LEMMA RouteGood ==
  ASSUME NEW s, NEW e, Ready(s, e), e.loop # "start", NEW f, Incoming(s, e, f),
         f.kind = "response" => f.n < e.seq
  PROVE  Good(s, e, route_frame(s, e, f))
<1> DEFINE c == check_path_migration(s, e, f.src)
           r == process_frame(s, c.e, f)
<1>0. f.src \in Addr /\ f.n \in Nat /\ e.seq \in Nat
  BY DEF Incoming, FrameType, Ready, EndpointType
<1>1. /\ Good(s, e, c) /\ Ready(s, c.e)
      /\ c.e = e \/ (c.e.challenge = e.seq /\ c.e.remote = e.remote)
      /\ c.e.loop = e.loop
  BY <1>0, MigrationGood
<1>2. route_frame(s, e, f).e = r.e /\ route_frame(s, e, f).out = c.out \cup r.out
  BY DEF route_frame, Then, Sending
<1> HIDE DEF c
<1>3. Incoming(s, c.e, f)
  BY <1>0, <1>1 DEF Incoming
<1>4. /\ Good(s, c.e, r)
      /\ r.e.remote = c.e.remote
           \/ (f.kind = "response" /\ c.e.state = "ValidatingPath" /\ f.n = c.e.challenge)
  BY <1>1, <1>3, ProcessGood
<1> HIDE DEF r
<1>5. r.e.remote = e.remote \/ r.e.remote \in e.seen
  BY <1>0, <1>1, <1>4 DEF Good, Succ
<1>6. Succ(s, e, r.e)
  BY <1>1, <1>4, <1>5, SuccTrans DEF Good
<1>7. \A g \in c.out : Out(s, r.e, g)
  BY <1>1, <1>4, OutMono DEF Good, Ready
<1> QED BY <1>2, <1>4, <1>6, <1>7 DEF Good

-----------------------------------------------------------------------------
(* The remote address changes only to a place where the peer has been.     *)
RemoteStep ==
  \A s \in Side : endpoint[s].remote # None /\ endpoint'[s].remote # endpoint[s].remote
    => endpoint'[s].remote \in endpoint[s].seen

Loops == {"select", "frames", "commands", "timer"}

(* A step that is good for one endpoint preserves the invariant, whatever  *)
(* the network has kept.                                                   *)
LEMMA UpdateInv ==
  ASSUME LInv, NEW s \in Side, NEW u, NEW out, Succ(s, endpoint[s], u),
         \A f \in out : Out(s, u, f),
         endpoint' = [endpoint EXCEPT ![s] = u], net' = net \cup out,
         where' = where, moves' = moves
  PROVE  LInv' /\ RemoteStep
<1> DEFINE e == endpoint[s]
           p == Peer(s)
<1>0. p \in Side /\ p # s /\ Peer(p) = s /\ \A q \in Side : q = s \/ q = p
  BY PeerSide DEF Side, Peer
<1>1. /\ endpoint \in [Side -> EndpointType] /\ where \in [Side -> Addr]
      /\ net \subseteq FrameType /\ moves \in 0 .. MaxEvents
      /\ e \in EndpointType /\ endpoint[p] \in EndpointType
  BY <1>0 DEF LInv, LTypeOK
<1>2. Succ(s, e, u) /\ u \in EndpointType /\ u.state # "Unborn"
  BY DEF Succ
<1>5. endpoint'[s] = u /\ endpoint'[p] = endpoint[p]
  BY <1>0, <1>1
<1>6. LTypeOK'
  <2>1. out \subseteq FrameType
    BY DEF Out
  <2> QED BY <1>1, <1>2, <2>1 DEF LTypeOK
<1>7. \A q \in Side : Sound(q, endpoint[q])'
  <2>2. Sound(s, u)
    BY <1>2 DEF Succ
  <2>3. Sound(s, endpoint[s])'
    BY <1>5, <2>2 DEF Sound
  <2>4. Sound(p, endpoint[p])
    BY <1>0 DEF LInv
  <2>5. Sound(p, endpoint[p])'
    BY <1>5, <2>4 DEF Sound
  <2> QED BY <1>0, <2>3, <2>5
<1>8. /\ e.seq \in Nat /\ u.seq \in Nat /\ e.seq <= u.seq /\ endpoint[p].seq \in Nat
      /\ e.got \subseteq Nat /\ u.got \subseteq Nat /\ endpoint[p].got \subseteq Nat
  BY <1>1, <1>2 DEF Succ, EndpointType
<1>9. \A q \in Side : \A n \in endpoint'[q].got : n < endpoint'[Peer(q)].seq
  <2>1. \A n \in e.got : n < endpoint[p].seq
    BY <1>0 DEF LInv
  <2>2. \A n \in endpoint[p].got : n < e.seq
    BY <1>0 DEF LInv
  <2>3. \A n \in u.got : n < endpoint[p].seq
    BY <1>2, <2>1 DEF Succ
  <2>4. \A n \in endpoint[p].got : n < u.seq
    BY <1>8, <2>2
  <2> QED BY <1>0, <1>5, <2>3, <2>4
<1>10. ASSUME NEW f \in net PROVE FrameSound(f)'
  <2>1. FrameSound(f) /\ f.n \in Nat /\ f.to \in Side
        /\ f.kind \in {"syn", "synack", "push", "fin", "ack", "challenge", "response"}
    BY <1>1 DEF LInv, FrameType
  <2>2. CASE f.to = s
    <3>1. CASE f.kind \in {"syn", "synack", "fin", "challenge", "ack"}
      BY <2>1, <2>2, <3>1, <1>0, <1>5 DEF FrameSound
    <3>2. CASE f.kind = "push"
      BY <2>1, <2>2, <3>2, <1>0, <1>2, <1>5 DEF FrameSound, Succ
    <3>3. CASE f.kind = "response"
      <4>1. f.n < e.seq /\ (e.state = "ValidatingPath" /\ f.n = e.challenge => f.src \in e.seen)
        BY <2>1, <2>2, <3>3 DEF FrameSound
      <4>2. u.state = "ValidatingPath" =>
              \/ u.challenge = e.challenge /\ u.seen = e.seen /\ e.state = "ValidatingPath"
              \/ u.challenge \in Nat /\ u.challenge >= e.seq
        BY <1>2 DEF Succ, Sound
      <4>3. f.n < u.seq /\ (u.state = "ValidatingPath" /\ f.n = u.challenge => f.src \in u.seen)
        BY <2>1, <1>8, <4>1, <4>2
      <4> QED BY <2>2, <3>3, <4>3, <1>5 DEF FrameSound
    <3> QED BY <2>1, <3>1, <3>2, <3>3
  <2>3. CASE f.to = p
    <3>1. CASE f.kind \in {"syn", "response"}
      BY <2>1, <2>3, <3>1, <1>0, <1>5 DEF FrameSound
    <3>2. CASE f.kind = "synack"
      BY <2>1, <2>3, <3>2, <1>0, <1>2, <1>5 DEF FrameSound, Succ
    <3>3. CASE f.kind = "push"
      <4>1. f.n < e.seq /\ f.n \in e.flight \cup endpoint[p].got
        BY <2>1, <2>3, <3>3, <1>0 DEF FrameSound
      <4>2. f.n < u.seq
        BY <2>1, <4>1, <1>8
      <4>3. f.n \in u.flight \cup endpoint[p].got
        BY <4>1, <1>2 DEF Succ
      <4> QED BY <2>3, <3>3, <4>2, <4>3, <1>0, <1>5 DEF FrameSound
    <3>4. CASE f.kind \in {"fin", "challenge"}
      <4>1. f.n < e.seq
        BY <2>1, <2>3, <3>4, <1>0 DEF FrameSound
      <4>2. f.n < u.seq
        BY <2>1, <4>1, <1>8
      <4> QED BY <2>3, <3>4, <4>2, <1>0, <1>5 DEF FrameSound
    <3>5. CASE f.kind = "ack"
      BY <2>1, <2>3, <3>5, <1>0, <1>2, <1>5 DEF FrameSound, Succ
    <3> QED BY <2>1, <3>1, <3>2, <3>3, <3>4, <3>5
  <2> QED BY <1>0, <2>1, <2>2, <2>3
<1>11. ASSUME NEW f \in out PROVE FrameSound(f)'
  <2>1. Out(s, u, f) /\ f.to = p /\ f.n \in Nat
        /\ f.kind \in {"syn", "synack", "push", "fin", "ack", "challenge", "response"}
    BY DEF Out, FrameType
  <2>2. endpoint[p].state = "ValidatingPath" => where[s] \in endpoint[p].seen
    BY <1>0 DEF LInv, Sound
  <2> QED BY <2>1, <2>2, <1>0, <1>5 DEF FrameSound, Out, Side, Peer
<1>12. HandshakeAgreement'
  BY <1>0, <1>2, <1>5 DEF LInv, HandshakeAgreement, Succ, Side, Peer
<1>13. AbortsOnlyOnTimeout'
  BY <1>0, <1>2, <1>5 DEF LInv, AbortsOnlyOnTimeout, Succ
<1>14. LInv'
  BY <1>6, <1>7, <1>9, <1>10, <1>11, <1>12, <1>13 DEF LInv
<1>15. RemoteStep
  BY <1>0, <1>2, <1>5 DEF RemoteStep, Succ
<1> QED BY <1>14, <1>15

LEMMA StepInv ==
  ASSUME LInv, NEW s \in Side, NEW r, NEW loop \in Loops, Step(s, r, loop),
         endpoint[s].state # "Unborn", Good(s, endpoint[s], r)
  PROVE  LInv' /\ RemoteStep
<1> DEFINE e == endpoint[s]
           t == r.e
           u == [t EXCEPT !.loop = loop]
<1>1. Succ(s, e, t) /\ t \in EndpointType /\ t.state # "Unborn"
  BY DEF Good, Succ
<1>2. endpoint' = [endpoint EXCEPT ![s] = u] /\ net' = net \cup r.out
        /\ where' = where /\ moves' = moves
  BY DEF Step
<1>3. \A f \in r.out : Out(s, t, f)
  BY DEF Good
<1> HIDE DEF t
<1>4. /\ u \in EndpointType /\ u.loop = loop
      /\ u.state = t.state /\ u.remote = t.remote /\ u.peer_cid = t.peer_cid
      /\ u.new_addr = t.new_addr /\ u.challenge = t.challenge /\ u.seen = t.seen
      /\ u.migrate = t.migrate /\ u.notifier = t.notifier
      /\ u.seq = t.seq /\ u.flight = t.flight /\ u.fin = t.fin /\ u.got = t.got
      /\ u.expired = t.expired /\ u.aborted = t.aborted
  BY <1>1 DEF EndpointType, Loops
<1> HIDE DEF u
<1>5. Sound(s, u)
  BY <1>1, <1>4 DEF Sound, Tracked, Loops, Succ
<1>6. Succ(s, e, u)
  BY <1>1, <1>4, <1>5 DEF Succ
<1>7. \A f \in r.out : Out(s, u, f)
  BY <1>3, <1>4 DEF Out
<1> QED BY <1>2, <1>6, <1>7, UpdateInv

-----------------------------------------------------------------------------
(* t differs from e only in what the invariant does not speak of.          *)
Alike(e, t) ==
  /\ t \in EndpointType
  /\ t.state = e.state /\ t.loop = e.loop /\ t.remote = e.remote /\ t.peer_cid = e.peer_cid
  /\ t.new_addr = e.new_addr /\ t.challenge = e.challenge /\ t.seen = e.seen
  /\ t.notifier = e.notifier /\ (t.migrate = "pending" <=> t.notifier)
  /\ t.seq = e.seq /\ t.flight = e.flight /\ t.fin = e.fin /\ t.got = e.got
  /\ t.expired = e.expired /\ t.aborted = e.aborted

LEMMA AlikeSucc ==
  ASSUME NEW s, NEW e, Ready(s, e), NEW t, Alike(e, t)
  PROVE  Succ(s, e, t) /\ Ready(s, t)
<1>1. Sound(s, t)
  BY DEF Ready, Alike, Sound, Tracked
<1>2. Ready(s, t)
  BY <1>1 DEF Ready, Alike
<1>3. Succ(s, e, t)
  BY <1>1 DEF Ready, Alike, Succ, EndpointType
<1> QED BY <1>2, <1>3

LEMMA GoodTrans ==
  ASSUME NEW s, NEW e, Ready(s, e), NEW t, Succ(s, e, t), NEW r, Good(s, t, r),
         r.e.remote = e.remote \/ r.e.remote \in e.seen
  PROVE  Good(s, e, r)
BY SuccTrans DEF Good

LEMMA LiveReady ==
  ASSUME LInv, NEW s \in Side, Live(s)
  PROVE  Ready(s, endpoint[s]) /\ endpoint[s].state # "Unborn"
BY DEF LInv, LTypeOK, Live, Ready

LEMMA ReceiveInv ==
  ASSUME LInv, NEW f \in net, Receive(f)
  PROVE  LInv' /\ RemoteStep
<1> DEFINE s == f.to
           e == endpoint[s]
<1>1. f \in FrameType /\ s \in Side /\ FrameSound(f) /\ f.kind # "syn"
  BY DEF LInv, LTypeOK, FrameType, Receive
<1>2. Ready(s, e) /\ e.state # "Unborn" /\ e.loop # "start"
  BY <1>1, LiveReady DEF Receive, CanTake
<1>3. Incoming(s, e, f) /\ (f.kind = "response" => f.n < e.seq)
  BY <1>1 DEF Incoming, FrameSound, FrameType, Side, Peer
<1>4. Step(s, route_frame(s, e, f), "frames")
  BY DEF Receive
<1>5. Good(s, e, route_frame(s, e, f))
  BY <1>2, <1>3, RouteGood
<1> QED BY <1>1, <1>2, <1>4, <1>5, StepInv DEF Loops

LEMMA SynInv ==
  ASSUME LInv, NEW n \in InitialData, SendInitialSyn(n)
  PROVE  LInv' /\ RemoteStep
<1> DEFINE s == "client"
           b == endpoint[s]
           e == [b EXCEPT !.buf = n]
           f == Frame(s, e, "syn", e.remote, 0)
           q == packetize_and_send(s, e)
           r == Then(Sending(e, {f}), LAMBDA c : packetize_and_send(s, c))
<1>1. s \in Side /\ b \in EndpointType /\ n \in Nat /\ Sound(s, b)
  BY LifecycleAssumption DEF Side, LInv, LTypeOK
<1>2. /\ Alike(b, e) /\ e.loop = "start" /\ Step(s, r, "select")
  <2>1. Alike(b, e)
    BY <1>1 DEF Alike, Sound, EndpointType
  <2> QED BY <2>1 DEF SendInitialSyn
<1>3. Ready(s, b) /\ b.state = "Connecting"
  BY <1>1, <1>2 DEF Ready, LInv, Sound, Alike, AbortsOnlyOnTimeout
<1>4. r.e = q.e /\ r.out = {f} \cup q.out
  BY DEF Then, Sending
<1> HIDE DEF e, q
<1>5. Ready(s, e) /\ Succ(s, b, e) /\ e.remote = b.remote
  BY <1>2, <1>3, AlikeSucc DEF Alike
<1>6. Good(s, e, q) /\ q.e.remote = e.remote
  BY <1>5, PacketizeGood DEF q
<1>7. Good(s, b, q)
  BY <1>3, <1>5, <1>6, GoodTrans
<1>8. Out(s, q.e, f)
  <2>1. e.remote \in Addr \cup {None} /\ 0 \in Nat
    BY <1>5 DEF Ready, EndpointType
  <2> QED BY <2>1, <1>5, FrameIs DEF Out
<1>9. Good(s, b, r)
  BY <1>4, <1>7, <1>8 DEF Good
<1> QED BY <1>1, <1>2, <1>3, <1>9, StepInv DEF Loops

(* The new endpoint has numbered and received as little as the unborn one. *)
LEMMA AcceptInv ==
  ASSUME LInv, NEW f \in net, AcceptSyn(f)
  PROVE  LInv' /\ RemoteStep
<1> DEFINE e == endpoint["server"]
           u == new_server(f.src)
<1>1. /\ endpoint \in [Side -> EndpointType] /\ where \in [Side -> Addr]
      /\ net \subseteq FrameType /\ moves \in 0 .. MaxEvents
      /\ "server" \in Side /\ "client" \in Side /\ Peer("server") = "client"
      /\ Peer("client") = "server" /\ \A q \in Side : q \in {"client", "server"}
  BY DEF LInv, LTypeOK, Side, Peer
<1>2. /\ e = NewEndpoint("Unborn", None, {}) /\ f.src \in Addr /\ f.src # None
      /\ endpoint' = [endpoint EXCEPT !["server"] = u]
      /\ net' = net /\ where' = where /\ moves' = moves
  BY <1>1, LifecycleAssumption DEF AcceptSyn, LInv, Sound, FrameType
<1>3. u \in EndpointType
  BY <1>2 DEF new_server, NewEndpoint, EndpointType, States, Timers
<1>4. /\ u.state = "SynReceived" /\ u.loop = "select" /\ u.remote = f.src
      /\ u.new_addr = None /\ u.migrate = "none" /\ u.notifier = FALSE
      /\ u.seq = 0 /\ u.flight = {} /\ u.fin = None /\ u.got = {} /\ u.aborted = FALSE
  BY DEF new_server, NewEndpoint
<1>5. e.seq = 0 /\ e.flight = {} /\ e.got = {} /\ e.state = "Unborn" /\ e.remote = None
  BY <1>2 DEF NewEndpoint
<1> HIDE DEF u
<1>6. endpoint'["server"] = u /\ endpoint'["client"] = endpoint["client"]
  BY <1>1, <1>2
<1>7. LTypeOK'
  BY <1>1, <1>2, <1>3 DEF LTypeOK
<1>8. \A q \in Side : Sound(q, endpoint[q])'
  <2>1. Sound("server", endpoint["server"])'
    BY <1>2, <1>4, <1>6 DEF Sound, Tracked
  <2>2. Sound("client", endpoint["client"])
    BY <1>1 DEF LInv
  <2>3. Sound("client", endpoint["client"])'
    BY <1>2, <1>6, <2>2 DEF Sound
  <2> QED BY <1>1, <2>1, <2>3
<1>9. \A q \in Side : \A n \in endpoint'[q].got : n < endpoint'[Peer(q)].seq
  <2>1. \A n \in endpoint["client"].got : n < e.seq
    BY <1>1 DEF LInv
  <2> QED BY <1>1, <1>4, <1>5, <1>6, <2>1
<1>10. ASSUME NEW g \in net PROVE FrameSound(g)'
  <2>1. FrameSound(g) /\ g.n \in Nat /\ g.to \in Side
        /\ g.kind \in {"syn", "synack", "push", "fin", "ack", "challenge", "response"}
    BY <1>1 DEF LInv, FrameType
  <2>2. CASE g.to = "server"
    <3>1. g.kind # "response"
      <4>1. g.kind = "response" => g.n < e.seq
        BY <2>1, <2>2 DEF FrameSound
      <4> QED BY <2>1, <4>1, <1>5
    <3>2. CASE g.kind \in {"syn", "synack", "fin", "challenge", "ack"}
      BY <2>1, <2>2, <3>2, <1>1, <1>6 DEF FrameSound
    <3>3. CASE g.kind = "push"
      BY <2>1, <2>2, <3>3, <1>1, <1>4, <1>5, <1>6 DEF FrameSound
    <3> QED BY <2>1, <3>1, <3>2, <3>3
  <2>3. CASE g.to = "client"
    <3>1. g.kind \notin {"synack", "push", "fin", "challenge"}
      <4>1. /\ g.kind = "synack" => e.state # "Unborn"
            /\ g.kind \in {"push", "fin", "challenge"} => g.n < e.seq
        BY <2>1, <2>3, <1>1 DEF FrameSound
      <4> QED BY <2>1, <4>1, <1>5
    <3>2. CASE g.kind \in {"syn", "response"}
      BY <2>1, <2>3, <3>2, <1>1, <1>6 DEF FrameSound
    <3>3. CASE g.kind = "ack"
      BY <2>1, <2>3, <3>3, <1>1, <1>4, <1>5, <1>6 DEF FrameSound
    <3> QED BY <2>1, <3>1, <3>2, <3>3
  <2> QED BY <1>1, <2>1, <2>2, <2>3
<1>11. HandshakeAgreement'
  BY <1>1, <1>5, <1>6 DEF LInv, HandshakeAgreement
<1>12. AbortsOnlyOnTimeout'
  BY <1>1, <1>4, <1>6 DEF LInv, AbortsOnlyOnTimeout
<1>13. LInv'
  BY <1>2, <1>7, <1>8, <1>9, <1>10, <1>11, <1>12 DEF LInv
<1>14. RemoteStep
  BY <1>1, <1>5, <1>6 DEF RemoteStep
<1> QED BY <1>13, <1>14

LEMMA SendInv ==
  ASSUME LInv, NEW s \in Side, UserSend(s)
  PROVE  LInv' /\ RemoteStep
<1> DEFINE e == endpoint[s]
           w == [e EXCEPT !.buf = e.buf + 1, !.sends = e.sends + 1]
<1>1. Ready(s, e) /\ e.state # "Unborn" /\ e.loop # "start"
  BY LiveReady DEF UserSend, CanTake
<1>2. Alike(e, w)
  <2>1. e \in EndpointType /\ e.buf + 1 \in Nat /\ e.sends + 1 \in Nat
        /\ (e.migrate = "pending" <=> e.notifier)
    BY <1>1 DEF Ready, Sound, EndpointType
  <2>2. w \in EndpointType
    BY <2>1 DEF EndpointType
  <2> QED BY <2>1, <2>2 DEF Alike, EndpointType
<1>3. Step(s, send_data(s, e), "commands")
  BY DEF UserSend
<1>4. Succ(s, e, w) /\ Ready(s, w) /\ w.remote = e.remote /\ w.state = e.state /\ w.loop = e.loop
  BY <1>1, <1>2, AlikeSucc DEF Alike
<1>5. CASE e.state = "SynReceived"
  <2> DEFINE m == transition_to(w, "Established")
             f == Frame(s, e, "synack", e.remote, 0)
             q == packetize_and_send(s, m)
  <2>1. send_data(s, e).e = q.e /\ send_data(s, e).out = {f} \cup q.out
    BY <1>4, <1>5 DEF send_data, Then, Sending, TransitionOrAbort, is_valid_transition
  <2> HIDE DEF w
  <2>2. Moved(w, m, "Established")
    BY <1>4, <1>5, TransitionTo DEF Ready, Sound, is_valid_transition, States
  <2> HIDE DEF m, f
  <2>3. Succ(s, w, m) /\ m.remote = e.remote
    BY <1>1, <1>4, <2>2, MovedSucc DEF Moved, States
  <2>4. Ready(s, m)
    BY <1>4, <2>2, <2>3 DEF Moved, Ready, Succ
  <2>5. Succ(s, e, m)
    BY <1>1, <1>4, <2>3, SuccTrans
  <2>6. Good(s, m, q) /\ q.e.remote = m.remote /\ q.e.state = m.state
    BY <2>4, PacketizeGood
  <2>7. Good(s, e, q)
    BY <1>1, <2>3, <2>5, <2>6, GoodTrans
  <2>8. Out(s, q.e, f)
    <3>1. e.remote \in Addr \cup {None} /\ 0 \in Nat
      BY <1>1 DEF Ready, EndpointType
    <3>2. s = "server" /\ q.e.state = "Established"
      BY <1>1, <1>5, <2>2, <2>6 DEF Ready, Sound, Moved
    <3> QED BY <3>1, <3>2, <1>1, FrameIs DEF Out, f
  <2> HIDE DEF q
  <2>9. Good(s, e, send_data(s, e))
    BY <2>1, <2>7, <2>8 DEF Good
  <2> QED BY <1>1, <1>3, <2>9, StepInv DEF Loops
<1>6. CASE e.state # "SynReceived"
  <2>1. send_data(s, e) = Sending(w, {})
    BY <1>6 DEF send_data
  <2>2. Good(s, e, send_data(s, e))
    BY <2>1, <1>4, SendingIs DEF Good
  <2> QED BY <1>1, <1>3, <2>2, StepInv DEF Loops
<1> QED BY <1>5, <1>6

LEMMA CloseInv ==
  ASSUME LInv, NEW s \in Side, UserClose(s)
  PROVE  LInv' /\ RemoteStep
<1> DEFINE e == endpoint[s]
           g == begin_graceful_shutdown(e)
           c == [g EXCEPT !.closed = TRUE]
<1>1. Ready(s, e) /\ e.state # "Unborn" /\ e.loop # "start"
  BY LiveReady DEF UserClose, CanTake
<1>2. Succ(s, e, g) /\ Ready(s, g) /\ g.remote = e.remote
  <2>1. CASE e.state \in {"Closing", "ClosingWait", "Closed"}
    <3>1. g = e
      BY <2>1 DEF begin_graceful_shutdown
    <3> QED BY <1>1, <3>1, SuccRefl
  <2>2. CASE e.state \notin {"Closing", "ClosingWait", "Closed"}
    <3>1. Moved(e, g, "Closing")
      BY <1>1, <2>2, Pending DEF begin_graceful_shutdown, Ready, Sound, States
    <3>2. Succ(s, e, g)
      BY <1>1, <3>1, MovedSucc DEF States
    <3> QED BY <1>1, <3>1, <3>2 DEF Moved, Ready, Succ
  <2> QED BY <2>1, <2>2
<1> HIDE DEF g
<1>3. Alike(g, c)
  BY <1>2 DEF Alike, Ready, Sound, EndpointType
<1>4. Step(s, packetize_and_send(s, c), "commands")
  BY DEF UserClose, g
<1> HIDE DEF c
<1>5. Succ(s, g, c) /\ Ready(s, c) /\ c.remote = e.remote
  BY <1>2, <1>3, AlikeSucc DEF Alike
<1>6. Succ(s, e, c)
  BY <1>1, <1>2, <1>5, SuccTrans
<1>7. Good(s, e, packetize_and_send(s, c))
  BY <1>1, <1>5, <1>6, PacketizeGood, GoodTrans
<1> QED BY <1>1, <1>4, <1>7, StepInv DEF Loops

LEMMA MigrateInv ==
  ASSUME LInv, NEW s \in Side, NEW a \in Home[Peer(s)], UserMigrate(s, a)
  PROVE  LInv' /\ RemoteStep
<1> DEFINE e == endpoint[s]
           v == start_path_validation(s, e, a, e.seq, TRUE)
           m == [e EXCEPT !.migrate = "failed"]
<1>1. Ready(s, e) /\ e.state # "Unborn" /\ e.loop # "start"
  BY LiveReady DEF UserMigrate, CanTake
<1>2. a \in Addr
  BY PeerSide, LifecycleAssumption
<1>3. CASE e.state = "Established"
  <2>1. Step(s, SendChallenge(s, v, a), "commands")
    BY <1>3 DEF UserMigrate, can_start_path_validation
  <2>2. Started(s, e, v, a)
    BY <1>1, <1>2, <1>3, StartedIs
  <2> HIDE DEF v
  <2>3. Good(s, e, SendChallenge(s, v, a))
    BY <1>1, <1>2, <1>3, <2>2, ChallengeGood
  <2> QED BY <1>1, <2>1, <2>3, StepInv DEF Loops
<1>4. CASE e.state # "Established"
  <2>1. Step(s, Sending(m, {}), "commands") /\ e.migrate = "none"
    BY <1>4 DEF UserMigrate, can_start_path_validation
  <2>2. Alike(e, m)
    BY <1>1, <2>1 DEF Alike, Ready, Sound, EndpointType
  <2> HIDE DEF m
  <2>3. Good(s, e, Sending(m, {}))
    BY <1>1, <2>2, AlikeSucc, SendingIs DEF Good
  <2> QED BY <1>1, <2>1, <2>3, StepInv DEF Loops
<1> QED BY <1>3, <1>4

LEMMA ExpireInv ==
  ASSUME LInv, NEW s \in Side, NEW t \in Timers, Expire(s, t)
  PROVE  LInv' /\ RemoteStep
<1> DEFINE e == endpoint[s]
           u == [e EXCEPT !.armed = e.armed \ {t}, !.expired = e.expired \cup {t}]
           out == {}
<1>1. Ready(s, e) /\ e.state # "Unborn"
  BY LiveReady DEF Expire
<1>2. endpoint' = [endpoint EXCEPT ![s] = u] /\ net' = net \cup out
        /\ where' = where /\ moves' = moves
  BY <1>1 DEF Expire, LInv, LTypeOK
<1>3. /\ u \in EndpointType
      /\ u.state = e.state /\ u.loop = e.loop /\ u.remote = e.remote /\ u.peer_cid = e.peer_cid
      /\ u.new_addr = e.new_addr /\ u.challenge = e.challenge /\ u.seen = e.seen
      /\ u.migrate = e.migrate /\ u.notifier = e.notifier
      /\ u.seq = e.seq /\ u.flight = e.flight /\ u.fin = e.fin /\ u.got = e.got
      /\ u.aborted = e.aborted
  BY <1>1 DEF Ready, EndpointType
<1> HIDE DEF u
<1>4. Sound(s, u)
  BY <1>1, <1>3 DEF Ready, Sound, Tracked
<1>5. Succ(s, e, u)
  BY <1>1, <1>3, <1>4 DEF Ready, Succ, EndpointType
<1>6. \A f \in out : Out(s, u, f)
  OBVIOUS
<1> HIDE DEF out
<1> QED BY <1>2, <1>5, <1>6, UpdateInv

(* A side moves: the peer that validates a path has seen the new place.    *)
LEMMA MoveInv ==
  ASSUME LInv, NEW s \in Side, NEW a \in Addr, Move(s, a)
  PROVE  LInv' /\ RemoteStep
<1> DEFINE p == Peer(s)
           e == endpoint[p]
           seen == IF e.state = "ValidatingPath" THEN e.seen \cup {a} ELSE e.seen
           u == [e EXCEPT !.seen = seen]
<1>0. p \in Side /\ p # s /\ Peer(p) = s /\ \A q \in Side : q = s \/ q = p
  BY PeerSide DEF Side, Peer
<1>1. /\ endpoint \in [Side -> EndpointType] /\ where \in [Side -> Addr]
      /\ net \subseteq FrameType /\ moves \in 0 .. MaxEvents
      /\ e \in EndpointType /\ endpoint[s] \in EndpointType
  BY <1>0 DEF LInv, LTypeOK
<1>2. /\ endpoint' = [endpoint EXCEPT ![p] = u] /\ net' = net
      /\ where' = [where EXCEPT ![s] = a] /\ moves' = moves + 1 /\ Events < MaxEvents
  BY <1>0, <1>1 DEF Move
<1>3. seen \in SUBSET Addr /\ e.seen \subseteq seen
        /\ (e.state = "ValidatingPath" => a \in seen) /\ (e.state = "Unborn" => seen = e.seen)
  BY <1>1 DEF EndpointType
<1> HIDE DEF seen
<1>4. /\ u \in EndpointType /\ u.seen = seen
      /\ u.state = e.state /\ u.loop = e.loop /\ u.remote = e.remote /\ u.peer_cid = e.peer_cid
      /\ u.new_addr = e.new_addr /\ u.challenge = e.challenge
      /\ u.migrate = e.migrate /\ u.notifier = e.notifier
      /\ u.seq = e.seq /\ u.flight = e.flight /\ u.fin = e.fin /\ u.got = e.got
      /\ u.expired = e.expired /\ u.aborted = e.aborted
  BY <1>1, <1>3 DEF EndpointType
<1>5. e.state = "Unborn" => u = e
  BY <1>1, <1>3 DEF EndpointType
<1> HIDE DEF u
<1>6. endpoint'[p] = u /\ endpoint'[s] = endpoint[s] /\ where'[s] = a /\ where'[p] = where[p]
  BY <1>0, <1>1, <1>2
<1>7. moves' \in 0 .. MaxEvents
  <2>1. /\ Cardinality({q \in Side : endpoint[q].closed}) \in Nat
        /\ Cardinality({q \in Side : endpoint[q].migrate # "none"}) \in Nat
    <3>1. IsFiniteSet(Side)
      <4>1. IsFiniteSet({} \cup {"client"})
        BY FS_EmptySet, FS_AddElement
      <4>2. IsFiniteSet(({} \cup {"client"}) \cup {"server"})
        BY <4>1, FS_AddElement
      <4>3. Side = ({} \cup {"client"}) \cup {"server"}
        BY DEF Side
      <4> QED BY <4>2, <4>3
    <3> QED BY <3>1, FS_Subset, FS_CardinalityType
  <2> QED BY <1>1, <1>2, <2>1, LifecycleAssumption DEF Events
<1>8. LTypeOK'
  BY <1>1, <1>2, <1>4, <1>7 DEF LTypeOK
<1>9. \A q \in Side : Sound(q, endpoint[q])'
  <2>1. Sound(p, e) /\ Sound(s, endpoint[s])
    BY <1>0 DEF LInv
  <2>2. Sound(s, endpoint[s])'
    BY <1>0, <1>6, <2>1 DEF Sound
  <2>3. Sound(p, endpoint[p])'
    BY <1>0, <1>3, <1>4, <1>5, <1>6, <2>1 DEF Sound, Tracked
  <2> QED BY <1>0, <2>2, <2>3
<1>10. \A q \in Side : \A n \in endpoint'[q].got : n < endpoint'[Peer(q)].seq
  BY <1>0, <1>4, <1>6 DEF LInv
<1>11. ASSUME NEW f \in net PROVE FrameSound(f)'
  <2>1. FrameSound(f) /\ f.to \in Side
        /\ f.kind \in {"syn", "synack", "push", "fin", "ack", "challenge", "response"}
    BY <1>1 DEF LInv, FrameType
  <2>2. CASE f.to = s
    BY <2>1, <2>2, <1>0, <1>4, <1>6 DEF FrameSound
  <2>3. CASE f.to = p
    <3>1. CASE f.kind # "response"
      BY <2>1, <2>3, <3>1, <1>0, <1>4, <1>6 DEF FrameSound
    <3>2. CASE f.kind = "response"
      BY <2>1, <2>3, <3>2, <1>0, <1>3, <1>4, <1>6 DEF FrameSound
    <3> QED BY <3>1, <3>2
  <2> QED BY <2>1, <2>2, <2>3, <1>0
<1>12. HandshakeAgreement'
  BY <1>0, <1>4, <1>6 DEF LInv, HandshakeAgreement, Side
<1>13. AbortsOnlyOnTimeout'
  BY <1>0, <1>4, <1>6 DEF LInv, AbortsOnlyOnTimeout
<1>14. LInv'
  BY <1>2, <1>8, <1>9, <1>10, <1>11, <1>12, <1>13 DEF LInv
<1>15. RemoteStep
  BY <1>0, <1>4, <1>6 DEF RemoteStep
<1> QED BY <1>14, <1>15

LEMMA TimeoutInv ==
  ASSUME LInv, NEW s \in Side, NEW due \in SUBSET Tracked(endpoint[s]), NEW forget \in BOOLEAN,
         Timeout(s, due, forget)
  PROVE  LInv' /\ RemoteStep
<1> DEFINE e == endpoint[s]
           r == check_all_timeouts(s, due, forget)
<1>1. Ready(s, e) /\ e.state # "Unborn" /\ e.loop # "start"
  BY LiveReady DEF Timeout
<1>2. Step(s, r, "timer")
  BY DEF Timeout
<1>3. CASE e.expired \cap {"idle", "conn"} # {}
  <2> DEFINE m == transition_to(e, "Closed")
             u == [m EXCEPT !.aborted = TRUE]
  <2>1. r = Sending(u, {})
    BY <1>3 DEF check_all_timeouts, force_close
  <2>2. Moved(e, m, "Closed")
    BY <1>1, TransitionTo DEF Ready, Sound, is_valid_transition, States
  <2> HIDE DEF m
  <2>3. /\ u \in EndpointType /\ u.aborted = TRUE
        /\ u.state = m.state /\ u.loop = m.loop /\ u.remote = m.remote /\ u.peer_cid = m.peer_cid
        /\ u.new_addr = m.new_addr /\ u.migrate = m.migrate /\ u.notifier = m.notifier
        /\ u.seq = m.seq /\ u.flight = m.flight /\ u.fin = m.fin /\ u.got = m.got
        /\ u.expired = m.expired
    BY <2>2 DEF Moved, EndpointType
  <2> HIDE DEF u
  <2>4. Sound(s, u)
    BY <1>1, <2>2, <2>3 DEF Ready, Moved, Sound, Tracked
  <2>5. Succ(s, e, u)
    BY <1>1, <1>3, <2>2, <2>3, <2>4 DEF Ready, Moved, Succ, EndpointType
  <2>6. Good(s, e, r)
    BY <2>1, <2>5, SendingIs DEF Good
  <2> QED BY <1>1, <1>2, <2>6, StepInv DEF Loops
<1>4. CASE e.expired \cap {"idle", "conn"} = {}
  <2> DEFINE fin == IF forget THEN None ELSE e.fin
             t == [e EXCEPT !.expired = {}, !.fin = fin]
             u == IF "path" \in e.expired THEN handle_path_validation_timeout(t) ELSE t
             out == {Resent(s, n) : n \in due}
  <2>1. r = Sending(u, out)
    BY <1>4 DEF check_all_timeouts
  <2>2. fin \in Nat \cup {None} /\ (fin = None \/ fin = e.fin)
    BY <1>1 DEF Ready, EndpointType
  <2> HIDE DEF fin
  <2>3. /\ t \in EndpointType /\ t.fin = fin /\ t.expired = {}
        /\ t.state = e.state /\ t.loop = e.loop /\ t.remote = e.remote /\ t.peer_cid = e.peer_cid
        /\ t.new_addr = e.new_addr /\ t.challenge = e.challenge /\ t.seen = e.seen
        /\ t.migrate = e.migrate /\ t.notifier = e.notifier
        /\ t.seq = e.seq /\ t.flight = e.flight /\ t.got = e.got /\ t.aborted = e.aborted
    BY <1>1, <2>2 DEF Ready, EndpointType
  <2> HIDE DEF t
  <2>4. Sound(s, t)
    BY <1>1, <2>2, <2>3 DEF Ready, Sound, Tracked
  <2>5. Succ(s, e, t) /\ Ready(s, t)
    BY <1>1, <2>3, <2>4 DEF Ready, Succ, EndpointType
  <2>6. Succ(s, t, u) /\ u.remote = t.remote
    <3>1. CASE "path" \in e.expired /\ t.state = "ValidatingPath"
      <4>1. u = transition_to(t, "Established")
        BY <3>1 DEF handle_path_validation_timeout, TransitionOrAbort, is_valid_transition
      <4>2. Moved(t, u, "Established")
        BY <4>1, <3>1, <2>5, TransitionTo DEF Ready, Sound, is_valid_transition, States
      <4> QED BY <4>2, <2>3, <2>5, <1>1, MovedSucc DEF Moved, States
    <3>2. CASE ~("path" \in e.expired /\ t.state = "ValidatingPath")
      <4>1. u = t
        BY <3>2 DEF handle_path_validation_timeout
      <4> QED BY <4>1, <2>5, SuccRefl
    <3> QED BY <3>1, <3>2
  <2> HIDE DEF u
  <2>7. Succ(s, e, u)
    BY <1>1, <2>3, <2>5, <2>6, SuccTrans
  <2>8. ASSUME NEW n \in due PROVE Out(s, u, Resent(s, n))
    <3>1. n \in Nat /\ n < e.seq /\ (n # e.fin => n \in e.flight) /\ e.remote \in Addr \cup {None}
      BY <1>1 DEF Ready, Sound, Tracked, EndpointType
    <3>2. Out(s, e, Resent(s, n))
      <4>1. CASE n = e.fin
        BY <1>1, <3>1, <4>1, FrameIs DEF Out, Resent
      <4>2. CASE n # e.fin
        <5> DEFINE f == Frame(s, e, "push", e.remote, n)
        <5>1. Resent(s, n) = f
          BY <4>2 DEF Resent
        <5>2. f \in FrameType /\ f.to = Peer(s) /\ f.src = where[s] /\ f.kind = "push" /\ f.n = n
          <6>1. "push" \in {"syn", "synack", "push", "fin", "ack", "challenge", "response"}
                /\ n \in Nat /\ e.remote \in Addr \cup {None} /\ Ready(s, e)
            BY <1>1, <3>1
          <6> QED BY ONLY <6>1, FrameIs
        <5> HIDE DEF f
        <5> QED BY <5>1, <5>2, <3>1, <4>2 DEF Out
      <4> QED BY <4>1, <4>2
    <3> QED BY <1>1, <3>2, <2>7, OutMono DEF Ready
  <2>9. Good(s, e, r)
    <3>1. r.e = u /\ r.out = out
      BY <2>1, SendingIs
    <3> QED BY <3>1, <2>7, <2>8 DEF Good
  <2> QED BY <1>1, <1>2, <2>9, StepInv DEF Loops
<1> QED BY <1>3, <1>4

(* What is received is finite, so reassembly ends somewhere.               *)
LEMMA ReassembledNat ==
  ASSUME NEW e \in EndpointType, NEW m \in Nat, \A n \in e.got : n < m
  PROVE  ReassembledTo(e) \in Nat
<1> DEFINE G == e.got \ e.fins
           T == {n \in Nat : n >= e.next /\ n \notin G}
           P(n) == (\A k \in e.next .. n - 1 : k \in G) /\ n \notin G
<1>1. e.got \subseteq Nat /\ e.next \in Nat
  BY DEF EndpointType
<1>2. T \in SUBSET Nat /\ T # {}
  <2>1. e.next + m \in T
    BY <1>1
  <2> QED BY <2>1
<1>3. PICK n \in T : \A k \in T : n <= k
  <2> HIDE DEF T
  <2> QED BY <1>2, Least
<1>4. n \in Nat /\ n >= e.next /\ P(n)
  BY <1>1, <1>3
<1>5. IsFiniteSet(e.got)
  <2>1. e.got \subseteq 0 .. m
    BY <1>1
  <2>2. IsFiniteSet(0 .. m)
    BY FS_Interval
  <2> QED BY <2>1, <2>2, FS_Subset
<1>6. n <= e.next + Cardinality(e.got)
  <2>1. e.next .. n - 1 \subseteq e.got
    BY <1>4
  <2>2. Cardinality(e.next .. n - 1) <= Cardinality(e.got)
    BY <2>1, <1>5, FS_Subset
  <2>3. Cardinality(e.next .. n - 1) = n - e.next
    <3>1. e.next \in Int /\ n - 1 \in Int
      BY <1>1, <1>4
    <3>2. Cardinality(e.next .. n - 1) = IF e.next > n - 1 THEN 0 ELSE (n - 1) - e.next + 1
      BY <3>1, FS_Interval
    <3> QED BY <3>2, <1>1, <1>4
  <2>4. Cardinality(e.got) \in Nat
    BY <1>5, FS_CardinalityType
  <2> QED BY <2>2, <2>3, <2>4, <1>1, <1>4
<1>7. n \in e.next .. e.next + Cardinality(e.got)
  BY <1>1, <1>4, <1>5, <1>6, FS_CardinalityType
<1>8. ReassembledTo(e) \in e.next .. e.next + Cardinality(e.got)
  BY <1>4, <1>7 DEF ReassembledTo
<1> QED BY <1>1, <1>5, <1>8, FS_CardinalityType

LEMMA FollowUpInv ==
  ASSUME LInv, NEW s \in Side, FollowUp(s)
  PROVE  LInv' /\ RemoteStep
<1> DEFINE e == endpoint[s]
           n == ReassembledTo(e)
           r == reassemble(e)
           moved == IF r.eof /\ ~e.eof THEN AfterFin(r) ELSE r
           sent == IF moved.state \in {"Established", "FinWait", "Closing"}
                     THEN packetize_and_send(s, moved) ELSE Sending(moved, {})
           closed == transition_to(sent.e, "Closed")
           result == IF should_close(sent.e) THEN Sending(closed, sent.out) ELSE sent
<1>1. Ready(s, e) /\ e.state # "Unborn" /\ e.loop # "start"
  BY LiveReady DEF FollowUp
<1>2. Step(s, result, "select")
  BY DEF FollowUp
<1>3. n \in Nat
  <2>1. endpoint[Peer(s)].seq \in Nat /\ \A k \in e.got : k < endpoint[Peer(s)].seq
    BY PeerSide DEF LInv, LTypeOK, EndpointType
  <2> QED BY <1>1, <2>1, ReassembledNat DEF Ready
<1>4. Alike(e, r)
  <2> DEFINE b == n \in e.fins
  <2>0. b \in BOOLEAN /\ (e.migrate = "pending" <=> e.notifier)
    BY <1>1 DEF Ready, Sound
  <2>1. r = e \/ r = [e EXCEPT !.next = n, !.eof = b]
    BY DEF reassemble
  <2> HIDE DEF n, b, r
  <2>2. CASE r = e
    BY <1>1, <2>0, <2>2 DEF Ready, Alike
  <2>3. CASE r = [e EXCEPT !.next = n, !.eof = b]
    <3>1. r \in EndpointType
      BY <1>1, <1>3, <2>0, <2>3 DEF Ready, EndpointType
    <3> QED BY <1>1, <3>1, <2>0, <2>3 DEF Ready, Alike, EndpointType
  <2> QED BY <2>1, <2>2, <2>3
<1> HIDE DEF r
<1>5. Succ(s, e, r) /\ Ready(s, r) /\ r.remote = e.remote /\ r.loop = e.loop
  BY <1>1, <1>4, AlikeSucc DEF Alike
<1>6. Succ(s, r, moved) /\ Ready(s, moved) /\ moved.remote = r.remote /\ moved.loop = r.loop
  <2>0. r \in EndpointType /\ (r.migrate = "pending" <=> r.notifier)
    BY <1>5 DEF Ready, Sound
  <2>1. CASE moved = r
    BY <2>1, <1>5, SuccRefl
  <2>2. CASE moved = transition_to(r, "FinWait") /\ r.state \in {"Established", "SynReceived"}
    <3>1. Moved(r, moved, "FinWait")
      BY <2>0, <2>2, TransitionTo DEF is_valid_transition, States
    <3>2. Succ(s, r, moved)
      BY <3>1, <1>1, <1>5, MovedSucc DEF States
    <3> QED BY <3>1, <3>2, <1>5 DEF Moved, Succ, Ready
  <2>3. CASE moved = transition_to(r, "ClosingWait") /\ r.state = "Closing"
    <3>1. Moved(r, moved, "ClosingWait")
      BY <2>0, <2>3, TransitionTo DEF is_valid_transition, States
    <3>2. Succ(s, r, moved)
      BY <3>1, <1>1, <1>5, MovedSucc DEF States
    <3> QED BY <3>1, <3>2, <1>5 DEF Moved, Succ, Ready
  <2> QED BY <2>1, <2>2, <2>3 DEF AfterFin
<1> HIDE DEF moved
<1>7. Good(s, moved, sent) /\ Ready(s, sent.e) /\ sent.e.remote = moved.remote
  <2>1. CASE sent = packetize_and_send(s, moved)
    BY <2>1, <1>6, PacketizeGood
  <2>2. CASE sent = Sending(moved, {})
    BY <2>2, <1>6, NothingGood, SendingIs
  <2> QED BY <2>1, <2>2
<1> HIDE DEF sent
<1>8. Succ(s, e, moved) /\ moved.remote = e.remote
  BY <1>1, <1>5, <1>6, SuccTrans
<1>9. Good(s, e, sent)
  BY <1>1, <1>7, <1>8, GoodTrans
<1>10. CASE should_close(sent.e)
  <2>1. Moved(sent.e, closed, "Closed")
    BY <1>7, TransitionTo DEF Ready, Sound, is_valid_transition, States
  <2>2. sent.e.flight = {}
    BY <1>10 DEF should_close, Tracked
  <2> HIDE DEF closed
  <2>3. Sound(s, closed)
    <3>1. \A k \in Tracked(closed) : k < closed.seq
      BY <1>7, <2>1 DEF Moved, Ready, Sound, Tracked
    <3>2. closed.flight = {} /\ closed.state = "Closed" /\ closed.loop = sent.e.loop
      BY <2>1, <2>2 DEF Moved
    <3>3. sent.e.loop # "start"
      BY <1>7, <1>10 DEF should_close, Ready, Sound
    <3> QED BY <1>7, <2>1, <3>1, <3>2, <3>3 DEF Moved, Ready, Sound
  <2>4. Succ(s, sent.e, closed) /\ closed.remote = e.remote
    BY <1>7, <1>8, <2>1, <2>3 DEF Moved, Ready, Succ, EndpointType
  <2>5. Succ(s, e, closed)
    BY <1>1, <1>9, <2>4, SuccTrans DEF Good
  <2>6. \A f \in sent.out : Out(s, closed, f)
    BY <1>7, <1>9, <2>4, OutMono DEF Good, Ready
  <2>7. result.e = closed /\ result.out = sent.out
    BY <1>10, SendingIs
  <2>8. Good(s, e, result)
    BY <2>5, <2>6, <2>7 DEF Good
  <2> QED BY <1>1, <1>2, <2>8, StepInv DEF Loops
<1>11. CASE ~should_close(sent.e)
  BY <1>1, <1>2, <1>9, <1>11, StepInv DEF Loops
<1> QED BY <1>10, <1>11

-----------------------------------------------------------------------------
LEMMA LInit == Init => LInv
<1> SUFFICES ASSUME Init PROVE LInv
  OBVIOUS
<1> DEFINE c == new_client
           u == NewEndpoint("Unborn", None, {})
<1>1. endpoint["client"] = c /\ endpoint["server"] = u /\ endpoint = [s \in Side |-> endpoint[s]]
  BY DEF Init, Side
<1>2. Start \in [Side -> Addr] /\ Start["server"] \in Addr /\ None \notin Addr
  BY LifecycleAssumption DEF Side
<1>3. c \in EndpointType /\ u \in EndpointType
  BY <1>2 DEF new_client, NewEndpoint, EndpointType, States, Timers
<1>4. /\ c.state = "Connecting" /\ c.loop = "start" /\ c.remote = Start["server"]
      /\ c.new_addr = None /\ c.migrate = "none" /\ c.notifier = FALSE /\ c.peer_cid = FALSE
      /\ c.seq = 0 /\ c.flight = {} /\ c.fin = None /\ c.got = {} /\ c.aborted = FALSE
  BY DEF new_client, NewEndpoint
<1>5. /\ u.state = "Unborn" /\ u.loop = "select" /\ u.remote = None
      /\ u.new_addr = None /\ u.migrate = "none" /\ u.notifier = FALSE
      /\ u.seq = 0 /\ u.flight = {} /\ u.fin = None /\ u.got = {} /\ u.aborted = FALSE
  BY DEF NewEndpoint
<1>6. Sound("server", u)
  BY <1>5 DEF Sound, Tracked
<1> HIDE DEF c, u
<1>7. Sound("client", c)
  BY <1>2, <1>4 DEF Sound, Tracked
<1>8. LTypeOK
  <2>1. endpoint \in [Side -> EndpointType]
    BY <1>1, <1>3 DEF Side
  <2> QED BY <2>1, <1>2, LifecycleAssumption DEF LTypeOK, Init
<1> QED BY <1>1, <1>4, <1>5, <1>6, <1>7, <1>8
        DEF LInv, Init, Side, HandshakeAgreement, AbortsOnlyOnTimeout

LEMMA LNext ==
  ASSUME LInv, [Next]_vars
  PROVE  LInv' /\ RemoteStep
<1>1. ASSUME NEW n \in InitialData, SendInitialSyn(n) PROVE LInv' /\ RemoteStep
  BY <1>1, SynInv
<1>2. ASSUME NEW f \in net, AcceptSyn(f) PROVE LInv' /\ RemoteStep
  BY <1>2, AcceptInv
<1>3. ASSUME NEW f \in net, Receive(f) PROVE LInv' /\ RemoteStep
  BY <1>3, ReceiveInv
<1>4. ASSUME NEW s \in Side, UserSend(s) PROVE LInv' /\ RemoteStep
  BY <1>4, SendInv
<1>5. ASSUME NEW s \in Side, UserClose(s) PROVE LInv' /\ RemoteStep
  BY <1>5, CloseInv
<1>6. ASSUME NEW s \in Side, FollowUp(s) PROVE LInv' /\ RemoteStep
  BY <1>6, FollowUpInv
<1>7. ASSUME NEW s \in Side, NEW a \in Home[Peer(s)], UserMigrate(s, a)
      PROVE  LInv' /\ RemoteStep
  BY <1>7, MigrateInv
<1>8. ASSUME NEW s \in Side, NEW t \in Timers, Expire(s, t) PROVE LInv' /\ RemoteStep
  BY <1>8, ExpireInv
<1>9. ASSUME NEW s \in Side, NEW due \in SUBSET Tracked(endpoint[s]), NEW forget \in BOOLEAN,
             Timeout(s, due, forget)
      PROVE  LInv' /\ RemoteStep
  BY <1>9, TimeoutInv
<1>10. ASSUME NEW s \in Side, NEW a \in Addr, Move(s, a) PROVE LInv' /\ RemoteStep
  BY <1>10, MoveInv
<1>11. CASE UNCHANGED vars
  BY <1>11 DEF vars, LInv, LTypeOK, Sound, FrameSound, HandshakeAgreement,
               AbortsOnlyOnTimeout, RemoteStep
<1> QED BY <1>1, <1>2, <1>3, <1>4, <1>5, <1>6, <1>7, <1>8, <1>9, <1>10, <1>11 DEF Next

(* Whatever the network does, and whoever moves, closes or times out: the  *)
(* two endpoints and every datagram agree, the ends believe in the same    *)
(* connection, and run() fails only on an idle or a connection timeout.    *)
THEOREM LifecycleInvariant == Spec => []LInv
<1>1. LInv /\ [Next]_vars => LInv'
  BY LNext
<1> QED BY <1>1, LInit, PTL DEF Spec

(* should_close: an endpoint that has ended gracefully has left no PUSH    *)
(* behind that its peer has not received.                                  *)
THEOREM GracefulClose == Spec => []ClosedMeansReceived
<1>1. LInv => ClosedMeansReceived
  <2> SUFFICES ASSUME LInv, NEW s \in Side, endpoint[s].state = "Closed", ~endpoint[s].aborted,
                      NEW f \in net, f.kind = "push", f.to = Peer(s)
               PROVE  f.n \in endpoint[Peer(s)].got
    BY DEF ClosedMeansReceived
  <2>1. endpoint[s].flight = {}
    BY DEF LInv, Sound
  <2>2. f.n \in endpoint[s].flight \cup endpoint[Peer(s)].got
    BY PeerSide DEF LInv, FrameSound
  <2> QED BY <2>1, <2>2
<1> QED BY <1>1, LifecycleInvariant, PTL

(* PathProcessor: no response to an earlier challenge, delayed or repeated,*)
(* moves a connection to an address that its peer has left before.         *)
THEOREM MigrationIsLive == Spec => PathIsLive
<1>1. LInv /\ [Next]_vars => RemoteStep
  BY LNext
<1>2. RemoteStep => [RemoteStep]_vars
  OBVIOUS
<1> QED BY <1>1, LifecycleInvariant, PTL DEF Spec, PathIsLive, RemoteStep
=============================================================================

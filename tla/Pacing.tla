------------------------------- MODULE Pacing -------------------------------
(***************************************************************************)
(* When an endpoint sends, and when it sends again: the congestion window  *)
(* (Vegas), the retransmission timeout (RttEstimator), the two in-flight   *)
(* books with the times of their entries, and the event loop that sleeps   *)
(* until the earliest deadline.  The peer acknowledges what it receives;   *)
(* the network delays, loses and reorders.                                 *)
(*                                                                         *)
(* Time is the variable now, in units of which a tick of the clock has     *)
(* Step: the estimator's floating point numbers are kept in the same units *)
(* and rounded down.  The loop is prompt: the clock does not pass a        *)
(* wake-up.  It may pass once the timer branch has run and another event   *)
(* has not happened since; at an exact deadline check_for_rto asks for     *)
(* more than the timeout and finds nothing, and the loop spins until the   *)
(* clock moves.  The loop takes one frame an iteration.                    *)
(*                                                                         *)
(* State:  rel     ReliabilityLayer: next_sequence_number, the chunks in   *)
(*                 the send buffer, both books, the estimator, Vegas       *)
(*         last_recv_time, wake (next_wakeup), state, open (the loop runs) *)
(*         checked the last iteration was the timer branch                 *)
(*         mute    the network loses everything; the scheduler's interface *)
(*                 is called on such connections only                      *)
(*         net     copies on the way to the peer, got what it has received *)
(*                 and acks its acknowledgements on the way back           *)
(*         sch     the unified scheduler, calls the calls of its interface *)
(*                 left, ret its last answer                               *)
(*         maxRtt  the largest sample so far (history)                     *)
(***************************************************************************)
EXTENDS UnifiedScheduler, Functions

CONSTANTS
  Step,                                      (* units of a tick              *)
  InitialCwnd, MinCwnd, InitialSsthresh,     (* 32, 4, u32::MAX packets      *)
  Alpha, Beta,                               (* 2, 4 packets                 *)
  InitialRto, MinRto,                        (* 1000 ms, 500 ms              *)
  FastRetxThreshold,                         (* 3                            *)
  MaxRetries, RetryInterval,                 (* of a FIN: 5 and 500 ms       *)
  IdleTimeout,                               (* config: 5 s                  *)
  DefaultIdle,                               (* TimeoutLayer: 30 s           *)
  PeerWindow,                                (* the peer's receive window    *)
  Delay,                                     (* the network's least delay    *)
  Writes,                                    (* chunks a write may have      *)
  MaxSeq,                                    (* bound: sequence numbers      *)
  MaxCopies, MaxAcks,                        (* bounds: on the way           *)
  MaxCalls                                   (* bound: scheduler calls       *)

ASSUME PacingAssumption ==
  /\ {Step, MinCwnd, MinRto, FastRetxThreshold, RetryInterval} \subseteq Nat \ {0}
  /\ {InitialCwnd, InitialSsthresh, InitialRto, Alpha, Beta, MaxRetries, IdleTimeout} \subseteq Nat
  /\ {DefaultIdle, PeerWindow, Delay, MaxSeq, MaxCalls} \cup Writes \subseteq Nat
  /\ InitialCwnd >= MinCwnd /\ InitialSsthresh >= MinCwnd /\ InitialRto >= MinRto
  /\ Alpha <= Beta /\ RetryInterval % Step = 0

VARIABLES now, rel, last_recv_time, wake, state, open, checked, mute, net, got,
          acks, sch, calls, ret, maxRtt

loopVars == <<rel, last_recv_time, wake, state, open, checked>>
netVars == <<mute, net, got, acks>>
schVars == <<sch, calls, ret>>
vars == <<now, loopVars, netVars, schVars, maxRtt>>

----------------------------------------------------------------------------
(* RttEstimator.                                                           *)

NewEstimator == [srtt |-> 0, rttvar |-> 0, rto |-> InitialRto]

AbsDiff(a, b) == IF a > b THEN a - b ELSE b - a

Larger(a, b) == IF a > b THEN a ELSE b

Smaller(a, b) == IF a < b THEN a ELSE b

update(est, sample) ==
  LET first == est.srtt = 0
      rttvar == IF first THEN sample \div 2
                ELSE (3 * est.rttvar + AbsDiff(est.srtt, sample)) \div 4
      srtt == IF first THEN sample ELSE (7 * est.srtt + sample) \div 8
  IN [srtt |-> srtt, rttvar |-> rttvar, rto |-> Larger(srtt + 4 * rttvar, MinRto)]

\* backoff has no upper limit.
backoff(est) == [est EXCEPT !.rto = 2 * @]

----------------------------------------------------------------------------
(* Vegas.  Unsampled stands for Duration::from_secs(u64::MAX).             *)

Unsampled == 1000000

NewVegas ==
  [cwnd |-> InitialCwnd, ssthresh |-> InitialSsthresh, slow |-> TRUE,
   min_rtt |-> Unsampled, last_rtt |-> Unsampled]

(* The packets queued in the network are cwnd * (rtt - min_rtt) / rtt;     *)
(* with a time of zero the quotient is not a number and no comparison      *)
(* holds.                                                                  *)
Fewer(cwnd, rtt, min, bound) == min > 0 /\ cwnd * (rtt - min) < bound * rtt

More(cwnd, rtt, min, bound) == min > 0 /\ cwnd * (rtt - min) > bound * rtt

on_ack(cc, rtt) ==
  LET min == Smaller(cc.min_rtt, rtt)
      sampled == [cc EXCEPT !.last_rtt = rtt, !.min_rtt = min]
  IN IF cc.slow
       THEN [sampled EXCEPT !.cwnd = @ + 1, !.slow = cc.cwnd + 1 < cc.ssthresh]
     ELSE IF Fewer(cc.cwnd, rtt, min, Alpha)
       THEN [sampled EXCEPT !.cwnd = @ + 1]
     ELSE IF More(cc.cwnd, rtt, min, Beta)
       THEN [sampled EXCEPT !.cwnd = Larger(@ - 1, MinCwnd)]
     ELSE sampled

Congestive(cc) ==
  cc.last_rtt = Unsampled \/ cc.last_rtt > cc.min_rtt + cc.min_rtt \div 5

on_packet_loss(cc) ==
  LET half == Larger(cc.cwnd \div 2, MinCwnd)
  IN IF Congestive(cc)
       THEN [cc EXCEPT !.ssthresh = half, !.cwnd = half, !.slow = TRUE]
       ELSE [cc EXCEPT !.cwnd = Larger((4 * @) \div 5, MinCwnd)]

----------------------------------------------------------------------------
(* The books of RetransmissionManager: in SackManager's an entry has the   *)
(* time last_sent_at and the count of SACKs that skipped it, in the simple *)
(* one the time, the retries and when it was sent first.                   *)

EmptyBook == [s \in {} |-> 0]

Entries(book, keep, new) ==
  [s \in keep |-> IF s \in DOMAIN new THEN new[s] ELSE book[s]]

\* The deadlines of both books.
sack_deadlines(r) == {r.sack[s].sent + r.est.rto : s \in DOMAIN r.sack}

simple_deadlines(r) == {r.simple[s].sent + RetryInterval : s \in DOMAIN r.simple}

\* Mutant: the control frames' deadlines are forgotten.
MutantNextDeadline(r) ==
  IF sack_deadlines(r) = {} THEN {} ELSE {Min(sack_deadlines(r))}

next_retransmission_deadline(r) ==
  LET all == sack_deadlines(r) \cup simple_deadlines(r)
  IN IF all = {} THEN {} ELSE {Min(all)}

has_retransmission_timeout(r, t) ==
  \E d \in sack_deadlines(r) \cup simple_deadlines(r) : t >= d

\* check_for_rto takes what is older than the timeout, the simple manager
\* what is as old as its interval.
RtoDue(r, t) == {s \in DOMAIN r.sack : t - r.sack[s].sent > r.est.rto}

SimpleDue(r, t) == {s \in DOMAIN r.simple : t - r.simple[s].sent >= RetryInterval}

Expired(r, t) == {s \in SimpleDue(r, t) : r.simple[s].retries >= MaxRetries}

\* Mutant: a retry is not counted.
MutantCheckSimple(r, t) ==
  Entries(r.simple, DOMAIN r.simple \ Expired(r, t),
          [s \in SimpleDue(r, t) |-> [r.simple[s] EXCEPT !.sent = t]])

check_simple(r, t) ==
  Entries(r.simple, DOMAIN r.simple \ Expired(r, t),
          [s \in SimpleDue(r, t) |->
             [r.simple[s] EXCEPT !.sent = t, !.retries = @ + 1]])

\* The frames check_retransmission_timeouts returns.
Resent(r, t) == RtoDue(r, t) \cup (SimpleDue(r, t) \ Expired(r, t))

(* ReliabilityLayer::check_retransmissions: every overdue frame is sent    *)
(* again; if there is any, the window shrinks and the timeout doubles, for *)
(* the fixed intervals of a FIN too.                                       *)
\* Mutant: the window shrinks once for every frame.
MutantCheckRetransmissions(r, t) ==
  LET lose[n \in Nat] == IF n = 0 THEN r.cc ELSE on_packet_loss(lose[n - 1])
      any == Resent(r, t) # {}
  IN [r EXCEPT !.sack = Entries(@, DOMAIN @,
                                [s \in RtoDue(r, t) |-> [r.sack[s] EXCEPT !.sent = t]]),
               !.simple = check_simple(r, t),
               !.cc = lose[Cardinality(Resent(r, t))],
               !.est = IF any THEN backoff(@) ELSE @]

check_retransmissions(r, t) ==
  LET any == Resent(r, t) # {}
  IN [r EXCEPT !.sack = Entries(@, DOMAIN @,
                                [s \in RtoDue(r, t) |-> [r.sack[s] EXCEPT !.sent = t]]),
               !.simple = check_simple(r, t),
               !.cc = IF any THEN on_packet_loss(@) ELSE @,
               !.est = IF any THEN backoff(@) ELSE @]

\* check_all_timeouts calls check_retransmissions only when the reliability
\* layer reports RetransmissionTimeout.
AfterTimeouts(r, t) ==
  IF has_retransmission_timeout(r, t) THEN check_retransmissions(r, t) ELSE r

----------------------------------------------------------------------------
(* handle_ack: what the frame acknowledges leaves the books, each SACK-    *)
(* tracked packet giving a sample measured from its last sending; frames   *)
(* skipped often enough are sent again and count as one loss.              *)

CumulativeAcked(r, next) == {s \in DOMAIN r.sack : s < next}

SackAcked(r, next, sack) == (DOMAIN r.sack \cap sack) \ CumulativeAcked(r, next)

Samples(r, next, sack, t) ==
  LET order == Ascending(CumulativeAcked(r, next)) \o Ascending(SackAcked(r, next, sack))
  IN [i \in DOMAIN order |-> t - r.sack[order[i]].sent]

Skipped(r, next, sack) ==
  {s \in DOMAIN r.sack \ (CumulativeAcked(r, next) \cup sack) :
     \E h \in SackAcked(r, next, sack) : s < h}

FastRetransmitted(r, next, sack) ==
  {s \in Skipped(r, next, sack) : r.sack[s].skips + 1 >= FastRetxThreshold}

process_ack(r, next, sack, t) ==
  LET fast == FastRetransmitted(r, next, sack)
  IN Entries(r.sack,
             DOMAIN r.sack \ (CumulativeAcked(r, next) \cup sack),
             [s \in Skipped(r, next, sack) |->
                IF s \in fast THEN [r.sack[s] EXCEPT !.sent = t, !.skips = 0]
                              ELSE [r.sack[s] EXCEPT !.skips = @ + 1]])

\* Estimator and window take in one sample after the other.
Measured(r, samples) ==
  LET after[n \in 0 .. Len(samples)] ==
        IF n = 0 THEN [est |-> r.est, cc |-> r.cc]
        ELSE [est |-> update(after[n - 1].est, samples[n]),
              cc |-> on_ack(after[n - 1].cc, samples[n])]
  IN after[Len(samples)]

handle_ack(r, next, sack, t) ==
  LET measured == Measured(r, Samples(r, next, sack, t))
  IN [r EXCEPT !.sack = process_ack(r, next, sack, t),
               !.simple = Entries(@, {s \in DOMAIN @ : s >= next /\ s \notin sack},
                                  EmptyBook),
               !.est = measured.est,
               !.cc = IF FastRetransmitted(r, next, sack) # {}
                        THEN on_packet_loss(measured.cc) ELSE measured.cc]

----------------------------------------------------------------------------
(* packetize_and_send: as many chunks as both windows leave room for, and  *)
(* in Closing a FIN unless one is in flight.                               *)

SaturatingSub(a, b) == IF a > b THEN a - b ELSE 0

\* Mutant: the subtraction wraps around instead of stopping at zero.
MutantPermit(r) ==
  LET n == Cardinality(DOMAIN r.sack)
  IN IF n > r.cc.cwnd \/ n > PeerWindow THEN MaxSeq
     ELSE Smaller(r.cc.cwnd - n, PeerWindow - n)

permit(r) ==
  LET n == Cardinality(DOMAIN r.sack)
  IN Smaller(SaturatingSub(r.cc.cwnd, n), SaturatingSub(PeerWindow, n))

packetize(r, t) ==
  LET n == Smaller(permit(r), r.buf)
      new == [s \in r.next .. r.next + n - 1 |-> [sent |-> t, skips |-> 0]]
  IN [r EXCEPT !.next = @ + n, !.buf = @ - n,
               !.sack = Entries(@, DOMAIN @ \cup DOMAIN new, new)]

WithFin(r, t) ==
  LET fin == [s \in {r.next} |-> [sent |-> t, retries |-> 0, first |-> t]]
  IN IF DOMAIN r.simple = {}
       THEN [r EXCEPT !.next = @ + 1,
                      !.simple = Entries(@, DOMAIN @ \cup {r.next}, fin)]
       ELSE r

packetize_and_send(r, st, t) ==
  IF st = "Closing" THEN WithFin(packetize(r, t), t) ELSE packetize(r, t)

----------------------------------------------------------------------------
(* Waking up.                                                              *)

next_connection_timeout_deadline(recv) == recv + IdleTimeout

calculate_next_wakeup_time(r, recv, t) ==
  Min(next_retransmission_deadline(r)
        \cup {next_connection_timeout_deadline(recv), t + Fallback})

(* Any of the frames may be lost on the way; the ones that are not are     *)
(* copies in net.  In a mute network all are.                              *)
Transmit(frames) ==
  \E kept \in IF mute THEN {{}} ELSE SUBSET frames :
    /\ net' = net \cup {[seq |-> s, at |-> now] : s \in kept}
    /\ Cardinality(net') <= MaxCopies

(* The end of an iteration: packetize, and compute the next wake-up.       *)
(* resent are the frames the handler itself has sent again.                *)
FollowUp(r, st, recv, resent) ==
  LET final == packetize_and_send(r, st, now)
  IN /\ final.next <= MaxSeq
     /\ rel' = final
     /\ wake' = calculate_next_wakeup_time(final, recv, now)
     /\ Transmit(resent \cup (r.next .. final.next - 1))

----------------------------------------------------------------------------
(* Actions.                                                                *)

Init ==
  /\ now = 0
  /\ rel = [next |-> 0, buf |-> 0, sack |-> EmptyBook, simple |-> EmptyBook,
            est |-> NewEstimator, cc |-> NewVegas]
  /\ last_recv_time = 0 /\ wake = Smaller(IdleTimeout, Fallback)
  /\ state = "Established" /\ open = TRUE /\ checked = FALSE
  /\ mute \in BOOLEAN /\ net = {} /\ got = {} /\ acks = {}
  /\ sch = NewScheduler(0) /\ calls = (IF mute THEN MaxCalls ELSE 0) /\ ret = [at |-> NoInstant, deadline |-> NoInstant]
  /\ maxRtt = 0

Write(n) ==
  /\ open /\ state = "Established"
  /\ rel.next + rel.buf + n <= MaxSeq
  /\ FollowUp([rel EXCEPT !.buf = @ + n], state, last_recv_time, {})
  /\ checked' = FALSE
  /\ UNCHANGED <<now, last_recv_time, state, open, mute, got, acks, schVars, maxRtt>>

Close ==
  /\ open /\ state = "Established"
  /\ state' = "Closing"
  /\ FollowUp(rel, state', last_recv_time, {})
  /\ checked' = FALSE
  /\ UNCHANGED <<now, last_recv_time, open, mute, got, acks, schVars, maxRtt>>

\* What an acknowledgement says: the next number expected and those above.
NextOf(received) == Min({s \in 0 .. MaxSeq + 1 : s \notin received})

HandleAck(received) ==
  LET next == NextOf(received)
      sack == {s \in received : s > next}
  IN /\ open
     /\ acks' = acks \ {received}
     /\ last_recv_time' = now
     /\ FollowUp(handle_ack(rel, next, sack, now), state, now,
                 FastRetransmitted(rel, next, sack))
     /\ maxRtt' = Max({maxRtt} \cup Range(Samples(rel, next, sack, now)))
     /\ checked' = FALSE
     /\ UNCHANGED <<now, state, open, mute, got, schVars>>

(* The timer branch.  The idle timer was registered when the connection    *)
(* was made and ends it; otherwise overdue frames are sent again.          *)
check_all_timeouts ==
  /\ open /\ now >= wake /\ ~checked
  /\ IF now >= IdleTimeout
       THEN /\ open' = FALSE
            /\ rel' = AfterTimeouts(rel, now)
            /\ UNCHANGED <<wake, checked, net, sch>>
       ELSE /\ FollowUp(AfterTimeouts(rel, now), state, last_recv_time, Resent(rel, now))
            /\ checked' = TRUE
            /\ sch' = cleanup_expired_data(sch, now)
            /\ UNCHANGED open
  /\ UNCHANGED <<now, last_recv_time, state, mute, got, acks, calls, ret, maxRtt>>

\* The peer receives a copy and acknowledges all it has; the
\* acknowledgement may be lost.
Deliver(c) ==
  /\ now >= c.at + Delay
  /\ net' = net \ {c}
  /\ got' = got \cup {c.seq}
  /\ acks' \in {acks, acks \cup {got'}}
  /\ Cardinality(acks') <= MaxAcks
  /\ UNCHANGED <<now, mute, loopVars, schVars, maxRtt>>

Tick ==
  /\ open /\ (now < wake \/ checked)
  /\ now' = now + Step
  /\ checked' = FALSE
  /\ UNCHANGED <<rel, last_recv_time, wake, state, open, netVars, schVars, maxRtt>>

(* The interface of the unified scheduler, called with the reliability     *)
(* layer and the timing manager.                                           *)
LayerDeadlines ==
  next_retransmission_deadline(rel) \cup {last_recv_time + DefaultIdle}

calculate_unified_wakeup ==
  /\ open /\ calls > 0
  /\ sch' = calculate_unified_deadline(sch, LayerDeadlines, now)
  /\ ret' = [at |-> now, deadline |-> sch'.deadline]
  /\ calls' = calls - 1
  /\ UNCHANGED <<now, loopVars, netVars, maxRtt>>

CheckUnified ==
  /\ open /\ calls > 0 /\ now < IdleTimeout
  /\ sch' = check_unified_timeout_events(sch, has_retransmission_timeout(rel, now), now)
  /\ calls' = calls - 1
  /\ UNCHANGED <<now, loopVars, netVars, ret, maxRtt>>

Next ==
  \/ \E n \in Writes : Write(n)
  \/ Close
  \/ \E a \in acks : HandleAck(a)
  \/ check_all_timeouts
  \/ \E c \in net : Deliver(c)
  \/ Tick
  \/ calculate_unified_wakeup
  \/ CheckUnified

Spec == Init /\ [][Next]_vars
----------------------------------------------------------------------------
(* Properties.                                                             *)

InFlight(r) == Cardinality(DOMAIN r.sack)

\* A reliability layer with books over the given numbers.
Reliability(tracked, controls) ==
  [next : Nat, buf : Nat,
   sack : [tracked -> [sent : Nat, skips : Nat]],
   simple : [controls -> [sent : Nat, retries : 0 .. MaxRetries, first : Nat]],
   est : [srtt : Nat, rttvar : Nat, rto : Nat],
   cc : [cwnd : Nat, ssthresh : Nat, slow : BOOLEAN, min_rtt : Nat, last_rtt : Nat]]

Scheduler ==
  [cached_now : Nat, valid_until : Nat, computed_at : Nat \cup {NoInstant},
   deadline : Nat \cup {NoInstant}, patterns : Seq(Nat)]

(* The type invariant: a book holds numbers already given away, and the    *)
(* peer has only those.                                                    *)
PTypeOK ==
  /\ now \in Nat /\ wake \in Nat /\ last_recv_time \in 0 .. now
  /\ rel \in Reliability(DOMAIN rel.sack, DOMAIN rel.simple) /\ sch \in Scheduler
  /\ DOMAIN rel.sack \subseteq 0 .. rel.next - 1
  /\ DOMAIN rel.simple \subseteq (0 .. rel.next - 1) \ DOMAIN rel.sack
  /\ state \in {"Established", "Closing"} /\ {open, checked, mute} \subseteq BOOLEAN
  /\ net \subseteq [seq : 0 .. rel.next - 1, at : 0 .. now]
  /\ got \subseteq 0 .. rel.next - 1 /\ acks \subseteq SUBSET got
  /\ calls \in Nat /\ maxRtt \in 0 .. now

(* However losses and samples follow each other, neither the window nor    *)
(* the threshold falls below min_cwnd_packets, and the timeout not below   *)
(* min_rto: the sender never stops for good (vegas.rs, rtt.rs).            *)
Floors ==
  /\ rel.cc.cwnd >= MinCwnd /\ rel.cc.ssthresh >= MinCwnd
  /\ rel.est.rto >= MinRto

(* The smoothed round-trip time stays between the least and the largest    *)
(* sample, first sample, zero samples and backoffs included (rtt.rs).      *)
SrttWithinSamples ==
  rel.cc.min_rtt # Unsampled => rel.est.srtt \in rel.cc.min_rtt .. maxRtt

(* A FIN that nobody acknowledges is given up when its retries are used    *)
(* up, however the data's timeouts and the wake-ups fall                   *)
(* (simple_retx_manager.rs).                                               *)
GivesUpInTime ==
  open => \A s \in DOMAIN rel.simple :
            now - rel.simple[s].first <= (MaxRetries + 1) * RetryInterval

(* Before the first sample, and when every sample is huge, the smoothed    *)
(* time is 0 and min_rtt what it was at first.                              *)
SrttKnown ==
  \/ rel.est.srtt \in rel.cc.min_rtt .. maxRtt
  \/ rel.est.srtt = 0 /\ rel.cc.min_rtt = Unsampled

(* The loop is awake in time: no deadline lies before the wake-up, and      *)
(* after the timer branch nothing is overdue.                               *)
AwakeInTime ==
  open => /\ \A d \in sack_deadlines(rel) \cup simple_deadlines(rel) : wake <= d
          /\ checked => RtoDue(rel, now) = {} /\ SimpleDue(rel, now) = {}

(* No frame was sent in the future, and a FIN was last sent a whole number  *)
(* of intervals after it was first sent, on the tick at which it was due.   *)
SentOnTime ==
  /\ now % Step = 0
  /\ \A s \in DOMAIN rel.sack : rel.sack[s].sent <= now
  /\ \A s \in DOMAIN rel.simple : LET e == rel.simple[s] IN
       /\ e.sent % Step = 0 /\ e.sent <= now
       /\ e.sent = e.first + e.retries * RetryInterval
       /\ open => now - e.sent <= RetryInterval

(* The scheduler's interface is called without a network.  Its clock is     *)
(* behind by less than CacheFor once asked, and its cached deadline covers  *)
(* what was sent before the time it claims to be computed at.               *)
CacheKnown ==
  /\ IF mute THEN net = {} /\ acks = {} ELSE calls = 0 /\ sch.computed_at = NoInstant
  /\ sch.cached_now <= now /\ sch.valid_until <= sch.cached_now + CacheFor
  /\ sch.computed_at <= sch.cached_now
  /\ sch.computed_at # NoInstant =>
       /\ sch.deadline # NoInstant
       /\ \A s \in DOMAIN rel.sack : rel.sack[s].sent < sch.computed_at
            => sch.deadline <= rel.sack[s].sent + rel.est.rto
       /\ \A s \in DOMAIN rel.simple : rel.simple[s].sent < sch.computed_at
            => sch.deadline <= rel.simple[s].sent + RetryInterval

(* The scheduler keeps at most PatternCap patterns, in the order of their   *)
(* times, although it records them by its cached clock.                     *)
PatternsInOrder ==
  /\ Len(sch.patterns) <= PatternCap
  /\ \A i \in DOMAIN sch.patterns : sch.patterns[i] <= sch.cached_now
  /\ \A i, j \in DOMAIN sch.patterns : i < j => sch.patterns[i] <= sch.patterns[j]

(* What window, timeout, smoothed time, the retries of a FIN, wake-ups and *)
(* the scheduler's cache keep, whatever losses, samples and backoffs       *)
(* follow each other (vegas.rs, rtt.rs, simple_retx_manager.rs,            *)
(* endpoint.rs, unified_scheduler.rs).                                     *)
PInv ==
  /\ PTypeOK /\ Floors /\ SrttWithinSamples /\ GivesUpInTime
  /\ SrttKnown /\ AwakeInTime /\ SentOnTime /\ CacheKnown /\ PatternsInOrder

(* The clock never moves on while the loop sleeps over an overdue frame:   *)
(* whatever changed the timeouts, the next wake-up takes it into account   *)
(* (calculate_next_wakeup_time, has_retransmission_timeout and             *)
(* check_retransmission_timeouts agree).                                   *)
NothingOverdueSleeps ==
  [][now' > now =>
       /\ \A s \in DOMAIN rel.sack : now - rel.sack[s].sent <= rel.est.rto
       /\ \A s \in DOMAIN rel.simple : now - rel.simple[s].sent < RetryInterval]_vars

(* New packets leave only into room of both windows, also when the window  *)
(* has shrunk below what is in flight (packetize).                         *)
WithinWindow ==
  [][DOMAIN rel'.sack \ DOMAIN rel.sack # {} =>
       InFlight(rel') <= Smaller(rel'.cc.cwnd, PeerWindow)]_vars

(* One event, however many packets it loses, at most halves the window     *)
(* once (handle_ack, check_retransmissions).                               *)
OneLossPerEvent ==
  [][2 * rel'.cc.cwnd + Cardinality(DOMAIN rel.sack \ DOMAIN rel'.sack) + 1
       >= rel.cc.cwnd]_vars

(* The unified deadline may come from a cache, and from a cached clock,    *)
(* but a frame that left two cache lifetimes ago is always accounted for,  *)
(* as long as no sample shortens the timeout (calculate_unified_deadline,  *)
(* TimeCache::now).                                                        *)
StaleAtMostTwice ==
  [][ret' # ret =>
       /\ \A s \in DOMAIN rel.sack :
            rel.sack[s].sent + 2 * CacheFor <= now
              => ret'.deadline <= rel.sack[s].sent + rel.est.rto
       /\ \A s \in DOMAIN rel.simple :
            rel.simple[s].sent + 2 * CacheFor <= now
              => ret'.deadline <= rel.simple[s].sent + RetryInterval]_vars
=============================================================================

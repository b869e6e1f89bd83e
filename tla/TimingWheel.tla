----------------------------- MODULE TimingWheel -----------------------------
(***************************************************************************)
(* The timing wheel of src/timer/wheel as a value and operations on it.    *)
(*                                                                         *)
(* A wheel has SlotCount slots of SlotDuration each, turning since time 0. *)
(* timer_map says where every timer is, so that a timer can be cancelled   *)
(* without a search; the positions in it have to follow every swap, every  *)
(* shift and every move between slots.  current_time is the time of the    *)
(* last slot the wheel was advanced to and lags behind the clock;          *)
(* cached_next_expiry remembers the answer of next_expiry_time.            *)
(*                                                                         *)
(* Positions in a slot count from 1.  The event that a timer carries is    *)
(* known by its connection and its kind.                                   *)
(***************************************************************************)
EXTENDS Integers, Sequences, FiniteSets, SequencesExt

CONSTANTS
  SlotCount,     (* slots of the wheel, a power of two                      *)
  SlotDuration,  (* time units of a slot                                    *)
  Tolerance,     (* the millisecond of slack when the cache is invalidated  *)
  Lanes,         (* lanes of a vector: 4                                    *)
  LaneRange,     (* values of the narrow integers of the vector lanes       *)
  MaxTimers,     (* bound: timer ids                                        *)
  Conn,          (* the connections that own timers                         *)
  Kind,          (* TimeoutEvent: the kinds of timeout                      *)
  None           (* no value                                                *)

Slot == 0 .. SlotCount - 1
TimerId == 1 .. MaxTimers
Place == Slot \X (Nat \ {0})

ASSUME WheelAssumption ==
  /\ SlotCount \in Nat \ {0} /\ SlotDuration \in Nat \ {0}
  /\ Tolerance \in Nat /\ MaxTimers \in Nat
  /\ Lanes \in Nat \ {0} /\ LaneRange \in Nat \ {0} /\ LaneRange % SlotCount = 0
  /\ None \notin Conn \cup Kind \cup Nat \cup Place

TimerEntry == [id : TimerId, expiry : Nat, conn : Conn, kind : Kind]
Wheel ==
  [slots : [Slot -> Seq(TimerEntry)], timer_map : [TimerId -> Place \cup {None}],
   current_slot : Slot, current_time : Nat, next_entry_id : 1 .. MaxTimers + 1,
   cached_next_expiry : Nat \cup {None}]

(* TimingWheel::new.                                                       *)
EmptyWheel ==
  [slots |-> [s \in Slot |-> <<>>], timer_map |-> [i \in TimerId |-> None],
   current_slot |-> 0, current_time |-> 0, next_entry_id |-> 1,
   cached_next_expiry |-> None]

(* The mask of slot_count - 1 is the remainder by a power of two.          *)
calculate_slot_index(expiry) == (expiry \div SlotDuration) % SlotCount

Entries(w) == UNION {Range(w.slots[s]) : s \in Slot}
Ids(seq) == {e.id : e \in Range(seq)}
(* The elements of a sequence at the given positions, in their order: the  *)
(* n-th position has n - 1 below it.                                       *)
AtPositions(seq, S) ==
  [n \in 1 .. Cardinality(S) |->
     seq[CHOOSE p \in S : Cardinality({q \in S : q < p}) = n - 1]]
Expired(slot, now) == AtPositions(slot, {p \in DOMAIN slot : slot[p].expiry <= now})
Pending(slot, now) == AtPositions(slot, {p \in DOMAIN slot : slot[p].expiry > now})
timer_count(w) == Cardinality({i \in TimerId : w.timer_map[i] # None})
Earliest(times) == CHOOSE t \in times : \A u \in times : t <= u

-----------------------------------------------------------------------------
(* Adding.                                                                 *)

(* An entry goes to the back of the slot of its expiry, and on the map.    *)
PushBack(w, e) ==
  LET s == calculate_slot_index(e.expiry) IN
  [w EXCEPT !.slots[s] = Append(@, e),
            !.timer_map[e.id] = <<s, Len(w.slots[s]) + 1>>]

EarlierOf(cached, expiry) ==
  IF cached = None THEN expiry ELSE IF expiry < cached THEN expiry ELSE cached

add_timer(w, delay, c, k) ==
  LET e == [id |-> w.next_entry_id, expiry |-> w.current_time + delay, conn |-> c, kind |-> k]
  IN [PushBack(w, e) EXCEPT !.next_entry_id = @ + 1,
        !.cached_next_expiry = EarlierOf(@, e.expiry)]

(* A batch is a sequence of <<delay, kind>> for one connection.  The ids   *)
(* follow one another; the loops over vectors compute  the same ids,       *)
(* expiries and slots as the loops for the rest.                           *)
simd_calculate_batch_metadata(w, c, batch) ==
  [n \in 1 .. Len(batch) |->
     [id |-> w.next_entry_id + n - 1, expiry |-> w.current_time + batch[n][1],
      conn |-> c, kind |-> batch[n][2]]]

(* Full vectors take the slot from the low bits of the offset, the rest    *)
(* from the whole of it.  LaneRange stands for 2^32.                       *)
simd_process_delays(w, batch) ==
  [n \in 1 .. Len(batch) |->
     LET offset == (w.current_time + batch[n][1]) \div SlotDuration IN
     IF n <= Lanes * (Len(batch) \div Lanes) THEN (offset % LaneRange) % SlotCount ELSE offset % SlotCount]

(* Mutant: the earliest expiry is that of the batch alone.                 *)
MutantBatchAdd(w, c, batch) ==
  LET entries == simd_calculate_batch_metadata(w, c, batch)
      w1 == FoldLeft(PushBack, w, entries)
  IN IF batch = <<>> THEN w
     ELSE [w1 EXCEPT !.next_entry_id = @ + Len(batch),
             !.cached_next_expiry = Earliest({e.expiry : e \in Range(entries)})]

(* The batch is grouped by slot, and every group is appended in order.     *)
batch_add_timers(w, c, batch) ==
  LET entries == simd_calculate_batch_metadata(w, c, batch)
      slot_indices == simd_process_delays(w, batch)
      group(s) == AtPositions(entries, {n \in DOMAIN batch : slot_indices[n] = s})
      position(n) == Len(w.slots[slot_indices[n]])
                       + Cardinality({j \in 1 .. n : slot_indices[j] = slot_indices[n]})
      index(id) == id - w.next_entry_id + 1
  IN IF batch = <<>> THEN w
     ELSE [w EXCEPT
             !.slots = [s \in Slot |-> @[s] \o group(s)],
             !.timer_map = [id \in TimerId |->
                              IF id \in Ids(entries)
                                THEN <<slot_indices[index(id)], position(index(id))>> ELSE @[id]],
             !.next_entry_id = @ + Len(batch),
             !.cached_next_expiry =
               Earliest({e.expiry : e \in Range(entries)} \cup ({@} \ {None}))]

-----------------------------------------------------------------------------
(* Cancelling.                                                             *)

(* Mutant: the entry that took the free place keeps its old position.      *)
MutantSwapRemove(w, s, p) ==
  LET slot == w.slots[s] last == slot[Len(slot)] IN
  [w EXCEPT !.slots[s] = SubSeq([slot EXCEPT ![p] = last], 1, Len(slot) - 1)]

(* The last entry of the slot takes the place of the removed one.          *)
SwapRemove(w, s, p) ==
  LET slot == w.slots[s] last == slot[Len(slot)] IN
  [w EXCEPT !.slots[s] = SubSeq([slot EXCEPT ![p] = last], 1, Len(slot) - 1),
            !.timer_map[last.id] = IF p = Len(slot) THEN @ ELSE <<s, p>>]

AffectsCache(w, e) ==
  w.cached_next_expiry # None /\ e.expiry <= w.cached_next_expiry + Tolerance

(* The wheel after the call, and whether a timer was cancelled.            *)
cancel_timer(w, id) ==
  LET place == w.timer_map[id]
      w1 == [w EXCEPT !.timer_map[id] = None]
  IN IF place = None THEN [wheel |-> w, cancelled |-> FALSE]
     ELSE IF place[2] > Len(w.slots[place[1]]) THEN [wheel |-> w1, cancelled |-> FALSE]
     ELSE [wheel |-> [SwapRemove(w1, place[1], place[2]) EXCEPT !.cached_next_expiry =
                        IF AffectsCache(w, w.slots[place[1]][place[2]]) THEN None ELSE @],
           cancelled |-> TRUE]

(* One entry of a batch, at the position the map had for it when the batch *)
(* was grouped.                                                            *)
CancelAt(acc, job) ==
  LET w == acc.wheel slot == w.slots[job.slot] IN
  IF job.pos > Len(slot) THEN acc
  ELSE [wheel |-> [SwapRemove(w, job.slot, job.pos) EXCEPT !.timer_map[job.id] = None],
        invalidate |-> acc.invalidate \/ AffectsCache(w, slot[job.pos])]

(* Mutant: the positions are taken in ascending order.                     *)
MutantLaterPositionFirst(a, b) == a.slot = b.slot => a.pos < b.pos

(* Within a slot the later positions are removed first.                    *)
LaterPositionFirst(a, b) == a.slot = b.slot => a.pos > b.pos

(* The timers of a batch of distinct ids, as the loops meet them: the slots*)
(* in the order of a HashMap, each from back to front.                     *)
slot_groups(w, ids) ==
  {jobs \in SetToSeqs({[id |-> i, slot |-> w.timer_map[i][1], pos |-> w.timer_map[i][2]] :
                          i \in {j \in ids : w.timer_map[j] # None}}) :
     \A m, n \in DOMAIN jobs : m < n => LaterPositionFirst(jobs[m], jobs[n])}

batch_cancel_timers(w, jobs) ==
  LET done == FoldLeft(CancelAt, [wheel |-> w, invalidate |-> FALSE], jobs) IN
  [done.wheel EXCEPT !.cached_next_expiry = IF done.invalidate THEN None ELSE @]

-----------------------------------------------------------------------------
(* Advancing.                                                              *)

(* Mutant: the current slot is not looked at again.                        *)
MutantCheckCurrent(w, now) == [wheel |-> w, expired |-> <<>>]

(* The expired entries of the current slot leave it; those that stay move  *)
(* up, and the map with them.                                              *)
check_current_slot_for_expired_timers(w, now) ==
  LET s == w.current_slot
      expired == Expired(w.slots[s], now)
      rest == Pending(w.slots[s], now)
      place(id) == <<s, CHOOSE p \in DOMAIN rest : rest[p].id = id>>
  IN [wheel |-> [w EXCEPT !.slots[s] = rest,
                          !.timer_map = [id \in TimerId |->
                             IF id \in Ids(expired) THEN None
                             ELSE IF expired # <<>> /\ id \in Ids(rest) THEN place(id)
                             ELSE @[id]]],
      expired |-> expired]

(* Mutant: the wheel turns, but its time stands still.                     *)
MutantAdvanceOneSlot(acc, now) ==
  LET w == acc.wheel
      s == (w.current_slot + 1) % SlotCount
      taken == w.slots[s]
      w1 == [w EXCEPT !.current_slot = s, !.slots[s] = <<>>,
                      !.timer_map = [id \in TimerId |-> IF id \in Ids(taken) THEN None ELSE @[id]]]
  IN [wheel |-> FoldLeft(PushBack, w1, Pending(taken, now)),
      expired |-> acc.expired \o Expired(taken, now)]

(* One slot further: all its entries are taken out; those not due yet are  *)
(* put back into the slot of their expiry.                                 *)
AdvanceOneSlot(acc, now) ==
  LET w == acc.wheel
      s == (w.current_slot + 1) % SlotCount
      taken == w.slots[s]
      w1 == [w EXCEPT !.current_slot = s, !.current_time = @ + SlotDuration,
                      !.slots[s] = <<>>,
                      !.timer_map = [id \in TimerId |-> IF id \in Ids(taken) THEN None ELSE @[id]]]
  IN [wheel |-> FoldLeft(PushBack, w1, Pending(taken, now)),
      expired |-> acc.expired \o Expired(taken, now)]

(* The cache is left alone by an advance within one slot.                  *)
advance(w, now) ==
  LET first == check_current_slot_for_expired_timers(w, now)
      slots_to_advance == IF now < w.current_time THEN 0
                          ELSE (now - w.current_time) \div SlotDuration
      max_advance == IF SlotCount < slots_to_advance THEN SlotCount ELSE slots_to_advance
      step(acc, n) == AdvanceOneSlot(acc, now)
      done == FoldLeft(step, first, [n \in 1 .. max_advance |-> n])
  IN IF slots_to_advance = 0 THEN first
     ELSE [done EXCEPT !.wheel.cached_next_expiry = IF done.expired = <<>> THEN @ ELSE None]

-----------------------------------------------------------------------------
(* The next expiry: the cache, or a scan of the slots in turn that stops   *)
(* once what it found lies before the next slot's time.                    *)

SeenUpTo(w, offset) ==
  UNION {{e.expiry : e \in Range(w.slots[(w.current_slot + o) % SlotCount])} : o \in 0 .. offset}
StopsAt(w, offset) ==
  /\ w.slots[(w.current_slot + offset) % SlotCount] # <<>>
  /\ Earliest(SeenUpTo(w, offset)) <= w.current_time + SlotDuration * (offset + 1)

next_expiry_time(w) ==
  LET stops == {o \in Slot : StopsAt(w, o)} IN
  IF w.cached_next_expiry # None THEN w.cached_next_expiry
  ELSE IF timer_count(w) = 0 THEN None
  ELSE IF stops # {} THEN Earliest(SeenUpTo(w, Earliest(stops)))
  ELSE IF Entries(w) = {} THEN None
  ELSE Earliest(SeenUpTo(w, SlotCount - 1))

(* TimingWheel::stats.  The sum of the lengths is the number of places.    *)
wheel_stats(w) ==
  [non_empty_slots |-> Cardinality({s \in Slot : w.slots[s] # <<>>}),
   total_timers |-> Cardinality(UNION {{s} \X DOMAIN w.slots[s] : s \in Slot}),
   max_slot_size |-> CHOOSE m \in {Len(w.slots[s]) : s \in Slot} :
                       \A s \in Slot : Len(w.slots[s]) <= m]
=============================================================================

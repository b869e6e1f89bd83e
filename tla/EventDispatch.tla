---------------------------- MODULE EventDispatch ----------------------------
(***************************************************************************)
(* The event dispatchers of src/timer/event, their object pool, and        *)
(* HybridParallelTimerSystem of src/timer/parallel, which uses them.       *)
(*                                                                         *)
(* A dispatcher has slots, bounded lock-free queues.  It takes batches     *)
(* through &self, so threads may call it at once: every push and pop is a  *)
(* step of its own, and so is the reading of a length that is acted on     *)
(* later.  The slots are numbered from 0 as in the code.                   *)
(*                                                                         *)
(* kind says what is in use: the SmartZeroCopyDispatcher, called by        *)
(* several threads ("smart") or by one at a time ("lone"), the             *)
(* OptimizedZeroCopyDispatcher, called by several, or a                    *)
(* HybridParallelTimerSystem, whose &mut self admits one caller at a time. *)
(* Events are numbered in the order in which they are offered.             *)
(***************************************************************************)
EXTENDS Integers, Sequences, FiniteSets, SequencesExt, FiniteSetsExt

CONSTANTS
  Thread,         (* the callers of a shared dispatcher                    *)
  Kinds,          (* the kinds checked                                     *)
  SlotCount,      (* number of slots                                       *)
  SlotCap,        (* capacity of a slot                                    *)
  BatchThreshold, (* from this size on a batch is large                    *)
  PoolFrom,       (* larger batches are created through the pool           *)
  BypassMax,      (* up to this size the hybrid system bypasses            *)
  PoolMax,        (* max_size of the pool                                  *)
  Lanes,          (* width of the wider SIMD step of the pool              *)
  ChunkSize,      (* chunk size of the Rayon executor                      *)
  HybridFrom,     (* from this size on the strategy is FullHybrid          *)
  Cores,          (* number of CPU cores                                   *)
  BatchSizes,     (* the sizes of the batches offered                      *)
  TakeSizes,      (* the limits per slot of the consuming calls            *)
  MaxOffered,     (* bound: events offered to one caller at a time         *)
  MaxShared       (* bound: events offered by several callers at once      *)

ASSUME DispatchAssumption ==
  /\ \A n \in {SlotCount, SlotCap, Lanes, ChunkSize, Cores} : n \in Nat \ {0}
  /\ \A n \in {BatchThreshold, PoolFrom, BypassMax, PoolMax, MaxOffered, MaxShared, HybridFrom} :
       n \in Nat
  /\ BatchSizes \cup TakeSizes \subseteq Nat \ {0} /\ MaxShared <= MaxOffered
  /\ IsFiniteSet(Thread) /\ Thread # {}
  /\ Kinds \subseteq {"smart", "lone", "optimized", "hybrid"} /\ Kinds # {}

Slot == 0..(SlotCount - 1)
Event == 1..MaxOffered

VARIABLES
  kind,     (* what is in use                                              *)
  slots,    (* slot -> its events                                          *)
  rings,    (* slot -> write_count, read_count, written_count              *)
  index,    (* dispatch_index                                              *)
  totals,   (* total_dispatched and total_rejected                         *)
  pool,     (* the pool's objects: the events they last stood for          *)
  thread,   (* what each caller is doing                                   *)
  hybrid,   (* the hybrid system: stack buffer and statistics              *)
  offered,  (* history: events offered so far                              *)
  consumed, (* history: <<event, slot>> in the order of consumption        *)
  handled,  (* history: events given to the bypass handler, in order       *)
  rejected, (* history: events dropped                                     *)
  owner     (* history: event -> the thread that offered it                *)

vars == <<kind, slots, rings, index, totals, pool, thread, hybrid, offered,
          consumed, handled, rejected, owner>>

Smaller(a, b) == IF a <= b THEN a ELSE b
After(s) == (s + 1) % SlotCount
Keep(seq, n) == SubSeq(seq, 1, Smaller(n, Len(seq)))
Without(seq, n) == SubSeq(seq, Smaller(n, Len(seq)) + 1, Len(seq))

\* A caller: the events to dispatch, the slots looked at and the best of them;
\* the batch in hand and the share the next ones have, the slot tried, the one
\* the round began at, what was dispatched and what of it is not yet counted;
\* for a consumer, the slot it reads, how much it has of it and may have, and
\* what it got in all.
Idle == [pc |-> "idle", events |-> <<>>, seen |-> 0, best |-> 0, least |-> 0,
         batch |-> <<>>, share |-> 0, at |-> 0, from |-> 0, done |-> 0, written |-> 0,
         size |-> 0, take |-> 0, slot |-> 0, read |-> 0, got |-> <<>>, room |-> 0]

\* The pool starts with a quarter of its objects, made from no event.
Init ==
  /\ kind \in Kinds
  /\ slots = [s \in Slot |-> <<>>]
  /\ rings = [s \in Slot |-> [writes |-> 0, reads |-> 0, written |-> 0]]
  /\ index = 0 /\ totals = [dispatched |-> 0, rejected |-> 0]
  /\ pool = [i \in 1..(PoolMax \div 4) |-> 0]
  /\ thread = [t \in Thread |-> Idle]
  /\ hybrid = [stack |-> [i \in 1..BypassMax |-> 0],
               batches |-> 0, operations |-> 0, simd |-> 0, full |-> 0, fallback |-> 0]
  /\ offered = 0 /\ consumed = <<>> /\ handled = <<>>
  /\ rejected = {} /\ owner = <<>>

(***************************************************************************)
(* TimerEventPool.  simd_update_and_create overwrites the objects taken    *)
(* from the pool in steps of Lanes, half of it and one, then creates the   *)
(* missing ones in the same steps.  Covers(n) is what the three loops      *)
(* reach of n elements.                                                    *)
(***************************************************************************)
Covers(n) ==
  LET wide   == n - (n % Lanes)
      half   == IF Lanes >= 2 THEN Lanes \div 2 ELSE 1
      narrow == wide + ((n - wide) - ((n - wide) % half))
  IN 1..wide \cup (wide + 1)..narrow \cup (narrow + 1)..n

MutantSimdUpdate(taken, requests) ==
  [i \in 1..Len(requests) |->
     IF i <= Len(taken) /\ i > Len(taken) - (Len(taken) % Lanes)
     THEN taken[i] ELSE requests[i]]

simd_update_and_create(taken, requests) ==
  [i \in 1..Len(requests) |->
     IF i <= Len(taken)
     THEN IF i \in Covers(Len(taken)) THEN requests[i] ELSE taken[i]
     ELSE requests[i]]

\* batch_acquire: the events made, and the pool left.
batch_acquire(p, requests) ==
  [events |-> simd_update_and_create(Keep(p, Len(requests)), requests),
   pool |-> Without(p, Len(requests))]

\* acquire, once for every request.
AcquireEach(p, requests) ==
  [events |-> requests, pool |-> Without(p, Len(requests))]

create_events_optimized(p, requests) ==
  IF Len(requests) >= BatchThreshold THEN batch_acquire(p, requests)
  ELSE AcquireEach(p, requests)

\* create_and_dispatch_events: small lists are made without the pool.
CreateEvents(p, requests) ==
  IF Len(requests) <= PoolFrom THEN [events |-> requests, pool |-> p]
  ELSE create_events_optimized(p, requests)

(***************************************************************************)
(* The slot to start with: the least used of the next few, looked at one   *)
(* after the other.  A slot replaces an earlier one when it is used less.  *)
(***************************************************************************)
Shared == kind \in {"smart", "optimized"}
Candidates == IF kind = "optimized" THEN Smaller(3, SlotCount) + 1
              ELSE Smaller(3, SlotCount)
Unused == SlotCap + 1

Utilization(t) ==
  LET th == thread[t]
      s  == (th.from + th.seen) % SlotCount
  IN /\ th.pc = "scan" /\ th.seen < Candidates
     /\ thread' = [thread EXCEPT ![t] =
          IF Len(slots[s]) < th.least
          THEN [th EXCEPT !.seen = @ + 1, !.best = s, !.least = Len(slots[s])]
          ELSE [th EXCEPT !.seen = @ + 1]]
     /\ UNCHANGED <<kind, slots, rings, index, totals, pool, hybrid, offered, consumed,
                    handled, rejected, owner>>

\* batch_dispatch_events: the index is read, then the slots.
StartDispatch(th, events) ==
  [th EXCEPT !.pc = "scan", !.events = events, !.from = index, !.best = index,
             !.least = Unused, !.size = Len(events)]

\* dispatch_large_batch: a double share for the best slot, then a share, of at
\* least one event, for each slot after it, around and around.
StartLarge(th) ==
  LET share == Len(th.events) \div SlotCount IN
  [th EXCEPT !.pc = "batch", !.batch = Keep(th.events, 2 * share),
             !.events = Without(th.events, 2 * share),
             !.share = IF share = 0 THEN 1 ELSE share]

NextShare(th) ==
  [th EXCEPT !.batch = Keep(th.events, th.share), !.events = Without(th.events, th.share),
             !.at = After(@)]

\* The smart dispatcher writes a large batch in shares and a small one round
\* robin; the optimized one writes every batch to the best slot.
PlanBatch(t) ==
  LET th == [thread[t] EXCEPT !.seen = 0, !.least = 0, !.at = thread[t].best,
                              !.from = thread[t].best]
      large == Len(th.events) >= BatchThreshold
  IN /\ th.pc = "scan" /\ thread[t].seen = Candidates
     /\ thread' = [thread EXCEPT ![t] =
          IF kind # "optimized" /\ large THEN StartLarge(th)
          ELSE [th EXCEPT !.pc = IF kind = "optimized" THEN "batch" ELSE "single",
                          !.batch = th.events, !.events = <<>>, !.share = 1]]
     /\ UNCHANGED <<kind, slots, rings, index, totals, pool, hybrid, offered, consumed,
                    handled, rejected, owner>>

(***************************************************************************)
(* Writing.                                                                *)
(***************************************************************************)
IsFull(s) == Len(slots[s]) >= SlotCap
Push(s, e) == slots' = [slots EXCEPT ![s] = Append(@, e)]

\* Nothing is left to write and everything written is counted.
Written(th) ==
  /\ th.pc \in {"batch", "single"} /\ th.batch = <<>> /\ th.events = <<>>
  /\ th.written = 0

\* RingBuffer::batch_write, one push.  A full slot ends the batch: what is
\* left of it is dropped.  The counters are added up at the end of a batch.
batch_write(t) ==
  LET th == thread[t] IN
  /\ th.pc = "batch" /\ ~Written(th)
  /\ \/ /\ th.batch # <<>> /\ ~IsFull(th.at)
        /\ Push(th.at, Head(th.batch))
        /\ thread' = [thread EXCEPT ![t].batch = Tail(@), ![t].written = @ + 1]
        /\ UNCHANGED <<rings, rejected>>
     \/ /\ th.batch = <<>> \/ IsFull(th.at)
        /\ rejected' = rejected \cup ToSet(th.batch)
        /\ rings' = [rings EXCEPT ![th.at].writes = @ + th.written,
                                  ![th.at].written = @ + th.written]
        /\ thread' = [thread EXCEPT ![t] =
             NextShare([th EXCEPT !.done = @ + th.written, !.written = 0])]
        /\ UNCHANGED slots
  /\ UNCHANGED <<kind, index, totals, pool, hybrid, offered, consumed, handled, owner>>

\* Back at the slot the round began with.
MutantStopsEarly(th) == After(After(th.at)) = th.from
MutantEndless(th) == After(th.at) = th.at
AllTried(th) == After(th.at) = th.from

\* dispatch_small_batch, one try.  Once around without a place, the rest of
\* the batch is dropped.  failed_writes, which is only reported, is left out.
try_write_event(t) ==
  LET th   == thread[t]
      next == After(th.at)
  IN /\ th.pc = "single" /\ th.batch # <<>>
     /\ \/ /\ ~IsFull(th.at)
           /\ Push(th.at, Head(th.batch))
           /\ rings' = [rings EXCEPT ![th.at].writes = @ + 1, ![th.at].written = @ + 1]
           /\ thread' = [thread EXCEPT ![t].batch = Tail(@), ![t].at = next,
                                       ![t].from = next, ![t].done = @ + 1]
           /\ UNCHANGED rejected
        \/ /\ IsFull(th.at) /\ ~AllTried(th)
           /\ thread' = [thread EXCEPT ![t].at = next]
           /\ UNCHANGED <<slots, rings, rejected>>
        \/ /\ IsFull(th.at) /\ AllTried(th)
           /\ thread' = [thread EXCEPT ![t].batch = <<>>, ![t].at = next]
           /\ rejected' = rejected \cup ToSet(th.batch)
           /\ UNCHANGED <<slots, rings>>
     /\ UNCHANGED <<kind, index, totals, pool, hybrid, offered, consumed, handled, owner>>

(***************************************************************************)
(* The hybrid system.                                                      *)
(***************************************************************************)
should_bypass_async(n) == n <= BypassMax

choose_optimal_strategy(n) ==
  IF n >= HybridFrom /\ Cores >= 2 THEN "FullHybrid" ELSE "SIMDOnly"

update_stats(h, strategy, n) ==
  [h EXCEPT !.batches = @ + 1, !.operations = @ + n,
            !.simd = IF strategy = "SIMDOnly" THEN @ + 1 ELSE @,
            !.full = IF strategy = "FullHybrid" THEN @ + 1 ELSE @]

\* process_small_batch: the front of the stack buffer is overwritten and that
\* part of it returned.
process_small_batch(stack, events) ==
  [i \in 1..BypassMax |-> IF i <= Len(events) THEN events[i] ELSE stack[i]]

process_batch(events) == events

\* parallel_process_with_simd_sync: the chunks are processed in parallel and
\* put together again in their order.
Chunk(events, c) ==
  process_batch(SubSeq(events, c * ChunkSize + 1, Smaller((c + 1) * ChunkSize, Len(events))))

MutantParallel(events) ==
  LET chunks == (Len(events) + ChunkSize - 1) \div ChunkSize IN
  FlattenSeq([c \in 1..chunks |-> Chunk(events, chunks - c)])

parallel_process_with_simd_sync(events) ==
  [i \in 1..Len(events) |->
     Chunk(events, (i - 1) \div ChunkSize)[((i - 1) % ChunkSize) + 1]]

Processed(events) ==
  IF choose_optimal_strategy(Len(events)) = "FullHybrid"
  THEN parallel_process_with_simd_sync(events) ELSE process_batch(events)

Batch(n) == [i \in 1..n |-> offered + i]

Offer(t, n) ==
  /\ offered + n <= IF Shared THEN MaxShared ELSE MaxOffered
  /\ offered' = offered + n
  /\ owner' = [e \in 1..(offered + n) |-> IF e <= offered THEN owner[e] ELSE t]

\* process_timer_batch of a small batch: process_bypass_mode.
process_bypass_mode(t, n) ==
  /\ kind = "hybrid" /\ thread[t].pc = "idle" /\ should_bypass_async(n)
  /\ Offer(t, n)
  /\ LET stack == process_small_batch(hybrid.stack, Batch(n)) IN
     /\ handled' = handled \o SubSeq(stack, 1, n)
     /\ hybrid' = update_stats([hybrid EXCEPT !.stack = stack], "SIMDOnly", n)
  /\ UNCHANGED <<kind, slots, rings, index, totals, pool, thread, consumed, rejected>>

\* process_simd_only_optimized and process_full_hybrid_optimized: processing
\* and the start of the dispatch.
ProcessBatch(t, n) ==
  /\ kind = "hybrid" /\ thread[t].pc = "idle" /\ ~should_bypass_async(n)
  /\ Offer(t, n)
  /\ LET made == CreateEvents(pool, Processed(Batch(n))) IN
     /\ pool' = made.pool
     /\ thread' = [thread EXCEPT ![t] = StartDispatch(@, made.events)]
  /\ hybrid' = update_stats(hybrid, choose_optimal_strategy(n), n)
  /\ UNCHANGED <<kind, slots, rings, index, totals, consumed, handled, rejected>>

\* A thread that uses a dispatcher itself: create_and_dispatch_events of the
\* smart one, batch_dispatch_events of the optimized one.
DispatchBatch(t, n) ==
  /\ kind # "hybrid" /\ thread[t].pc = "idle"
  /\ Offer(t, n)
  /\ LET made == IF kind # "optimized" THEN CreateEvents(pool, Batch(n))
                 ELSE [events |-> Batch(n), pool |-> pool]
     IN /\ pool' = made.pool
        /\ thread' = [thread EXCEPT ![t] = StartDispatch(@, made.events)]
  /\ UNCHANGED <<kind, slots, rings, index, totals, hybrid, consumed, handled, rejected>>

Counted(th) ==
  [dispatched |-> totals.dispatched + th.done,
   rejected |-> totals.rejected + (th.size - th.done)]

\* After the dispatch the hybrid system takes up to half the number
\* dispatched from every slot.
Recycle(th) ==
  IF kind = "hybrid" /\ th.done > 0
  THEN [Idle EXCEPT !.pc = "consume", !.take = th.done \div 2] ELSE Idle

\* The end of batch_dispatch_events.  When nothing could be dispatched the
\* hybrid system falls back to the AsyncEventDispatcher: its channels lost
\* their receivers when it was made, so no event arrives anywhere.
Account(t) ==
  LET th == thread[t] IN
  /\ Written(th)
  /\ totals' = Counted(th)
  /\ index' = After(th.best)
  /\ thread' = [thread EXCEPT ![t] = Recycle(th)]
  /\ hybrid' = IF kind = "hybrid" /\ th.done = 0
               THEN [hybrid EXCEPT !.fallback = @ + th.size] ELSE hybrid
  /\ UNCHANGED <<kind, slots, rings, pool, offered, consumed, handled, rejected, owner>>

(***************************************************************************)
(* Consuming: one slot after the other, up to take events from each.       *)
(***************************************************************************)
StartConsume(t, max) ==
  /\ kind # "hybrid" /\ thread[t].pc = "idle" /\ \E s \in Slot : slots[s] # <<>>
  /\ thread' = [thread EXCEPT ![t] = [Idle EXCEPT !.pc = "consume", !.take = max]]
  /\ UNCHANGED <<kind, slots, rings, index, totals, pool, hybrid, offered, consumed,
                 handled, rejected, owner>>

\* RingBuffer::batch_read, one pop.  The read count is added up at the end.
batch_read(t) ==
  LET th == thread[t]
      s  == th.slot
  IN /\ th.pc = "consume"
     /\ \/ /\ th.read < th.take /\ slots[s] # <<>>
           /\ slots' = [slots EXCEPT ![s] = Tail(@)]
           /\ consumed' = Append(consumed, <<Head(slots[s]), s>>)
           /\ thread' = [thread EXCEPT ![t].read = @ + 1,
                                       ![t].got = Append(@, Head(slots[s]))]
           /\ UNCHANGED rings
        \/ /\ th.read = th.take \/ slots[s] = <<>>
           /\ rings' = [rings EXCEPT ![s].reads = @ + th.read]
           /\ thread' = [thread EXCEPT ![t] =
                CASE s < SlotCount - 1 -> [th EXCEPT !.slot = @ + 1, !.read = 0]
                  [] s = SlotCount - 1 /\ th.got # <<>> /\ kind # "optimized" ->
                       [Idle EXCEPT !.pc = "measure", !.got = th.got]
                  [] OTHER -> Idle]
           /\ UNCHANGED <<slots, consumed>>
     /\ UNCHANGED <<kind, index, totals, pool, hybrid, offered, handled, rejected, owner>>

(***************************************************************************)
(* batch_release: the length of the pool is read first, the objects are    *)
(* pushed afterwards.                                                      *)
(***************************************************************************)
MeasurePool(t) ==
  /\ thread[t].pc = "measure"
  /\ thread' = [thread EXCEPT ![t].pc = "release",
                  ![t].room = IF Len(pool) < PoolMax THEN PoolMax - Len(pool) ELSE 0]
  /\ UNCHANGED <<kind, slots, rings, index, totals, pool, hybrid, offered, consumed,
                 handled, rejected, owner>>

batch_release(t) ==
  /\ thread[t].pc = "release"
  /\ pool' = pool \o Keep(thread[t].got, thread[t].room)
  /\ thread' = [thread EXCEPT ![t] = Idle]
  /\ UNCHANGED <<kind, slots, rings, index, totals, hybrid, offered, consumed,
                 handled, rejected, owner>>

Work(t) ==
  \/ Utilization(t) \/ PlanBatch(t)
  \/ batch_write(t) \/ try_write_event(t) \/ Account(t)
  \/ batch_read(t) \/ MeasurePool(t) \/ batch_release(t)

\* Without sharing, a call ends before another one begins.
Caller(t) == Shared \/ \A u \in Thread \ {t} : thread[u].pc = "idle"

Next ==
  \E t \in Thread :
    /\ Caller(t)
    /\ \/ \E n \in BatchSizes :
            \/ process_bypass_mode(t, n) \/ ProcessBatch(t, n)
            \/ DispatchBatch(t, n)
       \/ \E n \in TakeSizes : StartConsume(t, n)
       \/ Work(t)

Spec == Init /\ [][Next]_vars

\* A call that has begun goes on: the calls wait for nothing.
FairSpec == Spec /\ \A t \in Thread : WF_vars(Work(t))

(***************************************************************************)
(* Properties.                                                             *)
(***************************************************************************)

CallerType ==
  [pc : {"idle", "scan", "batch", "single", "consume", "measure", "release"},
   events : Seq(Event), batch : Seq(Event), got : Seq(Event),
   best : Slot, at : Slot, from : Slot, slot : Slot,
   seen : Nat, least : Nat, share : Nat, done : Nat, written : Nat, size : Nat,
   take : Nat, read : Nat, room : Nat]

\* Every component of the state has its type, and no slot holds more than its
\* queue was made for.
DTypeOK ==
  /\ kind \in Kinds /\ index \in Slot
  /\ slots \in [Slot -> Seq(Event)] /\ \A s \in Slot : Len(slots[s]) <= SlotCap
  /\ rings \in [Slot -> [writes : Nat, reads : Nat, written : Nat]]
  /\ totals \in [dispatched : Nat, rejected : Nat]
  /\ pool \in Seq(Event \cup {0})
  /\ thread \in [Thread -> CallerType]
  /\ hybrid \in [stack : [1..BypassMax -> Event \cup {0}], batches : Nat, operations : Nat,
                 simd : Nat, full : Nat, fallback : Nat]
  /\ offered \in 0..MaxOffered /\ rejected \subseteq Event
  /\ consumed \in Seq(Event \X Slot) /\ handled \in Seq(Event)
  /\ owner \in [1..offered -> Thread]

\* Where an event can be: in the hands of its caller, in a slot, consumed,
\* handled by the bypass, or dropped.
Line(t) == thread[t].batch \o thread[t].events
Hand(t) == ToSet(Line(t))
Stored(s) == ToSet(slots[s])
Taken == {consumed[i][1] : i \in DOMAIN consumed}
Gone == Taken \cup ToSet(handled) \cup rejected

\* Every event offered is somewhere.
Accounted ==
  1..offered = (UNION {Hand(t) : t \in Thread}) \cup (UNION {Stored(s) : s \in Slot}) \cup Gone

\* None is in two places.
Apart ==
  /\ \A t, u \in Thread : t # u => Hand(t) \cap Hand(u) = {}
  /\ \A r, s \in Slot : r # s => Stored(r) \cap Stored(s) = {}
  /\ \A t \in Thread : Hand(t) \cap Gone = {} /\ \A s \in Slot : Hand(t) \cap Stored(s) = {}
  /\ \A s \in Slot : Stored(s) \cap Gone = {}
  /\ Taken \cap ToSet(handled) = {} /\ Taken \cap rejected = {}
  /\ rejected \cap ToSet(handled) = {}

\* None is twice in one place.
Distinct(seq) == \A i, j \in DOMAIN seq : i # j => seq[i] # seq[j]
Once ==
  /\ \A t \in Thread : Distinct(Line(t))
  /\ \A s \in Slot : Distinct(slots[s])
  /\ \A i, j \in DOMAIN consumed : i # j => consumed[i][1] # consumed[j][1]
  /\ Distinct(handled)

\* Whatever the callers' steps are, every event offered is in exactly one
\* place: still in its caller's hands, in one slot, consumed, given to the
\* bypass handler, or dropped.  Objects reused from the pool (an object that is
\* not overwritten carries an old event), shares that overlap or leave a gap,
\* chunks and a stack buffer with old contents would all show here.
EventsConserved == Accounted /\ Apart /\ Once

\* The events that one caller offered leave a slot in the order in which they
\* were offered, through shares, chunks and pool; and the bypass keeps the order.
SlotFifo ==
  /\ \A i, j \in DOMAIN consumed :
       /\ i < j /\ consumed[i][2] = consumed[j][2]
       /\ owner[consumed[i][1]] = owner[consumed[j][1]]
       => consumed[i][1] < consumed[j][1]
  /\ \A i, j \in DOMAIN handled : i < j => handled[i] < handled[j]

\* The events that have not left yet are in order too: those in a slot are
\* younger than what left it, and those in hand younger than what is placed.
StillInOrder ==
  /\ \A s \in Slot : \A i, j \in DOMAIN slots[s] :
       i < j /\ owner[slots[s][i]] = owner[slots[s][j]] => slots[s][i] < slots[s][j]
  /\ \A i \in DOMAIN consumed : \A e \in Stored(consumed[i][2]) :
       owner[consumed[i][1]] = owner[e] => consumed[i][1] < e
  /\ \A t \in Thread :
       /\ \A i, j \in DOMAIN Line(t) : i < j => Line(t)[i] < Line(t)[j]
       /\ \A e \in Hand(t) :
            /\ owner[e] = t
            /\ \A s \in Slot : \A d \in Stored(s) : owner[d] = t => d < e
            /\ \A d \in Taken : owner[d] = t => d < e

\* What a caller holds fits the step it is at; what it has neither written nor
\* in hand it has dropped.
CallersSound ==
  \A t \in Thread : LET th == thread[t] IN
    /\ th.done + th.written + Len(th.batch) + Len(th.events) <= th.size
    /\ th.pc \notin {"scan", "batch", "single"} => th.size = 0
    /\ th.pc = "scan" => /\ th.batch = <<>> /\ th.done = 0 /\ th.written = 0
                         /\ Len(th.events) = th.size
    /\ th.pc # "batch" => th.written = 0
    /\ th.pc = "single" => th.events = <<>>
    /\ th.pc # "consume" => th.read = 0
    /\ th.pc # "release" => th.room = 0

\* Without sharing one call is under way, and in a round over the slots those
\* already tried are full.
Tried(th) ==
  IF th.from <= th.at THEN th.from..(th.at - 1)
  ELSE th.from..(SlotCount - 1) \cup 0..(th.at - 1)
LoneCaller ==
  ~Shared =>
    /\ \A t, u \in Thread : t # u => thread[t].pc = "idle" \/ thread[u].pc = "idle"
    /\ \A t \in Thread : thread[t].pc = "single" => \A s \in Tried(thread[t]) : IsFull(s)

\* The sum of c[x] over the x in S.
Total(S, c) == Cardinality(UNION {{x} \X (1..c[x]) : x \in S})

\* Between calls the statistics of get_stats add up: what was dispatched is
\* what was consumed or waits in a slot, what was rejected is what was
\* dropped, and each ring's two counters differ by what it holds.
CountsAgree ==
  (\A t \in Thread : thread[t].pc = "idle") =>
    /\ totals.dispatched = Len(consumed) + Total(Slot, [s \in Slot |-> Len(slots[s])])
    /\ totals.rejected = Cardinality(rejected)
    /\ \A s \in Slot : /\ rings[s].writes - rings[s].reads = Len(slots[s])
                       /\ rings[s].written = rings[s].writes

\* Within the calls they do once what the callers have not yet counted is added.
Uncounted == [t \in Thread |-> thread[t].done + thread[t].written]
Dropped == [t \in Thread |->
  thread[t].size - (thread[t].done + thread[t].written
                    + Len(thread[t].batch) + Len(thread[t].events))]
Writing(s) == [t \in Thread |-> IF thread[t].at = s THEN thread[t].written ELSE 0]
Reading(s) == [t \in Thread |-> IF thread[t].slot = s THEN thread[t].read ELSE 0]
CountsWithin ==
  /\ totals.dispatched + Total(Thread, Uncounted)
       = Len(consumed) + Total(Slot, [s \in Slot |-> Len(slots[s])])
  /\ totals.rejected + Total(Thread, Dropped) = Cardinality(rejected)
  /\ \A s \in Slot :
       /\ rings[s].writes + Total(Thread, Writing(s))
            = rings[s].reads + Total(Thread, Reading(s)) + Len(slots[s])
       /\ rings[s].written = rings[s].writes

\* The pool stays within max_size when calls do not overlap.  batch_release
\* reads the length before it pushes, so overlapping calls can exceed it, but
\* each by no more than the room it once saw.
PoolBounded ==
  Len(pool) <= (IF Shared THEN Cardinality(Thread) ELSE 1) * PoolMax
Room == [t \in Thread |-> thread[t].room]
PoolWithRoom ==
  /\ \A t \in Thread : thread[t].room <= PoolMax
  /\ Len(pool) + Total(Thread, Room)
       <= (IF Shared THEN Cardinality(Thread) ELSE 1) * PoolMax

\* The state between and within the calls of get_stats, dispatch and release:
\* types, counters, order and the size of the pool, however the callers' steps
\* are interleaved (zero_copy.rs, pool.rs, rayon_executor.rs).
DInv ==
  /\ DTypeOK /\ CallersSound /\ SlotFifo /\ StillInOrder /\ LoneCaller
  /\ CountsAgree /\ CountsWithin /\ PoolBounded /\ PoolWithRoom

\* When one thread at a time calls the dispatcher, a small batch loses an event
\* only if every slot is full at that moment: the round over the slots neither
\* stops early nor skips one.
LoneDropsOnlyWhenFull ==
  [][(/\ kind = "lone" /\ rejected' # rejected
      /\ \E t \in Thread : thread[t].pc = "single")
     => \A s \in Slot : IsFull(s)]_vars

\* Every call returns: the rounds over the slots end, whatever the other
\* callers write and take meanwhile.
CallsEnd == \A t \in Thread : thread[t].pc # "idle" ~> thread[t].pc = "idle"
=============================================================================

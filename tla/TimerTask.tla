------------------------------ MODULE TimerTask ------------------------------
(***************************************************************************)
(* GlobalTimerTask of src/timer/task/global.rs, which owns the one timing  *)
(* wheel, its handles, and the TimerManager of every endpoint.             *)
(*                                                                         *)
(* The task takes one event at a time: a command, a tick of its advance    *)
(* interval, or the wake-up it computed for the next expiry.  An endpoint  *)
(* that sent a command waits for the answer.  What an expiry produces goes *)
(* into the owner's bounded channel, where the task waits while it is full.*)
(* The cancellation of a replaced timer runs in a task of its own.         *)
(*                                                                         *)
(* Time is counted in units; the clock does not pass a moment at which the *)
(* timer task is due to wake up (the runtime polls it promptly) but may    *)
(* pass while commands wait.  The answer to a command is taken in the step *)
(* that gives it: the caller does nothing else meanwhile.                  *)
(***************************************************************************)
EXTENDS TimingWheel

CONSTANTS
  Delay,           (* the delays timers are registered with                *)
  Batch,           (* batches: sequences of <<delay, kind>>                *)
  Fatal,           (* the kinds that end the endpoint                      *)
  AdvanceInterval, (* period of the advance tick                           *)
  UpdatePeriod,    (* period at which the interval is computed anew        *)
  MinWakeup,       (* a wake-up is at least this far away                  *)
  EventCap,        (* capacity of an endpoint's timeout channel            *)
  CommandCap,      (* capacity of the command channel                      *)
  MaxCreated,      (* bound: timers created                                *)
  MaxSingle,       (* bound: timers created before a single registration   *)
  MaxTime          (* bound: the clock                                     *)

ASSUME TaskAssumption ==
  /\ Delay \subseteq Nat /\ Batch \subseteq Seq(Nat \X Kind) /\ Fatal \subseteq Kind
  /\ AdvanceInterval \in Nat \ {0} /\ MinWakeup \in Nat \ {0}
  /\ AdvanceInterval <= SlotCount * SlotDuration
  /\ UpdatePeriod \in Nat \ {0}
  /\ EventCap \in Nat \ {0} /\ CommandCap \in Nat \ {0}
  /\ MaxCreated \in 0 .. MaxTimers /\ MaxSingle \in 0 .. MaxCreated /\ MaxTime \in Nat

VARIABLES
  clock,               (* Instant::now()                                   *)
  timing_wheel,        (* the wheel                                        *)
  connection_timers,   (* connection -> the ids of its timers              *)
  entry_to_connection, (* id -> connection                                 *)
  command_rx,          (* the task's command channel                       *)
  task,                (* where the task is, and what it still has to send;*)
                       (* history: whether it ever waited for a channel    *)
  stats,               (* processed_timers and cancelled_timers            *)
  manager,             (* the endpoints' TimerManagers                     *)
  timeout_rx,          (* the endpoints' timeout channels                  *)
  spawned,             (* cancellations in tasks of their own              *)
  timer                (* history: what became of each timer               *)

vars == <<clock, timing_wheel, connection_timers, entry_to_connection, command_rx,
          task, stats, manager, timeout_rx, spawned, timer>>
owners == <<connection_timers, entry_to_connection>>

Unused == [state |-> "unused", due |-> 0]

(* get_next_wakeup_time: at the top of the loop.  The scan fills the cache.*)
get_next_wakeup_time(w) ==
  LET expiry == next_expiry_time(w) IN
  IF expiry = None THEN clock + 10 * AdvanceInterval
  ELSE IF expiry <= clock + MinWakeup THEN clock + MinWakeup ELSE expiry

(* A new interval of ticks, at most AdvanceInterval apart, starts now.  How*)
(* far apart depends on the number of timers; the widest is modelled.      *)
calculate_advance_interval == clock

TInit ==
  /\ clock = 0
  /\ timing_wheel = EmptyWheel
  /\ connection_timers = [c \in Conn |-> {}]
  /\ entry_to_connection = [i \in TimerId |-> None]
  /\ command_rx = <<>>
  /\ task = [at |-> "select", next_wakeup |-> 10 * AdvanceInterval, next_tick |-> 0,
             now |-> 0, next_update |-> UpdatePeriod, unsent |-> <<>>,
             delayed |-> FALSE]
  /\ stats = [processed |-> 0, cancelled |-> 0]
  /\ manager = [c \in Conn |-> [at |-> "run", active |-> [k \in Kind |-> None]]]
  /\ timeout_rx = [c \in Conn |-> <<>>]
  /\ spawned = {}
  /\ timer = [i \in TimerId |-> Unused]

-----------------------------------------------------------------------------
(* The endpoint and the handle: commands are sent and answers awaited.     *)

Stopped == task.at = "stopped"
Running(c) == manager[c].at = "run"
Created == timing_wheel.next_entry_id - 1
Wanted(cmd) == CASE cmd.op = "register" -> 1
                 [] cmd.op = "batch_register" -> Len(cmd.batch)
                 [] OTHER -> 0
InFlight == Cardinality(UNION {{n} \X (1 .. Wanted(command_rx[n])) : n \in DOMAIN command_rx})

(* A send waits for room; after the task's end it fails at once.           *)
Send(cmd) == /\ ~Stopped /\ Len(command_rx) < CommandCap
             /\ command_rx' = Append(command_rx, cmd)

(* TimerManager::register_timer: the registration of an idle, a path       *)
(* validation or a connection timeout.                                     *)
register_timer(c, k, delay) ==
  /\ Running(c)
  /\ Created + InFlight < MaxSingle
  /\ Send([op |-> "register", conn |-> c, kind |-> k, delay |-> delay])
  /\ manager' = [manager EXCEPT ![c].at = "wait"]
  /\ UNCHANGED <<clock, timing_wheel, owners, task, stats, timeout_rx, spawned, timer>>

(* TimerManager::cancel_timer: the handle is dropped before the answer.    *)
cancel_timer_of(c, k) ==
  /\ Running(c) /\ manager[c].active[k] # None
  /\ Send([op |-> "cancel", id |-> manager[c].active[k], waiter |-> c])
  /\ manager' = [manager EXCEPT ![c].at = "wait", ![c].active[k] = None]
  /\ UNCHANGED <<clock, timing_wheel, owners, task, stats, timeout_rx, spawned, timer>>

(* The batch and clear calls of GlobalTimerTaskHandle.  The ids of a batch *)
(* cancellation are distinct and are not in a manager's hands.             *)
Held == {manager[c].active[k] : c \in Conn, k \in Kind} \cup spawned
HandleBatchRegister(c, batch) ==
  /\ Running(c)
  /\ Created + InFlight + Len(batch) <= MaxCreated
  /\ Send([op |-> "batch_register", conn |-> c, batch |-> batch])
  /\ UNCHANGED <<clock, timing_wheel, owners, task, stats, manager, timeout_rx, spawned, timer>>
HandleBatchCancel(ids) ==
  /\ ids # {} /\ ids \cap Held = {}
  /\ \A n \in DOMAIN command_rx : command_rx[n].op # "batch_cancel"
  /\ Send([op |-> "batch_cancel", ids |-> ids])
  /\ UNCHANGED <<clock, timing_wheel, owners, task, stats, manager, timeout_rx, spawned, timer>>
HandleClear(c) ==
  /\ ~Running(c) /\ manager[c].at = "ended" /\ connection_timers[c] # {}
  /\ \A n \in DOMAIN command_rx : command_rx[n].op # "clear"
  /\ Send([op |-> "clear", conn |-> c])
  /\ UNCHANGED <<clock, timing_wheel, owners, task, stats, manager, timeout_rx, spawned, timer>>
HandleShutdown ==
  /\ \A c \in Conn : manager[c].at = "ended"
  /\ \A n \in DOMAIN command_rx : command_rx[n].op # "shutdown"
  /\ Send([op |-> "shutdown"])
  /\ UNCHANGED <<clock, timing_wheel, owners, task, stats, manager, timeout_rx, spawned, timer>>

(* The task that cancels a replaced timer.                                 *)
SpawnedCancel(i) ==
  /\ i \in spawned
  /\ spawned' = spawned \ {i}
  /\ IF Stopped THEN UNCHANGED command_rx
     ELSE Send([op |-> "cancel", id |-> i, waiter |-> None])
  /\ UNCHANGED <<clock, timing_wheel, owners, task, stats, manager, timeout_rx, timer>>

(* check_timer_events drains the channel and forgets the handle of every   *)
(* kind it saw, whichever timer of that kind fired; check_all_timeouts     *)
(* then closes the endpoint on an idle or a connection timeout.  Its       *)
(* timers stay on the wheel.                                               *)
check_timer_events(c) ==
  /\ Running(c) /\ timeout_rx[c] # <<>>
  /\ LET seen == {e.kind : e \in Range(timeout_rx[c])} IN
     manager' = [manager EXCEPT
       ![c].at = IF seen \cap Fatal # {} THEN "ended" ELSE @,
       ![c].active = [k \in Kind |-> IF k \in seen THEN None ELSE @[k]]]
  /\ timeout_rx' = [timeout_rx EXCEPT ![c] = <<>>]
  /\ UNCHANGED <<clock, timing_wheel, owners, command_rx, task, stats, spawned, timer>>

-----------------------------------------------------------------------------
(* The task: one command.                                                  *)

Registered(w, ids) ==
  [i \in TimerId |-> IF i \in ids
     THEN [state |-> "live", due |->
             clock + (CHOOSE e \in Entries(w) : e.id = i).expiry - w.current_time]
     ELSE timer[i]]
Became(ids, state) ==
  [i \in TimerId |-> IF i \in ids THEN [state |-> state, due |-> 0] ELSE timer[i]]
Forget(ids) ==
  /\ entry_to_connection' = [i \in TimerId |-> IF i \in ids THEN None ELSE entry_to_connection[i]]
  /\ connection_timers' = [c \in Conn |-> connection_timers[c] \ ids]

(* The top of the loop of run, with wheel w: the wake-up is computed, and  *)
(* `now` is read for use after the wait.                                   *)
LoopTop(w, next_tick, next_update) ==
  /\ timing_wheel' = [w EXCEPT !.cached_next_expiry = next_expiry_time(w)]
  /\ task' = [at |-> "select", next_wakeup |-> get_next_wakeup_time(w),
              next_tick |-> next_tick, now |-> clock, next_update |-> next_update,
              unsent |-> <<>>, delayed |-> task.delayed]

(* After a command the interval may be due for an update.                  *)
Handled(w) ==
  IF task.now >= task.next_update
    THEN LoopTop(w, calculate_advance_interval, task.now + UpdatePeriod)
    ELSE LoopTop(w, task.next_tick, task.next_update)
Take(op) == /\ task.at = "select" /\ command_rx # <<>> /\ Head(command_rx).op = op
            /\ command_rx' = Tail(command_rx)

(* The new handle replaces the old one, whose timer is cancelled later.    *)
TaskRegister ==
  /\ Take("register")
  /\ LET cmd == Head(command_rx)
         id == timing_wheel.next_entry_id
         w == add_timer(timing_wheel, cmd.delay, cmd.conn, cmd.kind)
         old == manager[cmd.conn].active[cmd.kind]
     IN /\ Handled(w)
        /\ connection_timers' = [connection_timers EXCEPT ![cmd.conn] = @ \cup {id}]
        /\ entry_to_connection' = [entry_to_connection EXCEPT ![id] = cmd.conn]
        /\ manager' = [manager EXCEPT ![cmd.conn].at = "run", ![cmd.conn].active[cmd.kind] = id]
        /\ spawned' = spawned \cup ({old} \ {None})
        /\ timer' = Registered(w, {id})
  /\ UNCHANGED <<clock, stats, timeout_rx>>

TaskBatchRegister ==
  /\ Take("batch_register")
  /\ LET cmd == Head(command_rx)
         first == timing_wheel.next_entry_id
         ids == first .. first + Len(cmd.batch) - 1
         w == batch_add_timers(timing_wheel, cmd.conn, cmd.batch)
     IN /\ Handled(w)
        /\ connection_timers' = [connection_timers EXCEPT ![cmd.conn] = @ \cup ids]
        /\ entry_to_connection' =
             [i \in TimerId |-> IF i \in ids THEN cmd.conn ELSE entry_to_connection[i]]
        /\ timer' = Registered(w, ids)
  /\ UNCHANGED <<clock, stats, manager, timeout_rx, spawned>>

TaskCancel ==
  /\ Take("cancel")
  /\ LET cmd == Head(command_rx) done == cancel_timer(timing_wheel, cmd.id)
         gone == IF done.cancelled THEN {cmd.id} ELSE {}
     IN /\ Handled(done.wheel)
        /\ Forget(gone)
        /\ stats' = [stats EXCEPT !.cancelled = @ + Cardinality(gone)]
        /\ timer' = Became(gone, "cancelled")
        /\ manager' = IF cmd.waiter = None THEN manager
                      ELSE [manager EXCEPT ![cmd.waiter].at = "run"]
  /\ UNCHANGED <<clock, timeout_rx, spawned>>

(* What counts as cancelled is what entry_to_connection knows.             *)
TaskBatchCancel ==
  /\ Take("batch_cancel")
  /\ LET ids == Head(command_rx).ids
         gone == {i \in ids : entry_to_connection[i] # None}
     IN /\ \E jobs \in slot_groups(timing_wheel, ids) :
             Handled(batch_cancel_timers(timing_wheel, jobs))
        /\ Forget(gone)
        /\ stats' = [stats EXCEPT !.cancelled = @ + Cardinality(gone)]
        /\ timer' = Became(gone, "cancelled")
  /\ UNCHANGED <<clock, manager, timeout_rx, spawned>>

(* One of a connection's timers is cancelled.                              *)
ClearOne(acc, i) ==
  LET done == cancel_timer(acc.wheel, i) IN
  [wheel |-> done.wheel, gone |-> IF done.cancelled THEN acc.gone \cup {i} ELSE acc.gone]

(* The ids of the connection go first; then each timer is cancelled, in the*)
(* order of a HashSet.                                                     *)
TaskClear ==
  /\ Take("clear")
  /\ \E entry_ids \in SetToSeqs(connection_timers[Head(command_rx).conn]) :
     LET c == Head(command_rx).conn
         all == FoldLeft(ClearOne, [wheel |-> timing_wheel, gone |-> {}], entry_ids)
     IN /\ Handled(all.wheel)
        /\ connection_timers' = [connection_timers EXCEPT ![c] = {}]
        /\ entry_to_connection' =
             [i \in TimerId |-> IF i \in all.gone THEN None ELSE entry_to_connection[i]]
        /\ stats' = [stats EXCEPT !.cancelled = @ + Cardinality(all.gone)]
        /\ timer' = Became(all.gone, "cancelled")
  /\ UNCHANGED <<clock, manager, timeout_rx, spawned>>

(* The commands behind a shutdown are dropped; their callers get an error. *)
TaskShutdown ==
  /\ Take("shutdown")
  /\ task' = [task EXCEPT !.at = "stopped"]
  /\ manager' = [c \in Conn |-> IF manager[c].at = "wait" THEN [manager[c] EXCEPT !.at = "run"]
                                ELSE manager[c]]
  /\ UNCHANGED <<clock, timing_wheel, owners, stats, timeout_rx, spawned, timer>>

-----------------------------------------------------------------------------
(* The task: time.                                                         *)

(* trigger_with_factory: an event goes to its owner's channel; it is lost  *)
(* when the owner is gone, and waits when the channel is full.             *)
Trigger(acc, e) ==
  IF manager[e.conn].at = "ended" THEN acc
  ELSE IF Len(acc.rx[e.conn]) < EventCap
    THEN [acc EXCEPT !.rx[e.conn] = Append(@, [id |-> e.id, kind |-> e.kind])]
  ELSE [acc EXCEPT !.unsent = Append(@, e)]

(* join_all: the task goes on once every event is sent.                    *)
TriggerAll(events, w, next_tick) ==
  LET acc == FoldLeft(Trigger, [rx |-> timeout_rx, unsent |-> <<>>], events) IN
  /\ timeout_rx' = acc.rx
  /\ IF acc.unsent = <<>>
       THEN /\ LoopTop(w, next_tick, task.next_update)
            /\ stats' = [stats EXCEPT !.processed =
                           Cardinality({i \in TimerId : timer'[i].state = "fired"})]
       ELSE /\ timing_wheel' = w
            /\ task' = [task EXCEPT !.at = "trigger", !.unsent = acc.unsent,
                                    !.next_tick = next_tick, !.delayed = TRUE]
            /\ UNCHANGED stats

(* advance_timing_wheel.                                                   *)
advance_timing_wheel(next_tick) ==
  LET done == advance(timing_wheel, clock)
      gone == Ids(done.expired)
  IN /\ Forget(gone)
     /\ timer' = Became(gone, "fired")
     /\ TriggerAll(done.expired, done.wheel, next_tick)
     /\ UNCHANGED <<clock, command_rx, manager, spawned>>

AdvanceTick ==
  /\ task.at = "select" /\ clock >= task.next_tick
  /\ advance_timing_wheel(task.next_tick + AdvanceInterval)
AdvanceWakeup ==
  /\ task.at = "select" /\ clock >= task.next_wakeup
  /\ advance_timing_wheel(task.next_tick)

(* A full channel has got room again, or its owner is gone.                *)
TriggerRest ==
  /\ task.at = "trigger"
  /\ \E e \in Range(task.unsent) :
       manager[e.conn].at = "ended" \/ Len(timeout_rx[e.conn]) < EventCap
  /\ UNCHANGED <<clock, owners, command_rx, manager, spawned, timer>>
  /\ TriggerAll(task.unsent, timing_wheel, task.next_tick)

IntervalUpdate ==
  /\ task.at = "select" /\ clock >= task.next_update
  /\ LoopTop(timing_wheel, calculate_advance_interval, task.now + UpdatePeriod)
  /\ UNCHANGED <<clock, owners, command_rx, stats, manager, timeout_rx, spawned, timer>>

ClockTick ==
  /\ clock < MaxTime
  /\ task.at = "select" =>
       clock < task.next_tick /\ clock < task.next_wakeup /\ clock < task.next_update
  /\ clock' = clock + 1
  /\ UNCHANGED <<timing_wheel, owners, command_rx, task, stats, manager, timeout_rx,
                 spawned, timer>>

TNext ==
  \/ \E c \in Conn, k \in Kind, d \in Delay : register_timer(c, k, d)
  \/ \E c \in Conn, k \in Kind : cancel_timer_of(c, k)
  \/ \E c \in Conn, b \in Batch : HandleBatchRegister(c, b)
  \/ \E ids \in SUBSET (1 .. Created) : HandleBatchCancel(ids)
  \/ \E c \in Conn : HandleClear(c) \/ check_timer_events(c)
  \/ HandleShutdown
  \/ \E i \in TimerId : SpawnedCancel(i)
  \/ TaskRegister \/ TaskBatchRegister \/ TaskCancel \/ TaskBatchCancel
  \/ TaskClear \/ TaskShutdown
  \/ AdvanceTick \/ AdvanceWakeup \/ TriggerRest \/ IntervalUpdate
  \/ ClockTick

TSpec == TInit /\ [][TNext]_vars

-----------------------------------------------------------------------------
(* Properties.                                                             *)

Event == [id : TimerId, kind : Kind]
Command ==
  [op : {"register"}, conn : Conn, kind : Kind, delay : Delay]
    \cup [op : {"cancel"}, id : TimerId, waiter : Conn \cup {None}]
    \cup [op : {"batch_register"}, conn : Conn, batch : Batch]
    \cup [op : {"batch_cancel"}, ids : SUBSET TimerId]
    \cup [op : {"clear"}, conn : Conn]
    \cup [op : {"shutdown"}]
TTypeOK ==
  /\ clock \in 0 .. MaxTime
  /\ timing_wheel \in Wheel
  /\ connection_timers \in [Conn -> SUBSET TimerId]
  /\ entry_to_connection \in [TimerId -> Conn \cup {None}]
  /\ command_rx \in Seq(Command)
  /\ task \in [at : {"select", "trigger", "stopped"}, next_wakeup : Nat, next_tick : Nat,
               now : Nat, next_update : Nat, unsent : Seq(TimerEntry), delayed : BOOLEAN]
  /\ stats \in [processed : Nat, cancelled : Nat]
  /\ manager \in [Conn -> [at : {"run", "wait", "ended"}, active : [Kind -> TimerId \cup {None}]]]
  /\ timeout_rx \in [Conn -> Seq(Event)]
  /\ spawned \in SUBSET TimerId
  /\ timer \in [TimerId -> [state : {"unused", "live", "cancelled", "fired"}, due : Nat]]

(* timer_map names exactly the entries of the slots, each at its place, and*)
(* every entry is in the slot its expiry belongs to, at or ahead of the    *)
(* wheel's pointer: no swap, shift, move or re-insertion loses one.        *)
WheelConsistent ==
  LET w == timing_wheel IN
  /\ \A s \in Slot : \A p \in DOMAIN w.slots[s] :
       LET e == w.slots[s][p] IN
       /\ w.timer_map[e.id] = <<s, p>>
       /\ s = calculate_slot_index(e.expiry)
       /\ e.expiry >= w.current_time
  /\ \A i \in TimerId : w.timer_map[i] # None =>
       /\ w.timer_map[i][2] \in DOMAIN w.slots[w.timer_map[i][1]]
       /\ w.slots[w.timer_map[i][1]][w.timer_map[i][2]].id = i

(* The task's two tables and the wheel agree on which timers exist and     *)
(* whose they are, and the counters on what became of the others.          *)
OwnersAgree ==
  /\ \A i \in TimerId :
       /\ entry_to_connection[i] # None <=> timing_wheel.timer_map[i] # None
       /\ \A c \in Conn : i \in connection_timers[c] <=> entry_to_connection[i] = c
  /\ task.at = "select" =>
       /\ Created = timer_count(timing_wheel) + stats.processed + stats.cancelled
       /\ wheel_stats(timing_wheel).total_timers = timer_count(timing_wheel)

(* A timer whose cancellation was confirmed, or that has fired, is not on  *)
(* the wheel, and no event of a cancelled timer is on its way: whatever the*)
(* order in which a cancellation and an expiry reach the task, one of the  *)
(* two wins.  A timer has at most one event.                               *)
CancelledNeverFires ==
  /\ \A e \in Entries(timing_wheel) : timer[e.id].state = "live"
  /\ \A c \in Conn : \A n \in DOMAIN timeout_rx[c] :
       /\ timer[timeout_rx[c][n].id].state = "fired"
       /\ \A m \in DOMAIN timeout_rx[c] :
            timeout_rx[c][m].id = timeout_rx[c][n].id => m = n

(* A timer fires at most one advance interval late and less than an        *)
(* interval and a slot early (its delay counts from the wheel's time, which*)
(* is behind the clock), as long as no full channel has held the task up.  *)
FiresOnTime ==
  [][ \A i \in TimerId : timer[i].state = "live" /\ ~task.delayed =>
        /\ timer'[i].state = "fired" =>
             /\ clock <= timer[i].due + AdvanceInterval
             /\ timer[i].due < clock + AdvanceInterval + SlotDuration
        /\ task.at = "select" /\ clock' > clock => clock' <= timer[i].due + AdvanceInterval ]_vars

(* The cached expiry is never later than a timer on the wheel: the wake-up *)
(* computed from it does not oversleep.  While the task waits for an event *)
(* a wheel with timers has a cached expiry, which a new timer only lowers. *)
CacheNotLate ==
  /\ timing_wheel.cached_next_expiry # None =>
       \A e \in Entries(timing_wheel) : timing_wheel.cached_next_expiry <= e.expiry
  /\ task.at = "select" /\ timing_wheel.cached_next_expiry = None => Entries(timing_wheel) = {}

(* An endpoint's handle is of a timer that can still fire, or whose event  *)
(* it has not seen yet.                                                    *)
HandleNotDangling ==
  \A c \in Conn, k \in Kind : manager[c].active[k] # None /\ manager[c].at # "ended" =>
    LET i == manager[c].active[k] IN
    \/ timer[i].state = "live"
    \/ \E e \in Range(timeout_rx[c]) \cup Range(task.unsent) : e.id = i

(* The pointer stands at the slot of the wheel's time, which is not ahead  *)
(* of the clock.                                                           *)
WheelTurned ==
  /\ timing_wheel.current_time % SlotDuration = 0
  /\ timing_wheel.current_slot = calculate_slot_index(timing_wheel.current_time)
  /\ timing_wheel.current_time <= clock

(* What became of a timer: ids are given out in turn, those on the wheel   *)
(* are live, and the counters count the others.                            *)
IdsKnown ==
  /\ ~Stopped => Created + InFlight <= MaxCreated
  /\ \A i \in TimerId :
       /\ timer[i].state = "unused" <=> i > Created
       /\ timer[i].state = "live" <=> timing_wheel.timer_map[i] # None
  /\ \A e \in Entries(timing_wheel) : entry_to_connection[e.id] = e.conn
  /\ stats.cancelled = Cardinality({i \in TimerId : timer[i].state = "cancelled"})
  /\ task.at = "select" =>
       stats.processed = Cardinality({i \in TimerId : timer[i].state = "fired"})

(* The events that wait for room are of timers that have fired, and are    *)
(* not in a channel as well.                                               *)
EventsKnown ==
  /\ task.at # "trigger" => task.unsent = <<>>
  /\ \A n \in DOMAIN task.unsent :
       /\ timer[task.unsent[n].id].state = "fired"
       /\ \A m \in DOMAIN task.unsent : task.unsent[m].id = task.unsent[n].id => m = n
       /\ \A c \in Conn : \A e \in Range(timeout_rx[c]) : e.id # task.unsent[n].id

(* A handle is of a timer of its connection and kind, no two are of the    *)
(* same, and no cancellation under way is of a timer with a handle.        *)
Cancels(i) ==
  \/ i \in spawned
  \/ \E n \in DOMAIN command_rx :
       \/ command_rx[n].op = "cancel" /\ command_rx[n].id = i
       \/ command_rx[n].op = "batch_cancel" /\ i \in command_rx[n].ids
HandlesKnown ==
  \A c \in Conn, k \in Kind :
    LET i == manager[c].active[k] IN
    i # None =>
      /\ i <= Created /\ ~Cancels(i)
      /\ \A d \in Conn, l \in Kind : manager[d].active[l] = i => d = c /\ l = k
      /\ \A e \in Entries(timing_wheel) \cup Range(task.unsent) :
           e.id = i => e.conn = c /\ e.kind = k
      /\ \A d \in Conn : \A e \in Range(timeout_rx[d]) : e.id = i => e.kind = k

(* A caller has one command in the channel and waits for its answer; a     *)
(* command names timers that exist, and only an ended connection is        *)
(* cleared.                                                                *)
Caller(cmd) == IF cmd.op = "register" THEN cmd.conn
               ELSE IF cmd.op = "cancel" THEN cmd.waiter ELSE None
CallersWait ==
  /\ \A i \in TimerId : Cancels(i) => i <= Created
  /\ \A n \in DOMAIN command_rx :
       /\ command_rx[n].op = "clear" => manager[command_rx[n].conn].at = "ended"
       /\ ~Stopped /\ Caller(command_rx[n]) # None =>
            /\ manager[Caller(command_rx[n])].at = "wait"
            /\ \A m \in DOMAIN command_rx :
                 Caller(command_rx[m]) = Caller(command_rx[n]) => m = n

(* The structures that describe the same timers agree: the wheel's slots,  *)
(* its index and its cached expiry, the task's tables and counters, and the*)
(* handles of the endpoints.                                               *)
TInv == /\ TTypeOK /\ WheelConsistent /\ OwnersAgree /\ CacheNotLate /\ HandleNotDangling
        /\ WheelTurned /\ IdsKnown /\ EventsKnown /\ HandlesKnown /\ CallersWait

(* A batch of registrations leaves the wheel as its timers one by one do.  *)
BatchAsOneByOne ==
  [][ TaskBatchRegister =>
        LET cmd == Head(command_rx)
            add(w, t) == add_timer(w, t[1], cmd.conn, t[2])
            one_by_one == FoldLeft(add, timing_wheel, cmd.batch)
        IN timing_wheel' =
             [one_by_one EXCEPT !.cached_next_expiry = next_expiry_time(one_by_one)] ]_vars

(* No advance leaves a timer behind that is due.                           *)
NothingDueIsLeft ==
  [][ (AdvanceTick \/ AdvanceWakeup) =>
        \A e \in Entries(timing_wheel') : e.expiry > clock ]_vars
=============================================================================

-------------------------- MODULE UnifiedScheduler --------------------------
(***************************************************************************)
(* UnifiedTimeoutScheduler (src/core/endpoint/unified_scheduler.rs): the   *)
(* earliest deadline of several layers, cached, and a prediction from the  *)
(* times at which timeouts were seen before.                               *)
(*                                                                         *)
(* A scheduler is a record                                                 *)
(*   cached_now   what TimeCache answers before valid_until,               *)
(*   computed_at  when the cached deadline was computed, or NoInstant,     *)
(*   deadline     the cached deadline,                                     *)
(*   patterns     the times of the recorded timeouts.                      *)
(*                                                                         *)
(* next_check_deadlines is never filled, so that cleaning it up does       *)
(* nothing; the statistics are left out.                                   *)
(***************************************************************************)
EXTENDS Integers, Sequences, FiniteSets, FiniteSetsExt

CONSTANTS
  CacheFor,        (* how long the clock and the deadline are cached: 1 ms *)
  DropAfter,       (* age at which cleanup drops the deadline: 5 ms        *)
  MinPatterns,     (* patterns needed for a prediction: 3                  *)
  PatternCap,      (* patterns kept: 100                                   *)
  PatternRecent,   (* age of the patterns a prediction uses: 300 s         *)
  PatternKeep,     (* age at which cleanup drops a pattern: 3600 s         *)
  PredictWithin,   (* how far ahead a prediction may lie: 60 s             *)
  Fallback         (* the interval without any deadline: 50 ms             *)

ASSUME SchedulerAssumption ==
  /\ {CacheFor, DropAfter, MinPatterns, PatternCap} \subseteq Nat
  /\ {PatternRecent, PatternKeep, PredictWithin, Fallback} \subseteq Nat

NoInstant == -1

NewScheduler(now) ==
  [cached_now |-> now, valid_until |-> now, computed_at |-> NoInstant,
   deadline |-> NoInstant, patterns |-> <<>>]

\* Mutant: the time cache is never refreshed.
MutantTimeCacheNow(sch, now) == sch

\* TimeCache::now leaves its answer in cached_now.
TimeCacheNow(sch, now) ==
  IF now < sch.valid_until
    THEN sch
    ELSE [sch EXCEPT !.cached_now = now, !.valid_until = now + CacheFor]

\* The elements of a set of numbers in ascending order: the k-th one has k - 1
\* below it.
Ascending(S) ==
  [k \in 1 .. Cardinality(S) |-> CHOOSE s \in S : Cardinality({u \in S : u < s}) = k - 1]

\* The times after a given one, in the order in which they were recorded.
LaterThan(times, since) ==
  LET kept == Ascending({i \in DOMAIN times : times[i] > since})
  IN [k \in DOMAIN kept |-> times[kept[k]]]

Recent(sch, at) == LaterThan(sch.patterns, at - PatternRecent)

\* predict_next_timeout: the last recent timeout plus the average interval
\* of the recent ones, which is their span over their number less one.
predict_next_timeout(sch, at) ==
  LET recent == Recent(sch, at)
      n == Len(recent)
      predicted == recent[n] + (recent[n] - recent[1]) \div (n - 1)
  IN IF /\ Len(sch.patterns) >= MinPatterns
        /\ n >= 2
        /\ predicted > at
        /\ predicted < at + PredictWithin
       THEN {predicted}
       ELSE {}

CacheHit(sch, at) ==
  sch.computed_at # NoInstant /\ at - sch.computed_at < CacheFor

(* calculate_unified_deadline for the deadlines of the layers.             *)
calculate_unified_deadline(sch, deadlines, now) ==
  LET seen == TimeCacheNow(sch, now)
      at == seen.cached_now
      all == deadlines \cup predict_next_timeout(seen, at)
  IN IF CacheHit(seen, at)
       THEN seen
       ELSE [seen EXCEPT !.computed_at = at,
                         !.deadline = IF all = {} THEN at + Fallback ELSE Min(all)]

update_timeout_patterns(sch, at) ==
  [sch EXCEPT !.patterns =
     IF Len(@) + 1 > PatternCap THEN Tail(Append(@, at)) ELSE Append(@, at)]

(* check_unified_timeout_events: detected says whether some layer reports  *)
(* an event.                                                               *)
check_unified_timeout_events(sch, detected, now) ==
  LET seen == TimeCacheNow(sch, now)
  IN IF detected THEN update_timeout_patterns(seen, seen.cached_now) ELSE seen

(* cleanup_expired_data reads the real clock.                              *)
cleanup_expired_data(sch, now) ==
  LET stale == sch.computed_at # NoInstant /\ now - sch.computed_at > DropAfter
  IN [sch EXCEPT !.computed_at = IF stale THEN NoInstant ELSE @,
                 !.deadline = IF stale THEN NoInstant ELSE @,
                 !.patterns = LaterThan(@, now - PatternKeep)]
=============================================================================

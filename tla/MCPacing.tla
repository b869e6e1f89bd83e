------------------------------ MODULE MCPacing ------------------------------
(***************************************************************************)
(* A small instance of Pacing for TLC, and the claims of the documents.    *)
(***************************************************************************)
EXTENDS Pacing

-----------------------------------------------------------------------------
(* What comments and documents say of pacing and the code does not keep.   *)

(* "BaseRTT": the least round-trip time seen is the delay of the line      *)
(* (docs/src/features/02-core-protocol/08-congestion-control-vegas.md:17). *)
(* A sample is measured from the last sending (sack_manager.rs:285): the   *)
(* acknowledgement of the first copy, arriving after the second was sent,  *)
(* gives one that is shorter than the delay, and min_rtt never rises.      *)
BaseRttIsDelay == rel.cc.min_rtt >= Delay

(* "Calculate unified next wakeup deadline" (unified_scheduler.rs:203-204):*)
(* the deadline returned is not later than any layer's.  A frame sent      *)
(* after the cached deadline was computed is left out of it.               *)
UnifiedNotLate ==
  [][ret' # ret => \A d \in LayerDeadlines : ret'.deadline <= d]_vars
=============================================================================

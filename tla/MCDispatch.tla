----------------------------- MODULE MCDispatch -----------------------------
(***************************************************************************)
(* The dispatchers and the hybrid system with two threads.                 *)
(***************************************************************************)
EXTENDS EventDispatch
CONSTANTS t1, t2
MCThread == {t1, t2}

-----------------------------------------------------------------------------
(* What comments in src/timer say of the dispatchers and what the code     *)
(* does not keep.                                                          *)

\* pool.rs:17-19 gives max_size as the maximum size of the pool.  Two
\* overlapping batch_release calls can both see the same room.
PoolWithinMax == Len(pool) <= PoolMax

\* zero_copy.rs:349-350: "If we're back to the starting dispatcher, all are
\* full".  Another thread may have emptied a slot that was tried before.
FullMeansAllFull ==
  [][(rejected' # rejected /\ \E t \in Thread : thread[t].pc = "single" /\ thread'[t] # thread[t])
     => \A s \in Slot : IsFull(s)]_vars

\* core.rs:220: a failed dispatch is "expected due to concurrency".  The hybrid
\* system has one caller, yet what it leaves in the slots (it takes at most half
\* of what it put in) fills them, and then every batch falls back to channels
\* without receivers.
FallbackNeedsConcurrency == ~Shared => hybrid.fallback = 0
=============================================================================

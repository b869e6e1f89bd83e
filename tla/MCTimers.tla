------------------------------- MODULE MCTimers -------------------------------
(* Values for TLC: delays within a turn of the wheel and beyond it, and    *)
(* batches of which one has a full vector and more.                        *)
EXTENDS TimerTask

MCDelay == {1, 6}
MCBatch == {<<<<3, "path">>, <<9, "path">>>>,
            <<<<2, "path">>, <<9, "idle">>, <<2, "path">>>>}
ConnSymmetry == Permutations(Conn)

-----------------------------------------------------------------------------
(* What the comments of the timer modules say, and the code does not do.   *)

(* src/timer/wheel/core.rs:489: next_expiry_time "Returns earliest timer   *)
(* expiration time, None if no timers".  An advance that stays within one  *)
(* slot fires timers and leaves the cache as it was.                       *)
NextExpiryIsEarliest ==
  task.at = "select" =>
    next_expiry_time(timing_wheel) =
      (IF Entries(timing_wheel) = {} THEN None
       ELSE Earliest({e.expiry : e \in Entries(timing_wheel)}))

(* src/core/endpoint/timing.rs:65: active_timers are the active timers by  *)
(* kind.  A timer the endpoint registered and that is not replaced stays   *)
(* in its hands until it fires: the late event of its predecessor takes    *)
(* the new handle away.                                                    *)
NewTimerKeepsItsHandle ==
  [][ \A c \in Conn, k \in Kind :
        /\ manager[c].at = "run" /\ manager'[c].at = "run"
        /\ manager[c].active[k] # None
        => \/ manager'[c].active[k] # None
           \/ timer[manager[c].active[k]].state # "live" ]_vars
=============================================================================

--------------------------- MODULE Retransmission ---------------------------
(***************************************************************************)
(* The two in-flight books of the sender                                   *)
(* (src/core/reliability/retransmission.rs and below):                     *)
(*                                                                         *)
(*  - SackManager keeps every unacknowledged PUSH until a cumulative or a  *)
(*    selective acknowledgement covers it, and retransmits it on timeout   *)
(*    or when later frames are acknowledged FastRetxThreshold times;       *)
(*  - SimpleRetransmissionManager keeps the FIN, retransmits it at a fixed *)
(*    interval, and gives it up after MaxRetries attempts.                 *)
(*                                                                         *)
(* A book is a function on the sequence numbers in flight.  SackManager's  *)
(* gives the payload and the fast-retransmission count, the simple one the *)
(* retry count.  Time is abstracted: which entries have timed out is an    *)
(* argument.                                                               *)
(***************************************************************************)
EXTENDS Naturals

CONSTANTS
  FastRetxThreshold,   (* fast_retx_threshold, 3 by default              *)
  MaxRetries           (* max_retries of a FIN, 5 by default             *)

ASSUME ThresholdAssumption == FastRetxThreshold \in Nat \ {0}
ASSUME MaxRetriesAssumption == MaxRetries \in Nat

EmptyBook == [s \in {} |-> 0]

(***************************************************************************)
(* SackManager::process_ack: first the frames below the cumulative         *)
(* acknowledgement leave, then the selectively acknowledged ones.          *)
(***************************************************************************)
CumulativeAcked(book, next) == {s \in DOMAIN book : s < next}

SackAcked(book, next, sack) ==
  {s \in DOMAIN book : s \in sack} \ CumulativeAcked(book, next)

(* Mutant: the cumulative acknowledgement covers next_sequence itself.     *)
MutantStillInFlight(book, next, sack) ==
  {s \in DOMAIN book : s > next} \ SackAcked(book, next, sack)

StillInFlight(book, next, sack) ==
  DOMAIN book \ (CumulativeAcked(book, next) \cup SackAcked(book, next, sack))

(* check_fast_retransmission: every frame that is left below the highest   *)
(* selectively acknowledged one is counted as skipped.                     *)
Skipped(book, next, sack) ==
  {s \in StillInFlight(book, next, sack) :
     \E h \in SackAcked(book, next, sack) : s < h}

FastRetransmitted(book, next, sack) ==
  {s \in Skipped(book, next, sack) :
     book[s].fast_retx_count + 1 >= FastRetxThreshold}

ProcessAck(book, next, sack) ==
  [s \in StillInFlight(book, next, sack) |->
     IF s \in FastRetransmitted(book, next, sack)
       THEN [book[s] EXCEPT !.fast_retx_count = 0]
     ELSE IF s \in Skipped(book, next, sack)
       THEN [book[s] EXCEPT !.fast_retx_count = @ + 1]
     ELSE book[s]]

(***************************************************************************)
(* SimpleRetransmissionManager: acknowledge_up_to, acknowledge_sack_ranges *)
(* and check_for_retransmissions of the entries in due.                    *)
(***************************************************************************)
AcknowledgeSimple(book, next, sack) ==
  [s \in {t \in DOMAIN book : t >= next /\ t \notin sack} |-> book[s]]

(* Mutant: one retry too many.                                             *)
MutantGivenUp(book, due) == {s \in due : book[s] > MaxRetries}

GivenUp(book, due) == {s \in due : book[s] >= MaxRetries}

RetrySimple(book, due) ==
  [s \in DOMAIN book \ GivenUp(book, due) |->
     IF s \in due THEN book[s] + 1 ELSE book[s]]
=============================================================================

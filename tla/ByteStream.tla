----------------------------- MODULE ByteStream -----------------------------
(***************************************************************************)
(* What the protocol promises for one direction of a connection: a         *)
(* reliable, ordered stream.  A writer appends, a reader receives longer   *)
(* and longer prefixes, and after end-of-file nothing follows.             *)
(***************************************************************************)
EXTENDS Naturals, Sequences

CONSTANT Unit   (* what can be written *)

VARIABLES
  written,     (* all that has been accepted from the writer            *)
  delivered,   (* all that the reader has been given                    *)
  eof          (* the reader has been told that nothing follows         *)

bsVars == <<written, delivered, eof>>

BSInit ==
  /\ written = <<>>
  /\ delivered = <<>>
  /\ eof = FALSE

Append1 ==
  /\ written' \in Seq(Unit)
  /\ Len(written') = Len(written) + 1
  /\ SubSeq(written', 1, Len(written)) = written
  /\ UNCHANGED <<delivered, eof>>

(* Some of what was written follows what was delivered before, and the     *)
(* end of the stream may be signalled with it or alone.                    *)
Deliver ==
  /\ ~eof
  /\ \E k \in Len(delivered)..Len(written) : delivered' = SubSeq(written, 1, k)
  /\ eof' \in BOOLEAN
  /\ UNCHANGED written

BSNext == Append1 \/ Deliver

BSSpec == BSInit /\ [][BSNext]_bsVars
=============================================================================

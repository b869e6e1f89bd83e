------------------------------ MODULE MCRouting ------------------------------
(* Small instances of SocketRouting.                                       *)
EXTENDS SocketRouting, TLC

(* Connections, addresses and ids are interchangeable in the safety runs.       *)
Interchangeable == Permutations(Conn) \cup Permutations(Addr) \cup Permutations(Cid)

-----------------------------------------------------------------------------
(* Statements of the repository's documents about the socket layer that    *)
(* the code does not keep.                                                 *)

(* "Any packet to that CID is safely ignored by the FrameRouter" while the *)
(* id is draining (docs/src/features/02-core-protocol/03-cid-handshake.md).*)
(* dispatch_frame looks the sender's address up before it looks at the     *)
(* pool, and hands the frame to whatever connection that address has now.  *)
DrainingIsIgnored ==
  actor.at = "dispatch" => \A f \in actor.frames : f.cid \notin draining_pool

(* A retransmitted SYN is recognised by its address, which avoids creating *)
(* several endpoints for one client (same document).  event_loop::run      *)
(* hands every datagram that begins with a SYN to handle_new_connection,   *)
(* which does not look at the address table.                               *)
RepeatedSynIsRecognised ==
  \A i, j \in Conn :
    /\ endpoint[i].status \notin {"unborn", "ended"} /\ endpoint[i].client # None
    /\ endpoint[j].status \notin {"unborn", "ended"}
    /\ endpoint[i].client = endpoint[j].client /\ endpoint[i].addr = endpoint[j].addr
    => i = j

(* Message passing instead of locks "eradicates the risk of deadlock"      *)
(* (docs/src/Introduction.md).  The actor waits for room in an endpoint's  *)
(* channel while that endpoint waits for room in the actor's.              *)
NoMutualWait ==
  ~ /\ actor.frames # {} /\ Len(inbox[actor.to]) = InboxCap
    /\ endpoint[actor.to].status = "updating" /\ Len(command_rx) = CommandCap
=============================================================================

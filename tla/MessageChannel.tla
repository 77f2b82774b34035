--------------------------- MODULE MessageChannel ---------------------------
(***************************************************************************)
(* What an association promises the program that receives from it, without *)
(* sockets, readiness, tasks or notifications: the peer's records come     *)
(* back in order, cut exactly at the ends of messages, until the channel   *)
(* is closed; and it is closed for good, with nothing left to return.      *)
(***************************************************************************)
EXTENDS Naturals, SequencesExt

VARIABLES
  sent,       \* the pieces the peer sent; each knows whether it is the last
  returned,   \* the messages the receives returned
  closed      \* receives end without a message from now on

channelVars == <<sent, returned, closed>>

Init == sent = <<>> /\ returned = <<>> /\ closed = FALSE

\* What was sent and not returned, and where messages end in it.
Pending == SubSeq(sent, Len(FlattenSeq(returned)) + 1, Len(sent))
Ends(s) == {i \in 1 .. Len(s) : s[i].last}

\* The peer sends one more piece.
Send ==
  /\ ~closed
  /\ Len(sent') = Len(sent) + 1
  /\ SubSeq(sent', 1, Len(sent)) = sent
  /\ UNCHANGED <<returned, closed>>

\* Some receive returns what is pending up to the first end of a message.
Receive ==
  /\ \E n \in Ends(Pending) :
       /\ \A i \in Ends(Pending) : n <= i
       /\ returned' = Append(returned, SubSeq(Pending, 1, n))
  /\ UNCHANGED <<sent, closed>>

\* The channel closes when no message is left; pieces of one may be.
Close ==
  /\ Ends(Pending) = {}
  /\ closed' = TRUE
  /\ UNCHANGED <<sent, returned>>

Next == Send \/ Receive \/ Close

Spec == Init /\ [][Next]_channelVars

=============================================================================

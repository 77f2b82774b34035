---------------------------- MODULE KernelSocket ----------------------------
(***************************************************************************)
(* The kernel's one-to-one SCTP socket under an SctpAssociation, with the  *)
(* peer behind it.  External code, modelled from what the crate relies on  *)
(* (the comments and tests of association.rs and the errors it handles):   *)
(* what the system calls return, what they change, which epoll events hold *)
(* and when the socket is signalled.                                       *)
(***************************************************************************)
EXTENDS AsyncFd, Reassembly

CONSTANTS
  SndBuf,       \* messages the send buffer holds
  MaxQueue,     \* records the receive buffer holds before the peer is stopped
  MaxMsgs,      \* bound: messages the peer begins
  MaxParts,     \* bound: pieces of one message
  Restarts,     \* whether the peer may restart the association
  LostEarly     \* whether an accepted association may be lost before from_raw_fd
                \* has subscribed to its events

ASSUME KernelAssumption ==
  /\ SndBuf \in Nat \ {0}
  /\ MaxQueue \in Nat \ {0}
  /\ MaxMsgs \in Nat
  /\ MaxParts \in Nat \ {0}
  /\ Restarts \in BOOLEAN
  /\ LostEarly \in BOOLEAN

VARIABLES
  assoc,      \* "up", "closing" (shut down by this side), "peer_closing", "over"
  queue,      \* records to be read
  skErr,      \* sk_err is set and was handed to nobody yet
  rcvShut,    \* RCV_SHUTDOWN: the peer shut down
  sndShut,    \* SEND_SHUTDOWN: shutdown(SHUT_WR) was called
  room,       \* free places of the send buffer
  sent,       \* every piece the peer sent, in order
  mid,        \* the peer has sent a message up to some piece but the last
  cut         \* messages whose remaining pieces will never come

peerVars   == <<sent, mid, cut>>
kernelVars == <<assoc, queue, skErr, rcvShut, sndShut, room, sent, mid, cut>>

AssocStates == {"up", "closing", "peer_closing", "over"}

KernelTypeOK ==
  /\ assoc \in AssocStates
  /\ queue \in Seq(Chunk)
  /\ skErr \in BOOLEAN
  /\ rcvShut \in BOOLEAN
  /\ sndShut \in BOOLEAN
  /\ room \in 0 .. SndBuf
  /\ sent \in Seq(Piece)
  /\ mid \in BOOLEAN
  /\ mid => sent # <<>>
  /\ cut \in SUBSET Nat

\* The notifications the kernel queues.
ChangeNote(state) == Note(Raw(SCTP_ASSOC_CHANGE, state, 1, AssocChangeSize))
SendFailedNote    == Note(Raw(SCTP_SEND_FAILED, 0, 1, AssocChangeSize))
ShutdownNote      == Note(Raw(SCTP_SHUTDOWN_EVENT, 0, 1, ShutdownSize))

\* An established association.  On a connected socket, which subscribed to
\* events before, the notification of it is queued; on an accepted one not, and
\* the loss of it in that time has set the socket error and queued nothing.
KernelInit ==
  /\ \/ assoc = "up" /\ skErr = FALSE /\ queue \in {<<>>, <<ChangeNote(SCTP_COMM_UP)>>}
     \/ LostEarly /\ assoc = "over" /\ skErr = TRUE /\ queue = <<>>
  /\ rcvShut = FALSE
  /\ sndShut = FALSE
  /\ room = SndBuf
  /\ sent = <<>>
  /\ mid = FALSE
  /\ cut = {}

-----------------------------------------------------------------------------
(* What epoll says of the socket.                                          *)

PollEvents ==
  {e \in EpollEvents :
    \/ e = "ERR" /\ skErr
    \/ e = "IN" /\ (queue # <<>> \/ rcvShut)
    \/ e = "RDHUP" /\ rcvShut
    \/ e = "HUP" /\ rcvShut /\ sndShut
    \/ e = "OUT" /\ room > 0}

\* A receive would not block for lack of data.
Readable == queue # <<>> \/ rcvShut

-----------------------------------------------------------------------------
(* The peer and the network.  Each step signals the socket.                *)

Signal == edge' = TRUE /\ UNCHANGED <<event, ready, fresh, waiting>>

\* The next piece the peer sends: of the message under way or of a new one.
NextPiece(last) ==
  LET p == sent[Len(sent)] IN
  IF mid THEN [assoc |-> 1, msg |-> p.msg, part |-> p.part + 1, last |-> last]
         ELSE [assoc |-> 1, msg |-> IF sent = <<>> THEN 1 ELSE p.msg + 1,
               part |-> 1, last |-> last]

\* A piece of a message arrives.  After the peer's SHUTDOWN none does.
PeerData(last) ==
  /\ assoc \in {"up", "closing"}
  /\ Len(queue) < MaxQueue
  /\ LET p == NextPiece(last) IN
       /\ p.msg <= MaxMsgs
       /\ p.part < MaxParts \/ last
       /\ queue' = Append(queue, Data(p))
       /\ sent' = Append(sent, p)
  /\ mid' = ~last
  /\ Signal
  /\ UNCHANGED <<assoc, skErr, rcvShut, sndShut, room, cut>>

\* The peer acknowledges a message, which frees its place.
PeerAcks ==
  /\ assoc # "over"
  /\ room < SndBuf
  /\ room' = room + 1
  /\ Signal
  /\ UNCHANGED <<assoc, queue, skErr, rcvShut, sndShut, peerVars>>

\* A message sent with a time to live (SendOptions::ttl_ms) is given up.
TtlExpires ==
  /\ assoc # "over"
  /\ room < SndBuf
  /\ Len(queue) < MaxQueue
  /\ room' = room + 1
  /\ queue' = Append(queue, SendFailedNote)
  /\ Signal
  /\ UNCHANGED <<assoc, skErr, rcvShut, sndShut, peerVars>>

\* The peer shuts down, all its messages sent.
PeerShutsDown ==
  /\ assoc = "up"
  /\ ~mid
  /\ assoc' = "peer_closing"
  /\ rcvShut' = TRUE
  /\ queue' = Append(queue, ShutdownNote)
  /\ Signal
  /\ UNCHANGED <<skErr, sndShut, room, peerVars>>

\* A shutdown of either side completes once everything sent has arrived.
ShutdownCompletes ==
  /\ assoc \in {"closing", "peer_closing"}
  /\ ~mid
  /\ room = SndBuf
  /\ assoc' = "over"
  /\ queue' = Append(queue, ChangeNote(SCTP_SHUTDOWN_COMP))
  /\ Signal
  /\ UNCHANGED <<skErr, rcvShut, sndShut, room, peerVars>>

\* The messages begun and not finished, when no more of them will come.
CutMessage == cut' = IF mid THEN cut \cup {sent[Len(sent)].msg} ELSE cut

\* The association fails: the socket error is set and the loss queued, after
\* the messages that can no longer be sent.  No room is freed.
Fail ==
  /\ assoc # "over"
  /\ assoc' = "over"
  /\ skErr' = TRUE
  /\ queue' = Append(IF room < SndBuf THEN Append(queue, SendFailedNote) ELSE queue,
                     ChangeNote(SCTP_COMM_LOST))
  /\ CutMessage
  /\ mid' = FALSE
  /\ Signal
  /\ UNCHANGED <<rcvShut, sndShut, room, sent>>

\* The peer restarts: the association goes on, what it had begun does not.
PeerRestarts ==
  /\ Restarts
  /\ assoc = "up"
  /\ Len(queue) < MaxQueue
  /\ queue' = Append(queue, ChangeNote(SCTP_RESTART))
  /\ CutMessage
  /\ mid' = FALSE
  /\ Signal
  /\ UNCHANGED <<assoc, skErr, rcvShut, sndShut, room, sent>>

-----------------------------------------------------------------------------
(* System calls of this side.                                              *)

\* shutdown(fd, SHUT_WR).
ShutdownWrite ==
  /\ sndShut' = TRUE
  /\ assoc' = IF assoc = "up" THEN "closing" ELSE assoc
  /\ Signal
  /\ UNCHANGED <<queue, skErr, rcvShut, room, peerVars>>

\* sctp_sendmsg refuses: the socket error is handed to this call, if it is
\* still there.
SendRefused ==
  /\ skErr' = FALSE
  /\ UNCHANGED <<assoc, queue, rcvShut, sndShut, room, peerVars>>

=============================================================================

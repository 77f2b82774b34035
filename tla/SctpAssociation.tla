-------------------------- MODULE SctpAssociation --------------------------
(***************************************************************************)
(* src/association.rs, the life of an established SctpAssociation: the     *)
(* calls recv, recv_msg, send_with (send and abort go through it),         *)
(* shutdown, and the drop of a waiting call, made by any number of tasks   *)
(* on one association.  A step is a stretch of code between two accesses   *)
(* to what the tasks share: the cached readiness, the socket (with the     *)
(* accumulator, under its lock) and `ended`.                               *)
(***************************************************************************)
EXTENDS KernelSocket, ReadyLoop, SequencesExt

CONSTANTS
  Receivers, Senders,   \* the tasks that receive and that send
  Calls                 \* the calls the program makes

ASSUME TasksAssumption ==
  /\ Tasks = Receivers \cup Senders
  /\ Receivers \cap Senders = {}

VARIABLES
  ended,      \* the semaphore `ended` is closed
  buf,        \* recv_state: pieces of the message being put together
  op,         \* the call each task is in
  delivered   \* the messages receives returned, in order

crateVars == <<ended, buf, pc, op, delivered>>
vars == <<kernelVars, fdVars, crateVars>>
others == <<kernelVars, ended, buf, delivered>>

RecvOps == {"recv", "recv_msg"}
\* send_with by its options: plain data, data that can never fit, SCTP_ABORT,
\* SCTP_EOF.
SendOps == {"data", "oversize", "abort", "eof"}

\* blocked: got EWOULDBLOCK; ending: took a notification that ends the
\* association.
Pcs == LoopPcs \cup {"blocked", "ending"}

\* Mutants: a send that waits for room only, and one that waits for the wrong
\* direction.
SendInterestWritable == WriteInterest
SendInterestReadable == ReadInterest \cup ErrorInterest

RecvInterest == ReadInterest
SendInterest == WriteInterest \cup ErrorInterest
Interest(t)  == IF t \in Receivers THEN RecvInterest ELSE SendInterest

TypeOK ==
  /\ KernelTypeOK
  /\ FdTypeOK
  /\ ended \in BOOLEAN
  /\ buf \in Seq(Piece)
  /\ pc \in [Tasks -> Pcs]
  /\ op \in [Tasks -> RecvOps \cup SendOps \cup {"none"}]
  /\ delivered \in Seq(Seq(Piece))

\* A socket that was just registered (accept, peeloff) or one that connect
\* waited for, and whose readiness it left cached.
Init ==
  /\ KernelInit
  /\ FdInit \/ (assoc = "up" /\ FdCached(PollEvents))
  /\ ended = FALSE
  /\ buf = <<>>
  /\ pc = [t \in Tasks |-> "idle"]
  /\ op = [t \in Tasks |-> "none"]
  /\ delivered = <<>>

-----------------------------------------------------------------------------
(* Steps of a task.                                                        *)

Goto(t, label) == Jump(t, label) /\ UNCHANGED op

Return(t) == Jump(t, "idle") /\ op' = [op EXCEPT ![t] = "none"]

Call(t, o) ==
  /\ Enter(t)
  /\ op' = [op EXCEPT ![t] = o]
  /\ UNCHANGED others

Ready(t) == PollReady(t, Interest(t)) /\ UNCHANGED <<op, others>>
Wait(t)  == PollPending(t, Interest(t)) /\ UNCHANGED <<op, others>>
Woken(t) == PollWoken(t) /\ UNCHANGED <<op, others>>
Clear(t) == ClearAndLoop(t, Interest(t)) /\ UNCHANGED <<op, others>>

\* Mutant: what was read lives in the future that is dropped.
CancelDropsBuf(t) ==
  /\ DropCall(t)
  /\ op' = [op EXCEPT ![t] = "none"]
  /\ buf' = IF t \in Receivers THEN <<>> ELSE buf
  /\ UNCHANGED <<kernelVars, ended, delivered>>

\* The caller drops the future at its await: what was read stays in buf.
Cancel(t) ==
  /\ DropCall(t)
  /\ op' = [op EXCEPT ![t] = "none"]
  /\ UNCHANGED others

-----------------------------------------------------------------------------
(* recv_msg and recv: one sctp_recvmsg under the lock of recv_state.       *)

\* How a notification leaves recv_msg: recv skips it and goes round.
AfterNotification(r) ==
  IF op[r] = "recv_msg" THEN Return(r) ELSE Goto(r, "poll")

\* A record is read and folded into the accumulator.
RecvChunk(r) ==
  /\ pc[r] = "step"
  /\ queue # <<>>
  /\ LET chunk == Head(queue)
         s     == PushChunk(buf, chunk) IN
       /\ buf' = s.buf
       /\ \/ /\ s.step = "More"
             /\ Goto(r, "poll")
             /\ UNCHANGED delivered
          \/ /\ s.step = "Complete"
             /\ delivered' = Append(delivered, Payload(buf, chunk))
             /\ Return(r)
          \/ /\ s.step = "Notification"
             /\ IF IsEnding(chunk) THEN Goto(r, "ending") ELSE AfterNotification(r)
             /\ UNCHANGED delivered
  /\ queue' = Tail(queue)
  /\ DropGuard(r)
  /\ UNCHANGED <<assoc, skErr, rcvShut, sndShut, room, peerVars, ended>>

\* Nothing is queued: the socket error goes to this call ...
RecvSocketError(r) ==
  /\ pc[r] = "step"
  /\ queue = <<>>
  /\ skErr
  /\ skErr' = FALSE
  /\ Return(r)
  /\ DropGuard(r)
  /\ UNCHANGED <<assoc, queue, rcvShut, sndShut, room, peerVars, ended, buf, delivered>>

\* ... or the read returns 0 after the peer's shutdown ...
RecvEof(r) ==
  /\ pc[r] = "step"
  /\ queue = <<>>
  /\ ~skErr
  /\ rcvShut
  /\ Return(r)
  /\ DropGuard(r)
  /\ UNCHANGED others

\* ... or it would block.
RecvWouldBlock(r) ==
  /\ pc[r] = "step"
  /\ queue = <<>>
  /\ ~skErr
  /\ ~rcvShut
  /\ Goto(r, "blocked")
  /\ UNCHANGED <<fdVars, others>>

\* Mutants: the receive as it was before `ended`, and one that gives up
\* without a look at it.
EndSeenNever  == FALSE
EndSeenAlways == TRUE

\* ended.is_closed() is looked at after the read, without the lock.
EndSeen == ended

RecvBlocked(r) ==
  /\ pc[r] = "blocked"
  /\ \/ EndSeen /\ Return(r) /\ DropGuard(r)
     \/ ~EndSeen /\ Goto(r, "clear") /\ UNCHANGED fdVars
  /\ UNCHANGED others

\* ended.close(), after the lock was released, then the return.
RecvEnding(r) ==
  /\ pc[r] = "ending"
  /\ ended' = TRUE
  /\ AfterNotification(r)
  /\ UNCHANGED <<kernelVars, fdVars, buf, delivered>>

-----------------------------------------------------------------------------
(* send_with: one sctp_sendmsg.                                            *)

\* Mutant: the select without its second arm.
SendEndedNever(s) == FALSE

\* The other arm of the select: `ended` is closed, and there is no readiness.
SendEnded(s) ==
  /\ pc[s] = "wait"
  /\ ended
  /\ waiting[s] # {}
  /\ Unpark(s)
  /\ Return(s)
  /\ UNCHANGED others

SendTaken(s) ==
  /\ pc[s] = "step"
  /\ op[s] = "data"
  /\ assoc = "up"
  /\ room > 0
  /\ room' = room - 1
  /\ Return(s)
  /\ DropGuard(s)
  /\ UNCHANGED <<assoc, queue, skErr, rcvShut, sndShut, peerVars, ended, buf, delivered>>

SendWouldBlock(s) ==
  /\ pc[s] = "step"
  /\ op[s] = "data"
  /\ assoc = "up"
  /\ room = 0
  /\ Goto(s, "clear")
  /\ UNCHANGED <<fdVars, others>>

SendAbort(s) ==
  /\ pc[s] = "step"
  /\ op[s] = "abort"
  /\ Fail
  /\ Return(s)
  /\ UNCHANGED <<ended, buf, delivered>>

SendEof(s) ==
  /\ pc[s] = "step"
  /\ op[s] = "eof"
  /\ assoc # "over"
  /\ assoc' = IF assoc = "up" THEN "closing" ELSE assoc
  /\ Return(s)
  /\ DropGuard(s)
  /\ UNCHANGED <<queue, skErr, rcvShut, sndShut, room, peerVars, ended, buf, delivered>>

\* The association takes no (such) message: EMSGSIZE, ESHUTDOWN, EPIPE or
\* the socket error.
SendFails(s) ==
  /\ pc[s] = "step"
  /\ \/ assoc = "over"
     \/ op[s] = "oversize"
     \/ op[s] = "data" /\ assoc # "up"
  /\ SendRefused
  /\ Return(s)
  /\ DropGuard(s)
  /\ UNCHANGED <<ended, buf, delivered>>

-----------------------------------------------------------------------------
(* The whole.                                                              *)

\* shutdown(): one system call, no wait.
Shutdown ==
  /\ "shutdown" \in Calls
  /\ ShutdownWrite
  /\ UNCHANGED crateVars

Environment ==
  /\ \/ \E last \in BOOLEAN : PeerData(last)
     \/ PeerAcks
     \/ TtlExpires
     \/ PeerShutsDown
     \/ ShutdownCompletes
     \/ Fail
     \/ PeerRestarts
  /\ UNCHANGED crateVars

ReactorHarvests ==
  /\ Harvest(PollEvents)
  /\ UNCHANGED <<kernelVars, crateVars>>

\* (The crate's own variables are untouched: a woken task moves by Woken.)
ReactorDispatches ==
  /\ Dispatch
  /\ UNCHANGED <<kernelVars, crateVars>>

\* What a task does by itself once it is in a call.
RecvStep(r) ==
  \/ Ready(r) \/ Wait(r) \/ Woken(r) \/ Clear(r)
  \/ RecvChunk(r) \/ RecvSocketError(r) \/ RecvEof(r) \/ RecvWouldBlock(r)
  \/ RecvBlocked(r) \/ RecvEnding(r)

SendStep(s) ==
  \/ Ready(s) \/ Wait(s) \/ Woken(s) \/ Clear(s)
  \/ SendEnded(s)
  \/ SendTaken(s) \/ SendWouldBlock(s) \/ SendAbort(s) \/ SendEof(s) \/ SendFails(s)

RecvCall(r) == \E o \in RecvOps \cap Calls : Call(r, o)
SendCall(s) == \E o \in SendOps \cap Calls : Call(s, o)

Next ==
  \/ Environment
  \/ ReactorHarvests
  \/ ReactorDispatches
  \/ Shutdown
  \/ \E r \in Receivers : RecvCall(r) \/ RecvStep(r)
  \/ \E s \in Senders : SendCall(s) \/ SendStep(s)
  \/ \E t \in Tasks : Cancel(t)

Spec == Init /\ [][Next]_vars

\* Tokio runs every woken task and its driver again and again; nothing is
\* promised of the peer, of the calls a program makes or of the drops.
Fairness ==
  /\ WF_vars(ReactorHarvests)
  /\ WF_vars(ReactorDispatches)
  /\ \A r \in Receivers : WF_vars(RecvStep(r))
  /\ \A s \in Senders : WF_vars(SendStep(s))

FairSpec == Spec /\ Fairness

-----------------------------------------------------------------------------
(* Safety.                                                                 *)

NoData(q) == \A i \in 1 .. Len(q) : ~IsData(q[i])

\* `ended` is closed only when the association is over and all its data has
\* been read: "What was received before is still delivered; after it nothing
\* arrives" (the comment of ends()).  Closing it on a notification of another
\* kind, or with messages queued behind it, would turn queued or future
\* messages into NotConnected.
EndedMeansOver == ended => assoc = "over" /\ NoData(queue)

\* What a task of either kind waits for.
Reason(t) == IF t \in Receivers THEN Readable ELSE room > 0 \/ skErr

\* No wakeup is lost between the kernel, the reactor and clear_ready(): while
\* a receive is parked and the socket is readable, or a send is parked and
\* there is room or a socket error, an edge or a harvested event is on its
\* way that will wake it.
NoLostWakeup ==
  \A t \in Tasks :
    waiting[t] # {} /\ Reason(t) => edge \/ event \cap waiting[t] # {}

\* Nothing the peer sent is lost, duplicated or reordered on its way through
\* socket, accumulator and caller, whatever tasks read it, were dropped at
\* their await or read notifications in between: what was returned, then the
\* accumulator, then the queue is what was sent.
Conservation == FlattenSeq(delivered) \o buf \o DataOf(queue) = sent

\* The messages returned are whole, up to the one defect the kernel's restart
\* of an association causes: the pieces of a message that was cut stay in
\* front of the next one.
DeliveredIntact ==
  \A i \in 1 .. Len(delivered) :
    LET p == delivered[i] IN
    \E n \in 0 .. Len(p) - 1 :
      /\ Whole(SubSeq(p, n + 1, Len(p)))
      /\ \A j \in 1 .. n : p[j].msg \in cut \ {p[Len(p)].msg}

\* The association implements the message channel: through any number of tasks,
\* dropped calls and notifications, what receives return is the peer's stream cut
\* at the ends of messages, and once `ended` is closed nothing is sent or
\* returned any more.
Channel == INSTANCE MessageChannel WITH returned <- delivered, closed <- ended

ImplementsChannel == Channel!Spec

\* A receive that returns without having read anything (an error, as its
\* caller sees it) leaves no message behind: recv returns what is queued
\* first, also when the end of the association is seen by another task
\* between its read and its look at `ended`.
NoDataLeftBehind ==
  [][\A r \in Receivers :
       (pc[r] \in {"step", "blocked"} /\ pc'[r] = "idle" /\ queue' = queue)
         => NoData(queue')]_vars

-----------------------------------------------------------------------------
(* The invariant that makes the safety properties inductive.               *)

\* Whatever a task waits for is cached, harvested or signalled.
Signalled ==
  \A t \in Tasks : Reason(t) => edge \/ (event \cup ready) \cap Interest(t) # {}

\* A task about to clear the readiness of its own tick has seen nothing, and
\* what came since is signalled or harvested: the clear cannot hide it.
ClearIsSafe ==
  \A t \in Tasks :
    pc[t] \in {"blocked", "clear"} /\ fresh[t] /\ Reason(t)
      => edge \/ event \cap Interest(t) # {}

\* A parked task waits for its interest, and none of it is cached.
ParkedUnready ==
  \A t \in Tasks :
    waiting[t] # {} => /\ pc[t] = "wait"
                       /\ waiting[t] = Interest(t)
                       /\ ready \cap Interest(t) = {}

ErrorMeansOver == skErr => assoc = "over"

\* Nothing follows a notification that ends the association but notifications,
\* and there is none before the association is over.
EndingIsLast ==
  \A i \in 1 .. Len(queue) :
    IsEnding(queue[i]) =>
      /\ assoc = "over"
      /\ \A j \in i .. Len(queue) : ~IsData(queue[j])

\* A task that took such a notification is as good as `ended`.
EndingMeansOver ==
  \A t \in Tasks : pc[t] = "ending" => assoc = "over" /\ NoData(queue)

WakeupInv == TypeOK /\ Signalled /\ ClearIsSafe /\ ParkedUnready /\ ErrorMeansOver
EndInv    == TypeOK /\ EndingIsLast /\ EndingMeansOver /\ EndedMeansOver

-----------------------------------------------------------------------------
(* Liveness.                                                               *)

\* "An association that is lost ends every receive on it, whoever read the
\* socket error first" (tests/lost.rs).
ReceiveEnds ==
  \A r \in Receivers : (assoc = "over" /\ pc[r] # "idle") ~> (pc[r] = "idle")

\* A send "ends with an error when the association is lost meanwhile"
\* (send_with).
SendEnds ==
  \A s \in Senders : (assoc = "over" /\ pc[s] # "idle") ~> (pc[s] = "idle")

\* A send or an abort that met a full buffer goes on when there is room again,
\* unless another one took it: abort() has no other way past a full buffer.
SendProceeds ==
  \A s \in Senders :
    (pc[s] # "idle" /\ room > 0) ~> (pc[s] = "idle" \/ room = 0)

=============================================================================

----------------------------- MODULE SctpServer -----------------------------
(***************************************************************************)
(* src/server.rs: a bound one-to-many socket.  Several associations share  *)
(* one socket, one registration and one accumulator; tasks receive from    *)
(* any association and send to one by its id, and peeloff moves one        *)
(* association to a socket of its own.                                     *)
(***************************************************************************)
EXTENDS ReadyLoop, Reassembly, SequencesExt

CONSTANTS
  Receivers, Senders,   \* the tasks that receive and that send
  Calls,                \* bound: the kinds of call the tasks make
  Assocs,               \* bound: association ids that come up
  SndBuf,               \* messages the send buffer of the socket holds
  MaxQueue,             \* records the receive buffer holds
  MaxMsgs,              \* bound: messages a peer begins
  MaxParts,             \* bound: pieces of one message
  Losses,               \* whether associations are lost
  PeelOffs              \* whether the program peels associations off

ASSUME ServerAssumption ==
  /\ Tasks = Receivers \cup Senders
  /\ Receivers \cap Senders = {}
  /\ Calls \subseteq {"recv", "PyServer.recv", "data", "abort", "eof"}
  /\ Assocs \subseteq Nat \ {0}
  /\ SndBuf \in Nat \ {0}
  /\ MaxQueue \in Nat \ {0}
  /\ MaxMsgs \in Nat
  /\ MaxParts \in Nat \ {0}
  /\ Losses \in BOOLEAN
  /\ PeelOffs \in BOOLEAN

VARIABLES
  assoc,      \* what each association is, one of AssocStates
  queue,      \* records to be read from the server's socket
  room,       \* free places of the send buffer
  sent,       \* every piece each peer sent
  cut,        \* <<association, message>> whose other pieces will never come
  buf,        \* recv_state of the server
  op,         \* the call each task is in: its kind and, for a send, the association
  delivered,  \* the messages the server's receives returned
  peeled      \* each peeled-off association: its queue, accumulator, messages

kernelVars == <<assoc, queue, room, sent, cut>>
crateVars  == <<buf, pc, op, delivered, peeled>>
vars       == <<fdVars, kernelVars, crateVars>>
others     == <<kernelVars, buf, delivered, peeled>>

\* recv, and the recv of the Python class, which skips notifications.
RecvOps == [kind : {"recv", "PyServer.recv"}, to : {0}]
SendOps == [kind : {"data", "abort", "eof"}, to : Assocs]
NoOp    == [kind |-> "none", to |-> 0]

\* closing: shut down by this side; leaked: on a socket that nobody owns.
AssocStates == {"none", "up", "closing", "over", "peeled", "leaked"}
OnSocket(a) == assoc[a] \in {"up", "closing"}

\* readable() for a receive, writable() for a send.
Interest(t) == IF t \in Receivers THEN ReadInterest ELSE WriteInterest

NewReassembly == [queue |-> <<>>, buf |-> <<>>, delivered |-> <<>>]

TypeOK ==
  /\ FdTypeOK
  /\ assoc \in [Assocs -> AssocStates]
  /\ queue \in Seq(Chunk)
  /\ room \in 0 .. SndBuf
  /\ sent \in [Assocs -> Seq(Piece)]
  /\ cut \in SUBSET (Assocs \X Nat)
  /\ buf \in Seq(Piece)
  /\ pc \in [Tasks -> LoopPcs]
  /\ op \in [Tasks -> RecvOps \cup SendOps \cup {NoOp}]
  /\ delivered \in Seq(Seq(Piece))
  /\ peeled \in [Assocs -> [queue : Seq(Chunk), buf : Seq(Piece), delivered : Seq(Seq(Piece))]]

Init ==
  /\ FdInit
  /\ assoc = [a \in Assocs |-> "none"]
  /\ queue = <<>>
  /\ room = SndBuf
  /\ sent = [a \in Assocs |-> <<>>]
  /\ cut = {}
  /\ buf = <<>>
  /\ pc = [t \in Tasks |-> "idle"]
  /\ op = [t \in Tasks |-> NoOp]
  /\ delivered = <<>>
  /\ peeled = [a \in Assocs |-> NewReassembly]

-----------------------------------------------------------------------------
(* The kernel: one queue for all associations of the socket.  Only one of  *)
(* them at a time is in partial delivery.                                  *)

PollEvents ==
  {e \in EpollEvents :
    \/ e = "IN" /\ queue # <<>>
    \/ e = "OUT" /\ room > 0}

Signal == edge' = TRUE /\ UNCHANGED <<event, ready, fresh, waiting>>

ChangeNote(state, a) == Note(Raw(SCTP_ASSOC_CHANGE, state, a, AssocChangeSize))

AssocUp(a) ==
  /\ assoc[a] = "none"
  /\ assoc' = [assoc EXCEPT ![a] = "up"]
  /\ queue' = Append(queue, ChangeNote(SCTP_COMM_UP, a))
  /\ Signal
  /\ UNCHANGED <<room, sent, cut, crateVars>>

\* The peer has sent a message up to some piece but the last, and will go on.
Open(a) ==
  LET s == sent[a] IN
  s # <<>> /\ ~s[Len(s)].last /\ <<a, s[Len(s)].msg>> \notin cut

NextPiece(a, last) ==
  LET s == sent[a]
      p == s[Len(s)]
  IN IF Open(a) THEN [assoc |-> a, msg |-> p.msg, part |-> p.part + 1, last |-> last]
     ELSE [assoc |-> a, msg |-> IF s = <<>> THEN 1 ELSE p.msg + 1, part |-> 1, last |-> last]

PeerData(a, last) ==
  /\ LET p == NextPiece(a, last) IN
       /\ p.msg <= MaxMsgs
       /\ p.part < MaxParts \/ last
       /\ sent' = [sent EXCEPT ![a] = Append(@, p)]
       /\ \/ /\ OnSocket(a)
             /\ \A b \in Assocs \ {a} : OnSocket(b) => ~Open(b)
             /\ Len(queue) < MaxQueue
             /\ queue' = Append(queue, Data(p))
             /\ Signal
             /\ UNCHANGED peeled
          \/ /\ assoc[a] = "peeled"
             /\ peeled' = [peeled EXCEPT ![a].queue = Append(@, Data(p))]
             /\ UNCHANGED <<queue, fdVars>>
  /\ UNCHANGED <<assoc, room, cut, buf, pc, op, delivered>>

\* The association is gone; what it had begun to deliver stays in the queue.
Lose(a) ==
  /\ OnSocket(a)
  /\ assoc' = [assoc EXCEPT ![a] = "over"]
  /\ queue' = Append(queue, ChangeNote(SCTP_COMM_LOST, a))
  /\ cut' = IF Open(a) THEN cut \cup {<<a, sent[a][Len(sent[a])].msg>>} ELSE cut
  /\ Signal
  /\ UNCHANGED <<room, sent>>

AssocLost(a) == Losses /\ Lose(a) /\ UNCHANGED crateVars

\* The peer shuts down, or answers the shutdown of this side.
AssocCloses(a) ==
  /\ Losses
  /\ OnSocket(a)
  /\ ~Open(a)
  /\ assoc' = [assoc EXCEPT ![a] = "over"]
  /\ queue' = Append(queue, ChangeNote(SCTP_SHUTDOWN_COMP, a))
  /\ Signal
  /\ UNCHANGED <<room, sent, cut, crateVars>>

PeerAcks ==
  /\ room < SndBuf
  /\ room' = room + 1
  /\ Signal
  /\ UNCHANGED <<assoc, queue, sent, cut, crateVars>>

ReactorHarvests   == Harvest(PollEvents) /\ UNCHANGED <<kernelVars, crateVars>>
ReactorDispatches == Dispatch /\ UNCHANGED <<kernelVars, crateVars>>

-----------------------------------------------------------------------------
(* recv and send_with.                                                     *)

Goto(t, label) == Jump(t, label) /\ UNCHANGED op
Return(t)      == Jump(t, "idle") /\ op' = [op EXCEPT ![t] = NoOp]

Call(t, o) == Enter(t) /\ op' = [op EXCEPT ![t] = o] /\ UNCHANGED others
Cancel(t)  == DropCall(t) /\ op' = [op EXCEPT ![t] = NoOp] /\ UNCHANGED others
Poll(t)    == LoopStep(t, Interest(t)) /\ UNCHANGED <<op, others>>

\* Mutant: the readiness is cleared with the read, before the queue is known
\* to be empty.
AfterReadClears(r) == ClearReady(r, ReadInterest)

\* The guard of a read that found something is dropped.
AfterRead(r) == DropGuard(r)

\* One sctp_recvmsg under the lock: a message or a notification is returned.
\* (The kernel names the peer of every message, so that the error of recv for
\* a message without one does not arise.)
RecvChunk(r) ==
  /\ pc[r] = "step"
  /\ queue # <<>>
  /\ LET chunk == Head(queue)
         s     == PushChunk(buf, chunk) IN
       /\ buf' = s.buf
       /\ IF s.step = "More" \/ (s.step = "Notification" /\ op[r].kind = "PyServer.recv")
          THEN Goto(r, "poll") ELSE Return(r)
       /\ delivered' = IF s.step = "Complete" THEN Append(delivered, Payload(buf, chunk))
                                              ELSE delivered
  /\ queue' = Tail(queue)
  /\ AfterRead(r)
  /\ UNCHANGED <<assoc, room, sent, cut, peeled>>

RecvWouldBlock(r) ==
  /\ pc[r] = "step"
  /\ queue = <<>>
  /\ Goto(r, "clear")
  /\ UNCHANGED <<fdVars, others>>

\* sctp_send to an association that is not on this socket (any more) fails,
\* and so does data on one that is shut down.
SendFails(s) ==
  /\ pc[s] = "step"
  /\ IF op[s].kind = "data" THEN assoc[op[s].to] # "up" ELSE ~OnSocket(op[s].to)
  /\ Return(s)
  /\ DropGuard(s)
  /\ UNCHANGED others

SendTaken(s) ==
  /\ pc[s] = "step"
  /\ op[s].kind = "data"
  /\ assoc[op[s].to] = "up"
  /\ room > 0
  /\ room' = room - 1
  /\ Return(s)
  /\ DropGuard(s)
  /\ UNCHANGED <<assoc, queue, sent, cut, buf, delivered, peeled>>

SendWouldBlock(s) ==
  /\ pc[s] = "step"
  /\ op[s].kind = "data"
  /\ assoc[op[s].to] = "up"
  /\ room = 0
  /\ Goto(s, "clear")
  /\ UNCHANGED <<fdVars, others>>

\* SCTP_ABORT ends the association at once; SCTP_EOF leaves the end to the
\* handshake (AssocCloses).
SendAbort(s) ==
  /\ pc[s] = "step"
  /\ op[s].kind = "abort"
  /\ Lose(op[s].to)
  /\ Return(s)
  /\ UNCHANGED <<buf, delivered, peeled>>

SendEof(s) ==
  /\ pc[s] = "step"
  /\ op[s].kind = "eof"
  /\ OnSocket(op[s].to)
  /\ assoc' = [assoc EXCEPT ![op[s].to] = "closing"]
  /\ Return(s)
  /\ DropGuard(s)
  /\ UNCHANGED <<queue, room, sent, cut, buf, delivered, peeled>>

-----------------------------------------------------------------------------
(* peeloff and the association it makes.                                   *)

RecordOf(chunk) == IF IsData(chunk) THEN chunk.piece.assoc ELSE chunk.raw.assoc

\* Mutant: the records stay behind.
StayingAll(a) == queue

\* What a peeloff leaves on the server's socket.
Staying(a) == Only(queue, {c \in Chunk : RecordOf(c) # a})

\* sctp_peeloff moves what is queued of the association to the new socket,
\* which starts with an empty accumulator; from_raw_fd may fail on it, and
\* then nothing owns the new descriptor.
PeelOff(a) ==
  /\ PeelOffs
  /\ OnSocket(a)
  /\ queue' = Staying(a)
  /\ peeled' = [peeled EXCEPT ![a].queue = Only(queue, {c \in Chunk : RecordOf(c) = a})]
  /\ assoc' \in {[assoc EXCEPT ![a] = "peeled"], [assoc EXCEPT ![a] = "leaked"]}
  /\ UNCHANGED <<fdVars, room, sent, cut, buf, pc, op, delivered>>

\* A read of the peeled-off association (see SctpAssociation for its calls).
PeeledRecv(a) ==
  /\ assoc[a] = "peeled"
  /\ peeled[a].queue # <<>>
  /\ LET chunk == Head(peeled[a].queue)
         s     == PushChunk(peeled[a].buf, chunk) IN
       peeled' = [peeled EXCEPT ![a] =
         [queue |-> Tail(@.queue), buf |-> s.buf,
          delivered |-> IF s.step = "Complete" THEN Append(@.delivered, Payload(@.buf, chunk))
                                               ELSE @.delivered]]
  /\ UNCHANGED <<fdVars, kernelVars, buf, pc, op, delivered>>

-----------------------------------------------------------------------------
(* The whole.                                                              *)

RecvStep(r) == Poll(r) \/ RecvChunk(r) \/ RecvWouldBlock(r)
SendStep(s) ==
  \/ Poll(s)
  \/ SendFails(s) \/ SendTaken(s) \/ SendWouldBlock(s) \/ SendAbort(s) \/ SendEof(s)

RecvCall(r) == \E o \in RecvOps : o.kind \in Calls /\ Call(r, o)
SendCall(s) == \E o \in SendOps : o.kind \in Calls /\ Call(s, o)

AssocStep(a) ==
  \/ AssocUp(a) \/ AssocLost(a) \/ AssocCloses(a)
  \/ \E last \in BOOLEAN : PeerData(a, last)
  \/ PeelOff(a) \/ PeeledRecv(a)

Next ==
  \/ \E a \in Assocs : AssocStep(a)
  \/ PeerAcks
  \/ ReactorHarvests \/ ReactorDispatches
  \/ \E r \in Receivers : RecvCall(r) \/ RecvStep(r)
  \/ \E s \in Senders : SendCall(s) \/ SendStep(s)
  \/ \E t \in Tasks : Cancel(t)

Spec == Init /\ [][Next]_vars

\* The runtime runs the reactor and every task that is in a call.
FairSpec ==
  /\ Spec
  /\ WF_vars(ReactorHarvests)
  /\ WF_vars(ReactorDispatches)
  /\ \A r \in Receivers : WF_vars(RecvStep(r))
  /\ \A s \in Senders : WF_vars(SendStep(s))

-----------------------------------------------------------------------------
(* Properties.                                                             *)

\* No wakeup of a receive or a send is lost, with any number of tasks on the
\* one registration and records moved away by peeloff.
NoLostWakeup ==
  \A t \in Tasks :
    waiting[t] # {} =>
      /\ t \in Receivers /\ queue # <<>> => edge \/ event \cap ReadInterest # {}
      /\ t \in Senders /\ room > 0 => edge \/ event \cap WriteInterest # {}

PiecesOf(a, s) == Only(s, {p \in Piece : p.assoc = a})

\* Nothing an association's peer sent is lost, duplicated or reordered, also
\* when the association changes sockets on the way.
Conservation ==
  \A a \in Assocs :
    PiecesOf(a, FlattenSeq(delivered) \o buf \o DataOf(queue))
      \o FlattenSeq(peeled[a].delivered) \o peeled[a].buf \o DataOf(peeled[a].queue)
    = sent[a]

\* A receive returns the whole of the message it names, at the end of its
\* payload; what may be in front of it are the pieces of messages that were
\* cut by a loss or whose association was peeled off.
EndsInWholeMessage ==
  \A i \in 1 .. Len(delivered) :
    LET p == delivered[i]
        z == p[Len(p)]
    IN \E n \in 0 .. Len(p) - 1 :
         /\ Whole(SubSeq(p, n + 1, Len(p)))
         /\ \A j \in 1 .. n :
              /\ <<p[j].assoc, p[j].msg>> # <<z.assoc, z.msg>>
              /\ \/ <<p[j].assoc, p[j].msg>> \in cut
                 \/ assoc[p[j].assoc] \in {"peeled", "leaked"}

\* "Receive the next *complete* message from any association": what a receive
\* returns is one whole message, nothing less and nothing more.
WholeMessages == \A i \in 1 .. Len(delivered) : Whole(delivered[i])

\* A receive that is waiting gets what is queued, or another one did.
RecvProgress ==
  \A r \in Receivers : (pc[r] # "idle" /\ queue # <<>>) ~> (pc[r] = "idle" \/ queue = <<>>)

=============================================================================

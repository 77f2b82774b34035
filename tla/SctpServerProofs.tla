------------------------- MODULE SctpServerProofs -------------------------
(***************************************************************************)
(* Theorems about SctpServer for every set of associations and tasks and   *)
(* every number and length of messages: the types, the wakeups, what comes *)
(* of the pieces each peer sent, and what a receive returns.               *)
(***************************************************************************)
EXTENDS SctpServer, ReassemblyProofs

-----------------------------------------------------------------------------
(* The invariants.                                                         *)

\* The socket of the association is not the server's any more.
Left(a) == assoc[a] \in {"peeled", "leaked"}

\* Whatever a task waits for is cached, harvested or signalled.
Reason(t) == IF t \in Receivers THEN queue # <<>> ELSE room > 0

Signalled ==
  \A t \in Tasks : Reason(t) => edge \/ (event \cup ready) \cap Interest(t) # {}

\* A task about to clear the readiness of its own tick has seen nothing, and
\* what came since is signalled or harvested.
ClearIsSafe ==
  \A t \in Tasks :
    pc[t] = "clear" /\ fresh[t] /\ Reason(t) => edge \/ event \cap Interest(t) # {}

\* A parked task waits for its interest, and none of it is cached.
ParkedUnready ==
  \A t \in Tasks :
    waiting[t] # {} => /\ pc[t] = "wait"
                       /\ waiting[t] = Interest(t)
                       /\ ready \cap Interest(t) = {}

WakeupInv == TypeOK /\ Signalled /\ ClearIsSafe /\ ParkedUnready

\* Everything that goes or went through the server's socket, in order.
Stream == FlattenSeq(delivered) \o buf \o DataOf(queue)

\* An association that did not leave has nothing on a socket of its own.
PeeledIsNew == \A a \in Assocs : ~Left(a) => peeled[a] = NewReassembly

ConservationInv == TypeOK /\ PeeledIsNew /\ Conservation

\* The messages of an association in a set C of those that were cut.
CutOf(C, a) == {c[2] : c \in {d \in C : d[1] = a}}

\* The pieces whose message does not go on in the stream.
Gone ==
  {p \in Piece :
    <<p.assoc, p.msg>> \in cut \/ (p.assoc \in Assocs /\ Left(p.assoc))}

\* Each peer sends its messages in order, from the time its association is up.
SentInOrder ==
  \A a \in Assocs :
    /\ Ordered(sent[a], a, CutOf(cut, a))
    /\ assoc[a] = "none" => sent[a] = <<>>

\* A data record on the server's socket is flagged as it should be and carries
\* a piece that was sent on an association that is still the server's.
Queueable ==
  {c \in Flagged :
    IsData(c) => /\ c.piece.assoc \in Assocs
                 /\ ~Left(c.piece.assoc)
                 /\ \E k \in 1 .. Len(sent[c.piece.assoc]) : sent[c.piece.assoc][k] = c.piece}

QueueIsGood == queue \in Seq(Queueable)

\* Only one association at a time is in partial delivery, and the stream ends
\* with its last piece.
OpenIsAtTip ==
  \A a \in Assocs : OnSocket(a) /\ Open(a) => Stream # <<>> /\ Tip(Stream) = Tip(sent[a])

TipIsOpen ==
  ~Startable(Stream, Gone) =>
    \E a \in Assocs : OnSocket(a) /\ Open(a) /\ Tip(Stream).assoc = a /\ Tip(sent[a]) = Tip(Stream)

\* Every message returned is whole, behind pieces that are gone and not its own.
IntactMessage(p, G) ==
  \E n \in 0 .. Len(p) - 1 :
    /\ Whole(SubSeq(p, n + 1, Len(p)))
    /\ \A j \in 1 .. n :
         p[j] \in G /\ <<p[j].assoc, p[j].msg>> # <<p[Len(p)].assoc, p[Len(p)].msg>>

DeliveredIntact == \A i \in 1 .. Len(delivered) : IntactMessage(delivered[i], Gone)

MessageInv ==
  /\ TypeOK
  /\ SentInOrder
  /\ QueueIsGood
  /\ Chained(Stream, Gone)
  /\ OpenIsAtTip
  /\ TipIsOpen
  /\ CutAtEnds(delivered, buf)
  /\ DeliveredIntact

-----------------------------------------------------------------------------
(* Type correctness.                                                       *)

\* A notification about an association is a record without data.
LEMMA ServerNotes ==
  ASSUME NEW a \in Assocs, NEW state \in Nat
  PROVE  ChangeNote(state, a) \in Chunk /\ ~IsData(ChangeNote(state, a))
  BY NoteType, ServerAssumption DEF ChangeNote, SCTP_ASSOC_CHANGE, SCTP_SN_TYPE_BASE,
       AssocChangeSize

\* The states of an association that are queued as notifications.
LEMMA NoteStates == SCTP_COMM_UP \in Nat /\ SCTP_COMM_LOST \in Nat /\ SCTP_SHUTDOWN_COMP \in Nat
  BY DEF SCTP_COMM_UP, SCTP_COMM_LOST, SCTP_SHUTDOWN_COMP

\* What a peer sends next is a piece of its association.
LEMMA NextPieceType ==
  ASSUME TypeOK, NEW a \in Assocs, NEW last \in BOOLEAN
  PROVE  NextPiece(a, last) \in Piece /\ NextPiece(a, last).assoc = a
  <1> DEFINE s == sent[a]
             p == s[Len(s)]
  <1>1. s \in Seq(Piece) /\ a \in Nat
    BY ServerAssumption DEF TypeOK
  <1>2. CASE s # <<>>
    <2>1. p \in Piece
      BY <1>1, <1>2
    <2>2. p.msg \in Nat /\ p.part \in Nat
      BY <2>1 DEF Piece
    <2> DEFINE m == p.msg
               k == p.part
    <2>3. NextPiece(a, last) = IF Open(a)
            THEN [assoc |-> a, msg |-> m, part |-> k + 1, last |-> last]
            ELSE [assoc |-> a, msg |-> m + 1, part |-> 1, last |-> last]
      BY <1>2 DEF NextPiece
    <2>4. m \in Nat /\ k \in Nat
      BY <2>2
    <2> HIDE DEF m, k
    <2> QED
      BY <1>1, <2>3, <2>4 DEF Piece
  <1>3. CASE s = <<>>
    BY <1>1, <1>3 DEF NextPiece, Piece, Open
  <1> QED
    BY <1>2, <1>3

\* A send is to an association.
LEMMA SendTo ==
  ASSUME TypeOK, NEW s \in Tasks, op[s].kind \in {"data", "abort", "eof"}
  PROVE  op[s].to \in Assocs
  <1>1. op[s] \in RecvOps \cup SendOps \cup {NoOp}
    BY DEF TypeOK
  <1>2. op[s] \notin RecvOps /\ op[s] # NoOp
    BY DEF RecvOps, NoOp
  <1>3. op[s] \in SendOps
    BY <1>1, <1>2
  <1> QED
    BY <1>3 DEF SendOps

\* A loss keeps the types of what it changes.
LEMMA LoseTypes ==
  ASSUME TypeOK, NEW a \in Assocs, Lose(a)
  PROVE  /\ assoc' \in [Assocs -> AssocStates]
         /\ queue' \in Seq(Chunk)
         /\ cut' \in SUBSET (Assocs \X Nat)
         /\ FdTypeOK'
         /\ room' = room /\ sent' = sent
  <1>1. queue' \in Seq(Chunk)
    BY ServerNotes, NoteStates, AppendType DEF Lose, TypeOK
  <1>2. cut' \in SUBSET (Assocs \X Nat)
    <2>1. CASE Open(a)
      <3>1. sent[a] \in Seq(Piece) /\ sent[a] # <<>>
        BY <2>1 DEF TypeOK, Open
      <3>2. sent[a][Len(sent[a])] \in Piece
        BY <3>1
      <3>3. sent[a][Len(sent[a])].msg \in Nat
        BY <3>2 DEF Piece
      <3> QED
        BY <2>1, <3>3 DEF Lose, TypeOK
    <2>2. CASE ~Open(a)
      BY <2>2 DEF Lose, TypeOK
    <2> QED
      BY <2>1, <2>2
  <1>3. assoc' \in [Assocs -> AssocStates]
    BY DEF Lose, TypeOK, AssocStates
  <1>4. FdTypeOK' /\ room' = room /\ sent' = sent
    BY DEF Lose, Signal, TypeOK, FdTypeOK
  <1> QED
    BY <1>1, <1>2, <1>3, <1>4

\* The record of a peeled-off association.
Reassembling == [queue : Seq(Chunk), buf : Seq(Piece), delivered : Seq(Seq(Piece))]

\* Steps of the associations keep the types.
LEMMA AssocTypes ==
  ASSUME TypeOK, NEW a \in Assocs, AssocStep(a)
  PROVE  TypeOK'
  <1>1. CASE AssocUp(a)
    <2>1. queue' \in Seq(Chunk)
      BY <1>1, ServerNotes, NoteStates, AppendType DEF AssocUp, TypeOK
    <2> QED
      BY <1>1, <2>1 DEF AssocUp, Signal, TypeOK, FdTypeOK, AssocStates, crateVars
  <1>2. CASE AssocLost(a)
    BY <1>2, LoseTypes DEF AssocLost, TypeOK, crateVars
  <1>3. CASE AssocCloses(a)
    <2>1. queue' \in Seq(Chunk)
      BY <1>3, ServerNotes, NoteStates, AppendType DEF AssocCloses, TypeOK
    <2> QED
      BY <1>3, <2>1 DEF AssocCloses, Signal, TypeOK, FdTypeOK, AssocStates, crateVars
  <1>4. ASSUME NEW last \in BOOLEAN, PeerData(a, last)
        PROVE  TypeOK'
    <2> DEFINE p == NextPiece(a, last)
    <2>1. p \in Piece /\ Data(p) \in Chunk
      BY NextPieceType, DataType
    <2>2. /\ sent' = [sent EXCEPT ![a] = Append(@, p)]
          /\ \/ queue' = Append(queue, Data(p)) /\ Signal /\ UNCHANGED peeled
             \/ /\ peeled' = [peeled EXCEPT ![a].queue = Append(@, Data(p))]
                /\ UNCHANGED <<queue, fdVars>>
          /\ UNCHANGED <<assoc, room, cut, buf, pc, op, delivered>>
      BY <1>4 DEF PeerData
    <2> HIDE DEF p
    <2>3. sent' \in [Assocs -> Seq(Piece)]
      BY <2>1, <2>2, AppendType DEF TypeOK
    <2>4. queue' \in Seq(Chunk) /\ FdTypeOK'
      <3>1. queue' \in Seq(Chunk)
        <4>1. queue \in Seq(Chunk)
          BY DEF TypeOK
        <4>2. Append(queue, Data(p)) \in Seq(Chunk)
          BY <2>1, <4>1, AppendType
        <4>3. queue' = queue \/ queue' = Append(queue, Data(p))
          BY <2>2
        <4> QED
          BY <4>1, <4>2, <4>3
      <3>2. FdTypeOK'
        BY <2>2 DEF TypeOK, Signal, fdVars, FdTypeOK
      <3> QED
        BY <3>1, <3>2
    <2>5. peeled' \in [Assocs -> Reassembling]
      <3>1. peeled \in [Assocs -> Reassembling]
        BY DEF TypeOK, Reassembling
      <3>2. peeled[a] \in Reassembling /\ peeled[a].queue \in Seq(Chunk)
        BY <3>1 DEF Reassembling
      <3>3. [peeled[a] EXCEPT !.queue = Append(@, Data(p))] \in Reassembling
        BY <2>1, <3>2, AppendType DEF Reassembling
      <3> HIDE DEF Reassembling
      <3> QED
        BY <2>2, <3>1, <3>3
    <2> QED
      BY <2>2, <2>3, <2>4, <2>5 DEF TypeOK, Reassembling
  <1>5. CASE PeelOff(a)
    <2> DEFINE S == {c \in Chunk : RecordOf(c) # a}
               L == {c \in Chunk : RecordOf(c) = a}
    <2>1. queue \in Seq(Chunk)
      BY DEF TypeOK
    <2>2. Only(queue, S) \in Seq(Chunk \cap S) /\ Only(queue, L) \in Seq(Chunk \cap L)
      BY <2>1, OnlyType
    <2>3. Only(queue, S) \in Seq(Chunk) /\ Only(queue, L) \in Seq(Chunk)
      <3> HIDE DEF S, L
      <3> QED
        BY <2>2
    <2>4. /\ queue' = Only(queue, S)
          /\ peeled' = [peeled EXCEPT ![a].queue = Only(queue, L)]
          /\ assoc' \in {[assoc EXCEPT ![a] = "peeled"], [assoc EXCEPT ![a] = "leaked"]}
          /\ UNCHANGED <<fdVars, room, sent, cut, buf, pc, op, delivered>>
      BY <1>5 DEF PeelOff, Staying
    <2> HIDE DEF S, L
    <2>5. peeled' \in [Assocs -> Reassembling]
      <3>1. peeled \in [Assocs -> Reassembling]
        BY DEF TypeOK, Reassembling
      <3>2. [peeled[a] EXCEPT !.queue = Only(queue, L)] \in Reassembling
        BY <2>3, <3>1 DEF Reassembling
      <3> HIDE DEF Reassembling
      <3> QED
        BY <2>4, <3>1, <3>2
    <2>6. assoc' \in [Assocs -> AssocStates]
      BY <2>4 DEF TypeOK, AssocStates
    <2>7. FdTypeOK'
      BY <2>4 DEF TypeOK, FdTypeOK, fdVars
    <2> QED
      BY <2>3, <2>4, <2>5, <2>6, <2>7 DEF TypeOK, Reassembling
  <1>6. CASE PeeledRecv(a)
    <2> DEFINE c == Head(peeled[a].queue)
               s == PushChunk(peeled[a].buf, c)
               d == peeled[a].delivered
               dd == IF s.step = "Complete" THEN Append(d, Payload(peeled[a].buf, c)) ELSE d
               new == [queue |-> Tail(peeled[a].queue), buf |-> s.buf, delivered |-> dd]
    <2>1. peeled \in [Assocs -> Reassembling]
      BY DEF TypeOK, Reassembling
    <2>2. peeled[a].queue \in Seq(Chunk) /\ peeled[a].buf \in Seq(Piece) /\ d \in Seq(Seq(Piece))
      BY <2>1 DEF Reassembling
    <2>3. peeled[a].queue # <<>> /\ peeled' = [peeled EXCEPT ![a] = new]
          /\ UNCHANGED <<fdVars, kernelVars, buf, pc, op, delivered>>
      BY <1>6 DEF PeeledRecv
    <2>4. c \in Chunk /\ Tail(peeled[a].queue) \in Seq(Chunk)
      BY <2>2, <2>3
    <2>5. s.buf \in Seq(Piece) /\ (s.step = "Complete" => Payload(peeled[a].buf, c) \in Seq(Piece))
      BY <2>2, <2>4, PushChunkType
    <2>6. dd \in Seq(Seq(Piece))
      <3> DEFINE X == Seq(Piece)
                 y == Payload(peeled[a].buf, c)
      <3>1. d \in Seq(X) /\ (s.step = "Complete" => y \in X)
        BY <2>2, <2>5
      <3> HIDE DEF X, y, d
      <3>2. s.step = "Complete" => Append(d, y) \in Seq(X)
        BY <3>1, AppendType
      <3> QED
        BY <3>1, <3>2 DEF X, y
    <2>7. new \in Reassembling
      <3> HIDE DEF s, dd
      <3> QED
        BY <2>4, <2>5, <2>6 DEF Reassembling
    <2> HIDE DEF new
    <2>8. peeled' \in [Assocs -> Reassembling]
      BY <2>1, <2>3, <2>7
    <2>9. FdTypeOK'
      BY <2>3 DEF TypeOK, FdTypeOK, fdVars
    <2> QED
      BY <2>3, <2>8, <2>9 DEF TypeOK, Reassembling, kernelVars
  <1> QED
    BY <1>1, <1>2, <1>3, <1>4, <1>5, <1>6 DEF AssocStep

\* A task waits for kinds of readiness that exist.
LEMMA InterestType == \A t \in Tasks : Interest(t) \subseteq Readiness
  BY DEF Interest, ReadInterest, WriteInterest, Readiness

\* Steps in which a task deals with its registration keep the types.
LEMMA WaitingTypes ==
  ASSUME TypeOK, NEW t \in Tasks,
         \/ \E o \in RecvOps \cup SendOps : Call(t, o)
         \/ Cancel(t)
         \/ Poll(t)
  PROVE  TypeOK'
  <1>1. UNCHANGED others
    BY DEF Call, Cancel, Poll
  <1>2. op' \in [Tasks -> RecvOps \cup SendOps \cup {NoOp}]
    BY DEF Call, Cancel, Poll, TypeOK
  <1>3. pc' \in [Tasks -> LoopPcs]
    BY DEF Call, Cancel, Poll, Enter, DropCall, LoopStep, PollReady, PollPending, PollWoken,
         ClearAndLoop, Jump, TypeOK, LoopPcs
  <1>4. FdTypeOK'
    <2>1. Interest(t) \subseteq Readiness
      BY InterestType
    <2> QED
      BY <2>1 DEF Call, Cancel, Poll, Enter, DropCall, LoopStep, PollReady, PollPending,
           PollWoken, ClearAndLoop, TakeGuard, Park, WakeUp, ClearReady, Unpark, fdVars, TypeOK,
           FdTypeOK
  <1> QED
    BY <1>1, <1>2, <1>3, <1>4 DEF TypeOK, others, kernelVars

\* The send buffer holds a number of messages.
LEMMA RoomIs == SndBuf \in Nat
  BY ServerAssumption

\* So do the system calls of a task.
LEMMA TaskTypes ==
  ASSUME TypeOK, NEW t \in Tasks,
         \/ RecvChunk(t) \/ RecvWouldBlock(t)
         \/ SendFails(t) \/ SendTaken(t) \/ SendWouldBlock(t) \/ SendAbort(t) \/ SendEof(t)
  PROVE  TypeOK'
  <1>1. op' \in [Tasks -> RecvOps \cup SendOps \cup {NoOp}] /\ pc' \in [Tasks -> LoopPcs]
    BY DEF RecvChunk, RecvWouldBlock, SendFails, SendTaken, SendWouldBlock, SendAbort, SendEof,
         Goto, Return, Jump, TypeOK, LoopPcs
  <1>2. CASE SendAbort(t)
    <2>1. op[t].to \in Assocs
      BY <1>2, SendTo DEF SendAbort
    <2> QED
      BY <1>1, <1>2, <2>1, LoseTypes DEF SendAbort, TypeOK
  <1>3. FdTypeOK' \/ SendAbort(t)
    BY DEF RecvChunk, AfterRead, RecvWouldBlock, SendFails, SendTaken, SendWouldBlock, SendEof,
         DropGuard, fdVars, TypeOK, FdTypeOK
  <1>4. CASE RecvWouldBlock(t) \/ SendFails(t) \/ SendWouldBlock(t)
    <2>1. UNCHANGED others /\ ~SendAbort(t)
      BY <1>4 DEF RecvWouldBlock, SendFails, SendWouldBlock, SendAbort, Lose, others, kernelVars,
           OnSocket
    <2> QED
      BY <1>1, <1>3, <2>1 DEF TypeOK, others, kernelVars
  <1>5. CASE SendTaken(t)
    <2>1. FdTypeOK'
      BY <1>5 DEF SendTaken, DropGuard, TypeOK, FdTypeOK
    <2>2. room' \in 0 .. SndBuf
      BY <1>5, RoomIs DEF TypeOK, SendTaken
    <2> QED
      BY <1>1, <1>5, <2>1, <2>2 DEF TypeOK, SendTaken
  <1>6. CASE SendEof(t)
    <2>1. FdTypeOK'
      BY <1>6 DEF SendEof, DropGuard, TypeOK, FdTypeOK
    <2> QED
      BY <1>1, <1>6, <2>1 DEF TypeOK, SendEof, AssocStates
  <1>7. CASE RecvChunk(t)
    <2> DEFINE c == Head(queue)
               s == PushChunk(buf, c)
    <2>1. queue # <<>> /\ queue \in Seq(Chunk) /\ buf \in Seq(Piece) /\ delivered \in Seq(Seq(Piece))
      BY <1>7 DEF RecvChunk, TypeOK
    <2>2. c \in Chunk /\ Tail(queue) \in Seq(Chunk)
      BY <2>1
    <2>3. s.buf \in Seq(Piece) /\ (s.step = "Complete" => Payload(buf, c) \in Seq(Piece))
      BY <2>1, <2>2, PushChunkType
    <2>4. /\ buf' = s.buf /\ queue' = Tail(queue)
          /\ delivered' = IF s.step = "Complete" THEN Append(delivered, Payload(buf, c))
                                                  ELSE delivered
          /\ UNCHANGED <<assoc, room, sent, cut, peeled>>
      BY <1>7 DEF RecvChunk
    <2>5. delivered' \in Seq(Seq(Piece))
      <3> DEFINE X == Seq(Piece)
                 y == Payload(buf, c)
      <3>1. delivered \in Seq(X) /\ (s.step = "Complete" => y \in X)
        BY <2>1, <2>3
      <3> HIDE DEF X, y
      <3>2. s.step = "Complete" => Append(delivered, y) \in Seq(X)
        BY <3>1, AppendType
      <3> QED
        BY <2>4, <3>1, <3>2 DEF X, y
    <2>6. FdTypeOK'
      BY <1>7 DEF RecvChunk, AfterRead, DropGuard, TypeOK, FdTypeOK
    <2> HIDE DEF s
    <2> QED
      BY <1>1, <2>2, <2>3, <2>4, <2>5, <2>6 DEF TypeOK
  <1> QED
    BY <1>2, <1>4, <1>5, <1>6, <1>7

\* The types hold of a socket that was just bound.
LEMMA TypeInit == Init => TypeOK
  <1> SUFFICES ASSUME Init PROVE TypeOK
    OBVIOUS
  <1>1. NewReassembly \in Reassembling
    BY DEF NewReassembly, Reassembling
  <1>2. peeled \in [Assocs -> Reassembling]
    <2> HIDE DEF Reassembling
    <2> QED
      BY <1>1 DEF Init
  <1> QED
    BY <1>2, ServerAssumption DEF Init, TypeOK, FdInit, FdTypeOK, AssocStates, LoopPcs, Reassembling

\* Every step keeps the types.
LEMMA TypeNext == TypeOK /\ [Next]_vars => TypeOK'
  <1> SUFFICES ASSUME TypeOK, [Next]_vars PROVE TypeOK'
    OBVIOUS
  <1>1. CASE PeerAcks
    <2>1. room' \in 0 .. SndBuf
      BY <1>1, RoomIs DEF TypeOK, PeerAcks
    <2>2. FdTypeOK'
      BY <1>1 DEF PeerAcks, Signal, TypeOK, FdTypeOK
    <2> QED
      BY <1>1, <2>1, <2>2 DEF PeerAcks, TypeOK, crateVars
  <1>2. CASE ReactorHarvests \/ ReactorDispatches
    <2>1. FromEpoll(PollEvents) \subseteq Readiness
      BY DEF FromEpoll
    <2>2. FdTypeOK'
      BY <1>2, <2>1 DEF ReactorHarvests, ReactorDispatches, Harvest, Dispatch, TypeOK, FdTypeOK
    <2> QED
      BY <1>2, <2>2 DEF ReactorHarvests, ReactorDispatches, TypeOK, kernelVars, crateVars
  <1>3. CASE UNCHANGED vars
    BY <1>3 DEF vars, fdVars, kernelVars, crateVars, TypeOK, FdTypeOK
  <1>4. Receivers \subseteq Tasks /\ Senders \subseteq Tasks
    BY ServerAssumption
  <1>5. ASSUME NEW r \in Receivers, RecvCall(r) \/ RecvStep(r)
        PROVE  TypeOK'
    BY <1>4, <1>5, WaitingTypes, TaskTypes DEF RecvCall, RecvStep
  <1>6. ASSUME NEW s \in Senders, SendCall(s) \/ SendStep(s)
        PROVE  TypeOK'
    BY <1>4, <1>6, WaitingTypes, TaskTypes DEF SendCall, SendStep
  <1>7. ASSUME NEW t \in Tasks, Cancel(t)
        PROVE  TypeOK'
    BY <1>7, WaitingTypes
  <1> QED
    BY <1>1, <1>2, <1>3, <1>5, <1>6, <1>7, AssocTypes DEF Next

\* Every reachable state of the server, its socket and the associations peeled
\* off it is well typed; a send always names an association.
THEOREM ServerTyped == Spec => []TypeOK
  BY TypeInit, TypeNext, PTL DEF Spec

-----------------------------------------------------------------------------
(* No wakeup is lost.                                                      *)

Wakeup == Signalled /\ ClearIsSafe /\ ParkedUnready

\* Tasks of different kinds wait for different readiness.
LEMMA Interests ==
  ASSUME NEW t \in Tasks, NEW u \in Tasks
  PROVE  \/ Interest(t) = Interest(u) /\ (Reason(t) <=> Reason(u))
         \/ Interest(t) \cap Interest(u) = {}
  BY ServerAssumption DEF Interest, Reason, ReadInterest, WriteInterest

\* A step that signals the socket cannot lose a wakeup.
LEMMA SignalKeepsWakeup ==
  ASSUME WakeupInv, Signal,
         \A u \in Tasks : pc'[u] = pc[u] \/ (pc[u] = "step" /\ pc'[u] = "idle")
  PROVE  Wakeup'
  BY DEF WakeupInv, Wakeup, Signalled, ClearIsSafe, ParkedUnready, Signal, Interest

\* Nor can a step that gives nobody a new reason to run, leaves what is
\* signalled alone, and brings no task to a clear unless it has seen that there
\* is nothing.
LEMMA QuietKeepsWakeup ==
  ASSUME WakeupInv, NEW t,
         UNCHANGED <<edge, event, ready>>,
         \A u \in Tasks : Reason(u)' => Reason(u),
         \A u \in Tasks \ {t} :
           pc'[u] = pc[u] /\ fresh'[u] = fresh[u] /\ waiting'[u] = waiting[u],
         t \in Tasks =>
           /\ pc'[t] # "clear" \/ ~Reason(t)'
           /\ \/ waiting'[t] = {}
              \/ pc'[t] = "wait" /\ waiting'[t] = Interest(t) /\ ready \cap Interest(t) = {}
  PROVE  Wakeup'
  <1>1. Signalled'
    BY DEF WakeupInv, Signalled, Interest
  <1>2. ClearIsSafe'
    BY DEF WakeupInv, ClearIsSafe, Interest
  <1>3. ParkedUnready'
    BY DEF WakeupInv, ParkedUnready, Interest
  <1> QED
    BY <1>1, <1>2, <1>3 DEF Wakeup

\* What epoll reports covers every reason to run, and the reactor loses none
\* of it.
LEMMA ReactorKeepsWakeup ==
  ASSUME WakeupInv, ReactorHarvests \/ ReactorDispatches
  PROVE  Wakeup'
  <1> /\ \A u \in Tasks : Reason(u)' <=> Reason(u)
      /\ UNCHANGED pc
    BY DEF ReactorHarvests, ReactorDispatches, Reason, kernelVars, crateVars
  <1>1. CASE ReactorHarvests
    <2>1. event' = FromEpoll(PollEvents) /\ UNCHANGED <<ready, fresh, waiting>>
      BY <1>1 DEF ReactorHarvests, Harvest
    <2>2. ASSUME NEW u \in Tasks, Reason(u)
          PROVE  event' \cap Interest(u) # {}
      <3>1. CASE u \in Receivers
        <4>1. "IN" \in PollEvents
          BY <2>2, <3>1 DEF Reason, PollEvents, EpollEvents
        <4>2. "READABLE" \in event'
          BY <2>1, <4>1 DEF FromEpoll, Readiness
        <4> QED
          BY <3>1, <4>2 DEF Interest, ReadInterest
      <3>2. CASE u \notin Receivers
        <4>1. "OUT" \in PollEvents
          BY <2>2, <3>2 DEF Reason, PollEvents, EpollEvents
        <4>2. "WRITABLE" \in event'
          BY <2>1, <4>1 DEF FromEpoll, Readiness
        <4> QED
          BY <3>2, <4>2 DEF Interest, WriteInterest
      <3> QED
        BY <3>1, <3>2
    <2> QED
      BY <2>1, <2>2 DEF WakeupInv, Wakeup, Signalled, ClearIsSafe, ParkedUnready, Interest
  <1>2. CASE ReactorDispatches
    <2>1. /\ ready' = ready \cup event /\ event' = {} /\ UNCHANGED edge
          /\ \A u \in Tasks : fresh'[u] = FALSE
          /\ \A u \in Tasks :
               waiting'[u] = IF waiting[u] \cap event # {} THEN {} ELSE waiting[u]
      BY <1>2 DEF ReactorDispatches, Dispatch
    <2>2. Signalled'
      BY <2>1 DEF WakeupInv, Signalled, Interest
    <2>3. ClearIsSafe'
      BY <2>1 DEF ClearIsSafe
    <2>4. ParkedUnready'
      BY <2>1 DEF WakeupInv, ParkedUnready, Interest
    <2> QED
      BY <2>2, <2>3, <2>4 DEF Wakeup
  <1> QED
    BY <1>1, <1>2

\* clear_ready() removes readiness of the tick the task saw.
LEMMA ClearKeepsWakeup ==
  ASSUME WakeupInv, NEW t \in Tasks, ClearAndLoop(t, Interest(t)), UNCHANGED others
  PROVE  Wakeup'
  <1>1. /\ pc[t] = "clear" /\ pc' = [pc EXCEPT ![t] = "poll"]
        /\ ready' = IF fresh[t] THEN ready \ (Interest(t) \ {"READ_CLOSED", "WRITE_CLOSED"})
                                ELSE ready
        /\ fresh' = [fresh EXCEPT ![t] = FALSE]
        /\ UNCHANGED <<edge, event, waiting>>
    BY DEF ClearAndLoop, ClearReady, Jump
  <1>2. \A u \in Tasks : Reason(u)' <=> Reason(u)
    BY DEF Reason, kernelVars, others
  <1>3. Signalled'
    <2> SUFFICES ASSUME NEW u \in Tasks, Reason(u)
                 PROVE  edge \/ (event \cup ready') \cap Interest(u) # {}
      BY <1>1, <1>2 DEF Signalled, Interest
    <2>1. edge \/ (event \cup ready) \cap Interest(u) # {}
      BY DEF WakeupInv, Signalled
    <2>2. CASE ~fresh[t] \/ Interest(t) \cap Interest(u) = {}
      BY <1>1, <2>1, <2>2
    <2>3. CASE fresh[t] /\ Interest(t) = Interest(u) /\ (Reason(t) <=> Reason(u))
      BY <1>1, <2>3 DEF WakeupInv, ClearIsSafe
    <2> QED
      BY <2>2, <2>3, Interests
  <1>4. ClearIsSafe'
    BY <1>1, <1>2 DEF WakeupInv, TypeOK, FdTypeOK, ClearIsSafe, Interest
  <1>5. ParkedUnready'
    BY <1>1 DEF WakeupInv, TypeOK, ParkedUnready, Interest
  <1> QED
    BY <1>3, <1>4, <1>5 DEF Wakeup

\* Calls and waits of a task.
LEMMA WaitingKeepsWakeup ==
  ASSUME WakeupInv, NEW t \in Tasks,
         \/ \E o \in RecvOps \cup SendOps : Call(t, o)
         \/ Cancel(t)
         \/ Poll(t)
  PROVE  Wakeup'
  <1>1. UNCHANGED others
    BY DEF Call, Cancel, Poll
  <1>2. \A u \in Tasks : Reason(u)' => Reason(u)
    BY <1>1 DEF Reason, others, kernelVars
  <1>3. pc \in [Tasks -> LoopPcs] /\ FdTypeOK
    BY DEF WakeupInv, TypeOK
  <1>4. CASE \E o \in RecvOps \cup SendOps : Call(t, o)
    <2>1. pc[t] = "idle" /\ pc' = [pc EXCEPT ![t] = "poll"] /\ UNCHANGED fdVars
      BY <1>4 DEF Call, Enter, Jump
    <2>2. waiting[t] = {}
      BY <2>1 DEF WakeupInv, ParkedUnready
    <2> QED
      BY <1>2, <1>3, <2>1, <2>2, QuietKeepsWakeup DEF fdVars
  <1>5. CASE Cancel(t)
    <2>1. pc' = [pc EXCEPT ![t] = "idle"] /\ Unpark(t)
      BY <1>5 DEF Cancel, DropCall, Jump
    <2> QED
      BY <1>2, <1>3, <2>1, QuietKeepsWakeup DEF Unpark, FdTypeOK
  <1>6. CASE PollReady(t, Interest(t)) \/ PollWoken(t)
    <2>1. pc' = [pc EXCEPT ![t] = "step"] /\ UNCHANGED <<edge, event, ready, waiting>>
          /\ fresh' = [fresh EXCEPT ![t] = TRUE]
      BY <1>6 DEF PollReady, PollWoken, TakeGuard, WakeUp, Jump
    <2>2. waiting[t] = {}
      BY <1>6 DEF PollReady, PollWoken, WakeUp, WakeupInv, ParkedUnready
    <2> QED
      BY <1>2, <1>3, <2>1, <2>2, QuietKeepsWakeup DEF FdTypeOK
  <1>7. CASE PollPending(t, Interest(t))
    <2>1. pc' = [pc EXCEPT ![t] = "wait"] /\ Park(t, Interest(t))
      BY <1>7 DEF PollPending, Jump
    <2> QED
      BY <1>2, <1>3, <2>1, QuietKeepsWakeup DEF Park, FdTypeOK
  <1> QED
    BY <1>1, <1>4, <1>5, <1>6, <1>7, ClearKeepsWakeup DEF Poll, LoopStep

\* The system calls of a task.
LEMMA TaskKeepsWakeup ==
  ASSUME WakeupInv, NEW t \in Tasks,
         \/ t \in Receivers /\ (RecvChunk(t) \/ RecvWouldBlock(t))
         \/ t \in Senders /\ (SendFails(t) \/ SendTaken(t) \/ SendWouldBlock(t) \/ SendEof(t))
  PROVE  Wakeup'
  <1>1. pc \in [Tasks -> LoopPcs] /\ FdTypeOK /\ room \in 0 .. SndBuf /\ SndBuf \in Nat
    BY ServerAssumption DEF WakeupInv, TypeOK
  <1>2. pc[t] = "step"
    BY DEF RecvChunk, RecvWouldBlock, SendFails, SendTaken, SendWouldBlock, SendEof
  <1>3. waiting[t] = {}
    BY <1>2 DEF WakeupInv, ParkedUnready
  <1>4. \A u \in Tasks : Reason(u)' => Reason(u)
    BY <1>1 DEF RecvChunk, RecvWouldBlock, SendFails, SendTaken, SendWouldBlock, SendEof, Reason,
         others, kernelVars
  <1>5. /\ UNCHANGED <<edge, event, ready, waiting>>
        /\ \A u \in Tasks \ {t} : pc'[u] = pc[u] /\ fresh'[u] = fresh[u]
    BY <1>1 DEF RecvChunk, RecvWouldBlock, SendFails, SendTaken, SendWouldBlock, SendEof, Goto,
         Return, Jump, AfterRead, DropGuard, fdVars, FdTypeOK
  <1>6. pc'[t] # "clear" \/ ~Reason(t)'
    <2>1. CASE t \in Receivers /\ RecvWouldBlock(t)
      BY <2>1 DEF RecvWouldBlock, Reason, others, kernelVars
    <2>2. CASE t \in Senders /\ SendWouldBlock(t)
      <3>1. t \notin Receivers
        BY <2>2, ServerAssumption
      <3> QED
        BY <2>2, <3>1 DEF SendWouldBlock, Reason, others, kernelVars
    <2>3. CASE RecvChunk(t) \/ SendFails(t) \/ SendTaken(t) \/ SendEof(t)
      BY <1>1, <2>3 DEF RecvChunk, SendFails, SendTaken, SendEof, Goto, Return, Jump
    <2> QED
      BY <2>1, <2>2, <2>3
  <1> QED
    BY <1>3, <1>4, <1>5, <1>6, QuietKeepsWakeup

\* Steps of the associations signal the socket or only take from its queue.
LEMMA AssocKeepsWakeup ==
  ASSUME WakeupInv, NEW a \in Assocs, AssocStep(a)
  PROVE  Wakeup'
  <1>1. CASE Signal /\ UNCHANGED pc
    BY <1>1, SignalKeepsWakeup
  <1>2. CASE UNCHANGED <<fdVars, pc, room>> /\ (queue' # <<>> => queue # <<>>)
    BY <1>2 DEF fdVars, WakeupInv, Wakeup, Signalled, ClearIsSafe, ParkedUnready, Reason, Interest
  <1>3. CASE AssocUp(a) \/ AssocLost(a) \/ AssocCloses(a)
    BY <1>1, <1>3 DEF AssocUp, AssocLost, Lose, AssocCloses, crateVars
  <1>4. ASSUME NEW last \in BOOLEAN, PeerData(a, last)
        PROVE  Wakeup'
    BY <1>1, <1>2, <1>4 DEF PeerData
  <1>5. CASE PeelOff(a)
    <2>1. Only(<<>>, {c \in Chunk : RecordOf(c) # a}) = <<>>
      BY OnlyEmpty
    <2>2. queue = <<>> => queue' = <<>>
      BY <1>5, <2>1 DEF PeelOff, Staying
    <2> QED
      BY <1>2, <1>5, <2>2 DEF PeelOff
  <1>6. CASE PeeledRecv(a)
    BY <1>2, <1>6 DEF PeeledRecv, kernelVars
  <1> QED
    BY <1>3, <1>4, <1>5, <1>6 DEF AssocStep

\* The invariant of the wakeups.
LEMMA WakeupInit == Init => WakeupInv
  BY TypeInit DEF Init, FdInit, WakeupInv, Signalled, ClearIsSafe, ParkedUnready

\* Every step keeps it.
LEMMA WakeupNext == WakeupInv /\ [Next]_vars => WakeupInv'
  <1> SUFFICES ASSUME WakeupInv, [Next]_vars PROVE WakeupInv'
    OBVIOUS
  <1>1. TypeOK'
    BY TypeNext DEF WakeupInv
  <1>2. Receivers \subseteq Tasks /\ Senders \subseteq Tasks
    BY ServerAssumption
  <1>3. Wakeup'
    <2>1. CASE PeerAcks
      <3>1. Signal /\ UNCHANGED pc
        BY <2>1 DEF PeerAcks, crateVars
      <3> QED
        BY <3>1, SignalKeepsWakeup
    <2>2. ASSUME NEW s \in Tasks, SendAbort(s)
          PROVE  Wakeup'
      <3>1. Signal /\ pc[s] = "step" /\ pc' = [pc EXCEPT ![s] = "idle"]
        BY <2>2 DEF SendAbort, Lose, Return, Jump
      <3>2. pc \in [Tasks -> LoopPcs]
        BY DEF WakeupInv, TypeOK
      <3>3. \A u \in Tasks : pc'[u] = pc[u] \/ (pc[u] = "step" /\ pc'[u] = "idle")
        BY <3>1, <3>2
      <3> QED
        BY <3>1, <3>3, SignalKeepsWakeup
    <2>3. ASSUME NEW r \in Receivers, RecvCall(r) \/ RecvStep(r)
          PROVE  Wakeup'
      BY <1>2, <2>3, WaitingKeepsWakeup, TaskKeepsWakeup DEF RecvCall, RecvStep
    <2>4. ASSUME NEW s \in Senders, SendCall(s) \/ SendStep(s)
          PROVE  Wakeup'
      BY <1>2, <2>2, <2>4, WaitingKeepsWakeup, TaskKeepsWakeup DEF SendCall, SendStep
    <2>5. ASSUME NEW t \in Tasks, Cancel(t)
          PROVE  Wakeup'
      BY <2>5, WaitingKeepsWakeup
    <2>6. CASE UNCHANGED vars
      BY <2>6 DEF vars, fdVars, kernelVars, crateVars, WakeupInv, Wakeup, Signalled, ClearIsSafe,
           ParkedUnready, Reason, Interest
    <2> QED
      BY <2>1, <2>3, <2>4, <2>5, <2>6, ReactorKeepsWakeup, AssocKeepsWakeup DEF Next
  <1> QED
    BY <1>1, <1>3 DEF WakeupInv, Wakeup

\* No wakeup of a receive or a send on the server's one registration is lost,
\* whatever other tasks read, clear or drop and whatever a peeloff moves away
\* from under them.
THEOREM ServerWakeupsAreKept == Spec => []NoLostWakeup
  <1>1. WakeupInv => NoLostWakeup
    BY ServerAssumption DEF WakeupInv, NoLostWakeup, Signalled, ParkedUnready, Reason, Interest
  <1> QED
    BY <1>1, WakeupInit, WakeupNext, PTL DEF Spec

-----------------------------------------------------------------------------
(* The steps, as far as the messages are concerned.                        *)

\* Association a comes up, is being shut down or is over; notifications may be
\* queued, and the message under way is cut if the association is lost.
ChangeStep(a) ==
  /\ DataOf(queue') = DataOf(queue)
  /\ QueueIsGood => queue' \in Seq(Queueable)
  /\ UNCHANGED <<sent, buf, delivered, peeled>>
  /\ \/ assoc[a] = "none" /\ assoc' = [assoc EXCEPT ![a] = "up"] /\ cut' = cut
     \/ OnSocket(a) /\ assoc' = [assoc EXCEPT ![a] = "closing"] /\ cut' = cut
     \/ OnSocket(a) /\ ~Open(a) /\ assoc' = [assoc EXCEPT ![a] = "over"] /\ cut' = cut
     \/ /\ OnSocket(a) /\ Open(a)
        /\ assoc' = [assoc EXCEPT ![a] = "over"]
        /\ cut' = cut \cup {<<a, Tip(sent[a]).msg>>}

\* A notification that is queued adds no data.
LEMMA NoteAdds ==
  ASSUME NEW q \in Seq(Chunk), NEW c \in Chunk, ~IsData(c)
  PROVE  /\ DataOf(Append(q, c)) = DataOf(q)
         /\ q \in Seq(Queueable) => Append(q, c) \in Seq(Queueable)
  <1>1. c \in Queueable
    BY DEF Queueable, Flagged
  <1>2. DataOf(Append(q, c)) = DataOf(q)
    BY DataOfAppend
  <1> QED
    BY <1>1, <1>2, AppendType

\* A loss is such a change.
LEMMA LoseChanges ==
  ASSUME TypeOK, NEW a \in Assocs, Lose(a), UNCHANGED <<buf, delivered, peeled>>
  PROVE  ChangeStep(a)
  <1> DEFINE n == ChangeNote(SCTP_COMM_LOST, a)
  <1>1. n \in Chunk /\ ~IsData(n) /\ queue \in Seq(Chunk)
    BY ServerNotes, NoteStates DEF TypeOK
  <1>2. queue' = Append(queue, n) /\ sent' = sent
    BY DEF Lose
  <1> HIDE DEF n
  <1>3. DataOf(queue') = DataOf(queue) /\ (QueueIsGood => queue' \in Seq(Queueable))
    BY <1>1, <1>2, NoteAdds DEF QueueIsGood
  <1> QED
    BY <1>2, <1>3 DEF Lose, ChangeStep, Tip

\* A step sends or reads a piece, peels an association off, changes the state
\* of one or does nothing to the messages.
LEMMA MessageSteps ==
  ASSUME TypeOK, [Next]_vars
  PROVE  \/ \E r \in Receivers : RecvChunk(r)
         \/ \E a \in Assocs : \/ \E last \in BOOLEAN : PeerData(a, last)
                              \/ PeelOff(a) \/ PeeledRecv(a) \/ ChangeStep(a)
         \/ UNCHANGED <<assoc, queue, sent, cut, buf, delivered, peeled>>
  <1> DEFINE Same == UNCHANGED <<assoc, queue, sent, cut, buf, delivered, peeled>>
  <1>1. CASE UNCHANGED vars \/ PeerAcks \/ ReactorHarvests \/ ReactorDispatches
    BY <1>1 DEF vars, PeerAcks, ReactorHarvests, ReactorDispatches, kernelVars, crateVars
  <1>2. ASSUME NEW t \in Tasks,
               \/ \E o \in RecvOps \cup SendOps : Call(t, o)
               \/ Cancel(t) \/ Poll(t)
               \/ RecvWouldBlock(t) \/ SendFails(t) \/ SendTaken(t) \/ SendWouldBlock(t)
        PROVE  Same
    BY <1>2 DEF Call, Cancel, Poll, RecvWouldBlock, SendFails, SendTaken, SendWouldBlock, others,
         kernelVars
  <1>3. ASSUME NEW a \in Assocs, AssocUp(a) \/ AssocCloses(a)
        PROVE  ChangeStep(a)
    <2>1. PICK n : n \in {ChangeNote(SCTP_COMM_UP, a), ChangeNote(SCTP_SHUTDOWN_COMP, a)}
                   /\ queue' = Append(queue, n)
      BY <1>3 DEF AssocUp, AssocCloses
    <2>2. n \in Chunk /\ ~IsData(n) /\ queue \in Seq(Chunk)
      BY <2>1, ServerNotes, NoteStates DEF TypeOK
    <2>3. DataOf(queue') = DataOf(queue) /\ (QueueIsGood => queue' \in Seq(Queueable))
      BY <2>1, <2>2, NoteAdds DEF QueueIsGood
    <2> QED
      BY <1>3, <2>3 DEF AssocUp, AssocCloses, ChangeStep, crateVars
  <1>4. ASSUME NEW s \in Tasks, SendAbort(s)
        PROVE  \E a \in Assocs : ChangeStep(a)
    BY <1>4, SendTo, LoseChanges DEF SendAbort
  <1>5. ASSUME NEW s \in Tasks, SendEof(s)
        PROVE  \E a \in Assocs : ChangeStep(a)
    <2>1. op[s].to \in Assocs
      BY <1>5, SendTo DEF SendEof
    <2>2. ChangeStep(op[s].to)
      BY <1>5 DEF SendEof, ChangeStep, QueueIsGood
    <2> QED
      BY <2>1, <2>2
  <1>6. ASSUME NEW a \in Assocs, AssocLost(a)
        PROVE  ChangeStep(a)
    BY <1>6, LoseChanges DEF AssocLost, crateVars
  <1>7. Receivers \subseteq Tasks /\ Senders \subseteq Tasks
    BY ServerAssumption
  <1>8. CASE \E a \in Assocs : AssocStep(a)
    BY <1>3, <1>6, <1>8 DEF AssocStep
  <1>9. CASE \E r \in Receivers : RecvCall(r) \/ RecvStep(r)
    BY <1>2, <1>7, <1>9 DEF RecvCall, RecvStep
  <1>10. CASE \E s \in Senders : SendCall(s) \/ SendStep(s)
    BY <1>2, <1>4, <1>5, <1>7, <1>10 DEF SendCall, SendStep
  <1> QED
    BY <1>1, <1>2, <1>8, <1>9, <1>10 DEF Next

\* What a read of the server does.
LEMMA ReadStep ==
  ASSUME TypeOK, NEW r, RecvChunk(r)
  PROVE  LET c == Head(queue)
             s == PushChunk(buf, c)
         IN  /\ queue # <<>> /\ c \in Chunk /\ queue' = Tail(queue)
             /\ buf' = s.buf
             /\ delivered' = IF s.step = "Complete" THEN Append(delivered, Payload(buf, c))
                             ELSE delivered
             /\ UNCHANGED <<assoc, sent, cut, peeled>>
             /\ Stream' = Stream
  <1>1. queue # <<>> /\ queue \in Seq(Chunk) /\ buf \in Seq(Piece) /\ delivered \in Seq(Seq(Piece))
    BY DEF RecvChunk, TypeOK
  <1>2. Head(queue) \in Chunk
    BY <1>1
  <1> DEFINE c == Head(queue)
             s == PushChunk(buf, c)
             dd == IF s.step = "Complete" THEN Append(delivered, Payload(buf, c)) ELSE delivered
  <1>3. queue' = Tail(queue) /\ buf' = s.buf /\ delivered' = dd /\ UNCHANGED <<assoc, sent, cut, peeled>>
    BY DEF RecvChunk
  <1>4. FlattenSeq(dd) \o s.buf \o DataOf(Tail(queue)) = FlattenSeq(delivered) \o buf \o DataOf(queue)
    BY <1>1, ReadConserves
  <1>5. Stream' = Stream
    BY <1>3, <1>4 DEF Stream
  <1> QED
    BY <1>1, <1>2, <1>3, <1>5

\* What a peeloff leaves in the stream, and what it takes along.
LEMMA PeelOffData ==
  ASSUME NEW a, NEW q \in Seq(Chunk)
  PROVE  /\ DataOf(Only(q, {c \in Chunk : RecordOf(c) # a})) = Only(DataOf(q), {p \in Piece : p.assoc # a})
         /\ DataOf(Only(q, {c \in Chunk : RecordOf(c) = a})) = Only(DataOf(q), {p \in Piece : p.assoc = a})
  <1>1. \A c \in Chunk :
          IsData(c) => /\ c \in {x \in Chunk : RecordOf(x) # a} <=> c.piece \in {p \in Piece : p.assoc # a}
                       /\ c \in {x \in Chunk : RecordOf(x) = a} <=> c.piece \in {p \in Piece : p.assoc = a}
    BY PieceOfData DEF RecordOf
  <1> QED
    BY <1>1, DataOfOnly

-----------------------------------------------------------------------------
(* Conservation.                                                           *)

\* What goes or went through the socket of a peeled-off association.
Own(r) == FlattenSeq(r.delivered) \o r.buf \o DataOf(r.queue)

\* The pieces of one association in a stream are pieces.
LEMMA PiecesType ==
  ASSUME NEW st \in Seq(Piece), NEW a
  PROVE  PiecesOf(a, st) \in Seq(Piece)
  <1> DEFINE T == {p \in Piece : p.assoc = a}
             P == Only(st, T)
  <1>1. P \in Seq(Piece \cap T)
    BY OnlyType
  <1>2. PiecesOf(a, st) = P
    BY DEF PiecesOf
  <1> HIDE DEF T, P
  <1> QED
    BY <1>1, <1>2

\* What is on the association's own socket, taken as one sequence.
LEMMA OwnIs ==
  ASSUME NEW P \in Seq(Piece), NEW r \in Reassembling
  PROVE  /\ Own(r) \in Seq(Piece)
         /\ P \o FlattenSeq(r.delivered) \o r.buf \o DataOf(r.queue) = P \o Own(r)
  <1> DEFINE f == FlattenSeq(r.delivered)
             b == r.buf
             d == DataOf(r.queue)
  <1>1. r.delivered \in Seq(Seq(Piece)) /\ b \in Seq(Piece) /\ r.queue \in Seq(Chunk)
    BY DEF Reassembling
  <1>2. f \in Seq(Piece) /\ d \in Seq(Piece) /\ b \in Seq(Piece)
    BY <1>1, FlattenType, DataOfType
  <1>3. Own(r) = (f \o b) \o d
    BY DEF Own
  <1> HIDE DEF f, b, d
  <1>4. f \o b \in Seq(Piece)
    BY <1>2, ConcatType
  <1>5. (f \o b) \o d \in Seq(Piece)
    BY <1>2, <1>4, ConcatType
  <1>6. P \o ((f \o b) \o d) = ((P \o f) \o b) \o d
    <2>1. \A x \in Seq(Piece), y \in Seq(Piece), z \in Seq(Piece) : x \o (y \o z) = (x \o y) \o z
      OBVIOUS
    <2>2. P \o ((f \o b) \o d) = (P \o (f \o b)) \o d
      <3> DEFINE g == f \o b
      <3>1. g \in Seq(Piece)
        BY <1>4
      <3> HIDE DEF g
      <3>2. P \o (g \o d) = (P \o g) \o d
        BY <1>2, <2>1, <3>1, ZenonT(30)
      <3> QED
        BY <3>2, Zenon DEF g
    <2>3. P \o (f \o b) = (P \o f) \o b
      BY <1>2, <2>1, Zenon
    <2> QED
      BY <2>2, <2>3, Zenon
  <1> QED
    BY <1>3, <1>5, <1>6 DEF f, b, d

\* Everything in the stream is a piece.
LEMMA StreamType ==
  ASSUME TypeOK
  PROVE  Stream \in Seq(Piece)
  <1>1. FlattenSeq(delivered) \in Seq(Piece) /\ DataOf(queue) \in Seq(Piece) /\ buf \in Seq(Piece)
    BY FlattenType, DataOfType DEF TypeOK
  <1> QED
    BY <1>1, ConcatType DEF Stream

\* Conservation, in these terms.
LEMMA ConservationIs ==
  ASSUME TypeOK
  PROVE  /\ Stream \in Seq(Piece)
         /\ \A a \in Assocs : /\ PiecesOf(a, Stream) \in Seq(Piece)
                              /\ Own(peeled[a]) \in Seq(Piece)
                              /\ sent[a] \in Seq(Piece)
         /\ Conservation <=> \A a \in Assocs : PiecesOf(a, Stream) \o Own(peeled[a]) = sent[a]
  <1>1. Stream \in Seq(Piece)
    BY StreamType
  <1>2. ASSUME NEW a \in Assocs
        PROVE  /\ PiecesOf(a, Stream) \in Seq(Piece)
               /\ Own(peeled[a]) \in Seq(Piece)
               /\ sent[a] \in Seq(Piece)
               /\ PiecesOf(a, FlattenSeq(delivered) \o buf \o DataOf(queue))
                    \o FlattenSeq(peeled[a].delivered) \o peeled[a].buf \o DataOf(peeled[a].queue)
                  = PiecesOf(a, Stream) \o Own(peeled[a])
    <2>1. peeled[a] \in Reassembling /\ sent[a] \in Seq(Piece)
      BY DEF TypeOK, Reassembling
    <2>2. PiecesOf(a, Stream) \in Seq(Piece)
      BY <1>1, PiecesType
    <2> QED
      BY <2>1, <2>2, OwnIs DEF Stream
  <1>3. Conservation <=> \A a \in Assocs : PiecesOf(a, Stream) \o Own(peeled[a]) = sent[a]
    BY <1>2, Zenon DEF Conservation
  <1> QED
    BY <1>1, <1>2, <1>3

\* Conservation after a step.
LEMMA ConservationFollows ==
  ASSUME TypeOK', \A a \in Assocs : PiecesOf(a, Stream') \o Own(peeled'[a]) = sent'[a]
  PROVE  Conservation'
  <1>1. FlattenSeq(delivered') \in Seq(Piece) /\ DataOf(queue') \in Seq(Piece) /\ buf' \in Seq(Piece)
    BY FlattenType, DataOfType DEF TypeOK
  <1>2. Stream' \in Seq(Piece)
    BY <1>1, ConcatType DEF Stream
  <1>3. ASSUME NEW a \in Assocs
        PROVE  PiecesOf(a, FlattenSeq(delivered') \o buf' \o DataOf(queue'))
                 \o FlattenSeq(peeled'[a].delivered) \o peeled'[a].buf \o DataOf(peeled'[a].queue)
               = sent'[a]
    <2>1. peeled'[a] \in Reassembling
      BY DEF TypeOK, Reassembling
    <2>2. PiecesOf(a, Stream') \in Seq(Piece)
      BY <1>2, PiecesType
    <2>3. PiecesOf(a, Stream')
            \o FlattenSeq(peeled'[a].delivered) \o peeled'[a].buf \o DataOf(peeled'[a].queue)
          = PiecesOf(a, Stream') \o Own(peeled'[a])
      BY <2>1, <2>2, OwnIs
    <2> QED
      BY <2>3 DEF Stream
  <1> QED
    BY <1>3, Zenon DEF Conservation

\* The new socket starts with nothing.
LEMMA OwnNew == Own(NewReassembly) = <<>>
  BY FlattenEmpty, DataOfEmpty DEF Own, NewReassembly

\* At first nothing was sent.
LEMMA ConservationInit == Init => ConservationInv
  <1> SUFFICES ASSUME Init PROVE ConservationInv
    OBVIOUS
  <1>1. TypeOK
    BY TypeInit
  <1>2. Stream = <<>>
    BY FlattenEmpty, DataOfEmpty DEF Init, Stream
  <1>3. ASSUME NEW a \in Assocs
        PROVE  PiecesOf(a, Stream) \o Own(peeled[a]) = sent[a] /\ peeled[a] = NewReassembly
    <2>1. peeled[a] = NewReassembly /\ sent[a] = <<>>
      BY DEF Init
    <2>2. PiecesOf(a, Stream) = <<>>
      BY <1>2, OnlyEmpty DEF PiecesOf
    <2> QED
      BY <2>1, <2>2, OwnNew
  <1> QED
    BY <1>1, <1>3, ConservationIs DEF ConservationInv, PeeledIsNew

\* A piece that arrives on the server's socket goes to the end of the stream.
LEMMA StreamGrows ==
  ASSUME TypeOK, NEW x \in Piece, queue' = Append(queue, Data(x)), UNCHANGED <<buf, delivered>>
  PROVE  Stream' = Append(Stream, x)
  <1> DEFINE f == FlattenSeq(delivered) \o buf
             d == DataOf(queue)
  <1>1. queue \in Seq(Chunk) /\ buf \in Seq(Piece) /\ delivered \in Seq(Seq(Piece))
    BY DEF TypeOK
  <1>2. f \in Seq(Piece) /\ d \in Seq(Piece)
    BY <1>1, FlattenType, DataOfType, ConcatType
  <1>3. DataOf(queue') = Append(d, x)
    BY <1>1, DataOfAppend, DataType
  <1>4. Stream' = f \o DataOf(queue') /\ Stream = f \o d
    BY DEF Stream
  <1> HIDE DEF f, d
  <1>5. f \o Append(d, x) = Append(f \o d, x)
    BY <1>2, ConcatAppend
  <1> QED
    BY <1>3, <1>4, <1>5

\* The pieces of each association after a piece x was added to a stream.
LEMMA PiecesAppend ==
  ASSUME NEW st \in Seq(Piece), NEW x \in Piece, NEW b
  PROVE  PiecesOf(b, Append(st, x)) = IF x.assoc = b THEN Append(PiecesOf(b, st), x)
                                      ELSE PiecesOf(b, st)
  <1> DEFINE T == {p \in Piece : p.assoc = b}
  <1>1. (x \in T) <=> x.assoc = b
    OBVIOUS
  <1>2. Only(Append(st, x), T) = IF x \in T THEN Append(Only(st, T), x) ELSE Only(st, T)
    BY OnlyAppend
  <1> HIDE DEF T
  <1> QED
    BY <1>1, <1>2 DEF PiecesOf, T

\* One more piece keeps conservation, on either socket.
LEMMA PeerDataConserves ==
  ASSUME ConservationInv, NEW a \in Assocs, NEW last \in BOOLEAN, PeerData(a, last), TypeOK'
  PROVE  ConservationInv'
  <1> DEFINE x == NextPiece(a, last)
  <1>1. TypeOK /\ x \in Piece /\ x.assoc = a
    BY NextPieceType DEF ConservationInv
  <1>2. /\ sent' = [sent EXCEPT ![a] = Append(@, x)]
        /\ UNCHANGED <<assoc, room, cut, buf, pc, op, delivered>>
        /\ \/ OnSocket(a) /\ queue' = Append(queue, Data(x)) /\ peeled' = peeled
           \/ /\ assoc[a] = "peeled" /\ queue' = queue
              /\ peeled' = [peeled EXCEPT ![a].queue = Append(@, Data(x))]
    BY DEF PeerData
  <1> HIDE DEF x
  <1>3. /\ Stream \in Seq(Piece)
        /\ \A b \in Assocs : /\ PiecesOf(b, Stream) \in Seq(Piece)
                             /\ Own(peeled[b]) \in Seq(Piece)
                             /\ sent[b] \in Seq(Piece)
                             /\ PiecesOf(b, Stream) \o Own(peeled[b]) = sent[b]
    BY <1>1, ConservationIs DEF ConservationInv
  <1>4. \A b \in Assocs : sent'[b] = IF b = a THEN Append(sent[a], x) ELSE sent[b]
    BY <1>1, <1>2 DEF TypeOK
  <1>5. CASE OnSocket(a) /\ queue' = Append(queue, Data(x)) /\ peeled' = peeled
    <2>1. Stream' = Append(Stream, x)
      BY <1>1, <1>2, <1>5, StreamGrows
    <2>2. PeeledIsNew'
      BY <1>2, <1>5 DEF ConservationInv, PeeledIsNew, Left
    <2>3. Own(peeled[a]) = <<>>
      BY <1>5, OwnNew DEF ConservationInv, PeeledIsNew, Left, OnSocket
    <2>4. ASSUME NEW b \in Assocs
          PROVE  PiecesOf(b, Stream') \o Own(peeled'[b]) = sent'[b]
      <3>1. CASE b = a
        <4>1. PiecesOf(a, Stream') = Append(PiecesOf(a, Stream), x)
          BY <1>1, <1>3, <2>1, PiecesAppend
        <4> DEFINE P == PiecesOf(a, Stream)
        <4>2. P \in Seq(Piece) /\ P \o <<>> = sent[a]
          BY <1>3, <2>3
        <4> HIDE DEF P
        <4>3. P \o <<>> = P /\ Append(P, x) \o <<>> = Append(P, x)
          BY <1>1, <4>2
        <4>4. Append(P, x) \o <<>> = Append(sent[a], x)
          BY <4>2, <4>3
        <4> QED
          BY <1>4, <1>5, <2>3, <3>1, <4>1, <4>4 DEF P
      <3>2. CASE b # a
        <4>1. PiecesOf(b, Stream') = PiecesOf(b, Stream)
          BY <1>1, <1>3, <2>1, <3>2, PiecesAppend
        <4> QED
          BY <1>3, <1>4, <1>5, <3>2, <4>1
      <3> QED
        BY <3>1, <3>2
    <2>5. Conservation'
      BY <2>4, ConservationFollows
    <2> QED
      BY <2>2, <2>5 DEF ConservationInv
  <1>6. CASE /\ assoc[a] = "peeled" /\ queue' = queue
             /\ peeled' = [peeled EXCEPT ![a].queue = Append(@, Data(x))]
    <2>1. Stream' = Stream
      BY <1>2, <1>6 DEF Stream
    <2>2. peeled \in [Assocs -> Reassembling]
      BY <1>1 DEF TypeOK, Reassembling
    <2>3. \A b \in Assocs \ {a} : peeled'[b] = peeled[b]
      BY <1>6, <2>2
    <2>4. PeeledIsNew'
      BY <1>2, <1>6, <2>3 DEF ConservationInv, PeeledIsNew, Left
    <2>5. Own(peeled'[a]) = Append(Own(peeled[a]), x)
      <3> DEFINE f == FlattenSeq(peeled[a].delivered) \o peeled[a].buf
                 d == DataOf(peeled[a].queue)
      <3>1. /\ peeled[a].delivered \in Seq(Seq(Piece)) /\ peeled[a].buf \in Seq(Piece)
            /\ peeled[a].queue \in Seq(Chunk)
        BY <2>2 DEF Reassembling
      <3>2. f \in Seq(Piece) /\ d \in Seq(Piece)
        BY <3>1, FlattenType, DataOfType, ConcatType
      <3>3. /\ peeled'[a].delivered = peeled[a].delivered
            /\ peeled'[a].buf = peeled[a].buf
            /\ peeled'[a].queue = Append(peeled[a].queue, Data(x))
        BY <1>6, <2>2 DEF Reassembling
      <3>4. DataOf(peeled'[a].queue) = Append(d, x)
        BY <1>1, <3>1, <3>3, DataOfAppend, DataType
      <3>5. Own(peeled[a]) = f \o d /\ Own(peeled'[a]) = f \o DataOf(peeled'[a].queue)
        BY <3>3 DEF Own
      <3> HIDE DEF f, d
      <3>6. f \o Append(d, x) = Append(f \o d, x)
        BY <1>1, <3>2, ConcatAppend
      <3> QED
        BY <3>4, <3>5, <3>6
    <2>6. ASSUME NEW b \in Assocs
          PROVE  PiecesOf(b, Stream') \o Own(peeled'[b]) = sent'[b]
      <3>1. CASE b = a
        <4> DEFINE P == PiecesOf(a, Stream)
                   o == Own(peeled[a])
        <4>1. P \in Seq(Piece) /\ o \in Seq(Piece) /\ P \o o = sent[a]
          BY <1>3
        <4> HIDE DEF P, o
        <4>2. P \o Append(o, x) = Append(P \o o, x)
          BY <1>1, <4>1, ConcatAppend
        <4> QED
          BY <1>4, <2>1, <2>5, <3>1, <4>1, <4>2 DEF P, o
      <3>2. CASE b # a
        BY <1>3, <1>4, <2>1, <2>3, <3>2
      <3> QED
        BY <3>1, <3>2
    <2>7. Conservation'
      BY <2>6, ConservationFollows
    <2> QED
      BY <2>4, <2>7 DEF ConservationInv
  <1> QED
    BY <1>2, <1>5, <1>6

\* A peeloff takes the association's pieces to the new socket and leaves the
\* others alone.
LEMMA PeelOffConserves ==
  ASSUME ConservationInv, NEW a \in Assocs, PeelOff(a), TypeOK'
  PROVE  ConservationInv'
  <1> DEFINE S == {p \in Piece : p.assoc # a}
             T(b) == {p \in Piece : p.assoc = b}
             f == FlattenSeq(delivered) \o buf
             d == DataOf(queue)
             L == Only(queue, {c \in Chunk : RecordOf(c) = a})
  <1>1. TypeOK /\ queue \in Seq(Chunk) /\ buf \in Seq(Piece) /\ delivered \in Seq(Seq(Piece))
    BY DEF ConservationInv, TypeOK
  <1>2. f \in Seq(Piece) /\ d \in Seq(Piece)
    BY <1>1, FlattenType, DataOfType, ConcatType
  <1>3. /\ OnSocket(a) /\ queue' = Staying(a)
        /\ peeled' = [peeled EXCEPT ![a].queue = L]
        /\ assoc' \in {[assoc EXCEPT ![a] = "peeled"], [assoc EXCEPT ![a] = "leaked"]}
        /\ UNCHANGED <<sent, buf, delivered>>
    BY DEF PeelOff
  <1>4. DataOf(queue') = Only(d, S) /\ DataOf(L) = Only(d, T(a))
    BY <1>1, <1>3, PeelOffData DEF Staying
  <1>5. Stream = f \o d /\ Stream' = f \o Only(d, S)
    BY <1>3, <1>4 DEF Stream
  <1>6. /\ Stream \in Seq(Piece)
        /\ \A b \in Assocs : PiecesOf(b, Stream) \o Own(peeled[b]) = sent[b]
    BY <1>1, ConservationIs DEF ConservationInv
  <1>7. peeled \in [Assocs -> Reassembling]
    BY <1>1 DEF TypeOK, Reassembling
  <1>8. peeled[a] = NewReassembly
    BY <1>3 DEF ConservationInv, PeeledIsNew, Left, OnSocket
  <1>9. \A b \in Assocs \ {a} : peeled'[b] = peeled[b]
    BY <1>3, <1>7
  <1>10. Left(a)' /\ \A b \in Assocs : Left(b) => Left(b)'
    BY <1>1, <1>3 DEF TypeOK, Left
  <1>11. PeeledIsNew'
    BY <1>9, <1>10 DEF ConservationInv, PeeledIsNew
  <1>12. Own(peeled'[a]) = Only(d, T(a))
    <2>1. /\ peeled'[a].delivered = <<>> /\ peeled'[a].buf = <<>> /\ peeled'[a].queue = L
      BY <1>3, <1>7, <1>8 DEF NewReassembly, Reassembling
    <2>2. Own(peeled'[a]) = <<>> \o <<>> \o DataOf(L)
      BY <2>1, FlattenEmpty DEF Own
    <2>3. Only(d, T(a)) \in Seq(Piece)
      <3> DEFINE t == T(a)
                 k == Only(d, t)
      <3>1. k \in Seq(Piece \cap t)
        BY <1>2, OnlyType
      <3> HIDE DEF t, k
      <3>2. k \in Seq(Piece)
        BY <3>1
      <3> QED
        BY <3>2 DEF k, t
    <2> DEFINE k == Only(d, T(a))
    <2> HIDE DEF k
    <2>4. k \in Seq(Piece)
      BY <2>3 DEF k
    <2>5. (<<>> \o <<>>) \o k = k
      BY <2>4
    <2> QED
      BY <1>4, <2>2, <2>5 DEF k
  <1>13. \A b \in Assocs : /\ PiecesOf(b, Stream) = Only(f, T(b)) \o Only(d, T(b))
                           /\ PiecesOf(b, Stream') = Only(f, T(b)) \o Only(Only(d, S), T(b))
    <2> DEFINE k == Only(d, S)
    <2>1. k \in Seq(Piece)
      <3>1. k \in Seq(Piece \cap S)
        BY <1>2, OnlyType
      <3> HIDE DEF S, k
      <3> QED
        BY <3>1
    <2> HIDE DEF f, d, k
    <2>2. Stream' = f \o k
      BY <1>5 DEF k
    <2>3. ASSUME NEW b \in Assocs
          PROVE  /\ PiecesOf(b, Stream) = Only(f, T(b)) \o Only(d, T(b))
                 /\ PiecesOf(b, Stream') = Only(f, T(b)) \o Only(k, T(b))
      <3> DEFINE t == T(b)
      <3>1. PiecesOf(b, Stream) = Only(f \o d, t) /\ PiecesOf(b, Stream') = Only(f \o k, t)
        BY <1>5, <2>2 DEF PiecesOf
      <3> HIDE DEF t
      <3>2. Only(f \o d, t) = Only(f, t) \o Only(d, t) /\ Only(f \o k, t) = Only(f, t) \o Only(k, t)
        <4>1. f \in Seq(Piece) /\ d \in Seq(Piece)
          BY <1>2
        <4>2. \A u \in Seq(Piece) : Only(f \o u, t) = Only(f, t) \o Only(u, t)
          BY <4>1, OnlyConcat
        <4> QED
          BY <2>1, <4>1, <4>2, Zenon
      <3> QED
        BY <3>1, <3>2 DEF t
    <2> QED
      BY <2>3 DEF k
  <1> HIDE DEF f, d
  <1>14. ASSUME NEW b \in Assocs
         PROVE  PiecesOf(b, Stream') \o Own(peeled'[b]) = sent'[b]
    <2>1. CASE b = a
      <3>1. Only(Only(d, S), T(a)) = <<>>
        <4> DEFINE t == T(a)
                   k == Only(d, S)
        <4>1. (Piece \cap S) \cap t = {} /\ k \in Seq(Piece \cap S)
          BY <1>2, OnlyType
        <4> HIDE DEF t, k, S
        <4>2. Only(k, t) = <<>>
          BY <4>1, OnlyNone
        <4> QED
          BY <4>2 DEF t, k
      <3>2. Own(peeled[a]) = <<>>
        BY <1>8, OwnNew
      <3> DEFINE u == Only(f, T(a))
                 v == Only(d, T(a))
      <3>3. u \in Seq(Piece) /\ v \in Seq(Piece)
        <4> DEFINE t == T(a)
        <4>1. Only(f, t) \in Seq(Piece \cap t) /\ Only(d, t) \in Seq(Piece \cap t)
          BY <1>2, OnlyType
        <4> HIDE DEF t
        <4>2. Only(f, t) \in Seq(Piece) /\ Only(d, t) \in Seq(Piece)
          BY <4>1
        <4> QED
          BY <4>2 DEF t
      <3>4. (u \o v) \o <<>> = sent[a]
        BY <1>6, <1>13, <3>2
      <3>5. PiecesOf(a, Stream') \o Own(peeled'[a]) = (u \o <<>>) \o v
        BY <1>12, <1>13, <3>1
      <3> HIDE DEF u, v
      <3>6. (u \o <<>>) \o v = u \o v /\ (u \o v) \o <<>> = u \o v
        BY <3>3
      <3> QED
        BY <1>3, <2>1, <3>4, <3>5, <3>6, Zenon
    <2>2. CASE b # a
      <3>1. Only(Only(d, S), T(b)) = Only(d, T(b))
        <4> DEFINE t == T(b)
        <4>1. Piece \cap t \subseteq S
          BY <2>2
        <4> HIDE DEF t, S
        <4>2. Only(Only(d, S), t) = Only(d, t)
          BY <1>2, <4>1, OnlyOnly
        <4> QED
          BY <4>2 DEF t
      <3>2. PiecesOf(b, Stream') = PiecesOf(b, Stream)
        BY <1>13, <3>1
      <3> QED
        BY <1>3, <1>6, <1>9, <2>2, <3>2
    <2> QED
      BY <2>1, <2>2
  <1>15. Conservation'
    BY <1>14, ConservationFollows
  <1> QED
    BY <1>11, <1>15 DEF ConservationInv

\* A read of a peeled-off association moves its pieces along.
LEMMA PeeledRecvConserves ==
  ASSUME ConservationInv, NEW a \in Assocs, PeeledRecv(a), TypeOK'
  PROVE  ConservationInv'
  <1> DEFINE q == peeled[a].queue
             b == peeled[a].buf
             d == peeled[a].delivered
             c == Head(q)
             s == PushChunk(b, c)
             dd == IF s.step = "Complete" THEN Append(d, Payload(b, c)) ELSE d
             new == [queue |-> Tail(q), buf |-> s.buf, delivered |-> dd]
  <1>1. TypeOK /\ peeled \in [Assocs -> Reassembling]
    BY DEF ConservationInv, TypeOK, Reassembling
  <1>2. q \in Seq(Chunk) /\ b \in Seq(Piece) /\ d \in Seq(Seq(Piece))
    BY <1>1 DEF Reassembling
  <1>3. /\ assoc[a] = "peeled" /\ q # <<>> /\ peeled' = [peeled EXCEPT ![a] = new]
        /\ UNCHANGED <<assoc, queue, sent, buf, delivered>>
    BY DEF PeeledRecv, kernelVars
  <1>4. FlattenSeq(dd) \o s.buf \o DataOf(Tail(q)) = FlattenSeq(d) \o b \o DataOf(q)
    BY <1>2, <1>3, ReadConserves
  <1>5. Own(new) = Own(peeled[a])
    BY <1>4 DEF Own
  <1> HIDE DEF new
  <1>6. peeled'[a] = new /\ \A u \in Assocs \ {a} : peeled'[u] = peeled[u]
    BY <1>1, <1>3
  <1>7. PeeledIsNew'
    BY <1>3, <1>6 DEF ConservationInv, PeeledIsNew, Left
  <1>8. \A u \in Assocs : Own(peeled'[u]) = Own(peeled[u])
    BY <1>5, <1>6
  <1>9. Stream' = Stream /\ sent' = sent
    BY <1>3 DEF Stream
  <1>10. \A u \in Assocs : PiecesOf(u, Stream') \o Own(peeled'[u]) = sent'[u]
    BY <1>1, <1>8, <1>9, ConservationIs DEF ConservationInv
  <1>11. Conservation'
    BY <1>10, ConservationFollows
  <1> QED
    BY <1>7, <1>11 DEF ConservationInv

\* Every step keeps conservation.
LEMMA ConservationNext == ConservationInv /\ [Next]_vars => ConservationInv'
  <1> SUFFICES ASSUME ConservationInv, [Next]_vars PROVE ConservationInv'
    OBVIOUS
  <1>1. TypeOK /\ TypeOK'
    BY TypeNext DEF ConservationInv
  <1>2. ASSUME Stream' = Stream, UNCHANGED <<sent, peeled>>,
               \A a \in Assocs : Left(a) => Left(a)'
        PROVE  ConservationInv'
    <2>1. PeeledIsNew'
      BY <1>2 DEF ConservationInv, PeeledIsNew
    <2>2. \A a \in Assocs : PiecesOf(a, Stream') \o Own(peeled'[a]) = sent'[a]
      BY <1>1, <1>2, ConservationIs DEF ConservationInv
    <2>3. Conservation'
      BY <1>1, <2>2, ConservationFollows
    <2> QED
      BY <1>1, <2>1, <2>3 DEF ConservationInv
  <1>3. ASSUME NEW r \in Receivers, RecvChunk(r)
        PROVE  ConservationInv'
    <2>1. Stream' = Stream /\ UNCHANGED <<assoc, sent, peeled>>
      BY <1>1, <1>3, ReadStep
    <2> QED
      BY <1>2, <2>1 DEF Left
  <1>4. ASSUME NEW a \in Assocs, ChangeStep(a)
        PROVE  ConservationInv'
    <2>1. Stream' = Stream /\ UNCHANGED <<sent, peeled>>
      BY <1>4 DEF ChangeStep, Stream
    <2>2. \A b \in Assocs : Left(b) => Left(b)'
      BY <1>1, <1>4 DEF ChangeStep, TypeOK, Left, OnSocket
    <2> QED
      BY <1>2, <2>1, <2>2
  <1>5. CASE UNCHANGED <<assoc, queue, sent, cut, buf, delivered, peeled>>
    BY <1>2, <1>5 DEF Stream, Left
  <1> QED
    BY <1>1, <1>3, <1>4, <1>5, MessageSteps, PeerDataConserves, PeelOffConserves,
       PeeledRecvConserves

\* What a peer sent is all there and in order, on the server's socket and then
\* on its own, whatever peeloff moves and whoever reads.
THEOREM ServerLosesNothing == Spec => []Conservation
  <1>1. ConservationInv => Conservation
    BY DEF ConservationInv
  <1> QED
    BY <1>1, ConservationInit, ConservationNext, PTL DEF Spec

-----------------------------------------------------------------------------
(* The order of what is sent.                                              *)

\* What CutOf selects.
LEMMA CutOfIs ==
  ASSUME NEW C \in SUBSET (Assocs \X Nat), NEW a
  PROVE  /\ CutOf(C, a) \in SUBSET Nat
         /\ \A m : m \in CutOf(C, a) <=> <<a, m>> \in C
  <1>1. \A c \in C : c[2] \in Nat /\ c = <<c[1], c[2]>>
    OBVIOUS
  <1>2. CutOf(C, a) \in SUBSET Nat
    BY <1>1 DEF CutOf
  <1>3. ASSUME NEW m, m \in CutOf(C, a)
        PROVE  <<a, m>> \in C
    <2>1. PICK c \in C : c[1] = a /\ m = c[2]
      BY <1>3 DEF CutOf
    <2> QED
      BY <1>1, <2>1
  <1>4. ASSUME NEW m, <<a, m>> \in C
        PROVE  m \in CutOf(C, a)
    <2> DEFINE c == <<a, m>>
    <2>1. c \in C /\ c[1] = a /\ c[2] = m
      BY <1>4
    <2> HIDE DEF c
    <2> QED
      BY <2>1 DEF CutOf
  <1> QED
    BY <1>2, <1>3, <1>4

\* Open, in the terms of the order.
LEMMA OpenIs ==
  ASSUME TypeOK, NEW a \in Assocs
  PROVE  Open(a) <=> OpenIn(sent[a], CutOf(cut, a))
  <1>1. cut \in SUBSET (Assocs \X Nat)
    BY DEF TypeOK
  <1>2. \A m : m \in CutOf(cut, a) <=> <<a, m>> \in cut
    BY <1>1, CutOfIs
  <1> QED
    BY <1>2 DEF Open, OpenIn, Tip

\* The next piece follows those sent before.
LEMMA NextFollows ==
  ASSUME TypeOK, NEW a \in Assocs, NEW last \in BOOLEAN
  PROVE  /\ NextPiece(a, last).last = last
         /\ Follows(sent[a], NextPiece(a, last), a, CutOf(cut, a))
  <1>1. Open(a) <=> OpenIn(sent[a], CutOf(cut, a))
    BY OpenIs
  <1>2. NextPiece(a, last).last = last
    BY DEF NextPiece
  <1>3. Follows(sent[a], NextPiece(a, last), a, CutOf(cut, a))
    BY <1>1 DEF NextPiece, Follows, Tip
  <1> QED
    BY <1>2, <1>3

\* Gone goes by whole messages.
LEMMA GoneByMessage == ByMessage(Gone)
  BY DEF ByMessage, Gone

\* What is gone stays gone, and so an intact message stays one.
LEMMA StillIntact ==
  ASSUME DeliveredIntact, delivered' = delivered, Gone \subseteq Gone'
  PROVE  DeliveredIntact'
  <1>1. ASSUME NEW p, IntactMessage(p, Gone)
        PROVE  IntactMessage(p, Gone')
    BY <1>1 DEF IntactMessage
  <1> QED
    BY <1>1 DEF DeliveredIntact

-----------------------------------------------------------------------------
(* A change of an association keeps the messages in order.                 *)

\* What such a change leaves alone.
LEMMA ChangeFacts ==
  ASSUME TypeOK, NEW a \in Assocs, ChangeStep(a)
  PROVE  /\ Stream' = Stream /\ sent' = sent
         /\ \A b \in Assocs : Left(b)' <=> Left(b)
         /\ \A b \in Assocs \ {a} : /\ assoc'[b] = assoc[b]
                                    /\ \A m : <<b, m>> \in cut' <=> <<b, m>> \in cut
         /\ cut \subseteq cut'
         /\ Gone \subseteq Gone'
  <1>1. Stream' = Stream /\ sent' = sent
    BY DEF ChangeStep, Stream
  <1>2. \A b \in Assocs : Left(b)' <=> Left(b)
    BY DEF ChangeStep, TypeOK, Left, OnSocket
  <1>3. \A b \in Assocs \ {a} : /\ assoc'[b] = assoc[b]
                                /\ \A m : <<b, m>> \in cut' <=> <<b, m>> \in cut
    <2>1. \A b \in Assocs \ {a} : assoc'[b] = assoc[b]
      BY DEF ChangeStep, TypeOK
    <2>2. cut' = cut \/ \E m : cut' = cut \cup {<<a, m>>}
      BY DEF ChangeStep
    <2>3. \A b \in Assocs \ {a} : \A m : <<b, m>> \in cut' <=> <<b, m>> \in cut
      BY <2>2
    <2> QED
      BY <2>1, <2>3
  <1>4. cut \subseteq cut'
    BY DEF ChangeStep
  <1>5. Gone \subseteq Gone'
    BY <1>2, <1>4 DEF Gone
  <1> QED
    BY <1>1, <1>2, <1>3, <1>4, <1>5

\* The order of what was sent.
LEMMA ChangeOrder ==
  ASSUME MessageInv, TypeOK', NEW a \in Assocs, ChangeStep(a)
  PROVE  SentInOrder'
  <1>1. TypeOK /\ cut \in SUBSET (Assocs \X Nat) /\ cut' \in SUBSET (Assocs \X Nat)
    BY DEF MessageInv, TypeOK
  <1>2. /\ sent' = sent
        /\ \A b \in Assocs \ {a} : /\ assoc'[b] = assoc[b]
                                   /\ \A m : <<b, m>> \in cut' <=> <<b, m>> \in cut
    BY <1>1, ChangeFacts
  <1>3. assoc'[a] # "none"
    BY <1>1 DEF ChangeStep, TypeOK
  <1>4. ASSUME NEW b \in Assocs
        PROVE  Ordered(sent[b], b, CutOf(cut', b))
    <2>1. Ordered(sent[b], b, CutOf(cut, b)) /\ sent[b] \in Seq(Piece)
      BY <1>1 DEF MessageInv, SentInOrder, TypeOK
    <2>2. CASE b # a \/ cut' = cut
      <3>1. CutOf(cut', b) = CutOf(cut, b)
        <4>1. \A m : <<b, m>> \in cut' <=> <<b, m>> \in cut
          BY <1>2, <2>2
        <4>2. \A m : m \in CutOf(cut, b) <=> <<b, m>> \in cut
          BY <1>1, CutOfIs
        <4>3. \A m : m \in CutOf(cut', b) <=> <<b, m>> \in cut'
          BY <1>1, CutOfIs
        <4> QED
          BY <4>1, <4>2, <4>3
      <3> QED
        BY <2>1, <3>1
    <2>3. CASE b = a /\ Open(a) /\ cut' = cut \cup {<<a, Tip(sent[a]).msg>>}
      <3>1. OpenIn(sent[a], CutOf(cut, a))
        BY <1>1, <2>3, OpenIs
      <3>2. \A m : m \in CutOf(cut', a) <=> m \in CutOf(cut, a) \cup {Tip(sent[a]).msg}
        BY <1>1, <2>3, CutOfIs
      <3>3. CutOf(cut', a) = CutOf(cut, a) \cup {Tip(sent[a]).msg}
        BY <3>2
      <3> DEFINE C == CutOf(cut, a)
                 s == sent[a]
      <3>4. s \in Seq(Piece) /\ Ordered(s, a, C) /\ OpenIn(s, C)
        BY <2>1, <2>3, <3>1
      <3> HIDE DEF C, s
      <3>5. Ordered(s, a, C \cup {Tip(s).msg})
        BY <3>4, OrderedCut
      <3> QED
        BY <2>3, <3>3, <3>5 DEF C, s
    <2> QED
      BY <2>2, <2>3 DEF ChangeStep
  <1>5. \A b \in Assocs : assoc'[b] = "none" => sent[b] = <<>>
    BY <1>2, <1>3 DEF MessageInv, SentInOrder
  <1> QED
    BY <1>2, <1>4, <1>5 DEF SentInOrder

\* Whose message is under way.
LEMMA ChangeTip ==
  ASSUME MessageInv, NEW a \in Assocs, ChangeStep(a)
  PROVE  OpenIsAtTip' /\ TipIsOpen'
  <1>1. TypeOK /\ Stream \in Seq(Piece)
    BY StreamType DEF MessageInv
  <1>2. /\ Stream' = Stream /\ sent' = sent
        /\ \A b \in Assocs \ {a} : /\ assoc'[b] = assoc[b]
                                   /\ \A m : <<b, m>> \in cut' <=> <<b, m>> \in cut
        /\ Gone \subseteq Gone'
    BY <1>1, ChangeFacts
  <1>3. \A b \in Assocs \ {a} : (OnSocket(b)' <=> OnSocket(b)) /\ (Open(b)' <=> Open(b))
    BY <1>2 DEF OnSocket, Open
  <1>4. ASSUME OnSocket(a)', Open(a)'
        PROVE  OnSocket(a) /\ Open(a)
    <2>1. assoc'[a] # "over"
      BY <1>4 DEF OnSocket
    <2>2. assoc[a] = "none" => sent[a] = <<>>
      BY DEF MessageInv, SentInOrder
    <2>3. sent[a] # <<>>
      BY <1>2, <1>4 DEF Open
    <2>4. cut' = cut /\ OnSocket(a)
      BY <1>1, <2>1, <2>2, <2>3 DEF ChangeStep, TypeOK
    <2> QED
      BY <1>2, <1>4, <2>4 DEF Open
  <1>5. OpenIsAtTip'
    <2> SUFFICES ASSUME NEW b \in Assocs, OnSocket(b)', Open(b)'
                 PROVE  Stream # <<>> /\ Tip(Stream) = Tip(sent[b])
      BY <1>2 DEF OpenIsAtTip
    <2>1. OnSocket(b) /\ Open(b)
      BY <1>3, <1>4
    <2> QED
      BY <2>1 DEF MessageInv, OpenIsAtTip
  <1>6. TipIsOpen'
    <2> SUFFICES ASSUME ~Startable(Stream, Gone')
                 PROVE  \E b \in Assocs : /\ OnSocket(b)' /\ Open(b)'
                                          /\ Tip(Stream).assoc = b /\ Tip(sent[b]) = Tip(Stream)
      BY <1>2 DEF TipIsOpen
    <2>1. ~Startable(Stream, Gone) /\ Tip(Stream) \notin Gone' /\ Stream # <<>>
      BY <1>2 DEF Startable
    <2>2. PICK b \in Assocs : /\ OnSocket(b) /\ Open(b)
                              /\ Tip(Stream).assoc = b /\ Tip(sent[b]) = Tip(Stream)
      BY <2>1 DEF MessageInv, TipIsOpen
    <2>3. Tip(Stream) \in Piece
      BY <1>1, <2>1, TipType
    <2>4. OnSocket(b)' /\ Open(b)'
      <3>1. CASE b # a
        BY <1>3, <2>2, <3>1
      <3>2. CASE b = a
        <4>1. <<a, Tip(sent[a]).msg>> \notin cut'
          BY <2>1, <2>2, <2>3, <3>2 DEF Gone
        <4>2. assoc' = [assoc EXCEPT ![a] = "closing"] /\ cut' = cut
          BY <2>2, <3>2, <4>1 DEF ChangeStep, OnSocket
        <4> QED
          BY <1>1, <1>2, <2>2, <3>2, <4>2 DEF OnSocket, Open, TypeOK
      <3> QED
        BY <3>1, <3>2
    <2> QED
      BY <2>2, <2>4
  <1> QED
    BY <1>5, <1>6

\* All of it.
LEMMA ChangeKeepsMessages ==
  ASSUME MessageInv, TypeOK', NEW a \in Assocs, ChangeStep(a)
  PROVE  MessageInv'
  <1>1. /\ Stream' = Stream /\ sent' = sent /\ Gone \subseteq Gone'
        /\ \A b \in Assocs : Left(b)' <=> Left(b)
    BY ChangeFacts DEF MessageInv
  <1>2. Queueable' = Queueable
    BY <1>1 DEF Queueable
  <1>3. QueueIsGood'
    BY <1>2 DEF MessageInv, ChangeStep, QueueIsGood
  <1>4. Chained(Stream, Gone)'
    BY <1>1, ChainedMore DEF MessageInv
  <1>5. CutAtEnds(delivered, buf)' /\ delivered' = delivered
    BY DEF MessageInv, ChangeStep
  <1>6. DeliveredIntact'
    BY <1>1, <1>5, StillIntact DEF MessageInv
  <1> QED
    BY <1>3, <1>4, <1>5, <1>6, ChangeOrder, ChangeTip DEF MessageInv

-----------------------------------------------------------------------------
(* A peer's data keeps the messages in order.                              *)

\* What a piece that is sent changes for every association.
LEMMA DataFacts ==
  ASSUME MessageInv, NEW a \in Assocs, NEW last \in BOOLEAN, PeerData(a, last)
  PROVE  LET x == NextPiece(a, last) IN
         /\ x \in Piece /\ x.assoc = a
         /\ sent'[a] = Append(sent[a], x)
         /\ \A b \in Assocs \ {a} : sent'[b] = sent[b]
         /\ assoc' = assoc /\ cut' = cut /\ Gone' = Gone
         /\ buf' = buf /\ delivered' = delivered
         /\ Follows(sent[a], x, a, CutOf(cut, a))
         /\ Ordered(sent'[a], a, CutOf(cut, a))
         /\ <<a, x.msg>> \notin cut
  <1> DEFINE x == NextPiece(a, last)
  <1>1. TypeOK /\ x \in Piece /\ x.assoc = a
    BY NextPieceType DEF MessageInv
  <1>2. Follows(sent[a], x, a, CutOf(cut, a))
    BY <1>1, NextFollows
  <1>3. /\ sent' = [sent EXCEPT ![a] = Append(@, x)]
        /\ UNCHANGED <<assoc, cut, buf, delivered>>
    BY DEF PeerData
  <1> HIDE DEF x
  <1>4. sent'[a] = Append(sent[a], x) /\ \A b \in Assocs \ {a} : sent'[b] = sent[b]
    BY <1>1, <1>3 DEF TypeOK
  <1>5. Gone' = Gone
    BY <1>3 DEF Gone, Left
  <1>6. sent[a] \in Seq(Piece) /\ CutOf(cut, a) \in SUBSET Nat /\ Ordered(sent[a], a, CutOf(cut, a))
    <2>1. sent[a] \in Seq(Piece) /\ cut \in SUBSET (Assocs \X Nat)
      BY <1>1 DEF TypeOK
    <2>2. CutOf(cut, a) \in SUBSET Nat
      BY <2>1, CutOfIs
    <2>3. Ordered(sent[a], a, CutOf(cut, a))
      BY DEF MessageInv, SentInOrder
    <2> QED
      BY <2>1, <2>2, <2>3
  <1> DEFINE C == CutOf(cut, a)
             s == sent[a]
  <1>7. s \in Seq(Piece) /\ C \in SUBSET Nat /\ Ordered(s, a, C) /\ Follows(s, x, a, C)
    BY <1>2, <1>6
  <1> HIDE DEF C, s
  <1>8. Ordered(Append(s, x), a, C) /\ x.msg \notin C
    BY <1>1, <1>7, OrderedAppend
  <1>9. <<a, x.msg>> \notin cut
    BY <1>1, <1>8, CutOfIs DEF C, TypeOK
  <1> QED
    BY <1>1, <1>2, <1>3, <1>4, <1>5, <1>8, <1>9 DEF C, s, x

\* The order of what was sent.
LEMMA DataOrder ==
  ASSUME MessageInv, NEW a \in Assocs, assoc[a] # "none",
         NEW last \in BOOLEAN, PeerData(a, last)
  PROVE  SentInOrder'
  <1>1. /\ Ordered(sent'[a], a, CutOf(cut, a))
        /\ \A b \in Assocs \ {a} : sent'[b] = sent[b]
        /\ assoc' = assoc /\ cut' = cut
    BY DataFacts
  <1>2. ASSUME NEW b \in Assocs
        PROVE  /\ Ordered(sent'[b], b, CutOf(cut', b))
               /\ assoc'[b] = "none" => sent'[b] = <<>>
    <2>1. CASE b = a
      BY <1>1, <2>1
    <2>2. CASE b # a
      BY <1>1, <2>2 DEF MessageInv, SentInOrder
    <2> QED
      BY <2>1, <2>2
  <1> QED
    BY <1>2 DEF SentInOrder

\* What was queueable is, and so is what was just sent.
LEMMA DataQueueable ==
  ASSUME MessageInv, NEW a \in Assocs, NEW last \in BOOLEAN, PeerData(a, last)
  PROVE  /\ Queueable \subseteq Queueable'
         /\ ~Left(a) => Data(NextPiece(a, last)) \in Queueable'
  <1> DEFINE x == NextPiece(a, last)
  <1>1. /\ x \in Piece /\ x.assoc = a
        /\ sent'[a] = Append(sent[a], x)
        /\ \A b \in Assocs \ {a} : sent'[b] = sent[b]
        /\ assoc' = assoc
    BY DataFacts
  <1> HIDE DEF x
  <1>2. sent[a] \in Seq(Piece)
    BY DEF MessageInv, TypeOK
  <1>3. /\ Len(sent[a]) \in Nat /\ Len(sent'[a]) = Len(sent[a]) + 1
        /\ \A i \in 1 .. Len(sent[a]) : sent'[a][i] = sent[a][i]
        /\ sent'[a][Len(sent[a]) + 1] = x
    BY <1>1, <1>2, AppendAt
  <1>4. \A b \in Assocs : Left(b)' <=> Left(b)
    BY <1>1 DEF Left
  <1>5. ASSUME NEW b \in Assocs, NEW k \in 1 .. Len(sent[b])
        PROVE  k \in 1 .. Len(sent'[b]) /\ sent'[b][k] = sent[b][k]
    <2>1. CASE b = a
      BY <1>3, <2>1
    <2>2. CASE b # a
      BY <1>1, <2>2
    <2> QED
      BY <2>1, <2>2
  <1>6. ASSUME NEW c \in Queueable
        PROVE  c \in Queueable'
    <2>1. c \in Flagged
      BY DEF Queueable
    <2>2. CASE ~IsData(c)
      BY <2>1, <2>2 DEF Queueable
    <2>3. CASE IsData(c)
      <3> DEFINE id == c.piece.assoc
      <3>1. id \in Assocs /\ ~Left(id)
        BY <2>3 DEF Queueable
      <3>2. PICK k \in 1 .. Len(sent[id]) : sent[id][k] = c.piece
        BY <2>3 DEF Queueable
      <3>3. k \in 1 .. Len(sent'[id]) /\ sent'[id][k] = c.piece
        BY <1>5, <3>1, <3>2
      <3>4. ~(assoc'[id] \in {"peeled", "leaked"})
        BY <1>1, <3>1 DEF Left
      <3> QED
        BY <2>1, <3>1, <3>3, <3>4 DEF Queueable, Left
    <2> QED
      BY <2>2, <2>3
  <1>7. ASSUME ~Left(a)
        PROVE  Data(x) \in Queueable'
    <2>1. /\ Data(x) \in Chunk /\ IsData(Data(x)) /\ Data(x).piece = x
          /\ ("MSG_EOR" \in Data(x).flags) <=> x.last
      BY <1>1, DataType
    <2>2. Data(x) \in Flagged
      BY <2>1 DEF Flagged
    <2>3. Len(sent[a]) + 1 \in 1 .. Len(sent'[a])
      BY <1>3
    <2>4. \E k \in 1 .. Len(sent'[a]) : sent'[a][k] = x
      BY <1>3, <2>3
    <2>5. ~(assoc'[a] \in {"peeled", "leaked"})
      BY <1>1, <1>7 DEF Left
    <2> DEFINE c == Data(x)
    <2>6. c \in Flagged /\ c.piece = x /\ c.piece.assoc = a
      BY <1>1, <2>1, <2>2
    <2> HIDE DEF c
    <2>7. c \in Queueable'
      BY <2>4, <2>5, <2>6 DEF Queueable, Left
    <2> QED
      BY <2>7 DEF c
  <1> QED
    BY <1>6, <1>7 DEF x

\* A piece that the kernel queues links up with the stream: only the
\* association in partial delivery goes on.
LEMMA DataLinks ==
  ASSUME MessageInv, NEW a \in Assocs, NEW last \in BOOLEAN, PeerData(a, last), OnSocket(a)
  PROVE  Linkable(Stream, NextPiece(a, last), Gone)
  <1> DEFINE x == NextPiece(a, last)
  <1>1. TypeOK /\ x.assoc = a /\ Follows(sent[a], x, a, CutOf(cut, a))
    BY DataFacts DEF MessageInv
  <1>2. \A b \in Assocs \ {a} : OnSocket(b) => ~Open(b)
    BY DEF PeerData, OnSocket
  <1> HIDE DEF x
  <1>3. CASE Open(a)
    <2>1. OpenIn(sent[a], CutOf(cut, a))
      BY <1>1, <1>3, OpenIs
    <2>2. Stream # <<>> /\ Tip(Stream) = Tip(sent[a])
      BY <1>3 DEF MessageInv, OpenIsAtTip
    <2>3. ~Tip(sent[a]).last
      BY <2>1 DEF OpenIn
    <2>4. x.msg = Tip(sent[a]).msg /\ x.part = Tip(sent[a]).part + 1
      BY <1>1, <2>1 DEF Follows
    <2>5. Tip(sent[a]).assoc = a
      <3>1. sent[a] # <<>> /\ sent[a] \in Seq(Piece)
        BY <1>1, <2>1 DEF OpenIn, TypeOK
      <3>2. Ordered(sent[a], a, CutOf(cut, a))
        BY DEF MessageInv, SentInOrder
      <3> QED
        BY <3>1, <3>2, TipType DEF Ordered, Tip
    <2>6. Continues(Tip(Stream), x)
      BY <1>1, <2>2, <2>3, <2>4, <2>5 DEF Continues
    <2> QED
      BY <2>2, <2>6 DEF Linkable, x
  <1>4. CASE ~Open(a)
    <2>1. ~OpenIn(sent[a], CutOf(cut, a))
      BY <1>1, <1>4, OpenIs
    <2>2. x.part = 1
      BY <1>1, <2>1 DEF Follows
    <2>3. Startable(Stream, Gone)
      BY <1>2, <1>4 DEF MessageInv, TipIsOpen
    <2> QED
      BY <2>2, <2>3 DEF Linkable, x
  <1> QED
    BY <1>3, <1>4

\* Whose message is under way after a piece on the server's socket.
LEMMA DataTip ==
  ASSUME MessageInv, NEW a \in Assocs, NEW last \in BOOLEAN, PeerData(a, last), OnSocket(a),
         Stream' = Append(Stream, NextPiece(a, last))
  PROVE  OpenIsAtTip' /\ TipIsOpen'
  <1> DEFINE x == NextPiece(a, last)
  <1>1. /\ x \in Piece /\ x.assoc = a /\ <<a, x.msg>> \notin cut
        /\ sent'[a] = Append(sent[a], x)
        /\ \A b \in Assocs \ {a} : sent'[b] = sent[b]
        /\ assoc' = assoc /\ cut' = cut
    BY DataFacts
  <1>2. \A b \in Assocs \ {a} : OnSocket(b) => ~Open(b)
    BY DEF PeerData, OnSocket
  <1>3. Stream' = Append(Stream, x) /\ Stream \in Seq(Piece) /\ sent[a] \in Seq(Piece)
    BY StreamType DEF MessageInv, TypeOK
  <1> HIDE DEF x
  <1>4. /\ Stream' # <<>> /\ Tip(Stream') = x
        /\ sent'[a] # <<>> /\ Tip(sent'[a]) = x /\ sent'[a][Len(sent'[a])] = x
    <2>1. Append(Stream, x) # <<>> /\ Tip(Append(Stream, x)) = x
      BY <1>1, <1>3, AppendAt
    <2>2. Append(sent[a], x) # <<>> /\ Tip(Append(sent[a], x)) = x
      <3> DEFINE t == sent[a]
      <3>1. t \in Seq(Piece)
        BY <1>3
      <3> HIDE DEF t
      <3>2. Append(t, x) # <<>> /\ Tip(Append(t, x)) = x
        BY <1>1, <3>1, AppendAt
      <3> QED
        BY <3>2 DEF t
    <2>3. Tip(sent'[a]) = sent'[a][Len(sent'[a])]
      BY DEF Tip
    <2> QED
      BY <1>1, <1>3, <2>1, <2>2, <2>3
  <1>5. \A b \in Assocs \ {a} : OnSocket(b)' => ~Open(b)'
    BY <1>1, <1>2 DEF OnSocket, Open
  <1>6. OpenIsAtTip'
    BY <1>4, <1>5 DEF OpenIsAtTip
  <1>7. ASSUME ~Startable(Stream', Gone')
        PROVE  OnSocket(a)' /\ Open(a)'
    <2>1. ~x.last
      BY <1>4, <1>7 DEF Startable
    <2> QED
      BY <1>1, <1>4, <2>1 DEF OnSocket, Open
  <1>8. TipIsOpen'
    BY <1>1, <1>4, <1>7 DEF TipIsOpen
  <1> QED
    BY <1>6, <1>8

\* All of it.
LEMMA DataKeepsMessages ==
  ASSUME MessageInv, TypeOK', NEW a \in Assocs, NEW last \in BOOLEAN, PeerData(a, last)
  PROVE  MessageInv'
  <1> DEFINE x == NextPiece(a, last)
  <1>1. /\ TypeOK /\ x \in Piece
        /\ assoc' = assoc /\ cut' = cut /\ Gone' = Gone /\ buf' = buf /\ delivered' = delivered
        /\ \A b \in Assocs \ {a} : sent'[b] = sent[b]
    BY DataFacts DEF MessageInv
  <1>2. CutAtEnds(delivered, buf)' /\ DeliveredIntact'
    BY <1>1 DEF MessageInv, DeliveredIntact
  <1>3. Queueable \subseteq Queueable' /\ (~Left(a) => Data(x) \in Queueable')
    BY DataQueueable
  <1>4. queue \in Seq(Queueable')
    BY <1>3 DEF MessageInv, QueueIsGood
  <1>5. \/ OnSocket(a) /\ queue' = Append(queue, Data(x))
        \/ assoc[a] = "peeled" /\ queue' = queue
    BY DEF PeerData
  <1>6. SentInOrder'
    BY <1>5, DataOrder DEF OnSocket
  <1>7. CASE OnSocket(a) /\ queue' = Append(queue, Data(x))
    <2>1. Stream' = Append(Stream, x)
      BY <1>1, <1>7, StreamGrows
    <2>2. Stream \in Seq(Piece) /\ Chained(Stream, Gone) /\ Linkable(Stream, x, Gone)
      BY <1>7, StreamType, DataLinks DEF MessageInv
    <2>3. Chained(Append(Stream, x), Gone)
      BY <1>1, <2>2, ChainedAppend
    <2>4. Chained(Stream, Gone)'
      BY <1>1, <2>1, <2>3
    <2>5. Data(x) \in Queueable'
      BY <1>3, <1>7 DEF Left, OnSocket
    <2>6. QueueIsGood'
      BY <1>4, <1>7, <2>5, AppendType DEF QueueIsGood
    <2>7. OpenIsAtTip' /\ TipIsOpen'
      BY <1>7, <2>1, DataTip
    <2> QED
      BY <1>2, <1>6, <2>4, <2>6, <2>7 DEF MessageInv
  <1>8. CASE assoc[a] = "peeled" /\ queue' = queue
    <2>1. Stream' = Stream
      BY <1>1, <1>8 DEF Stream
    <2>2. QueueIsGood'
      BY <1>4, <1>8 DEF QueueIsGood
    <2>3. Chained(Stream, Gone)'
      BY <1>1, <2>1 DEF MessageInv
    <2>4. ~OnSocket(a) /\ ~OnSocket(a)'
      BY <1>1, <1>8 DEF OnSocket
    <2>5. \A b \in Assocs \ {a} : (OnSocket(b)' <=> OnSocket(b)) /\ (Open(b)' <=> Open(b))
      BY <1>1 DEF OnSocket, Open
    <2>6. OpenIsAtTip'
      BY <1>1, <2>1, <2>4, <2>5 DEF MessageInv, OpenIsAtTip
    <2>7. TipIsOpen'
      BY <1>1, <2>1, <2>4, <2>5 DEF MessageInv, TipIsOpen
    <2> QED
      BY <1>2, <1>6, <2>2, <2>3, <2>6, <2>7 DEF MessageInv
  <1> QED
    BY <1>5, <1>7, <1>8

-----------------------------------------------------------------------------
(* A receive returns a whole message.                                      *)

\* A piece that waits on the server's socket belongs to no message that is
\* gone, if it is the last of its message.
LEMMA LastIsNotGone ==
  ASSUME MessageInv, NEW c \in Queueable, IsData(c), c.piece.last
  PROVE  c.piece \notin Gone
  <1> DEFINE z == c.piece
  <1>1. TypeOK /\ z.assoc \in Assocs /\ ~Left(z.assoc)
    BY DEF MessageInv, Queueable
  <1>2. PICK k \in 1 .. Len(sent[z.assoc]) : sent[z.assoc][k] = z
    BY DEF Queueable
  <1>3. Ordered(sent[z.assoc], z.assoc, CutOf(cut, z.assoc))
    BY <1>1 DEF MessageInv, SentInOrder
  <1>4. z.last
    OBVIOUS
  <1> HIDE DEF z
  <1>5. z.msg \notin CutOf(cut, z.assoc)
    BY <1>2, <1>3, <1>4 DEF Ordered
  <1>6. cut \in SUBSET (Assocs \X Nat)
    BY <1>1 DEF TypeOK
  <1>7. <<z.assoc, z.msg>> \notin cut
    BY <1>5, <1>6, CutOfIs
  <1> QED
    BY <1>1, <1>7 DEF Gone, z

\* What is in front of a message that is not gone is of another message.
LEMMA IntactApart ==
  ASSUME NEW p \in Seq(Piece), p # <<>>, NEW G, ByMessage(G), Intact(p, G), Tip(p) \notin G
  PROVE  IntactMessage(p, G)
  <1>1. PICK n \in 0 .. Len(p) - 1 :
          /\ Whole(SubSeq(p, n + 1, Len(p)))
          /\ \A i \in 1 .. n : p[i] \in G
    BY DEF Intact
  <1>2. Len(p) \in Nat /\ \A i \in 1 .. Len(p) : p[i] \in Piece
    OBVIOUS
  <1>3. Tip(p) \in Piece
    BY TipType
  <1>4. ASSUME NEW j \in 1 .. n
        PROVE  p[j] \in G /\ <<p[j].assoc, p[j].msg>> # <<Tip(p).assoc, Tip(p).msg>>
    <2>1. p[j] \in Piece /\ p[j] \in G
      BY <1>1, <1>2
    <2>2. ~(p[j].assoc = Tip(p).assoc /\ p[j].msg = Tip(p).msg)
      BY <1>3, <2>1 DEF ByMessage
    <2> QED
      BY <2>1, <2>2
  <1> QED
    BY <1>1, <1>4 DEF IntactMessage, Tip

\* A read that completes a message returns an intact one.
LEMMA ReadDelivers ==
  ASSUME MessageInv, NEW r, RecvChunk(r)
  PROVE  DeliveredIntact'
  <1> DEFINE c == Head(queue)
             s == PushChunk(buf, c)
  <1>1. /\ TypeOK /\ queue # <<>> /\ c \in Chunk
        /\ delivered' = IF s.step = "Complete" THEN Append(delivered, Payload(buf, c))
                        ELSE delivered
        /\ UNCHANGED <<assoc, cut>>
    BY ReadStep DEF MessageInv
  <1>2. Gone' = Gone
    BY <1>1 DEF Gone, Left
  <1>3. /\ buf \in Seq(Piece) /\ delivered \in Seq(Seq(Piece)) /\ queue \in Seq(Chunk)
    BY <1>1 DEF TypeOK
  <1>4. c \in Queueable /\ c \in Flagged
    <2>1. queue \in Seq(Queueable)
      BY DEF MessageInv, QueueIsGood
    <2>2. c \in Queueable
      BY <1>1, <2>1
    <2> QED
      BY <2>2 DEF Queueable
  <1>5. CASE s.step # "Complete"
    BY <1>1, <1>2, <1>5 DEF MessageInv, DeliveredIntact
  <1>6. CASE s.step = "Complete"
    <2>1. IsData(c) /\ "MSG_EOR" \in c.flags
      BY <1>6, PushChunkCases
    <2>2. c.piece \in Piece /\ c.piece.last
      BY <1>1, <1>4, <2>1, PieceOfData DEF Flagged
    <2> DEFINE p == Payload(buf, c)
    <2>3. CutAtEnds(delivered, buf) /\ Chained(FlattenSeq(delivered) \o buf \o DataOf(queue), Gone)
      BY DEF MessageInv, Stream
    <2>4. p \in Seq(Piece) /\ Intact(p, Gone)
      BY <1>1, <1>3, <1>4, <2>1, <2>3, ReadIsIntact, GoneByMessage
    <2>5. p # <<>> /\ Tip(p) = c.piece
      BY <1>3, <2>2, AppendAt DEF Payload
    <2>6. Tip(p) \notin Gone
      BY <1>4, <2>1, <2>2, <2>5, LastIsNotGone
    <2> HIDE DEF p
    <2>7. IntactMessage(p, Gone)
      BY <2>4, <2>5, <2>6, IntactApart, GoneByMessage
    <2>8. delivered' = Append(delivered, p)
      BY <1>1, <1>6 DEF p
    <2> DEFINE X == Seq(Piece)
               d == delivered
    <2>9. d \in Seq(X) /\ p \in X
      BY <1>3, <2>4
    <2> HIDE DEF X, d
    <2>10. /\ Len(d) \in Nat /\ Len(Append(d, p)) = Len(d) + 1
           /\ \A i \in 1 .. Len(d) : Append(d, p)[i] = d[i]
           /\ Append(d, p)[Len(d) + 1] = p
      BY <2>9, AppendAt
    <2>11. \A i \in 1 .. Len(d) : IntactMessage(d[i], Gone)
      BY DEF MessageInv, DeliveredIntact, d
    <2>12. \A i \in 1 .. Len(d) + 1 : IntactMessage(Append(d, p)[i], Gone)
      <3> TAKE i \in 1 .. Len(d) + 1
      <3>1. CASE i = Len(d) + 1
        BY <2>7, <2>10, <3>1
      <3>2. CASE i # Len(d) + 1
        <4>1. i \in 1 .. Len(d)
          BY <2>10, <3>2
        <4> QED
          BY <2>10, <2>11, <4>1
      <3> QED
        BY <3>1, <3>2
    <2>13. Len(delivered') = Len(d) + 1 /\ delivered' = Append(d, p)
      BY <2>8, <2>10 DEF d
    <2> QED
      BY <1>2, <2>12, <2>13 DEF DeliveredIntact
  <1> QED
    BY <1>5, <1>6

\* All of it.
LEMMA ReadKeepsMessages ==
  ASSUME MessageInv, TypeOK', NEW r, RecvChunk(r)
  PROVE  MessageInv'
  <1> DEFINE c == Head(queue)
             s == PushChunk(buf, c)
  <1>1. /\ TypeOK /\ queue # <<>> /\ queue' = Tail(queue) /\ buf' = s.buf
        /\ delivered' = IF s.step = "Complete" THEN Append(delivered, Payload(buf, c))
                        ELSE delivered
        /\ UNCHANGED <<assoc, sent, cut>>
        /\ Stream' = Stream
    BY ReadStep DEF MessageInv
  <1>2. Gone' = Gone
    BY <1>1 DEF Gone, Left
  <1>3. Queueable' = Queueable
    BY <1>1 DEF Queueable, Left
  <1>4. queue \in Seq(Queueable)
    BY DEF MessageInv, QueueIsGood
  <1>5. c \in Queueable /\ Tail(queue) \in Seq(Queueable)
    BY <1>1, <1>4
  <1>6. QueueIsGood'
    BY <1>1, <1>3, <1>5 DEF QueueIsGood
  <1>7. CutAtEnds(delivered, buf)'
    <2>1. c \in Flagged /\ buf \in Seq(Piece) /\ delivered \in Seq(Seq(Piece))
      BY <1>1, <1>5 DEF Queueable, TypeOK
    <2>2. CutAtEnds(delivered, buf)
      BY DEF MessageInv
    <2> DEFINE dd == IF s.step = "Complete" THEN Append(delivered, Payload(buf, c)) ELSE delivered
    <2>3. CutAtEnds(dd, s.buf)
      BY <2>1, <2>2, ReadCutsAtEnds
    <2> QED
      BY <1>1, <2>3
  <1>8. SentInOrder'
    BY <1>1 DEF MessageInv, SentInOrder
  <1>9. Chained(Stream, Gone)'
    BY <1>1, <1>2 DEF MessageInv
  <1>10. OpenIsAtTip'
    BY <1>1 DEF MessageInv, OpenIsAtTip, OnSocket, Open
  <1>11. TipIsOpen'
    BY <1>1, <1>2 DEF MessageInv, TipIsOpen, OnSocket, Open
  <1> QED
    BY <1>6, <1>7, <1>8, <1>9, <1>10, <1>11, ReadDelivers DEF MessageInv

-----------------------------------------------------------------------------
(* A peeloff keeps the messages of the others in order.                    *)

\* What a peeloff makes of the stream and of the associations.
LEMMA PeelOffThins ==
  ASSUME MessageInv, NEW a \in Assocs, PeelOff(a)
  PROVE  /\ \A b \in Assocs \ {a} : assoc'[b] = assoc[b]
         /\ Left(a)' /\ assoc'[a] # "none" /\ ~OnSocket(a)'
         /\ queue' = Only(queue, {c \in Chunk : RecordOf(c) # a})
         /\ UNCHANGED <<sent, cut, buf, delivered>>
         /\ Gone \subseteq Gone'
         /\ Thinned(Stream, Stream', a, Gone')
  <1> DEFINE S == {p \in Piece : p.assoc # a}
             f == FlattenSeq(delivered) \o buf
             d == DataOf(queue)
  <1>1. TypeOK /\ queue \in Seq(Chunk) /\ buf \in Seq(Piece) /\ delivered \in Seq(Seq(Piece))
    BY DEF MessageInv, TypeOK
  <1>2. f \in Seq(Piece) /\ d \in Seq(Piece)
    BY <1>1, FlattenType, DataOfType, ConcatType
  <1>3. /\ queue' = Only(queue, {c \in Chunk : RecordOf(c) # a})
        /\ assoc' \in {[assoc EXCEPT ![a] = "peeled"], [assoc EXCEPT ![a] = "leaked"]}
        /\ UNCHANGED <<sent, cut, buf, delivered>>
    BY DEF PeelOff, Staying
  <1>4. DataOf(queue') = Only(d, S)
    BY <1>1, <1>3, PeelOffData
  <1>5. Stream = f \o d /\ Stream' = f \o Only(d, S)
    BY <1>3, <1>4 DEF Stream
  <1>6. /\ \A b \in Assocs \ {a} : assoc'[b] = assoc[b]
        /\ Left(a)' /\ assoc'[a] # "none" /\ ~OnSocket(a)'
    BY <1>1, <1>3 DEF TypeOK, Left, OnSocket
  <1>7. \A b \in Assocs : Left(b) => Left(b)'
    BY <1>6 DEF Left
  <1>8. Gone \subseteq Gone'
    BY <1>3, <1>7 DEF Gone
  <1>9. \A p \in Piece : p.assoc = a => p \in Gone'
    BY <1>6 DEF Gone
  <1>10. Chained(f \o d, Gone)
    BY <1>5 DEF MessageInv
  <1> DEFINE G == Gone
             H == Gone'
  <1>11. Chained(f \o d, G) /\ G \subseteq H /\ \A p \in Piece : p.assoc = a => p \in H
    BY <1>8, <1>9, <1>10
  <1> HIDE DEF f, d, G, H
  <1>12. Thinned(f \o d, f \o Only(d, {p \in Piece : p.assoc # a}), a, H)
    BY <1>2, <1>11, ThinnedOut
  <1>13. Thinned(Stream, Stream', a, H)
    BY <1>5, <1>12
  <1> QED
    BY <1>3, <1>6, <1>8, <1>13 DEF H

\* What stays on the server's socket belongs there.
LEMMA PeelOffQueue ==
  ASSUME MessageInv, NEW a \in Assocs, PeelOff(a)
  PROVE  QueueIsGood'
  <1> DEFINE T == {c \in Chunk : RecordOf(c) # a}
  <1>1. /\ \A b \in Assocs \ {a} : assoc'[b] = assoc[b]
        /\ queue' = Only(queue, T) /\ sent' = sent
    BY PeelOffThins
  <1>2. queue \in Seq(Queueable)
    BY DEF MessageInv, QueueIsGood
  <1>3. ASSUME NEW c \in Queueable, c \in T
        PROVE  c \in Queueable'
    <2>1. c \in Flagged
      BY DEF Queueable
    <2>2. CASE ~IsData(c)
      BY <2>1, <2>2 DEF Queueable
    <2>3. CASE IsData(c)
      <3> DEFINE id == c.piece.assoc
      <3>1. /\ id \in Assocs /\ ~Left(id)
            /\ \E k \in 1 .. Len(sent[id]) : sent[id][k] = c.piece
        BY <2>3 DEF Queueable
      <3>2. id # a
        BY <1>3, <2>3 DEF RecordOf
      <3>3. ~(assoc'[id] \in {"peeled", "leaked"})
        BY <1>1, <3>1, <3>2 DEF Left
      <3> QED
        BY <1>1, <2>1, <3>1, <3>3 DEF Queueable, Left
    <2> QED
      BY <2>2, <2>3
  <1> DEFINE Q == Queueable
             R == Queueable'
             k == Only(queue, T)
  <1>4. Q \cap T \subseteq R
    BY <1>3
  <1>5. k \in Seq(Q \cap T)
    BY <1>2, OnlyType
  <1> HIDE DEF Q, R, k, T
  <1>6. k \in Seq(R)
    BY <1>4, <1>5
  <1> QED
    BY <1>1, <1>6 DEF QueueIsGood, R, k

\* All of it.
LEMMA PeelOffKeepsMessages ==
  ASSUME MessageInv, TypeOK', NEW a \in Assocs, PeelOff(a)
  PROVE  MessageInv'
  <1>1. /\ \A b \in Assocs \ {a} : assoc'[b] = assoc[b]
        /\ assoc'[a] # "none" /\ ~OnSocket(a)'
        /\ UNCHANGED <<sent, cut, buf, delivered>>
        /\ Gone \subseteq Gone'
        /\ Thinned(Stream, Stream', a, Gone')
    BY PeelOffThins
  <1>2. SentInOrder'
    BY <1>1 DEF MessageInv, SentInOrder
  <1>3. Chained(Stream, Gone)'
    BY <1>1 DEF Thinned
  <1>4. CutAtEnds(delivered, buf)'
    BY <1>1 DEF MessageInv
  <1>5. DeliveredIntact'
    BY <1>1, StillIntact DEF MessageInv
  <1>6. \A b \in Assocs \ {a} : (OnSocket(b)' <=> OnSocket(b)) /\ (Open(b)' <=> Open(b))
    BY <1>1 DEF OnSocket, Open
  <1>7. OpenIsAtTip'
    <2> SUFFICES ASSUME NEW b \in Assocs, OnSocket(b)', Open(b)'
                 PROVE  Stream' # <<>> /\ Tip(Stream') = Tip(sent[b])
      BY <1>1 DEF OpenIsAtTip
    <2>1. b # a /\ OnSocket(b) /\ Open(b)
      BY <1>1, <1>6
    <2>2. Stream # <<>> /\ Tip(Stream) = Tip(sent[b])
      BY <2>1 DEF MessageInv, OpenIsAtTip
    <2>3. Tip(sent[b]).assoc = b
      <3>1. sent[b] # <<>> /\ sent[b] \in Seq(Piece)
        BY <2>1 DEF Open, MessageInv, TypeOK
      <3>2. Ordered(sent[b], b, CutOf(cut, b))
        BY DEF MessageInv, SentInOrder
      <3> QED
        BY <3>1, <3>2, TipType DEF Ordered, Tip
    <2> QED
      BY <1>1, <2>1, <2>2, <2>3 DEF Thinned
  <1>8. TipIsOpen'
    <2> SUFFICES ASSUME ~Startable(Stream', Gone')
                 PROVE  \E b \in Assocs : /\ OnSocket(b)' /\ Open(b)'
                                          /\ Tip(Stream').assoc = b /\ Tip(sent[b]) = Tip(Stream')
      BY <1>1 DEF TipIsOpen
    <2>1. Stream # <<>> /\ Tip(Stream).assoc # a /\ Tip(Stream') = Tip(Stream)
      BY <1>1 DEF Thinned, Startable
    <2>2. ~Startable(Stream, Gone)
      BY <1>1, <2>1 DEF Startable
    <2>3. PICK b \in Assocs : /\ OnSocket(b) /\ Open(b)
                              /\ Tip(Stream).assoc = b /\ Tip(sent[b]) = Tip(Stream)
      BY <2>2 DEF MessageInv, TipIsOpen
    <2> QED
      BY <1>6, <2>1, <2>3
  <1> QED
    BY <1>2, <1>3, <1>4, <1>5, <1>7, <1>8, PeelOffQueue DEF MessageInv

-----------------------------------------------------------------------------
(* Whole messages.                                                         *)

\* Nothing was sent yet.
LEMMA MessageInit == Init => MessageInv
  <1> SUFFICES ASSUME Init PROVE MessageInv
    OBVIOUS
  <1>1. TypeOK
    BY TypeInit
  <1>2. /\ queue = <<>> /\ buf = <<>> /\ delivered = <<>> /\ cut = {}
        /\ \A a \in Assocs : sent[a] = <<>> /\ assoc[a] = "none"
    BY DEF Init
  <1>3. \A a : CutOf(cut, a) = {}
    BY <1>2 DEF CutOf
  <1>4. SentInOrder
    BY <1>2, <1>3 DEF SentInOrder, Ordered
  <1>5. QueueIsGood
    BY <1>2 DEF QueueIsGood
  <1>6. Stream = <<>>
    <2>1. Stream = (<<>> \o <<>>) \o <<>>
      BY <1>2, FlattenEmpty, DataOfEmpty DEF Stream
    <2>2. (<<>> \o <<>>) \o <<>> = <<>>
      OBVIOUS
    <2> QED
      BY <2>1, <2>2, Zenon
  <1>7. Chained(Stream, Gone) /\ TipIsOpen
    BY <1>6 DEF Chained, TipIsOpen, Startable
  <1>8. OpenIsAtTip
    BY <1>2 DEF OpenIsAtTip, Open
  <1>9. CutAtEnds(delivered, buf) /\ DeliveredIntact
    BY <1>2, FlattenEmpty DEF CutAtEnds, DeliveredIntact
  <1> QED
    BY <1>1, <1>4, <1>5, <1>7, <1>8, <1>9 DEF MessageInv

\* Every step keeps the messages in order.
LEMMA MessageNext == MessageInv /\ [Next]_vars => MessageInv'
  <1> SUFFICES ASSUME MessageInv, [Next]_vars PROVE MessageInv'
    OBVIOUS
  <1>1. TypeOK /\ TypeOK'
    BY TypeNext DEF MessageInv
  <1>2. ASSUME UNCHANGED <<assoc, queue, sent, cut, buf, delivered>>
        PROVE  MessageInv'
    <2>1. Gone' = Gone /\ Stream' = Stream
      BY <1>2 DEF Gone, Left, Stream
    <2>2. SentInOrder' /\ CutAtEnds(delivered, buf)'
      BY <1>2 DEF MessageInv, SentInOrder
    <2>3. QueueIsGood'
      BY <1>2 DEF MessageInv, QueueIsGood, Queueable, Left
    <2>4. OpenIsAtTip'
      BY <1>2, <2>1 DEF MessageInv, OpenIsAtTip, OnSocket, Open
    <2>5. TipIsOpen'
      BY <1>2, <2>1 DEF MessageInv, TipIsOpen, OnSocket, Open
    <2>6. Chained(Stream, Gone)' /\ DeliveredIntact'
      BY <1>2, <2>1 DEF MessageInv, DeliveredIntact
    <2> QED
      BY <1>1, <2>2, <2>3, <2>4, <2>5, <2>6 DEF MessageInv
  <1>3. ASSUME NEW a \in Assocs, PeeledRecv(a)
        PROVE  MessageInv'
    BY <1>2, <1>3 DEF PeeledRecv, kernelVars
  <1>4. CASE UNCHANGED <<assoc, queue, sent, cut, buf, delivered, peeled>>
    BY <1>2, <1>4
  <1> QED
    BY <1>1, <1>3, <1>4, MessageSteps, ReadKeepsMessages, DataKeepsMessages,
       PeelOffKeepsMessages, ChangeKeepsMessages

\* Every message that was returned is intact, in the property's words.
LEMMA IntactEnds == MessageInv => EndsInWholeMessage
  <1> SUFFICES ASSUME MessageInv, NEW i \in 1 .. Len(delivered)
               PROVE  LET p == delivered[i]
                          z == p[Len(p)]
                      IN \E n \in 0 .. Len(p) - 1 :
                           /\ Whole(SubSeq(p, n + 1, Len(p)))
                           /\ \A j \in 1 .. n :
                                /\ <<p[j].assoc, p[j].msg>> # <<z.assoc, z.msg>>
                                /\ \/ <<p[j].assoc, p[j].msg>> \in cut
                                   \/ assoc[p[j].assoc] \in {"peeled", "leaked"}
    BY DEF EndsInWholeMessage
  <1> DEFINE p == delivered[i]
  <1>1. IntactMessage(p, Gone)
    BY DEF MessageInv, DeliveredIntact
  <1> HIDE DEF p
  <1>2. PICK n \in 0 .. Len(p) - 1 :
          /\ Whole(SubSeq(p, n + 1, Len(p)))
          /\ \A j \in 1 .. n :
               p[j] \in Gone /\ <<p[j].assoc, p[j].msg>> # <<p[Len(p)].assoc, p[Len(p)].msg>>
    BY <1>1 DEF IntactMessage
  <1>3. \A j \in 1 .. n : \/ <<p[j].assoc, p[j].msg>> \in cut
                          \/ assoc[p[j].assoc] \in {"peeled", "leaked"}
    BY <1>2 DEF Gone, Left
  <1> QED
    BY <1>2, <1>3 DEF p

\* Whatever is lost, shut down or peeled off, and whoever reads: what a receive
\* returns ends in the whole of the message it names.
THEOREM ReceivesEndInWholeMessages == Spec => []EndsInWholeMessage
  BY MessageInit, MessageNext, IntactEnds, PTL DEF Spec

=============================================================================

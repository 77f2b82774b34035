----------------------- MODULE SctpAssociationProofs -----------------------
(***************************************************************************)
(* Theorems about SctpAssociation for every set of receivers and senders,  *)
(* every size of the buffers and every number and length of messages.      *)
(***************************************************************************)
EXTENDS SctpAssociation, ReassemblyProofs

-----------------------------------------------------------------------------
(* What the kernel queues and sends.                                       *)

\* The notifications of KernelSocket are records without data.
LEMMA KernelNotes ==
  /\ SendFailedNote \in Chunk /\ ~IsData(SendFailedNote)
  /\ ShutdownNote \in Chunk /\ ~IsData(ShutdownNote)
  /\ \A state \in Nat : ChangeNote(state) \in Chunk /\ ~IsData(ChangeNote(state))
  BY NoteType DEF SendFailedNote, ShutdownNote, ChangeNote, SCTP_SEND_FAILED,
       SCTP_SHUTDOWN_EVENT, SCTP_ASSOC_CHANGE, SCTP_SN_TYPE_BASE, AssocChangeSize, ShutdownSize

\* What the peer sends next is a piece.
LEMMA NextPieceType ==
  ASSUME KernelTypeOK, NEW last \in BOOLEAN
  PROVE  NextPiece(last) \in Piece
  <1> DEFINE p == sent[Len(sent)]
  <1>1. CASE sent # <<>>
    <2>1. p \in Piece
      BY <1>1 DEF KernelTypeOK
    <2>2. p.msg \in Nat /\ p.part \in Nat
      BY <2>1 DEF Piece
    <2> QED
      BY <1>1, <2>2 DEF NextPiece, Piece
  <1>2. CASE sent = <<>>
    BY <1>2 DEF KernelTypeOK, NextPiece, Piece
  <1> QED
    BY <1>1, <1>2

\* The messages cut short stay message numbers.
LEMMA CutType ==
  ASSUME KernelTypeOK, CutMessage
  PROVE  cut' \in SUBSET Nat
  <1>1. CASE mid
    <2>1. sent[Len(sent)] \in Piece
      BY <1>1 DEF KernelTypeOK
    <2>2. sent[Len(sent)].msg \in Nat
      BY <2>1 DEF Piece
    <2> QED
      BY <1>1, <2>2 DEF KernelTypeOK, CutMessage
  <1>2. CASE ~mid
    BY <1>2 DEF KernelTypeOK, CutMessage
  <1> QED
    BY <1>1, <1>2

-----------------------------------------------------------------------------
(* Type correctness.                                                       *)

\* The steps of the peer keep the kernel's types.
LEMMA EnvironmentTypes ==
  ASSUME TypeOK, Environment
  PROVE  TypeOK'
  <1> USE KernelAssumption
  <1> /\ KernelTypeOK /\ FdTypeOK
      /\ Signal /\ UNCHANGED crateVars
    BY DEF TypeOK, Environment, PeerData, PeerAcks, TtlExpires, PeerShutsDown,
         ShutdownCompletes, Fail, PeerRestarts
  <1>1. FdTypeOK'
    BY DEF Signal, FdTypeOK
  <1>2. KernelTypeOK'
    <2>1. ASSUME NEW last \in BOOLEAN, PeerData(last)
          PROVE  KernelTypeOK'
      <3> DEFINE p == NextPiece(last)
      <3>1. p \in Piece /\ Data(p) \in Chunk
        BY NextPieceType, DataType
      <3>2. queue' = Append(queue, Data(p)) /\ sent' = Append(sent, p) /\ mid' = ~last
        BY <2>1 DEF PeerData
      <3> QED
        BY <2>1, <3>1, <3>2 DEF PeerData, KernelTypeOK
    <2>2. CASE PeerAcks
      BY <2>2 DEF PeerAcks, peerVars, KernelTypeOK
    <2>3. CASE TtlExpires
      BY <2>3, KernelNotes DEF TtlExpires, peerVars, KernelTypeOK
    <2>4. CASE PeerShutsDown
      BY <2>4, KernelNotes DEF PeerShutsDown, peerVars, KernelTypeOK, AssocStates
    <2>5. CASE ShutdownCompletes
      BY <2>5, KernelNotes DEF ShutdownCompletes, peerVars, KernelTypeOK, AssocStates,
           SCTP_SHUTDOWN_COMP
    <2>6. CASE Fail
      <3>1. queue' \in Seq(Chunk)
        BY <2>6, KernelNotes DEF Fail, KernelTypeOK, SCTP_COMM_LOST
      <3>2. cut' \in SUBSET Nat
        BY <2>6, CutType DEF Fail
      <3> QED
        BY <2>6, <3>1, <3>2 DEF Fail, KernelTypeOK, AssocStates
    <2>7. CASE PeerRestarts
      <3>1. queue' \in Seq(Chunk)
        BY <2>7, KernelNotes DEF PeerRestarts, KernelTypeOK, SCTP_RESTART
      <3>2. cut' \in SUBSET Nat
        BY <2>7, CutType DEF PeerRestarts
      <3> QED
        BY <2>7, <3>1, <3>2 DEF PeerRestarts, KernelTypeOK
    <2> QED
      BY <2>1, <2>2, <2>3, <2>4, <2>5, <2>6, <2>7 DEF Environment
  <1> QED
    BY <1>1, <1>2 DEF TypeOK, crateVars

\* The steps of the reactor keep the types of the registration.
LEMMA ReactorTypes ==
  ASSUME TypeOK, ReactorHarvests \/ ReactorDispatches
  PROVE  TypeOK'
  <1>1. FromEpoll(PollEvents) \subseteq Readiness
    BY DEF FromEpoll
  <1>2. CASE ReactorHarvests
    BY <1>1, <1>2 DEF ReactorHarvests, Harvest, TypeOK, FdTypeOK, KernelTypeOK, kernelVars,
         crateVars
  <1>3. CASE ReactorDispatches
    <2>1. FdTypeOK'
      BY <1>3 DEF ReactorDispatches, Dispatch, TypeOK, FdTypeOK
    <2> QED
      BY <1>3, <2>1 DEF ReactorDispatches, TypeOK, KernelTypeOK, kernelVars, crateVars
  <1> QED
    BY <1>2, <1>3

\* A task waits for kinds of readiness that exist.
LEMMA InterestType == \A t \in Tasks : Interest(t) \subseteq Readiness
  BY DEF Interest, RecvInterest, SendInterest, ReadInterest, WriteInterest, ErrorInterest,
       Readiness

\* So do the steps in which a task only deals with its registration.
LEMMA WaitingTypes ==
  ASSUME TypeOK, NEW t \in Tasks,
         \/ RecvCall(t) \/ SendCall(t)
         \/ Ready(t) \/ Wait(t) \/ Woken(t) \/ Clear(t) \/ SendEnded(t) \/ Cancel(t)
  PROVE  TypeOK'
  <1> /\ UNCHANGED kernelVars
      /\ UNCHANGED <<ended, buf, delivered>>
    BY DEF RecvCall, SendCall, Call, Ready, Wait, Woken, Clear, SendEnded, Cancel, Enter,
      PollReady, PollPending, PollWoken, ClearAndLoop, DropCall, Jump, others
  <1>1. KernelTypeOK'
    BY DEF TypeOK, KernelTypeOK, kernelVars
  <1>2. FdTypeOK'
    BY InterestType DEF TypeOK, FdTypeOK, RecvCall, SendCall, Call, Ready, Wait, Woken, Clear,
      SendEnded, Cancel, TakeGuard, Park, WakeUp, ClearReady, Unpark, fdVars, Enter, PollReady,
      PollPending, PollWoken, ClearAndLoop, DropCall, Jump, others
  <1>3. /\ pc' \in [Tasks -> Pcs]
        /\ op' \in [Tasks -> RecvOps \cup SendOps \cup {"none"}]
    BY DEF TypeOK, RecvCall, SendCall, Call, Ready, Wait, Woken, Clear, SendEnded, Cancel, Goto,
      Return, Pcs, Enter, PollReady, PollPending, PollWoken, ClearAndLoop, DropCall, Jump,
      LoopPcs, others
  <1> QED
    BY <1>1, <1>2, <1>3 DEF TypeOK

\* A record read from the queue leaves everything typed.
LEMMA RecvTypes ==
  ASSUME TypeOK, NEW r \in Tasks,
         \/ RecvChunk(r) \/ RecvSocketError(r) \/ RecvEof(r) \/ RecvWouldBlock(r)
         \/ RecvBlocked(r) \/ RecvEnding(r)
  PROVE  TypeOK'
  <1>1. FdTypeOK'
    BY DEF TypeOK, FdTypeOK, RecvChunk, RecvSocketError, RecvEof, RecvWouldBlock, RecvBlocked,
      RecvEnding, DropGuard, fdVars, kernelVars, EndSeen, others
  <1>2. /\ pc' \in [Tasks -> Pcs]
        /\ op' \in [Tasks -> RecvOps \cup SendOps \cup {"none"}]
    BY DEF TypeOK, RecvChunk, RecvSocketError, RecvEof, RecvWouldBlock, RecvBlocked, RecvEnding,
      AfterNotification, Goto, Return, Pcs, EndSeen, Jump, LoopPcs, others
  <1>3. CASE RecvChunk(r)
    <2> DEFINE c == Head(queue)
    <2>1. c \in Chunk /\ Tail(queue) \in Seq(Chunk)
      BY <1>3 DEF RecvChunk, TypeOK, KernelTypeOK
    <2>2. /\ buf' = PushChunk(buf, c).buf
          /\ \/ delivered' = delivered
             \/ /\ PushChunk(buf, c).step = "Complete"
                /\ delivered' = Append(delivered, Payload(buf, c))
          /\ queue' = Tail(queue)
          /\ UNCHANGED <<assoc, skErr, rcvShut, sndShut, room, sent, mid, cut, ended>>
      BY <1>3 DEF RecvChunk, peerVars
    <2>3. buf' \in Seq(Piece)
      BY <2>1, <2>2, PushChunkType DEF TypeOK
    <2>4. delivered' \in Seq(Seq(Piece))
      <3>1. PushChunk(buf, c).step = "Complete" => Payload(buf, c) \in Seq(Piece)
        BY <2>1, PushChunkType DEF TypeOK
      <3>2. CASE delivered' = delivered
        BY <3>2 DEF TypeOK
      <3>3. CASE PushChunk(buf, c).step = "Complete"
                   /\ delivered' = Append(delivered, Payload(buf, c))
        <4> DEFINE S == Seq(Piece)
        <4>1. delivered \in Seq(S) /\ Payload(buf, c) \in S
          BY <3>1, <3>3 DEF TypeOK
        <4> HIDE DEF S
        <4>2. delivered' \in Seq(S)
          BY <3>3, <4>1, AppendType
        <4> QED
          BY <4>2 DEF S
      <3> QED
        BY <2>2, <3>2, <3>3
    <2> QED
      BY <1>1, <1>2, <2>1, <2>2, <2>3, <2>4 DEF TypeOK, KernelTypeOK
  <1>4. CASE ~RecvChunk(r)
    <2>1. /\ UNCHANGED <<assoc, queue, rcvShut, sndShut, room, sent, mid, cut, buf, delivered>>
          /\ skErr' \in BOOLEAN /\ ended' \in BOOLEAN
      BY <1>4 DEF TypeOK, KernelTypeOK, RecvSocketError, RecvEof, RecvWouldBlock, RecvBlocked,
        RecvEnding, kernelVars, peerVars, EndSeen, others
    <2> QED
      BY <1>1, <1>2, <2>1 DEF TypeOK, KernelTypeOK
  <1> QED
    BY <1>3, <1>4

\* A call of sctp_sendmsg leaves everything typed.
LEMMA SendTypes ==
  ASSUME TypeOK, NEW s \in Tasks,
         \/ SendTaken(s) \/ SendWouldBlock(s) \/ SendAbort(s) \/ SendEof(s) \/ SendFails(s)
  PROVE  TypeOK'
  <1> USE KernelAssumption
  <1>1. FdTypeOK'
    BY DEF TypeOK, FdTypeOK, SendTaken, SendWouldBlock, SendAbort, SendEof, SendFails, Fail,
      Signal, DropGuard, fdVars, others
  <1>2. /\ pc' \in [Tasks -> Pcs]
        /\ op' \in [Tasks -> RecvOps \cup SendOps \cup {"none"}]
        /\ UNCHANGED <<ended, buf, delivered>>
    BY DEF TypeOK, SendTaken, SendWouldBlock, SendAbort, SendEof, SendFails, Goto, Return, Pcs,
      Jump, LoopPcs, others
  <1>3. KernelTypeOK'
    <2>1. CASE SendTaken(s)
      BY <2>1 DEF SendTaken, TypeOK, KernelTypeOK, peerVars
    <2>2. CASE SendWouldBlock(s)
      BY <2>2 DEF SendWouldBlock, TypeOK, KernelTypeOK, kernelVars, others
    <2>3. CASE SendAbort(s)
      <3>1. Fail
        BY <2>3 DEF SendAbort
      <3>2. queue' \in Seq(Chunk)
        BY <3>1, KernelNotes DEF Fail, TypeOK, KernelTypeOK, SCTP_COMM_LOST
      <3>3. cut' \in SUBSET Nat
        BY <3>1, CutType DEF Fail, TypeOK
      <3> QED
        BY <3>1, <3>2, <3>3 DEF Fail, TypeOK, KernelTypeOK, AssocStates
    <2>4. CASE SendEof(s)
      BY <2>4 DEF SendEof, TypeOK, KernelTypeOK, AssocStates, peerVars
    <2>5. CASE SendFails(s)
      BY <2>5 DEF SendFails, SendRefused, TypeOK, KernelTypeOK, peerVars
    <2> QED
      BY <2>1, <2>2, <2>3, <2>4, <2>5
  <1> QED
    BY <1>1, <1>2, <1>3 DEF TypeOK

\* The types hold of a socket that was just made.
LEMMA TypeInit == Init => TypeOK
  <1> SUFFICES ASSUME Init PROVE TypeOK
    OBVIOUS
  <1> USE DEF Init
  <1>1. KernelTypeOK
    <2> DEFINE n == ChangeNote(SCTP_COMM_UP)
    <2>1. n \in Chunk
      BY KernelNotes DEF SCTP_COMM_UP
    <2>2. queue \in {<<>>, <<n>>}
      BY DEF KernelInit
    <2>3. queue \in Seq(Chunk)
      BY <2>1, <2>2, SingletonType
    <2>4. room \in 0 .. SndBuf
      BY KernelAssumption DEF KernelInit
    <2>5. sent \in Seq(Piece) /\ (mid => sent # <<>>) /\ cut \in SUBSET Nat
      BY DEF KernelInit
    <2> QED
      BY <2>3, <2>4, <2>5 DEF KernelInit, KernelTypeOK, AssocStates
  <1>2. FdTypeOK
    BY DEF FdInit, FdCached, FromEpoll, FdTypeOK
  <1>3. buf \in Seq(Piece) /\ delivered \in Seq(Seq(Piece))
    <2> DEFINE S == Seq(Piece)
    <2>1. <<>> \in Seq(Piece)
      OBVIOUS
    <2> HIDE DEF S
    <2>2. <<>> \in Seq(S)
      OBVIOUS
    <2> QED
      BY <2>1, <2>2 DEF S
  <1> QED
    BY <1>1, <1>2, <1>3 DEF TypeOK, Pcs, LoopPcs

\* Every step keeps the types.
LEMMA TypeNext == TypeOK /\ [Next]_vars => TypeOK'
  <1> SUFFICES ASSUME TypeOK, [Next]_vars PROVE TypeOK'
    OBVIOUS
  <1> USE TasksAssumption
  <1>1. CASE Environment
    BY <1>1, EnvironmentTypes
  <1>2. CASE ReactorHarvests \/ ReactorDispatches
    BY <1>2, ReactorTypes
  <1>3. CASE Shutdown
    BY <1>3 DEF Shutdown, ShutdownWrite, Signal, peerVars, crateVars, TypeOK, KernelTypeOK,
         AssocStates, FdTypeOK
  <1>4. ASSUME NEW r \in Receivers, RecvCall(r) \/ RecvStep(r)
        PROVE  TypeOK'
    BY <1>4, WaitingTypes, RecvTypes DEF RecvStep
  <1>5. ASSUME NEW s \in Senders, SendCall(s) \/ SendStep(s)
        PROVE  TypeOK'
    BY <1>5, WaitingTypes, SendTypes DEF SendStep
  <1>6. ASSUME NEW t \in Tasks, Cancel(t)
        PROVE  TypeOK'
    BY <1>6, WaitingTypes
  <1>7. CASE UNCHANGED vars
    BY <1>7 DEF vars, kernelVars, fdVars, crateVars, TypeOK, KernelTypeOK, FdTypeOK
  <1> QED
    BY <1>1, <1>2, <1>3, <1>4, <1>5, <1>6, <1>7 DEF Next

\* Every reachable state of the association, its socket and its registration
\* is well typed: the send buffer is never over- or underfilled, the queue
\* holds records and a task is at a place of the code.
THEOREM TypeCorrect == Spec => []TypeOK
  BY TypeInit, TypeNext, PTL DEF Spec

-----------------------------------------------------------------------------
(* No wakeup is lost.                                                      *)

Wakeup == Signalled /\ ClearIsSafe /\ ParkedUnready

\* Tasks of different kinds wait for different readiness.
LEMMA Interests ==
  ASSUME NEW t \in Tasks, NEW u \in Tasks
  PROVE  \/ Interest(t) = Interest(u) /\ (Reason(t) <=> Reason(u))
         \/ Interest(t) \cap Interest(u) = {}
  BY TasksAssumption DEF Interest, Reason, RecvInterest, SendInterest, ReadInterest,
       WriteInterest, ErrorInterest

\* A step that signals the socket cannot lose a wakeup.
LEMMA SignalKeepsWakeup ==
  ASSUME WakeupInv, Signal, UNCHANGED pc
  PROVE  Wakeup'
  BY DEF WakeupInv, Wakeup, Signalled, ClearIsSafe, ParkedUnready, Signal, Interest

\* Nor can a step of one task that gives nobody a new reason to run, leaves
\* what is signalled alone, and does not bring the task to a clear unless it
\* has seen that there is nothing.
LEMMA QuietKeepsWakeup ==
  ASSUME WakeupInv, NEW t \in Tasks,
         UNCHANGED <<edge, event, ready>>,
         \A u \in Tasks : Reason(u)' => Reason(u),
         \A u \in Tasks \ {t} :
           pc'[u] = pc[u] /\ fresh'[u] = fresh[u] /\ waiting'[u] = waiting[u],
         \/ pc'[t] \notin {"blocked", "clear"}
         \/ ~Reason(t)'
         \/ pc[t] \in {"blocked", "clear"} /\ fresh'[t] = fresh[t],
         \/ waiting'[t] = {}
         \/ pc'[t] = "wait" /\ waiting'[t] = Interest(t) /\ ready \cap Interest(t) = {}
  PROVE  Wakeup'
  <1>1. Signalled'
    BY DEF WakeupInv, Signalled, Interest
  <1>2. ClearIsSafe'
    BY DEF WakeupInv, ClearIsSafe, Interest
  <1>3. ParkedUnready'
    BY DEF WakeupInv, ParkedUnready, Interest
  <1> QED
    BY <1>1, <1>2, <1>3 DEF Wakeup

\* What epoll reports covers every reason to run.
LEMMA HarvestCoversReasons ==
  ASSUME TypeOK, NEW t \in Tasks, Reason(t)
  PROVE  FromEpoll(PollEvents) \cap Interest(t) # {}
  <1>1. CASE t \in Receivers
    <2>1. "IN" \in PollEvents
      BY <1>1 DEF Reason, Readable, PollEvents, EpollEvents
    <2>2. "READABLE" \in FromEpoll(PollEvents)
      BY <2>1 DEF FromEpoll, Readiness
    <2> QED
      BY <1>1, <2>2 DEF Interest, RecvInterest, ReadInterest
  <1>2. CASE t \notin Receivers /\ room > 0
    <2>1. "OUT" \in PollEvents
      BY <1>2 DEF PollEvents, EpollEvents
    <2>2. "WRITABLE" \in FromEpoll(PollEvents)
      BY <2>1 DEF FromEpoll, Readiness
    <2> QED
      BY <1>2, <2>2 DEF Interest, SendInterest, WriteInterest
  <1>3. CASE t \notin Receivers /\ skErr
    <2>1. "ERR" \in PollEvents
      BY <1>3 DEF PollEvents, EpollEvents
    <2>2. "ERROR" \in FromEpoll(PollEvents)
      BY <2>1 DEF FromEpoll, Readiness
    <2> QED
      BY <1>3, <2>2 DEF Interest, SendInterest, ErrorInterest
  <1> QED
    BY <1>1, <1>2, <1>3 DEF Reason

\* The reactor moves what is signalled to an event and on to the cache, where
\* it wakes every task that waits for it: nothing is lost on the way.
LEMMA ReactorKeepsWakeup ==
  ASSUME WakeupInv, ReactorHarvests \/ ReactorDispatches
  PROVE  Wakeup'
  <1> /\ \A u \in Tasks : Reason(u)' <=> Reason(u)
      /\ UNCHANGED pc
    BY DEF ReactorHarvests, ReactorDispatches, Reason, Readable, kernelVars, crateVars
  <1>1. CASE ReactorHarvests
    <2>1. event' = FromEpoll(PollEvents) /\ UNCHANGED <<ready, fresh, waiting>>
      BY <1>1 DEF ReactorHarvests, Harvest
    <2>2. \A u \in Tasks : Reason(u) => event' \cap Interest(u) # {}
      BY <2>1, HarvestCoversReasons DEF WakeupInv
    <2> QED
      BY <2>1, <2>2 DEF WakeupInv, Wakeup, Signalled, ClearIsSafe, ParkedUnready, Interest
  <1>2. CASE ReactorDispatches
    <2>1. /\ ready' = ready \cup event /\ event' = {} /\ UNCHANGED edge
          /\ \A u \in Tasks : fresh'[u] = FALSE
          /\ \A u \in Tasks :
               waiting'[u] = IF waiting[u] \cap event # {} THEN {} ELSE waiting[u]
      BY <1>2 DEF ReactorDispatches, Dispatch
    <2>2. Signalled'
      BY <2>1 DEF WakeupInv, Signalled, Interest
    <2>3. ClearIsSafe'
      BY <2>1 DEF ClearIsSafe
    <2>4. ParkedUnready'
      BY <2>1 DEF WakeupInv, ParkedUnready, Interest
    <2> QED
      BY <2>2, <2>3, <2>4 DEF Wakeup
  <1> QED
    BY <1>1, <1>2

\* clear_ready() removes readiness of the tick the task saw, and what came
\* after its look at the socket is still signalled or harvested.
LEMMA ClearKeepsWakeup ==
  ASSUME WakeupInv, NEW t \in Tasks, Clear(t)
  PROVE  Wakeup'
  <1>1. /\ pc[t] = "clear" /\ pc' = [pc EXCEPT ![t] = "poll"]
        /\ ready' = IF fresh[t] THEN ready \ (Interest(t) \ {"READ_CLOSED", "WRITE_CLOSED"})
                                ELSE ready
        /\ fresh' = [fresh EXCEPT ![t] = FALSE]
        /\ UNCHANGED <<edge, event, waiting>>
    BY DEF Clear, ClearReady, Goto, ClearAndLoop, Jump, others
  <1>2. \A u \in Tasks : Reason(u)' <=> Reason(u)
    BY DEF Clear, Reason, Readable, kernelVars, ClearAndLoop, Jump, others
  <1>3. Signalled'
    <2> SUFFICES ASSUME NEW u \in Tasks, Reason(u)
                 PROVE  edge \/ (event \cup ready') \cap Interest(u) # {}
      BY <1>1, <1>2 DEF Signalled, Interest
    <2>1. edge \/ (event \cup ready) \cap Interest(u) # {}
      BY DEF WakeupInv, Signalled
    <2>2. CASE ~fresh[t] \/ Interest(t) \cap Interest(u) = {}
      BY <1>1, <2>1, <2>2
    <2>3. CASE fresh[t] /\ Interest(t) = Interest(u) /\ (Reason(t) <=> Reason(u))
      BY <1>1, <2>3 DEF WakeupInv, ClearIsSafe
    <2> QED
      BY <2>2, <2>3, Interests
  <1>4. ClearIsSafe'
    BY <1>1, <1>2 DEF WakeupInv, TypeOK, FdTypeOK, ClearIsSafe, Interest
  <1>5. ParkedUnready'
    BY <1>1 DEF WakeupInv, TypeOK, ParkedUnready, Interest
  <1> QED
    BY <1>3, <1>4, <1>5 DEF Wakeup

\* Calls, waits and returns of a task that change nothing in the kernel.
LEMMA WaitingKeepsWakeup ==
  ASSUME WakeupInv, NEW t \in Tasks,
         \/ RecvCall(t) \/ SendCall(t)
         \/ Ready(t) \/ Wait(t) \/ Woken(t) \/ SendEnded(t) \/ Cancel(t)
         \/ RecvEof(t) \/ RecvEnding(t)
  PROVE  Wakeup'
  <1>1. \A u \in Tasks : Reason(u)' => Reason(u)
    BY DEF RecvCall, SendCall, Call, Ready, Wait, Woken, SendEnded, Cancel, RecvEof, RecvEnding,
      Reason, Readable, kernelVars, Enter, PollReady, PollPending, PollWoken, DropCall, Jump,
      others
  <1>2. UNCHANGED <<edge, event, ready>>
    BY DEF RecvCall, SendCall, Call, Ready, Wait, Woken, SendEnded, Cancel, RecvEof, RecvEnding,
      TakeGuard, Park, WakeUp, Unpark, DropGuard, fdVars, Enter, PollReady, PollPending,
      PollWoken, DropCall, Jump, others
  <1>3. \A u \in Tasks \ {t} :
          pc'[u] = pc[u] /\ fresh'[u] = fresh[u] /\ waiting'[u] = waiting[u]
    BY DEF WakeupInv, TypeOK, FdTypeOK, RecvCall, SendCall, Call, Ready, Wait, Woken, SendEnded,
      Cancel, RecvEof, RecvEnding, AfterNotification, Goto, Return, TakeGuard, Park, WakeUp,
      Unpark, DropGuard, fdVars, Enter, PollReady, PollPending, PollWoken, DropCall, Jump, others
  <1>4. pc'[t] \notin {"blocked", "clear"}
    BY DEF WakeupInv, TypeOK, RecvCall, SendCall, Call, Ready, Wait, Woken, SendEnded, Cancel,
      RecvEof, RecvEnding, AfterNotification, Goto, Return, Enter, PollReady, PollPending,
      PollWoken, DropCall, Jump, others
  <1>5. \/ waiting'[t] = {}
        \/ pc'[t] = "wait" /\ waiting'[t] = Interest(t) /\ ready \cap Interest(t) = {}
    <2>1. CASE Wait(t)
      BY <2>1 DEF WakeupInv, TypeOK, FdTypeOK, Wait, Park, Goto, PollPending, Jump, others
    <2>2. CASE SendEnded(t) \/ Cancel(t)
      BY <2>2 DEF WakeupInv, TypeOK, FdTypeOK, SendEnded, Cancel, Unpark, DropCall, Jump, others
    <2>3. CASE Woken(t)
      BY <2>3 DEF Woken, WakeUp, PollWoken, Jump, others
    <2>4. CASE RecvCall(t) \/ SendCall(t) \/ Ready(t) \/ RecvEof(t) \/ RecvEnding(t)
      <3>1. pc[t] # "wait" /\ UNCHANGED waiting
        BY <2>4 DEF RecvCall, SendCall, Call, Ready, RecvEof, RecvEnding, TakeGuard, DropGuard,
          fdVars, Enter, PollReady, Jump, others
      <3> QED
        BY <3>1 DEF WakeupInv, ParkedUnready
    <2> QED
      BY <2>1, <2>2, <2>3, <2>4
  <1> QED
    BY <1>1, <1>2, <1>3, <1>4, <1>5, QuietKeepsWakeup

\* The other steps of a receive: it reads a record, takes the socket error or
\* finds nothing.
LEMMA RecvKeepsWakeup ==
  ASSUME WakeupInv, NEW r \in Receivers,
         RecvChunk(r) \/ RecvSocketError(r) \/ RecvWouldBlock(r) \/ RecvBlocked(r)
  PROVE  Wakeup'
  <1> r \in Tasks
    BY TasksAssumption
  <1>1. \A u \in Tasks : Reason(u)' => Reason(u)
    BY DEF RecvChunk, RecvSocketError, RecvWouldBlock, RecvBlocked, Reason, Readable,
      kernelVars, EndSeen, others
  <1>2. UNCHANGED <<edge, event, ready, waiting>>
    BY DEF RecvChunk, RecvSocketError, RecvWouldBlock, RecvBlocked, DropGuard, fdVars, EndSeen,
      others
  <1>3. \A u \in Tasks \ {r} :
          pc'[u] = pc[u] /\ fresh'[u] = fresh[u] /\ waiting'[u] = waiting[u]
    BY <1>2 DEF WakeupInv, TypeOK, FdTypeOK, RecvChunk, RecvSocketError, RecvWouldBlock,
      RecvBlocked, AfterNotification, Goto, Return, DropGuard, fdVars, EndSeen, Jump, others
  <1>4. \/ pc'[r] \notin {"blocked", "clear"}
        \/ ~Reason(r)'
        \/ pc[r] \in {"blocked", "clear"} /\ fresh'[r] = fresh[r]
    <2>1. CASE RecvChunk(r) \/ RecvSocketError(r)
      BY <2>1 DEF WakeupInv, TypeOK, RecvChunk, RecvSocketError, AfterNotification, Goto,
        Return, Jump
    <2>2. CASE RecvWouldBlock(r)
      BY <2>2 DEF RecvWouldBlock, Reason, Readable, kernelVars, others
    <2>3. CASE RecvBlocked(r)
      BY <2>3 DEF WakeupInv, TypeOK, RecvBlocked, Goto, Return, fdVars, EndSeen, Jump, others
    <2> QED
      BY <2>1, <2>2, <2>3
  <1>5. waiting'[r] = {}
    <2>1. pc[r] # "wait"
      BY DEF RecvChunk, RecvSocketError, RecvWouldBlock, RecvBlocked, EndSeen, others
    <2> QED
      BY <1>2, <2>1 DEF WakeupInv, ParkedUnready
  <1> QED
    BY <1>1, <1>2, <1>3, <1>4, <1>5, QuietKeepsWakeup

\* The steps of a send at the kernel, but for the abort.
LEMMA SendKeepsWakeup ==
  ASSUME WakeupInv, NEW s \in Senders,
         SendTaken(s) \/ SendWouldBlock(s) \/ SendEof(s) \/ SendFails(s)
  PROVE  Wakeup'
  <1> s \in Tasks /\ s \notin Receivers
    BY TasksAssumption
  <1>1. \A u \in Tasks : Reason(u)' => Reason(u)
    BY KernelAssumption DEF WakeupInv, TypeOK, KernelTypeOK, SendTaken, SendWouldBlock, SendEof,
      SendFails, SendRefused, Reason, Readable, kernelVars, others
  <1>2. UNCHANGED <<edge, event, ready, waiting>>
    BY DEF SendTaken, SendWouldBlock, SendEof, SendFails, DropGuard, fdVars, others
  <1>3. \A u \in Tasks \ {s} :
          pc'[u] = pc[u] /\ fresh'[u] = fresh[u] /\ waiting'[u] = waiting[u]
    BY <1>2 DEF WakeupInv, TypeOK, FdTypeOK, SendTaken, SendWouldBlock, SendEof, SendFails,
      Goto, Return, DropGuard, fdVars, Jump, others
  <1>4. pc'[s] \notin {"blocked", "clear"} \/ ~Reason(s)'
    <2>1. CASE SendWouldBlock(s)
      BY <2>1 DEF WakeupInv, ErrorMeansOver, SendWouldBlock, Reason, kernelVars, others
    <2>2. CASE SendTaken(s) \/ SendEof(s) \/ SendFails(s)
      BY <2>2 DEF WakeupInv, TypeOK, SendTaken, SendEof, SendFails, Return, Jump
    <2> QED
      BY <2>1, <2>2
  <1>5. waiting'[s] = {}
    <2>1. pc[s] # "wait"
      BY DEF SendTaken, SendWouldBlock, SendEof, SendFails, others
    <2> QED
      BY <1>2, <2>1 DEF WakeupInv, ParkedUnready
  <1> QED
    BY <1>1, <1>2, <1>3, <1>4, <1>5, QuietKeepsWakeup

\* An abort fails the association, which signals the socket.
LEMMA AbortKeepsWakeup ==
  ASSUME WakeupInv, NEW s \in Tasks, SendAbort(s)
  PROVE  Wakeup'
  <1>1. /\ edge' = TRUE /\ UNCHANGED <<event, ready, fresh, waiting>>
        /\ pc[s] = "step" /\ pc' = [pc EXCEPT ![s] = "idle"]
    BY DEF SendAbort, Fail, Signal, Return, Jump
  <1> QED
    BY <1>1 DEF WakeupInv, TypeOK, Wakeup, Signalled, ClearIsSafe, ParkedUnready, Interest

\* Only a failure of the association sets the socket error.
LEMMA ErrorMeansOverNext ==
  ASSUME WakeupInv, [Next]_vars
  PROVE  ErrorMeansOver'
  <1> USE DEF ErrorMeansOver, WakeupInv
  <1>1. CASE Environment
    BY <1>1 DEF Environment, PeerData, PeerAcks, TtlExpires, PeerShutsDown, ShutdownCompletes,
         Fail, PeerRestarts
  <1>2. CASE ReactorHarvests \/ ReactorDispatches \/ UNCHANGED vars
    BY <1>2 DEF ReactorHarvests, ReactorDispatches, vars, kernelVars
  <1>3. CASE Shutdown
    BY <1>3 DEF Shutdown, ShutdownWrite
  <1>4. ASSUME NEW r \in Receivers, RecvCall(r) \/ RecvStep(r)
        PROVE  ErrorMeansOver'
    BY <1>4 DEF RecvCall, Call, RecvStep, Ready, Wait, Woken, Clear, RecvChunk, RecvSocketError,
      RecvEof, RecvWouldBlock, RecvBlocked, RecvEnding, kernelVars, Enter, PollReady, PollPending,
      PollWoken, ClearAndLoop, EndSeen, Jump, others
  <1>5. ASSUME NEW s \in Senders, SendCall(s) \/ SendStep(s)
        PROVE  ErrorMeansOver'
    BY <1>5 DEF SendCall, Call, SendStep, Ready, Wait, Woken, Clear, SendEnded, SendTaken,
      SendWouldBlock, SendAbort, Fail, SendEof, SendFails, SendRefused, kernelVars, Enter,
      PollReady, PollPending, PollWoken, ClearAndLoop, Jump, others
  <1>6. ASSUME NEW t \in Tasks, Cancel(t)
        PROVE  ErrorMeansOver'
    BY <1>6 DEF Cancel, kernelVars, DropCall, Jump, others
  <1> QED
    BY <1>1, <1>2, <1>3, <1>4, <1>5, <1>6 DEF Next

\* The invariant of the wakeups holds of a fresh registration and of the one
\* connect leaves.
LEMMA WakeupInit == Init => WakeupInv
  <1> SUFFICES ASSUME Init PROVE WakeupInv
    OBVIOUS
  <1>1. TypeOK
    BY TypeInit
  <1>2. (skErr => assoc = "over") /\ \A t \in Tasks : waiting[t] = {} /\ pc[t] = "idle"
    BY DEF Init, FdInit, FdCached, KernelInit
  <1>3. edge \/ ready = FromEpoll(PollEvents)
    BY DEF Init, FdInit, FdCached
  <1> QED
    BY <1>1, <1>2, <1>3, HarvestCoversReasons DEF WakeupInv, Signalled, ClearIsSafe, ParkedUnready, ErrorMeansOver

\* Every step keeps the invariant of the wakeups.
LEMMA WakeupNext == WakeupInv /\ [Next]_vars => WakeupInv'
  <1> SUFFICES ASSUME WakeupInv, [Next]_vars PROVE WakeupInv'
    OBVIOUS
  <1>1. TypeOK'
    BY TypeNext DEF WakeupInv
  <1>2. ErrorMeansOver'
    BY ErrorMeansOverNext
  <1>3. Wakeup'
    <2>1. CASE Environment
      <3>1. Signal /\ UNCHANGED pc
        BY <2>1 DEF Environment, PeerData, PeerAcks, TtlExpires, PeerShutsDown,
             ShutdownCompletes, Fail, PeerRestarts, crateVars
      <3> QED
        BY <3>1, SignalKeepsWakeup
    <2>2. CASE ReactorHarvests \/ ReactorDispatches
      BY <2>2, ReactorKeepsWakeup
    <2>3. CASE Shutdown
      <3>1. Signal /\ UNCHANGED pc
        BY <2>3 DEF Shutdown, ShutdownWrite, crateVars
      <3> QED
        BY <3>1, SignalKeepsWakeup
    <2>4. ASSUME NEW r \in Receivers, RecvCall(r) \/ RecvStep(r)
          PROVE  Wakeup'
      BY <2>4, TasksAssumption, WaitingKeepsWakeup, ClearKeepsWakeup, RecvKeepsWakeup
         DEF RecvStep
    <2>5. ASSUME NEW s \in Senders, SendCall(s) \/ SendStep(s)
          PROVE  Wakeup'
      BY <2>5, TasksAssumption, WaitingKeepsWakeup, ClearKeepsWakeup, SendKeepsWakeup,
         AbortKeepsWakeup DEF SendStep
    <2>6. ASSUME NEW t \in Tasks, Cancel(t)
          PROVE  Wakeup'
      BY <2>6, WaitingKeepsWakeup
    <2>7. CASE UNCHANGED vars
      BY <2>7 DEF vars, kernelVars, fdVars, crateVars, WakeupInv, Wakeup, Signalled, ClearIsSafe,
           ParkedUnready, Reason, Readable, Interest
    <2> QED
      BY <2>1, <2>2, <2>3, <2>4, <2>5, <2>6, <2>7 DEF Next
  <1> QED
    BY <1>1, <1>2, <1>3 DEF WakeupInv, Wakeup

\* A receive parked on a readable socket, or a send parked with room or a
\* socket error, always has its wakeup under way: the edge-triggered
\* readiness, cleared by any number of tasks between their system calls, never
\* swallows what the kernel signalled.
THEOREM WakeupsAreKept == Spec => []NoLostWakeup
  <1>1. WakeupInv => NoLostWakeup
    BY DEF WakeupInv, NoLostWakeup, Signalled, ParkedUnready
  <1> QED
    BY <1>1, WakeupInit, WakeupNext, PTL DEF Spec

-----------------------------------------------------------------------------
(* The end of an association.                                              *)

\* Of the notifications the kernel queues, these do not end the association.
LEMMA NotEnding ==
  /\ ~IsEnding(SendFailedNote)
  /\ ~IsEnding(ShutdownNote)
  /\ ~IsEnding(ChangeNote(SCTP_RESTART))
  /\ ~IsEnding(ChangeNote(SCTP_COMM_UP))
  BY DEF IsEnding, Ends, ParseNotification, AssocChangeState, Unknown, Note, Raw,
       SendFailedNote, ShutdownNote, ChangeNote, HeaderSize, AssocChangeSize, ShutdownSize,
       SCTP_SEND_FAILED, SCTP_SHUTDOWN_EVENT, SCTP_ASSOC_CHANGE, SCTP_SN_TYPE_BASE,
       SCTP_RESTART, SCTP_COMM_UP, SCTP_COMM_LOST, SCTP_SHUTDOWN_COMP, SCTP_CANT_STR_ASSOC

End == EndingIsLast /\ EndingMeansOver /\ EndedMeansOver

\* While the association is not over, no end is queued, taken or recorded.
LEMMA NotOver ==
  ASSUME EndInv, assoc # "over"
  PROVE  /\ \A i \in 1 .. Len(queue) : ~IsEnding(queue[i])
         /\ \A t \in Tasks : pc[t] # "ending"
         /\ ~ended
  BY DEF EndInv, EndingIsLast, EndingMeansOver, EndedMeansOver

\* A step that leaves the queue alone, and records only an end that a task
\* has taken.
LEMMA QueueKept ==
  ASSUME EndInv, UNCHANGED queue,
         assoc = "over" => assoc' = "over",
         \A t \in Tasks : pc'[t] = "ending" => pc[t] = "ending",
         ended' => ended \/ \E t \in Tasks : pc[t] = "ending"
  PROVE  End'
  BY DEF EndInv, End, EndingIsLast, EndingMeansOver, EndedMeansOver, NoData

\* A notification is queued.
LEMMA NoteQueued ==
  ASSUME EndInv, NEW n \in Chunk, ~IsData(n),
         queue' = Append(queue, n),
         IsEnding(n) => assoc' = "over",
         assoc = "over" => assoc' = "over",
         UNCHANGED <<pc, ended>>
  PROVE  End'
  <1> /\ queue \in Seq(Chunk)
      /\ Len(queue') = Len(queue) + 1
      /\ \A i \in 1 .. Len(queue) : queue'[i] = queue[i]
      /\ queue'[Len(queue) + 1] = n
    BY DEF EndInv, TypeOK, KernelTypeOK
  <1> Len(queue) \in Nat
    OBVIOUS
  <1>1. EndingIsLast'
    BY DEF EndInv, EndingIsLast
  <1>2. NoData(queue) => NoData(queue')
    BY DEF NoData
  <1> QED
    BY <1>1, <1>2 DEF EndInv, End, EndingMeansOver, EndedMeansOver

\* Data is queued, which happens only while the association is not over.
LEMMA DataQueued ==
  ASSUME EndInv, NEW last \in BOOLEAN, PeerData(last), UNCHANGED crateVars
  PROVE  End'
  <1> DEFINE d == Data(NextPiece(last))
  <1>1. d \in Chunk /\ IsData(d)
    BY NextPieceType, DataType DEF EndInv, TypeOK
  <1>2. queue \in Seq(Chunk) /\ queue' = Append(queue, d) /\ assoc # "over"
    BY DEF EndInv, TypeOK, KernelTypeOK, PeerData
  <1> HIDE DEF d
  <1>3. \A i \in 1 .. Len(queue') : ~IsEnding(queue'[i])
    BY <1>1, <1>2, NotOver DEF IsEnding
  <1> QED
    BY <1>2, <1>3, NotOver DEF End, EndingIsLast, EndingMeansOver, EndedMeansOver, crateVars

\* The association fails.
LEMMA FailureQueued ==
  ASSUME EndInv, Fail, \A t \in Tasks : pc'[t] # "ending", UNCHANGED ended
  PROVE  End'
  <1> DEFINE q == IF room < SndBuf THEN Append(queue, SendFailedNote) ELSE queue
             n == ChangeNote(SCTP_COMM_LOST)
  <1>1. queue \in Seq(Chunk) /\ SendFailedNote \in Chunk /\ n \in Chunk /\ ~IsData(n)
    BY KernelNotes DEF EndInv, TypeOK, KernelTypeOK, SCTP_COMM_LOST
  <1>2. q \in Seq(Chunk)
    BY <1>1
  <1>3. queue' = Append(q, n) /\ assoc # "over" /\ assoc' = "over"
    BY DEF Fail
  <1>4. \A i \in 1 .. Len(q) : ~IsEnding(q[i])
    BY <1>1, <1>3, NotOver, NotEnding
  <1> HIDE DEF q, n
  <1>5. EndingIsLast'
    BY <1>1, <1>2, <1>3, <1>4 DEF EndingIsLast
  <1> QED
    BY <1>3, <1>5, NotOver DEF End, EndingMeansOver, EndedMeansOver

\* A record is read: behind a notification that ends the association there
\* is no data.
LEMMA ChunkTaken ==
  ASSUME EndInv, NEW r \in Tasks, RecvChunk(r)
  PROVE  End'
  <1> DEFINE c == Head(queue)
  <1>1. /\ queue \in Seq(Chunk) /\ queue # <<>>
        /\ queue' = Tail(queue)
        /\ UNCHANGED <<assoc, ended>>
        /\ \A t \in Tasks : pc'[t] = "ending" => pc[t] = "ending" \/ IsEnding(c)
    BY DEF EndInv, TypeOK, KernelTypeOK, RecvChunk, AfterNotification, Goto, Return, Jump
  <1>2. /\ Len(queue) \in Nat /\ Len(queue) >= 1
        /\ Len(queue') = Len(queue) - 1
        /\ \A i \in 1 .. Len(queue') : queue'[i] = queue[i + 1]
        /\ c = queue[1]
    BY <1>1
  <1>3. EndingIsLast'
    BY <1>1, <1>2 DEF EndInv, EndingIsLast
  <1>4. NoData(queue) => NoData(queue')
    BY <1>2 DEF NoData
  <1>5. IsEnding(c) => assoc = "over" /\ NoData(queue')
    BY <1>2 DEF EndInv, EndingIsLast, NoData
  <1> QED
    BY <1>1, <1>3, <1>4, <1>5 DEF EndInv, End, EndingMeansOver, EndedMeansOver

\* The invariant of the end holds of an association that is up.
LEMMA EndInit == Init => EndInv
  <1> SUFFICES ASSUME Init PROVE EndInv
    OBVIOUS
  <1>1. TypeOK
    BY TypeInit
  <1>2. \A i \in 1 .. Len(queue) : ~IsEnding(queue[i])
    BY NotEnding DEF Init, KernelInit
  <1> QED
    BY <1>1, <1>2 DEF Init, EndInv, EndingIsLast, EndingMeansOver, EndedMeansOver

\* The peer and the network queue nothing behind an end but notifications.
LEMMA EnvironmentKeepsEnd ==
  ASSUME EndInv, Environment
  PROVE  End'
  <1> UNCHANGED crateVars
    BY DEF Environment
  <1>1. CASE \E last \in BOOLEAN : PeerData(last)
    BY <1>1, DataQueued
  <1>2. CASE PeerAcks
    BY <1>2, QueueKept DEF PeerAcks, crateVars
  <1>3. CASE TtlExpires
    BY <1>3, NoteQueued, KernelNotes, NotEnding DEF TtlExpires, crateVars
  <1>4. CASE PeerShutsDown
    BY <1>4, NoteQueued, KernelNotes, NotEnding DEF PeerShutsDown, crateVars
  <1>5. CASE ShutdownCompletes
    <2>1. ChangeNote(SCTP_SHUTDOWN_COMP) \in Chunk /\ ~IsData(ChangeNote(SCTP_SHUTDOWN_COMP))
      BY KernelNotes DEF SCTP_SHUTDOWN_COMP
    <2> QED
      BY <1>5, <2>1, NoteQueued DEF ShutdownCompletes, crateVars
  <1>6. CASE Fail
    BY <1>6, FailureQueued, NotOver DEF Fail, crateVars
  <1>7. CASE PeerRestarts
    <2>1. ChangeNote(SCTP_RESTART) \in Chunk /\ ~IsData(ChangeNote(SCTP_RESTART))
      BY KernelNotes DEF SCTP_RESTART
    <2> QED
      BY <1>7, <2>1, NoteQueued, NotEnding DEF PeerRestarts, crateVars
  <1> QED
    BY <1>1, <1>2, <1>3, <1>4, <1>5, <1>6, <1>7 DEF Environment

\* Every step of a task but the read of a record and the abort.
LEMMA TaskKeepsEnd ==
  ASSUME EndInv, NEW t \in Tasks,
         \/ RecvCall(t) \/ SendCall(t) \/ Cancel(t)
         \/ Ready(t) \/ Wait(t) \/ Woken(t) \/ Clear(t) \/ SendEnded(t)
         \/ RecvSocketError(t) \/ RecvEof(t) \/ RecvWouldBlock(t) \/ RecvBlocked(t)
         \/ RecvEnding(t)
         \/ SendTaken(t) \/ SendWouldBlock(t) \/ SendEof(t) \/ SendFails(t)
  PROVE  End'
  <1>1. UNCHANGED queue /\ (assoc = "over" => assoc' = "over")
    BY DEF RecvCall, SendCall, Call, Cancel, Ready, Wait, Woken, Clear, SendEnded,
      RecvSocketError, RecvEof, RecvWouldBlock, RecvBlocked, RecvEnding, SendTaken,
      SendWouldBlock, SendEof, SendFails, SendRefused, kernelVars, Enter, DropCall, PollReady,
      PollPending, PollWoken, ClearAndLoop, EndSeen, Jump, others
  <1>2. \A u \in Tasks : pc'[u] = "ending" => pc[u] = "ending"
    BY DEF EndInv, TypeOK, RecvCall, SendCall, Call, Cancel, Ready, Wait, Woken, Clear,
      SendEnded, RecvSocketError, RecvEof, RecvWouldBlock, RecvBlocked, RecvEnding, SendTaken,
      SendWouldBlock, SendEof, SendFails, AfterNotification, Goto, Return, Enter, DropCall,
      PollReady, PollPending, PollWoken, ClearAndLoop, EndSeen, Jump, others
  <1>3. ended' => ended \/ pc[t] = "ending"
    BY DEF RecvCall, SendCall, Call, Cancel, Ready, Wait, Woken, Clear, SendEnded,
      RecvSocketError, RecvEof, RecvWouldBlock, RecvBlocked, RecvEnding, SendTaken,
      SendWouldBlock, SendEof, SendFails, Enter, DropCall, PollReady, PollPending, PollWoken,
      ClearAndLoop, EndSeen, Jump, others
  <1> QED
    BY <1>1, <1>2, <1>3, QueueKept

\* An abort of this side fails the association like a loss.
LEMMA AbortKeepsEnd ==
  ASSUME EndInv, NEW s \in Tasks, SendAbort(s)
  PROVE  End'
  <1>1. Fail /\ UNCHANGED ended /\ assoc # "over"
    BY DEF SendAbort, Fail
  <1>2. \A t \in Tasks : pc'[t] # "ending"
    BY <1>1, NotOver DEF EndInv, TypeOK, SendAbort, Return, Jump
  <1> QED
    BY <1>1, <1>2, FailureQueued

\* Every step keeps the invariant of the end.
LEMMA EndNext == EndInv /\ [Next]_vars => EndInv'
  <1> SUFFICES ASSUME EndInv, [Next]_vars PROVE EndInv'
    OBVIOUS
  <1>1. TypeOK'
    BY TypeNext DEF EndInv
  <1>2. End'
    <2>1. CASE Environment
      BY <2>1, EnvironmentKeepsEnd
    <2>2. CASE ReactorHarvests \/ ReactorDispatches \/ UNCHANGED vars
      BY <2>2, QueueKept DEF ReactorHarvests, ReactorDispatches, vars, kernelVars, crateVars
    <2>3. CASE Shutdown
      BY <2>3, QueueKept DEF Shutdown, ShutdownWrite, crateVars
    <2>4. ASSUME NEW r \in Receivers, RecvCall(r) \/ RecvStep(r)
          PROVE  End'
      BY <2>4, TasksAssumption, TaskKeepsEnd, ChunkTaken DEF RecvStep
    <2>5. ASSUME NEW s \in Senders, SendCall(s) \/ SendStep(s)
          PROVE  End'
      BY <2>5, TasksAssumption, TaskKeepsEnd, AbortKeepsEnd DEF SendStep
    <2>6. ASSUME NEW t \in Tasks, Cancel(t)
          PROVE  End'
      BY <2>6, TaskKeepsEnd
    <2> QED
      BY <2>1, <2>2, <2>3, <2>4, <2>5, <2>6 DEF Next
  <1> QED
    BY <1>1, <1>2 DEF EndInv, End

\* `ended` is closed only after the association is over and its last message
\* was taken from the socket.
THEOREM EndIsTheEnd == Spec => []EndedMeansOver
  <1>1. EndInv => EndedMeansOver
    BY DEF EndInv
  <1> QED
    BY <1>1, EndInit, EndNext, PTL DEF Spec

\* A receive that fails leaves no message unread, whichever task saw the end
\* of the association and whenever it recorded it.
THEOREM ErrorsComeLast == Spec => NoDataLeftBehind
  <1> DEFINE Fails(r) == pc[r] \in {"step", "blocked"} /\ pc'[r] = "idle" /\ queue' = queue
             ErrorLast == \A r \in Receivers : Fails(r) => NoData(queue')
  <1>1. ASSUME EndInv, Next, NEW r \in Receivers, Fails(r), queue # <<>>, ~ended
        PROVE  FALSE
    <2> r \in Tasks /\ r \notin Senders
      BY TasksAssumption
    <2> pc'[r] # pc[r]
      BY <1>1
    <2>1. CASE Environment \/ ReactorHarvests \/ ReactorDispatches \/ Shutdown
      BY <2>1 DEF Environment, ReactorHarvests, ReactorDispatches, Shutdown, crateVars
    <2>2. ASSUME NEW u \in Tasks \ {r},
                 RecvCall(u) \/ RecvStep(u) \/ SendCall(u) \/ SendStep(u) \/ Cancel(u)
          PROVE  FALSE
      <3>1. \E label \in Pcs : pc' = [pc EXCEPT ![u] = label]
        BY <2>2 DEF RecvCall, SendCall, Call, RecvStep, SendStep, Cancel, Ready, Wait, Woken,
          Clear, RecvChunk, RecvSocketError, RecvEof, RecvWouldBlock, RecvBlocked, RecvEnding,
          SendEnded, SendTaken, SendWouldBlock, SendAbort, SendEof, SendFails, AfterNotification,
          Goto, Return, Pcs, Enter, DropCall, PollReady, PollPending, PollWoken, ClearAndLoop,
          EndSeen, Jump, LoopPcs, others
      <3> QED
        BY <1>1, <3>1 DEF EndInv, TypeOK
    <2>3. CASE RecvChunk(r)
      BY <1>1, <2>3 DEF EndInv, TypeOK, KernelTypeOK, RecvChunk
    <2>4. CASE RecvCall(r) \/ Cancel(r) \/ Ready(r) \/ Wait(r) \/ Woken(r) \/ Clear(r)
      BY <1>1, <2>4 DEF EndInv, TypeOK, RecvCall, Call, Cancel, Ready, Wait, Woken, Clear, Goto,
        Enter, DropCall, PollReady, PollPending, PollWoken, ClearAndLoop, Jump, others
    <2>5. CASE RecvSocketError(r) \/ RecvEof(r) \/ RecvWouldBlock(r)
      BY <1>1, <2>5 DEF RecvSocketError, RecvEof, RecvWouldBlock, others
    <2>6. CASE RecvBlocked(r) \/ RecvEnding(r)
      BY <1>1, <2>6 DEF EndInv, TypeOK, RecvBlocked, RecvEnding, Goto, EndSeen, Jump, others
    <2> QED
      BY <1>1, <2>1, <2>2, <2>3, <2>4, <2>5, <2>6, TasksAssumption DEF Next, RecvStep
  <1>2. EndInv /\ [Next]_vars => [ErrorLast]_vars
    <2> SUFFICES ASSUME EndInv, Next, NEW r \in Receivers, Fails(r) PROVE NoData(queue')
      OBVIOUS
    <2>1. CASE queue = <<>>
      BY <2>1 DEF NoData
    <2>2. CASE ended
      BY <2>2 DEF EndInv, EndedMeansOver, NoData
    <2> QED
      BY <1>1, <2>1, <2>2
  <1> QED
    BY <1>2, EndInit, EndNext, PTL DEF Spec, NoDataLeftBehind

-----------------------------------------------------------------------------
(* Messages: nothing is lost, duplicated or reordered, what a receive      *)
(* returns is intact, and the association implements MessageChannel.       *)

\* The pieces of messages whose other pieces will never come.
Gone == {p \in Piece : p.msg \in cut}

\* What the peer sent: messages in order, each followed to its end or cut, and
\* `mid` tells whether the last one will go on.
SentInOrder ==
  /\ Ordered(sent, 1, cut)
  /\ Chained(sent, Gone)
  /\ mid <=> OpenIn(sent, cut)

\* What the kernel queues tells the last piece of a message from the others.
QueueFlagged == queue \in Seq(Flagged)

MessageInv ==
  /\ TypeOK
  /\ SentInOrder
  /\ QueueFlagged
  /\ Conservation
  /\ CutAtEnds(delivered, buf)
  /\ DeliveredIntact

\* p is one whole message behind pieces of messages in C, none of them its own.
IntactMessage(p, C) ==
  \E n \in 0 .. Len(p) - 1 :
    /\ Whole(SubSeq(p, n + 1, Len(p)))
    /\ \A j \in 1 .. n : p[j].msg \in C \ {p[Len(p)].msg}

-----------------------------------------------------------------------------
(* The steps, as far as the messages are concerned.                        *)

\* No piece is sent or read; notifications may be queued, and a message that
\* is under way may be cut.
QuietStep ==
  /\ DataOf(queue') = DataOf(queue)
  /\ QueueFlagged => QueueFlagged'
  /\ UNCHANGED <<sent, buf, delivered>>
  /\ \/ UNCHANGED <<mid, cut>>
     \/ CutMessage /\ mid' = FALSE

\* A notification that is queued adds no data.
LEMMA NoteAdds ==
  ASSUME NEW q \in Seq(Chunk), NEW c \in Chunk, ~IsData(c)
  PROVE  /\ Append(q, c) \in Seq(Chunk)
         /\ DataOf(Append(q, c)) = DataOf(q)
         /\ q \in Seq(Flagged) => Append(q, c) \in Seq(Flagged)
  <1>1. c \in Flagged
    BY DEF Flagged
  <1>2. DataOf(Append(q, c)) = DataOf(q)
    BY DataOfAppend
  <1> QED
    BY <1>1, <1>2, AppendType

\* The kernel's notifications are such steps.
LEMMA NotesAreQuiet ==
  ASSUME TypeOK,
         TtlExpires \/ PeerShutsDown \/ ShutdownCompletes \/ Fail \/ PeerRestarts,
         UNCHANGED <<buf, delivered>>
  PROVE  QuietStep
  <1>1. queue \in Seq(Chunk)
    BY DEF TypeOK, KernelTypeOK
  <1>2. CASE TtlExpires
    <2>1. queue' = Append(queue, SendFailedNote)
      BY <1>2 DEF TtlExpires
    <2> QED
      BY <1>1, <1>2, <2>1, NoteAdds, KernelNotes DEF TtlExpires, peerVars, QuietStep, QueueFlagged
  <1>3. CASE PeerShutsDown
    <2>1. queue' = Append(queue, ShutdownNote)
      BY <1>3 DEF PeerShutsDown
    <2> QED
      BY <1>1, <1>3, <2>1, NoteAdds, KernelNotes DEF PeerShutsDown, peerVars, QuietStep,
           QueueFlagged
  <1>4. CASE ShutdownCompletes
    <2>1. queue' = Append(queue, ChangeNote(SCTP_SHUTDOWN_COMP))
      BY <1>4 DEF ShutdownCompletes
    <2>2. SCTP_SHUTDOWN_COMP \in Nat
      BY DEF SCTP_SHUTDOWN_COMP
    <2> QED
      BY <1>1, <1>4, <2>1, <2>2, NoteAdds, KernelNotes DEF ShutdownCompletes, peerVars, QuietStep,
           QueueFlagged
  <1>5. CASE Fail
    <2> DEFINE q == IF room < SndBuf THEN Append(queue, SendFailedNote) ELSE queue
               n == ChangeNote(SCTP_COMM_LOST)
    <2>1. queue' = Append(q, n)
      BY <1>5 DEF Fail
    <2>2. n \in Chunk /\ ~IsData(n)
      BY KernelNotes DEF SCTP_COMM_LOST
    <2>3. q \in Seq(Chunk) /\ DataOf(q) = DataOf(queue) /\ (queue \in Seq(Flagged) => q \in Seq(Flagged))
      BY <1>1, NoteAdds, KernelNotes
    <2> HIDE DEF q, n
    <2> QED
      BY <1>5, <2>1, <2>2, <2>3, NoteAdds DEF Fail, QuietStep, QueueFlagged
  <1>6. CASE PeerRestarts
    <2>1. queue' = Append(queue, ChangeNote(SCTP_RESTART))
      BY <1>6 DEF PeerRestarts
    <2>2. SCTP_RESTART \in Nat
      BY DEF SCTP_RESTART
    <2> QED
      BY <1>1, <1>6, <2>1, <2>2, NoteAdds, KernelNotes DEF PeerRestarts, QuietStep, QueueFlagged
  <1> QED
    BY <1>2, <1>3, <1>4, <1>5, <1>6

\* A step sends a piece, reads a record or is quiet.
LEMMA MessageSteps ==
  ASSUME TypeOK, [Next]_vars
  PROVE  \/ \E r \in Receivers : RecvChunk(r)
         \/ \E last \in BOOLEAN : PeerData(last) /\ UNCHANGED crateVars
         \/ QuietStep
  <1> DEFINE Same == UNCHANGED <<queue, sent, mid, cut, buf, delivered>>
  <1>1. Same => QuietStep
    BY DEF QuietStep, QueueFlagged
  <1>2. CASE UNCHANGED vars
    BY <1>1, <1>2 DEF vars, kernelVars, crateVars
  <1>3. CASE Environment
    <2>1. UNCHANGED <<buf, delivered>>
      BY <1>3 DEF Environment, crateVars
    <2>2. CASE PeerAcks
      BY <1>1, <2>1, <2>2 DEF PeerAcks, peerVars
    <2> QED
      BY <1>3, <2>1, <2>2, NotesAreQuiet DEF Environment
  <1>4. CASE ReactorHarvests \/ ReactorDispatches \/ Shutdown
    BY <1>1, <1>4 DEF ReactorHarvests, ReactorDispatches, Shutdown, ShutdownWrite, kernelVars,
         crateVars, peerVars
  <1>5. ASSUME NEW t \in Tasks,
               \/ RecvCall(t) \/ SendCall(t) \/ Cancel(t)
               \/ Ready(t) \/ Wait(t) \/ Woken(t) \/ Clear(t) \/ SendEnded(t)
        PROVE  QuietStep
    BY <1>1, <1>5 DEF RecvCall, SendCall, Call, Cancel, Ready, Wait, Woken, Clear, SendEnded,
         others, kernelVars
  <1>6. ASSUME NEW r \in Receivers,
               RecvSocketError(r) \/ RecvEof(r) \/ RecvWouldBlock(r) \/ RecvBlocked(r) \/ RecvEnding(r)
        PROVE  QuietStep
    BY <1>1, <1>6 DEF RecvSocketError, RecvEof, RecvWouldBlock, RecvBlocked, RecvEnding, others,
         kernelVars, peerVars
  <1>7. ASSUME NEW s \in Senders,
               SendTaken(s) \/ SendWouldBlock(s) \/ SendEof(s) \/ SendFails(s)
        PROVE  QuietStep
    BY <1>1, <1>7 DEF SendTaken, SendWouldBlock, SendEof, SendFails, SendRefused, others,
         kernelVars, peerVars
  <1>8. ASSUME NEW s \in Senders, SendAbort(s)
        PROVE  QuietStep
    BY <1>8, NotesAreQuiet DEF SendAbort
  <1>9. Receivers \subseteq Tasks /\ Senders \subseteq Tasks
    BY TasksAssumption
  <1>10. CASE \E r \in Receivers : RecvCall(r) \/ RecvStep(r)
    BY <1>5, <1>6, <1>9, <1>10 DEF RecvStep
  <1>11. CASE \E s \in Senders : SendCall(s) \/ SendStep(s)
    BY <1>5, <1>7, <1>8, <1>9, <1>11 DEF SendStep
  <1> QED
    BY <1>2, <1>3, <1>4, <1>5, <1>10, <1>11 DEF Next

\* What a read does to the accumulator and to what was returned.
LEMMA ReadStep ==
  ASSUME TypeOK, NEW r, RecvChunk(r)
  PROVE  LET c == Head(queue)
             s == PushChunk(buf, c)
         IN  /\ queue # <<>> /\ c \in Chunk /\ queue' = Tail(queue)
             /\ buf' = s.buf
             /\ delivered' = IF s.step = "Complete" THEN Append(delivered, Payload(buf, c))
                             ELSE delivered
             /\ UNCHANGED <<sent, mid, cut, ended>>
  <1> DEFINE c == Head(queue)
             s == PushChunk(buf, c)
  <1>1. queue # <<>> /\ c \in Chunk /\ buf \in Seq(Piece)
    BY DEF RecvChunk, TypeOK, KernelTypeOK
  <1>2. \/ s.step = "Complete" /\ delivered' = Append(delivered, Payload(buf, c))
        \/ s.step \in {"More", "Notification"} /\ delivered' = delivered
    BY DEF RecvChunk
  <1>3. queue' = Tail(queue) /\ buf' = s.buf /\ UNCHANGED <<sent, mid, cut, ended>>
    BY DEF RecvChunk, peerVars
  <1> HIDE DEF s
  <1>4. delivered' = IF s.step = "Complete" THEN Append(delivered, Payload(buf, c)) ELSE delivered
    BY <1>2
  <1> QED
    BY <1>1, <1>3, <1>4 DEF s

-----------------------------------------------------------------------------
(* What the peer sent.                                                     *)

\* Gone goes by message, and it grows with cut.
LEMMA GoneFacts ==
  /\ ByMessage(Gone)
  /\ \A p \in Piece : p.msg \in cut => p \in Gone
  BY DEF ByMessage, Gone

\* The next piece follows those sent before.
LEMMA NextFollows ==
  ASSUME TypeOK, SentInOrder, NEW last \in BOOLEAN
  PROVE  /\ NextPiece(last) \in Piece
         /\ NextPiece(last).last = last
         /\ Follows(sent, NextPiece(last), 1, cut)
  <1>1. NextPiece(last) \in Piece
    BY NextPieceType DEF TypeOK
  <1>2. NextPiece(last).last = last
    BY DEF NextPiece
  <1>3. Follows(sent, NextPiece(last), 1, cut)
    BY DEF SentInOrder, Follows, NextPiece, Tip
  <1> QED
    BY <1>1, <1>2, <1>3

\* A piece that arrives keeps what was sent in order ...
LEMMA PeerDataOrder ==
  ASSUME TypeOK, SentInOrder, NEW last \in BOOLEAN, PeerData(last)
  PROVE  SentInOrder'
  <1> DEFINE x == NextPiece(last)
  <1>1. x \in Piece /\ x.last = last /\ Follows(sent, x, 1, cut)
    BY NextFollows
  <1>2. sent' = Append(sent, x) /\ mid' = ~last /\ cut' = cut
    BY DEF PeerData
  <1> HIDE DEF x
  <1>3. sent \in Seq(Piece) /\ cut \in SUBSET Nat
    BY DEF TypeOK, KernelTypeOK
  <1>4. Ordered(Append(sent, x), 1, cut) /\ x.msg \notin cut
    BY <1>1, <1>3, OrderedAppend DEF SentInOrder
  <1>5. Chained(Append(sent, x), Gone)
    <2>1. Linkable(sent, x, Gone)
      BY <1>1, <1>3, FollowsLinks, GoneFacts DEF SentInOrder
    <2> QED
      BY <1>1, <1>3, <2>1, ChainedAppend DEF SentInOrder
  <1>6. Gone' = Gone
    BY <1>2 DEF Gone
  <1>7. mid' <=> OpenIn(Append(sent, x), cut)
    <2>1. Append(sent, x) # <<>> /\ Tip(Append(sent, x)) = x
      BY <1>1, <1>3, AppendAt
    <2> QED
      BY <1>1, <1>2, <1>4, <2>1, Zenon DEF OpenIn
  <1> QED
    BY <1>2, <1>4, <1>5, <1>6, <1>7 DEF SentInOrder

\* ... and so does a quiet step, which may cut the message under way.
LEMMA QuietOrder ==
  ASSUME TypeOK, SentInOrder, QuietStep
  PROVE  SentInOrder' /\ cut \subseteq cut'
  <1>1. sent' = sent /\ sent \in Seq(Piece)
    BY DEF QuietStep, TypeOK, KernelTypeOK
  <1>2. CASE UNCHANGED <<mid, cut>>
    BY <1>1, <1>2 DEF SentInOrder, Gone
  <1>3. CASE CutMessage /\ mid' = FALSE
    <2>1. CASE mid
      <3>1. OpenIn(sent, cut) /\ cut' = cut \cup {Tip(sent).msg}
        BY <1>3, <2>1 DEF SentInOrder, CutMessage, Tip
      <3>2. Ordered(sent, 1, cut')
        BY <1>1, <3>1, OrderedCut DEF SentInOrder
      <3>3. Gone \subseteq Gone'
        BY <3>1 DEF Gone
      <3>4. Chained(sent, Gone')
        BY <3>3, ChainedMore DEF SentInOrder
      <3>5. ~OpenIn(sent, cut')
        BY <3>1 DEF OpenIn
      <3> QED
        BY <1>1, <1>3, <3>1, <3>2, <3>4, <3>5 DEF SentInOrder
    <2>2. CASE ~mid
      <3>1. cut' = cut /\ mid' = FALSE /\ ~OpenIn(sent, cut)
        BY <1>3, <2>2 DEF CutMessage, SentInOrder
      <3> QED
        BY <1>1, <3>1 DEF SentInOrder, Gone
    <2> QED
      BY <2>1, <2>2
  <1> QED
    BY <1>2, <1>3 DEF QuietStep

-----------------------------------------------------------------------------
(* The messages returned.                                                  *)

\* What was cut stays cut, so that an intact message stays one.
LEMMA StillIntact ==
  ASSUME DeliveredIntact, delivered' = delivered, cut \subseteq cut'
  PROVE  DeliveredIntact'
  <1>1. ASSUME NEW p, IntactMessage(p, cut)
        PROVE  IntactMessage(p, cut')
    BY <1>1 DEF IntactMessage
  <1>2. \A i \in 1 .. Len(delivered) : IntactMessage(delivered[i], cut)
    BY DEF DeliveredIntact, IntactMessage
  <1>3. \A i \in 1 .. Len(delivered) : IntactMessage(delivered[i], cut')
    BY <1>1, <1>2
  <1> QED
    BY <1>3 DEF DeliveredIntact, IntactMessage

\* What a receive returns is intact.
LEMMA ReadIntact ==
  ASSUME MessageInv, queue # <<>>, IsData(Head(queue)), "MSG_EOR" \in Head(queue).flags
  PROVE  /\ Payload(buf, Head(queue)) \in Seq(Piece)
         /\ IntactMessage(Payload(buf, Head(queue)), cut)
  <1> DEFINE x == Head(queue).piece
             F == FlattenSeq(delivered)
             D == DataOf(Tail(queue))
             p == Payload(buf, Head(queue))
  <1>1. /\ queue \in Seq(Chunk) /\ queue \in Seq(Flagged) /\ buf \in Seq(Piece)
        /\ delivered \in Seq(Seq(Piece)) /\ sent \in Seq(Piece)
    BY DEF MessageInv, TypeOK, KernelTypeOK, QueueFlagged
  <1>2. Head(queue) \in Flagged /\ Head(queue) \in Chunk /\ Tail(queue) \in Seq(Chunk)
    BY <1>1
  <1>3. Chained(F \o buf \o DataOf(queue), Gone)
    BY DEF MessageInv, SentInOrder, Conservation
  <1>4. p \in Seq(Piece) /\ Intact(p, Gone)
    BY <1>1, <1>2, <1>3, ReadIsIntact, GoneFacts DEF MessageInv
  <1>5. x \in Piece /\ x.last
    BY <1>2, PieceOfData DEF Flagged
  <1>6. F \in Seq(Piece) /\ D \in Seq(Piece)
    BY <1>1, <1>2, FlattenType, DataOfType
  <1>7. sent = (F \o buf) \o (<<x>> \o D)
    BY <1>1, DataOfHead DEF MessageInv, Conservation
  <1> DEFINE k == Len(F) + (Len(buf) + 1)
  <1>8. Len(p) = Len(buf) + 1 /\ p[Len(p)] = x /\ p = Append(buf, x) /\ Len(buf) \in Nat
    <2>1. p = Append(buf, x)
      BY DEF Payload
    <2> HIDE DEF p, x
    <2> QED
      BY <1>1, <1>5, <2>1, AppendAt DEF Tip
  <1> HIDE DEF x, F, D, p
  <1>9. Len(F) \in Nat /\ Len(D) \in Nat
    BY <1>6
  <1>10. sent[k] = x /\ k \in 1 .. Len(sent)
    <2>1. /\ Len(sent) = Len(F) + Len(buf) + 1 + Len(D)
          /\ \A i \in 1 .. Len(buf) + 1 : sent[Len(F) + i] = Append(buf, x)[i]
      BY <1>1, <1>5, <1>6, <1>7, Positions
    <2> QED
      BY <1>8, <1>9, <2>1
  <1>11. x.msg \notin cut
    BY <1>5, <1>10 DEF MessageInv, SentInOrder, Ordered
  <1>12. IntactMessage(p, cut)
    <2>1. \A i : p[i] \in Gone => p[i].msg \in cut \ {p[Len(p)].msg}
      BY <1>8, <1>11 DEF Gone
    <2> QED
      BY <1>4, <2>1 DEF Intact, IntactMessage
  <1> QED
    BY <1>4, <1>12 DEF p

-----------------------------------------------------------------------------
(* The invariant is one.                                                   *)

\* At first nothing was sent.
LEMMA MessageInit == Init => MessageInv
  <1> SUFFICES ASSUME Init PROVE MessageInv
    OBVIOUS
  <1>1. /\ sent = <<>> /\ mid = FALSE /\ cut = {} /\ buf = <<>> /\ delivered = <<>>
        /\ queue \in {<<>>, <<ChangeNote(SCTP_COMM_UP)>>}
    BY DEF Init, KernelInit
  <1>2. SentInOrder
    BY <1>1 DEF SentInOrder, Ordered, Chained, OpenIn
  <1>3. ChangeNote(SCTP_COMM_UP) \in Chunk /\ ~IsData(ChangeNote(SCTP_COMM_UP))
    BY KernelNotes DEF SCTP_COMM_UP
  <1>4. DataOf(queue) = <<>> /\ QueueFlagged
    <2> DEFINE n == ChangeNote(SCTP_COMM_UP)
    <2>1. <<>> \in Seq(Chunk) /\ <<>> \in Seq(Flagged) /\ Append(<<>>, n) = <<n>>
      OBVIOUS
    <2> HIDE DEF n
    <2>2. DataOf(<<n>>) = <<>> /\ <<n>> \in Seq(Flagged)
      BY <1>3, <2>1, NoteAdds, DataOfEmpty DEF n
    <2> QED
      BY <1>1, <2>1, <2>2, DataOfEmpty DEF QueueFlagged, n
  <1>5. Conservation
    BY <1>1, <1>4, FlattenEmpty DEF Conservation
  <1>6. CutAtEnds(delivered, buf)
    BY <1>1, FlattenEmpty DEF CutAtEnds
  <1>7. DeliveredIntact
    BY <1>1 DEF DeliveredIntact
  <1> QED
    BY <1>2, <1>4, <1>5, <1>6, <1>7, TypeInit DEF MessageInv

\* Every step keeps it.
LEMMA MessageNext == MessageInv /\ [Next]_vars => MessageInv'
  <1> SUFFICES ASSUME MessageInv, [Next]_vars PROVE MessageInv'
    OBVIOUS
  <1>1. TypeOK /\ TypeOK'
    BY TypeNext DEF MessageInv
  <1>2. /\ queue \in Seq(Chunk) /\ queue \in Seq(Flagged) /\ buf \in Seq(Piece)
        /\ delivered \in Seq(Seq(Piece)) /\ sent \in Seq(Piece)
    BY DEF MessageInv, TypeOK, KernelTypeOK, QueueFlagged
  <1>3. CASE QuietStep
    <2>1. SentInOrder' /\ cut \subseteq cut'
      BY <1>1, <1>3, QuietOrder DEF MessageInv
    <2>2. DeliveredIntact'
      BY <1>3, <2>1, StillIntact DEF MessageInv, QuietStep
    <2>3. Conservation' /\ CutAtEnds(delivered, buf)' /\ QueueFlagged'
      BY <1>3 DEF MessageInv, QuietStep, Conservation
    <2> QED
      BY <1>1, <2>1, <2>2, <2>3 DEF MessageInv
  <1>4. ASSUME NEW last \in BOOLEAN, PeerData(last), UNCHANGED crateVars
        PROVE  MessageInv'
    <2> DEFINE x == NextPiece(last)
    <2>1. x \in Piece
      BY <1>1, NextPieceType DEF TypeOK
    <2>2. /\ queue' = Append(queue, Data(x)) /\ sent' = Append(sent, x) /\ cut' = cut
          /\ buf' = buf /\ delivered' = delivered
      BY <1>4 DEF PeerData, crateVars
    <2> HIDE DEF x
    <2>3. SentInOrder'
      BY <1>1, <1>4, PeerDataOrder DEF MessageInv
    <2>4. Data(x) \in Flagged
      BY <2>1, DataType DEF Flagged
    <2>5. QueueFlagged'
      BY <1>2, <2>2, <2>4, AppendType DEF QueueFlagged
    <2>6. DataOf(queue') = Append(DataOf(queue), x)
      BY <1>2, <2>1, <2>2, DataOfAppend, DataType
    <2>7. Conservation'
      <3> DEFINE f == FlattenSeq(delivered) \o buf
                 d == DataOf(queue)
      <3>1. f \in Seq(Piece) /\ d \in Seq(Piece)
        BY <1>2, FlattenType, DataOfType, ConcatType
      <3>2. f \o d = sent
        BY DEF MessageInv, Conservation
      <3> HIDE DEF f, d
      <3>3. f \o Append(d, x) = Append(f \o d, x)
        BY <2>1, <3>1
      <3> QED
        BY <2>2, <2>6, <3>2, <3>3 DEF Conservation, f, d
    <2>8. CutAtEnds(delivered, buf)'
      BY <2>2 DEF MessageInv
    <2>9. DeliveredIntact'
      BY <2>2, StillIntact DEF MessageInv
    <2> QED
      BY <1>1, <2>3, <2>5, <2>7, <2>8, <2>9 DEF MessageInv
  <1>5. ASSUME NEW r \in Receivers, RecvChunk(r)
        PROVE  MessageInv'
    <2> DEFINE c == Head(queue)
               s == PushChunk(buf, c)
               dd == IF s.step = "Complete" THEN Append(delivered, Payload(buf, c)) ELSE delivered
    <2>1. /\ queue # <<>> /\ c \in Chunk /\ queue' = Tail(queue)
          /\ buf' = s.buf /\ delivered' = dd
          /\ sent' = sent /\ mid' = mid /\ cut' = cut
      BY <1>1, <1>5, ReadStep
    <2>2. c \in Flagged /\ Tail(queue) \in Seq(Flagged)
      BY <1>2, <2>1
    <2>3. SentInOrder' /\ QueueFlagged'
      BY <2>1, <2>2 DEF MessageInv, SentInOrder, Gone, QueueFlagged
    <2>4. Conservation'
      <3>1. FlattenSeq(dd) \o s.buf \o DataOf(Tail(queue)) = FlattenSeq(delivered) \o buf \o DataOf(queue)
        BY <1>2, <2>1, ReadConserves
      <3> QED
        BY <2>1, <3>1 DEF MessageInv, Conservation
    <2>5. CutAtEnds(delivered, buf)'
      <3>1. CutAtEnds(dd, s.buf)
        BY <1>2, <2>2, ReadCutsAtEnds DEF MessageInv
      <3> QED
        BY <2>1, <3>1
    <2>6. DeliveredIntact'
      <3>1. CASE delivered' = delivered
        BY <2>1, <3>1, StillIntact DEF MessageInv
      <3>2. CASE delivered' # delivered
        <4> DEFINE p == Payload(buf, c)
        <4>1. s.step = "Complete" /\ delivered' = Append(delivered, p)
          BY <2>1, <3>2
        <4>2. IsData(c) /\ "MSG_EOR" \in c.flags
          BY <4>1, PushChunkCases
        <4>3. p \in Seq(Piece) /\ IntactMessage(p, cut)
          BY <2>1, <4>2, ReadIntact
        <4> HIDE DEF p
        <4>4. \A i \in 1 .. Len(delivered) : IntactMessage(delivered[i], cut)
          BY DEF MessageInv, DeliveredIntact, IntactMessage
        <4>5. \A i \in 1 .. Len(delivered') : IntactMessage(delivered'[i], cut)
          <5> DEFINE X == Seq(Piece)
          <5>1. delivered \in Seq(X) /\ p \in X
            BY <1>2, <4>3
          <5> HIDE DEF X
          <5>2. /\ Len(delivered) \in Nat /\ Len(delivered') = Len(delivered) + 1
                /\ \A i \in 1 .. Len(delivered) : delivered'[i] = delivered[i]
                /\ delivered'[Len(delivered) + 1] = p
            BY <4>1, <5>1, AppendAt
          <5>3. \A i \in 1 .. Len(delivered') : i \in 1 .. Len(delivered) \/ i = Len(delivered) + 1
            BY <5>2
          <5> QED
            BY <4>3, <4>4, <5>2, <5>3
        <4> QED
          BY <2>1, <4>5 DEF DeliveredIntact, IntactMessage
      <3> QED
        BY <3>1, <3>2
    <2> QED
      BY <1>1, <2>3, <2>4, <2>5, <2>6 DEF MessageInv
  <1> QED
    BY <1>1, <1>3, <1>4, <1>5, MessageSteps

\* The invariant holds in every state.
THEOREM MessagesInvariant == Spec => []MessageInv
  BY MessageInit, MessageNext, PTL DEF Spec

\* Nothing the peer sent is lost, duplicated or reordered on its way through
\* queue, accumulator and callers: recv_state lives in the association and a
\* dropped receive leaves it alone.
THEOREM NothingIsLost == Spec => []Conservation
  <1>1. MessageInv => Conservation
    BY DEF MessageInv
  <1> QED
    BY <1>1, MessagesInvariant, PTL

\* What recv and recv_msg return is a whole message, in front of it at most the
\* pieces of messages that a restart cut.
THEOREM MessagesAreIntact == Spec => []DeliveredIntact
  <1>1. MessageInv => DeliveredIntact
    BY DEF MessageInv
  <1> QED
    BY <1>1, MessagesInvariant, PTL

-----------------------------------------------------------------------------
(* The association implements the message channel.                         *)

\* What is pending in the channel is what is in the accumulator and the queue.
LEMMA PendingAt ==
  ASSUME MessageInv
  PROVE  LET P == Channel!Pending
             b == buf
             d == DataOf(queue)
         IN  /\ b \in Seq(Piece) /\ d \in Seq(Piece) /\ P \in Seq(Piece)
             /\ Len(P) = Len(b) + Len(d)
             /\ \A i \in 1 .. Len(b) : P[i] = b[i]
             /\ \A i \in 1 .. Len(d) : P[Len(b) + i] = d[i]
  <1> DEFINE F  == FlattenSeq(delivered)
             d  == DataOf(queue)
             Fb == F \o buf
             P  == Channel!Pending
  <1>1. F \in Seq(Piece) /\ buf \in Seq(Piece) /\ d \in Seq(Piece)
    BY FlattenType, DataOfType DEF MessageInv, TypeOK, KernelTypeOK
  <1>2. sent = Fb \o d
    BY DEF MessageInv, Conservation
  <1>3. P = SubSeq(sent, Len(F) + 1, Len(sent))
    <2>1. Channel!FlattenSeq(delivered) = FlattenSeq(delivered)
      BY Zenon DEF FlattenSeq, Channel!FlattenSeq
    <2> QED
      BY <2>1 DEF Channel!Pending
  <1> HIDE DEF F, d, P
  <1>4. /\ Fb \in Seq(Piece) /\ Len(Fb) = Len(F) + Len(buf)
        /\ \A i \in 1 .. Len(buf) : Fb[Len(F) + i] = buf[i]
    BY <1>1
  <1> HIDE DEF Fb
  <1>5. /\ sent \in Seq(Piece) /\ Len(sent) = Len(Fb) + Len(d)
        /\ \A i \in 1 .. Len(Fb) : sent[i] = Fb[i]
        /\ \A i \in 1 .. Len(d) : sent[Len(Fb) + i] = d[i]
    <2> DEFINE st == Fb \o d
    <2>1. Fb \in Seq(Piece) /\ d \in Seq(Piece)
      BY <1>1, <1>4
    <2>2. st \in Seq(Piece) /\ Len(st) = Len(Fb) + Len(d)
      BY <2>1
    <2>3. \A i \in 1 .. Len(Fb) : st[i] = Fb[i]
      BY <2>1
    <2>4. \A i \in 1 .. Len(d) : st[Len(Fb) + i] = d[i]
      BY <2>1
    <2> QED
      BY <1>2, <2>2, <2>3, <2>4, Zenon
  <1>6. Len(F) \in Nat /\ Len(buf) \in Nat /\ Len(d) \in Nat
    BY <1>1
  <1>7. /\ P \in Seq(Piece) /\ Len(P) = Len(sent) - Len(F)
        /\ \A i \in 1 .. Len(sent) - Len(F) : P[i] = sent[Len(F) + i]
    <2>1. Len(F) + 1 \in 1 .. Len(sent) + 1 /\ Len(sent) \in Nat
      BY <1>4, <1>5, <1>6
    <2> DEFINE m == Len(F) + 1
               k == Len(sent)
    <2>2. sent \in Seq(Piece) /\ m \in 1 .. k + 1 /\ k = Len(sent)
      BY <1>5, <2>1
    <2>3. m \in Int /\ k \in Nat /\ Len(F) = m - 1
      BY <1>6, <2>1
    <2> HIDE DEF m, k
    <2>4. /\ SubSeq(sent, m, k) \in Seq(Piece)
          /\ Len(SubSeq(sent, m, k)) = k - m + 1
          /\ \A i \in 1 .. k - m + 1 : SubSeq(sent, m, k)[i] = sent[m + i - 1]
      BY <2>2, <2>3
    <2>5. P = SubSeq(sent, m, k)
      BY <1>3 DEF m, k
    <2>6. k - m + 1 = Len(sent) - Len(F) /\ \A i \in Nat : m + i - 1 = Len(F) + i
      BY <1>6, <2>2, <2>3
    <2>7. P \in Seq(Piece) /\ Len(P) = Len(sent) - Len(F)
      BY <2>4, <2>5, <2>6, Zenon
    <2>8. ASSUME NEW i \in 1 .. Len(sent) - Len(F)
          PROVE  P[i] = sent[Len(F) + i]
      <3>1. i \in 1 .. k - m + 1 /\ i \in Nat
        BY <2>6
      <3> QED
        BY <2>4, <2>5, <2>6, <3>1, Zenon
    <2> QED
      BY <2>7, <2>8
  <1>8. Len(P) = Len(buf) + Len(d)
    BY <1>4, <1>5, <1>6, <1>7
  <1>9. ASSUME NEW i \in 1 .. Len(buf)
        PROVE  P[i] = buf[i]
    <2>1. i \in 1 .. Len(sent) - Len(F) /\ Len(F) + i \in 1 .. Len(Fb)
      BY <1>4, <1>5, <1>6
    <2> QED
      BY <1>4, <1>5, <1>7, <2>1
  <1>10. ASSUME NEW i \in 1 .. Len(d)
         PROVE  P[Len(buf) + i] = d[i]
    <2>1. Len(buf) + i \in 1 .. Len(sent) - Len(F) /\ Len(F) + (Len(buf) + i) = Len(Fb) + i
      BY <1>4, <1>5, <1>6
    <2> QED
      BY <1>5, <1>7, <2>1
  <1> QED
    BY <1>1, <1>7, <1>8, <1>9, <1>10 DEF P, d

\* A piece that arrives is a Send: `ended` is not closed before the association
\* is over.
LEMMA SendImplemented ==
  ASSUME MessageInv, EndInv, NEW last \in BOOLEAN, PeerData(last), UNCHANGED crateVars
  PROVE  Channel!Send
  <1> DEFINE x == NextPiece(last)
  <1>1. x \in Piece
    BY NextPieceType DEF MessageInv, TypeOK
  <1>2. /\ sent' = Append(sent, x) /\ sent \in Seq(Piece)
        /\ delivered' = delivered /\ ended' = ended
    BY DEF PeerData, crateVars, MessageInv, TypeOK, KernelTypeOK
  <1>3. ~ended
    BY DEF PeerData, EndInv, EndedMeansOver, TypeOK
  <1> HIDE DEF x
  <1>4. Len(sent') = Len(sent) + 1
    BY <1>1, <1>2
  <1>5. SubSeq(sent', 1, Len(sent)) = sent
    <2>1. /\ Len(sent) \in Nat /\ sent' \in Seq(Piece)
          /\ \A i \in 1 .. Len(sent) : sent'[i] = sent[i]
      BY <1>1, <1>2, AppendAt
    <2> DEFINE u == SubSeq(sent', 1, Len(sent))
    <2>2. u \in Seq(Piece) /\ Len(u) = Len(sent) /\ \A i \in 1 .. Len(sent) : u[i] = sent'[i]
      BY <1>4, <2>1
    <2> HIDE DEF u
    <2>3. u = sent
      BY <1>2, <2>1, <2>2
    <2> QED
      BY <2>3 DEF u
  <1> QED
    BY <1>2, <1>3, <1>4, <1>5 DEF Channel!Send

\* A read that completes a message is a Receive.
LEMMA ReceiveImplemented ==
  ASSUME MessageInv, NEW r, RecvChunk(r), delivered' # delivered
  PROVE  Channel!Receive
  <1> DEFINE c == Head(queue)
             x == c.piece
             P == Channel!Pending
             p == Append(buf, x)
             n == Len(buf) + 1
             d == DataOf(queue)
  <1>1. TypeOK /\ queue \in Seq(Chunk) /\ queue \in Seq(Flagged)
    BY DEF MessageInv, TypeOK, KernelTypeOK, QueueFlagged
  <1>2. /\ queue # <<>> /\ c \in Chunk
        /\ PushChunk(buf, c).step = "Complete" /\ delivered' = Append(delivered, Payload(buf, c))
        /\ sent' = sent /\ ended' = ended
    BY <1>1, ReadStep
  <1>3. IsData(c) /\ "MSG_EOR" \in c.flags
    BY <1>2, PushChunkCases
  <1>4. c \in Flagged /\ Tail(queue) \in Seq(Chunk)
    BY <1>1, <1>2
  <1>5. x \in Piece /\ x.last
    BY <1>2, <1>3, <1>4, PieceOfData DEF Flagged
  <1>6. d = <<x>> \o DataOf(Tail(queue)) /\ DataOf(Tail(queue)) \in Seq(Piece)
    BY <1>1, <1>2, <1>3, <1>4, DataOfHead, DataOfType
  <1>7. delivered' = Append(delivered, p)
    BY <1>2 DEF Payload
  <1>8. /\ buf \in Seq(Piece) /\ d \in Seq(Piece) /\ P \in Seq(Piece)
        /\ Len(P) = Len(buf) + Len(d)
        /\ \A i \in 1 .. Len(buf) : P[i] = buf[i]
        /\ \A i \in 1 .. Len(d) : P[Len(buf) + i] = d[i]
    BY PendingAt
  <1> HIDE DEF x, P, d
  <1>9. Len(d) \in Nat /\ Len(d) >= 1 /\ d[1] = x /\ Len(buf) \in Nat
    <2> DEFINE D == DataOf(Tail(queue))
    <2>1. D \in Seq(Piece) /\ d = <<x>> \o D
      BY <1>6
    <2> HIDE DEF D
    <2>2. Len(D) \in Nat /\ Len(d) = 1 + Len(D) /\ d[1] = x
      BY <1>5, <2>1
    <2> QED
      BY <1>8, <2>2
  <1>10. n \in 1 .. Len(P) /\ P[n] = x
    BY <1>8, <1>9
  <1>11. \A i \in 1 .. Len(buf) : ~buf[i].last
    BY DEF MessageInv, CutAtEnds
  <1>12. SubSeq(P, 1, n) = p
    <2>1. /\ p \in Seq(Piece) /\ Len(p) = n
          /\ \A i \in 1 .. Len(buf) : p[i] = buf[i]
          /\ p[n] = x
      BY <1>5, <1>8, AppendAt
    <2> DEFINE u == SubSeq(P, 1, n)
    <2>2. u \in Seq(Piece) /\ Len(u) = n /\ \A i \in 1 .. n : u[i] = P[i]
      BY <1>8, <1>9, <1>10
    <2> HIDE DEF u, p
    <2>3. \A i \in 1 .. n : i \in 1 .. Len(buf) \/ i = n
      BY <1>9
    <2>4. \A i \in 1 .. n : u[i] = p[i]
      BY <1>8, <1>10, <2>1, <2>2, <2>3
    <2>5. u = p
      BY <2>1, <2>2, <2>4
    <2> QED
      BY <2>5 DEF u
  <1> HIDE DEF p, n
  <1>13. n \in Channel!Ends(P)
    BY <1>5, <1>10 DEF Channel!Ends
  <1>14. ASSUME NEW i \in Channel!Ends(P)
         PROVE  n <= i
    <2>1. i \in 1 .. Len(P) /\ P[i].last
      BY DEF Channel!Ends
    <2>2. i \notin 1 .. Len(buf)
      BY <1>8, <1>11, <2>1
    <2> QED
      BY <1>9, <2>1, <2>2 DEF n
  <1> QED
    BY <1>2, <1>7, <1>12, <1>13, <1>14 DEF Channel!Receive, P

\* The task that closes `ended` took the last notification: no end of a message
\* is pending.
LEMMA CloseImplemented ==
  ASSUME MessageInv, EndInv, NEW r \in Receivers, RecvEnding(r)
  PROVE  Channel!Close
  <1> DEFINE P == Channel!Pending
             d == DataOf(queue)
  <1>1. r \in Tasks
    BY TasksAssumption
  <1>2. NoData(queue) /\ queue \in Seq(Chunk)
    BY <1>1 DEF RecvEnding, EndInv, EndingMeansOver, TypeOK, KernelTypeOK
  <1>3. d = <<>>
    BY <1>2, DataOfNone DEF NoData
  <1>4. Len(P) = Len(buf) /\ \A i \in 1 .. Len(buf) : P[i] = buf[i]
    <2>1. /\ buf \in Seq(Piece) /\ Len(P) = Len(buf) + Len(d)
          /\ \A i \in 1 .. Len(buf) : P[i] = buf[i]
      BY PendingAt
    <2> HIDE DEF P, d
    <2>2. Len(d) = 0 /\ Len(buf) \in Nat
      BY <1>3, <2>1
    <2> QED
      BY <2>1, <2>2
  <1>5. \A i \in 1 .. Len(buf) : ~buf[i].last
    BY DEF MessageInv, CutAtEnds
  <1>6. Channel!Ends(P) = {}
    BY <1>4, <1>5 DEF Channel!Ends
  <1>7. ended' = TRUE /\ delivered' = delivered /\ sent' = sent
    BY DEF RecvEnding, kernelVars
  <1> QED
    BY <1>6, <1>7 DEF Channel!Close

\* A step of the association that the channel does not see.
LEMMA EndedChanges ==
  ASSUME TypeOK, [Next]_vars
  PROVE  ended' = ended \/ \E r \in Receivers : RecvEnding(r)
  <1>1. CASE UNCHANGED vars \/ Environment \/ ReactorHarvests \/ ReactorDispatches \/ Shutdown
    BY <1>1 DEF vars, crateVars, Environment, ReactorHarvests, ReactorDispatches, Shutdown
  <1>2. ASSUME NEW t \in Tasks,
               \/ RecvCall(t) \/ SendCall(t) \/ Cancel(t)
               \/ Ready(t) \/ Wait(t) \/ Woken(t) \/ Clear(t) \/ SendEnded(t)
               \/ RecvChunk(t) \/ RecvSocketError(t) \/ RecvEof(t) \/ RecvWouldBlock(t)
               \/ RecvBlocked(t)
               \/ SendTaken(t) \/ SendWouldBlock(t) \/ SendAbort(t) \/ SendEof(t) \/ SendFails(t)
        PROVE  ended' = ended
    BY <1>2 DEF RecvCall, SendCall, Call, Cancel, Ready, Wait, Woken, Clear, SendEnded, RecvChunk,
         RecvSocketError, RecvEof, RecvWouldBlock, RecvBlocked, SendTaken, SendWouldBlock,
         SendAbort, SendEof, SendFails, others
  <1>3. Receivers \subseteq Tasks /\ Senders \subseteq Tasks
    BY TasksAssumption
  <1>4. CASE \E r \in Receivers : RecvCall(r) \/ RecvStep(r)
    BY <1>2, <1>3, <1>4 DEF RecvStep
  <1>5. CASE \E s \in Senders : SendCall(s) \/ SendStep(s)
    BY <1>2, <1>3, <1>5 DEF SendStep
  <1> QED
    BY <1>1, <1>2, <1>4, <1>5 DEF Next

\* Every step is one of the channel or changes nothing of it.
LEMMA StepImplemented ==
  ASSUME MessageInv, EndInv, [Next]_vars
  PROVE  [Channel!Next]_(Channel!channelVars)
  <1>1. TypeOK
    BY DEF MessageInv
  <1>2. CASE \E r \in Receivers : RecvEnding(r)
    BY <1>2, CloseImplemented DEF Channel!Next
  <1>3. CASE ended' = ended
    <2>1. ASSUME NEW last \in BOOLEAN, PeerData(last), UNCHANGED crateVars
          PROVE  Channel!Next
      BY <2>1, SendImplemented DEF Channel!Next
    <2>2. ASSUME NEW r \in Receivers, RecvChunk(r)
          PROVE  Channel!Next \/ UNCHANGED <<sent, delivered>>
      <3>1. sent' = sent
        BY <1>1, <2>2, ReadStep
      <3> QED
        BY <2>2, <3>1, ReceiveImplemented DEF Channel!Next
    <2>3. CASE QuietStep
      BY <1>3, <2>3 DEF QuietStep, Channel!channelVars
    <2> QED
      BY <1>1, <1>3, <2>1, <2>2, <2>3, MessageSteps DEF Channel!channelVars
  <1> QED
    BY <1>1, <1>2, <1>3, EndedChanges

\* The association implements MessageChannel.
THEOREM ChannelIsImplemented == Spec => ImplementsChannel
  <1>1. Init => Channel!Init
    BY DEF Init, KernelInit, Channel!Init
  <1>2. MessageInv /\ EndInv /\ [Next]_vars => [Channel!Next]_(Channel!channelVars)
    BY StepImplemented
  <1>3. Spec => []EndInv
    BY EndInit, EndNext, PTL DEF Spec
  <1> QED
    BY <1>1, <1>2, <1>3, MessagesInvariant, PTL DEF Spec, ImplementsChannel, Channel!Spec

=============================================================================

------------------------- MODULE SctpListenerProofs -------------------------
(***************************************************************************)
(* Theorems about SctpListener for any number of tasks that accept, any    *)
(* number of associations and every fault.                                 *)
(***************************************************************************)
EXTENDS SctpListener, TLAPS

\* A task that is setting up an association holds one.
Holding == \A t \in Tasks : pc[t] \in {"accepted", "register"} => hold[t] \in Conns

\* What a task is about to register has subscribed to its events, and so has
\* what was handed out.
Subscribed ==
  /\ \A t \in Tasks : pc[t] = "register" => hold[t] \in subscribed
  /\ \A c \in Conns : conn[c] = "out" => c \in subscribed

\* An association in the backlog is cached, harvested or signalled.
Signalled ==
  backlog # <<>> => edge \/ (event \cup ready) \cap ReadInterest # {}

\* A task about to clear the readiness of its own tick found the backlog
\* empty; what arrived since is signalled or harvested, and the clear cannot
\* hide it.
ClearIsSafe ==
  \A t \in Tasks :
    pc[t] = "clear" /\ fresh[t] /\ backlog # <<>> => edge \/ event \cap ReadInterest # {}

\* Nothing a parked task waits for is cached.
ParkedUnready ==
  \A t \in Tasks :
    waiting[t] # {} => /\ pc[t] = "wait"
                       /\ waiting[t] = ReadInterest
                       /\ ready \cap ReadInterest = {}

HoldInv == TypeOK /\ Holding /\ Subscribed
Wakeup  == Signalled /\ ClearIsSafe /\ ParkedUnready

-----------------------------------------------------------------------------
(* The types, and what the tasks hold.                                     *)

\* The steps of the loop: they touch the registration and the place of one
\* task, which ends up outside the set-up.
LEMMA LoopKeepsHold ==
  ASSUME HoldInv, NEW t \in Tasks, Call(t) \/ Poll(t) \/ Cancel(t)
  PROVE  HoldInv'
  <1>1. /\ UNCHANGED <<backlog, conn, hold, subscribed, report>>
        /\ errors' \in SUBSET Tasks
    BY DEF HoldInv, TypeOK, Call, Poll, Cancel, socketVars
  <1>2. \E label \in LoopPcs : Jump(t, label)
    BY DEF Call, Enter, Poll, LoopStep, PollReady, PollPending, PollWoken, ClearAndLoop,
      Cancel, DropCall, LoopPcs
  <1>3. FdTypeOK'
    <2>1. CASE Call(t)
      BY <2>1 DEF HoldInv, TypeOK, FdTypeOK, Call, Enter, fdVars
    <2>2. CASE Poll(t)
      <3>1. /\ FdTypeOK /\ ReadInterest \subseteq Readiness
            /\ LoopStep(t, ReadInterest)
        BY <2>2 DEF HoldInv, TypeOK, Poll, ReadInterest, Readiness
      <3>2. CASE PollReady(t, ReadInterest)
        BY <3>1, <3>2 DEF FdTypeOK, PollReady, TakeGuard
      <3>3. CASE PollPending(t, ReadInterest)
        BY <3>1, <3>3 DEF FdTypeOK, PollPending, Park
      <3>4. CASE PollWoken(t)
        BY <3>1, <3>4 DEF FdTypeOK, PollWoken, WakeUp
      <3>5. CASE ClearAndLoop(t, ReadInterest)
        BY <3>1, <3>5 DEF FdTypeOK, ClearAndLoop, ClearReady
      <3> QED
        BY <3>1, <3>2, <3>3, <3>4, <3>5 DEF LoopStep
    <2>3. CASE Cancel(t)
      BY <2>3 DEF HoldInv, TypeOK, FdTypeOK, Cancel, DropCall, Unpark, fdVars, ReadInterest,
        Readiness
    <2> QED
      BY <2>1, <2>2, <2>3
  <1>4. pc' \in [Tasks -> Pcs] /\ pc'[t] \in LoopPcs /\ \A u \in Tasks \ {t} : pc'[u] = pc[u]
    BY <1>2 DEF HoldInv, TypeOK, Jump, Pcs
  <1>5. TypeOK'
    BY <1>1, <1>3, <1>4 DEF HoldInv, TypeOK
  <1>6. Holding' /\ Subscribed'
    BY <1>1, <1>4 DEF HoldInv, Holding, Subscribed, LoopPcs
  <1> QED
    BY <1>5, <1>6 DEF HoldInv

\* The steps of the system call accept().
LEMMA AcceptKeepsHold ==
  ASSUME HoldInv, NEW t \in Tasks, Accept(t) \/ AcceptFails(t) \/ AcceptWouldBlock(t)
  PROVE  HoldInv'
  <1>1. FdTypeOK'
    BY DEF HoldInv, TypeOK, FdTypeOK, Accept, AcceptFails, AcceptWouldBlock, AfterAccept,
      DropGuard, fdVars
  <1>2. CASE Accept(t)
    <2> DEFINE c == Head(backlog)
    <2>1. c \in Conns /\ Tail(backlog) \in Seq(Conns)
      BY <1>2 DEF Accept, HoldInv, TypeOK
    <2>2. /\ backlog' = Tail(backlog) /\ conn' = [conn EXCEPT ![c] = "held"]
          /\ hold' = [hold EXCEPT ![t] = c] /\ pc' = [pc EXCEPT ![t] = "accepted"]
          /\ UNCHANGED <<subscribed, report, errors>>
      BY <1>2 DEF Accept, Jump
    <2> HIDE DEF c
    <2>3. TypeOK'
      BY <1>1, <2>1, <2>2 DEF HoldInv, TypeOK, Places, Pcs
    <2>4. Holding' /\ Subscribed'
      BY <2>1, <2>2 DEF HoldInv, TypeOK, Holding, Subscribed
    <2> QED
      BY <2>3, <2>4 DEF HoldInv
  <1>3. CASE AcceptFails(t) \/ AcceptWouldBlock(t)
    <2>1. /\ UNCHANGED <<backlog, conn, hold, subscribed, report>>
          /\ errors' \in SUBSET Tasks
      BY <1>3 DEF HoldInv, TypeOK, AcceptFails, AcceptWouldBlock, socketVars
    <2>2. \E label \in {"idle", "clear"} : pc' = [pc EXCEPT ![t] = label]
      BY <1>3 DEF AcceptFails, AcceptWouldBlock, OnWouldBlock, Jump
    <2>3. TypeOK'
      BY <1>1, <2>1, <2>2 DEF HoldInv, TypeOK, Pcs, LoopPcs
    <2>4. Holding' /\ Subscribed'
      BY <2>1, <2>2 DEF HoldInv, TypeOK, Holding, Subscribed
    <2> QED
      BY <2>3, <2>4 DEF HoldInv
  <1> QED
    BY <1>2, <1>3

\* The steps of from_raw_fd.
LEMMA FromRawFdKeepsHold ==
  ASSUME HoldInv, NEW t \in Tasks,
         Subscribe(t) \/ FromRawFdFails(t) \/ RegisterFails(t) \/ HandOut(t)
  PROVE  HoldInv'
  <1>1. CASE Subscribe(t)
    <2>1. hold[t] \in Conns
      BY <1>1 DEF Subscribe, HoldInv, Holding
    <2>2. /\ UNCHANGED <<edge, event, ready, fresh, waiting, backlog, conn, hold, report, errors>>
          /\ subscribed' = subscribed \cup {hold[t]}
          /\ pc' = [pc EXCEPT ![t] = "register"]
      BY <1>1 DEF Subscribe, Jump, fdVars
    <2>3. TypeOK'
      BY <2>1, <2>2 DEF HoldInv, TypeOK, FdTypeOK, Pcs
    <2>4. Holding' /\ Subscribed'
      BY <2>1, <2>2 DEF HoldInv, TypeOK, Holding, Subscribed, Subscribe
    <2> QED
      BY <2>3, <2>4 DEF HoldInv
  <1>2. CASE FromRawFdFails(t) \/ RegisterFails(t) \/ HandOut(t)
    <2>1. PICK place \in {"leaked", "closed", "out"} :
            Leave(t, place) /\ (place = "out" => pc[t] = "register")
      BY <1>2 DEF FromRawFdFails, RegisterFails, HandOut
    <2>2. /\ UNCHANGED <<edge, event, ready, fresh, waiting, backlog, subscribed, report>>
          /\ conn' = [conn EXCEPT ![hold[t]] = place] /\ hold' = [hold EXCEPT ![t] = 0]
          /\ pc' = [pc EXCEPT ![t] = "idle"] /\ errors' \in SUBSET Tasks
      BY <2>1 DEF Leave, Jump, fdVars, HoldInv, TypeOK
    <2>3. TypeOK'
      BY <2>2 DEF HoldInv, TypeOK, FdTypeOK, Pcs, LoopPcs, Places
    <2>4. Holding'
      BY <2>2 DEF HoldInv, TypeOK, Holding
    <2>5. Subscribed'
      BY <2>1, <2>2 DEF HoldInv, TypeOK, Subscribed
    <2> QED
      BY <2>3, <2>4, <2>5 DEF HoldInv
  <1> QED
    BY <1>1, <1>2

\* The kernel, the peers and the reactor.
LEMMA OutsideKeepsHold ==
  ASSUME HoldInv, Reactor \/ \E c \in Conns : Arrive(c) \/ Lose(c)
  PROVE  HoldInv'
  <1>1. ASSUME NEW c \in Conns, Arrive(c) PROVE HoldInv'
    <2>1. backlog' \in Seq(Conns)
      BY <1>1 DEF Arrive, HoldInv, TypeOK
    <2> QED
      BY <1>1, <2>1 DEF Arrive, HoldInv, TypeOK, FdTypeOK, Places, Holding, Subscribed
  <1>2. ASSUME NEW c \in Conns, Lose(c) PROVE HoldInv'
    BY <1>2 DEF Lose, HoldInv, TypeOK, FdTypeOK, fdVars, Reports, Holding, Subscribed
  <1>3. CASE Reactor
    <2>1. UNCHANGED <<pc, backlog, conn, hold, subscribed, report, errors>>
      BY <1>3 DEF Reactor, socketVars
    <2>2. FdTypeOK'
      BY <1>3 DEF Reactor, Harvest, Dispatch, FromEpoll, HoldInv, TypeOK, FdTypeOK
    <2> QED
      BY <2>1, <2>2 DEF HoldInv, TypeOK, Holding, Subscribed
  <1> QED
    BY <1>1, <1>2, <1>3

\* The types hold of a new listener, and no task holds anything.
LEMMA HoldInit == Init => HoldInv
  <1> SUFFICES ASSUME Init PROVE HoldInv
    OBVIOUS
  <1>1. TypeOK
    BY DEF Init, FdInit, TypeOK, FdTypeOK, Pcs, LoopPcs, Places, Reports
  <1> QED
    BY <1>1 DEF Init, HoldInv, Holding, Subscribed

\* Every step keeps the types and what is held.
LEMMA HoldNext == HoldInv /\ [Next]_vars => HoldInv'
  <1> SUFFICES ASSUME HoldInv, [Next]_vars PROVE HoldInv'
    OBVIOUS
  <1>1. CASE UNCHANGED vars
    BY <1>1 DEF vars, fdVars, socketVars, HoldInv, TypeOK, FdTypeOK, Holding, Subscribed
  <1>2. ASSUME NEW t \in Tasks, Call(t) \/ Cancel(t) \/ TaskStep(t) PROVE HoldInv'
    BY <1>2, LoopKeepsHold, AcceptKeepsHold, FromRawFdKeepsHold DEF TaskStep
  <1> QED
    BY <1>1, <1>2, OutsideKeepsHold DEF Next

\* Every reachable state of the listener is well typed: the backlog holds
\* associations and a task is at a place of the code.
THEOREM ListenerTyped == Spec => []TypeOK
  <1>1. HoldInv => TypeOK
    BY DEF HoldInv
  <1> QED
    BY <1>1, HoldInit, HoldNext, PTL DEF Spec

\* Whatever association accept() hands out has subscribed to its events, so
\* that its loss comes with a notification; the steps of from_raw_fd are in
\* the order this needs, whatever fails among them.
THEOREM LossesAreAnnounced == Spec => LossIsAnnounced
  <1>1. HoldInv /\ [Next]_vars =>
          [\A c \in Conns :
             conn[c] = "out" /\ report'[c] # report[c] => report'[c] = "notification"]_vars
    <2> SUFFICES ASSUME HoldInv, Next, NEW c \in Conns,
                        conn[c] = "out", report'[c] # report[c]
                 PROVE  report'[c] = "notification"
      OBVIOUS
    <2>1. PICK d \in Conns : Lose(d)
      BY DEF Next, Arrive, Reactor, Call, Cancel, TaskStep, Poll, Accept, AcceptFails,
        AcceptWouldBlock, Subscribe, FromRawFdFails, RegisterFails, HandOut, Leave, socketVars
    <2>2. c = d /\ c \in subscribed
      BY <2>1 DEF Lose, HoldInv, TypeOK, Subscribed
    <2> QED
      BY <2>1, <2>2 DEF Lose, HoldInv, TypeOK
  <1> QED
    BY <1>1, HoldInit, HoldNext, PTL DEF Spec, LossIsAnnounced

\* No accept returns with empty hands: it leaves the loop with an association
\* or with an error that the kernel gave it.
THEOREM NoReturnIsEmpty == Spec => NoEmptyReturn
  <1>1. HoldInv /\ [Next]_vars =>
          [\A t \in Tasks :
             pc[t] \notin {"idle", "wait"} /\ pc'[t] = "idle"
               => hold[t] # 0 \/ t \in errors']_vars
    <2> SUFFICES ASSUME HoldInv, Next, NEW t \in Tasks,
                        pc[t] \notin {"idle", "wait"}, pc'[t] = "idle"
                 PROVE  hold[t] # 0 \/ t \in errors'
      OBVIOUS
    <2>1. PICK u \in Tasks : Call(u) \/ Cancel(u) \/ TaskStep(u)
      BY DEF Next, Arrive, Lose, Reactor
    <2>2. u = t
      BY <2>1 DEF HoldInv, TypeOK, Call, Enter, Cancel, DropCall, TaskStep, Poll, LoopStep,
        PollReady, PollPending, PollWoken, ClearAndLoop, Accept, AcceptFails, AcceptWouldBlock,
        OnWouldBlock, Subscribe, FromRawFdFails, RegisterFails, HandOut, Leave, Jump
    <2>3. CASE AcceptFails(t)
      BY <2>3 DEF AcceptFails
    <2>4. CASE FromRawFdFails(t) \/ RegisterFails(t) \/ HandOut(t)
      <3>1. hold[t] \in Conns
        BY <2>4 DEF FromRawFdFails, RegisterFails, HandOut, HoldInv, Holding
      <3> QED
        BY <3>1, ListenerAssumption
    <2>5. CASE Call(t) \/ Cancel(t) \/ Poll(t) \/ Accept(t) \/ AcceptWouldBlock(t) \/ Subscribe(t)
      BY <2>5 DEF HoldInv, TypeOK, Call, Enter, Cancel, DropCall, Poll, LoopStep,
        PollReady, PollPending, PollWoken, ClearAndLoop, Accept, AcceptWouldBlock,
        OnWouldBlock, Subscribe, Jump
    <2> QED
      BY <2>1, <2>2, <2>3, <2>4, <2>5 DEF TaskStep
  <1> QED
    BY <1>1, HoldInit, HoldNext, PTL DEF Spec, NoEmptyReturn

-----------------------------------------------------------------------------
(* No wakeup is lost.                                                      *)

\* A step of one task that adds nothing to the backlog and leaves what is
\* signalled alone loses no wakeup, unless it brings the task to its clear
\* with an association in the backlog.
LEMMA QuietKeepsWakeup ==
  ASSUME TypeOK, Wakeup, NEW t \in Tasks,
         UNCHANGED <<edge, event, ready>>,
         backlog' # <<>> => backlog # <<>>,
         \A u \in Tasks \ {t} :
           pc'[u] = pc[u] /\ fresh'[u] = fresh[u] /\ waiting'[u] = waiting[u],
         pc'[t] = "clear" => backlog' = <<>>,
         \/ waiting'[t] = {}
         \/ pc'[t] = "wait" /\ waiting'[t] = ReadInterest /\ ready \cap ReadInterest = {}
  PROVE  Wakeup'
  <1>1. Signalled'
    BY DEF Wakeup, Signalled
  <1>2. ClearIsSafe'
    BY DEF Wakeup, ClearIsSafe
  <1>3. ParkedUnready'
    BY DEF Wakeup, ParkedUnready
  <1> QED
    BY <1>1, <1>2, <1>3 DEF Wakeup

\* The reactor moves what is signalled on to the cache, where it wakes every
\* task that waits for it.
LEMMA ReactorKeepsWakeup ==
  ASSUME TypeOK, Wakeup, Reactor
  PROVE  Wakeup'
  <1>0. UNCHANGED <<pc, backlog>>
    BY DEF Reactor
  <1>1. CASE Harvest(PollEvents)
    <2>1. event' = FromEpoll(PollEvents) /\ UNCHANGED <<ready, fresh, waiting>>
      BY <1>1 DEF Harvest
    <2>2. backlog # <<>> => "READABLE" \in event'
      BY <2>1 DEF FromEpoll, PollEvents, EpollEvents, Readiness
    <2> QED
      BY <1>0, <2>1, <2>2 DEF Wakeup, Signalled, ClearIsSafe, ParkedUnready, ReadInterest
  <1>2. CASE Dispatch
    <2>1. /\ ready' = ready \cup event /\ event' = {} /\ UNCHANGED edge
          /\ \A u \in Tasks : fresh'[u] = FALSE
          /\ \A u \in Tasks :
               waiting'[u] = IF waiting[u] \cap event # {} THEN {} ELSE waiting[u]
      BY <1>2 DEF Dispatch
    <2>2. Signalled'
      BY <1>0, <2>1 DEF Wakeup, Signalled
    <2>3. ClearIsSafe'
      BY <2>1 DEF ClearIsSafe
    <2>4. ParkedUnready'
      BY <1>0, <2>1 DEF Wakeup, ParkedUnready
    <2> QED
      BY <2>2, <2>3, <2>4 DEF Wakeup
  <1> QED
    BY <1>1, <1>2 DEF Reactor

\* clear_ready() removes readiness of the tick in which the task found the
\* backlog empty, and an association that came after is still signalled.
LEMMA ClearKeepsWakeup ==
  ASSUME TypeOK, Wakeup, NEW t \in Tasks, ClearAndLoop(t, ReadInterest), UNCHANGED backlog
  PROVE  Wakeup'
  <1>1. /\ pc[t] = "clear" /\ pc' = [pc EXCEPT ![t] = "poll"]
        /\ ready' = IF fresh[t]
                    THEN ready \ (ReadInterest \ {"READ_CLOSED", "WRITE_CLOSED"}) ELSE ready
        /\ fresh' = [fresh EXCEPT ![t] = FALSE]
        /\ UNCHANGED <<edge, event, waiting>>
    BY DEF ClearAndLoop, ClearReady, Jump
  <1>2. Signalled'
    BY <1>1 DEF Wakeup, Signalled, ClearIsSafe
  <1>3. ClearIsSafe'
    BY <1>1 DEF TypeOK, FdTypeOK, Wakeup, ClearIsSafe
  <1>4. ParkedUnready'
    BY <1>1 DEF TypeOK, Wakeup, ParkedUnready
  <1> QED
    BY <1>2, <1>3, <1>4 DEF Wakeup

\* The other steps of the loop.
LEMMA WaitingKeepsWakeup ==
  ASSUME TypeOK, Wakeup, NEW t \in Tasks, UNCHANGED backlog,
         \/ Enter(t) \/ DropCall(t) \/ PollWoken(t)
         \/ PollReady(t, ReadInterest) \/ PollPending(t, ReadInterest)
  PROVE  Wakeup'
  <1> USE DEF Enter, DropCall, PollWoken, PollReady, PollPending, TakeGuard, Park, WakeUp,
        Unpark, Jump, fdVars, TypeOK, FdTypeOK
  <1>1. UNCHANGED <<edge, event, ready>>
    OBVIOUS
  <1>2. \A u \in Tasks \ {t} :
          pc'[u] = pc[u] /\ fresh'[u] = fresh[u] /\ waiting'[u] = waiting[u]
    OBVIOUS
  <1>3. pc'[t] # "clear"
    OBVIOUS
  <1>4. \/ waiting'[t] = {}
        \/ pc'[t] = "wait" /\ waiting'[t] = ReadInterest /\ ready \cap ReadInterest = {}
    BY DEF Wakeup, ParkedUnready
  <1> QED
    BY <1>1, <1>2, <1>3, <1>4, QuietKeepsWakeup

\* A task at the kernel, or in from_raw_fd.
LEMMA AcceptKeepsWakeup ==
  ASSUME TypeOK, Wakeup, NEW t \in Tasks,
         \/ Accept(t) \/ AcceptFails(t) \/ AcceptWouldBlock(t)
         \/ Subscribe(t) \/ FromRawFdFails(t) \/ RegisterFails(t) \/ HandOut(t)
  PROVE  Wakeup'
  <1> USE DEF Accept, AcceptFails, AcceptWouldBlock, Subscribe, FromRawFdFails, RegisterFails,
        HandOut, Leave
  <1>1. UNCHANGED <<edge, event, ready, waiting>>
    BY DEF AfterAccept, DropGuard, fdVars
  <1>2. backlog' # <<>> => backlog # <<>>
    OBVIOUS
  <1>3. \A u \in Tasks \ {t} :
          pc'[u] = pc[u] /\ fresh'[u] = fresh[u] /\ waiting'[u] = waiting[u]
    BY <1>1 DEF AfterAccept, DropGuard, fdVars, OnWouldBlock, Jump, TypeOK, FdTypeOK
  <1>4. pc'[t] = "clear" => backlog' = <<>>
    BY DEF OnWouldBlock, Jump, TypeOK
  <1>5. waiting'[t] = {}
    BY <1>1 DEF Wakeup, ParkedUnready
  <1> QED
    BY <1>1, <1>2, <1>3, <1>4, <1>5, QuietKeepsWakeup

\* A new listener has an edge and nobody waits.
LEMMA WakeupInit == Init => Wakeup
  BY DEF Init, FdInit, Wakeup, Signalled, ClearIsSafe, ParkedUnready

\* Every step keeps the wakeups.
LEMMA WakeupNext == TypeOK /\ Wakeup /\ [Next]_vars => Wakeup'
  <1> SUFFICES ASSUME TypeOK, Wakeup, [Next]_vars PROVE Wakeup'
    OBVIOUS
  <1>1. CASE UNCHANGED vars
    BY <1>1 DEF vars, fdVars, Wakeup, Signalled, ClearIsSafe, ParkedUnready
  <1>2. ASSUME NEW c \in Conns, Arrive(c) PROVE Wakeup'
    BY <1>2 DEF Arrive, Wakeup, Signalled, ClearIsSafe, ParkedUnready
  <1>3. ASSUME NEW c \in Conns, Lose(c) PROVE Wakeup'
    BY <1>3 DEF Lose, fdVars, Wakeup, Signalled, ClearIsSafe, ParkedUnready
  <1>4. ASSUME NEW t \in Tasks, Call(t) \/ Cancel(t) \/ Poll(t) PROVE Wakeup'
    BY <1>4, WaitingKeepsWakeup, ClearKeepsWakeup DEF Call, Cancel, Poll, LoopStep
  <1>5. ASSUME NEW t \in Tasks, TaskStep(t) PROVE Wakeup'
    BY <1>4, <1>5, AcceptKeepsWakeup DEF TaskStep
  <1> QED
    BY <1>1, <1>2, <1>3, <1>4, <1>5, ReactorKeepsWakeup DEF Next

\* No task that waits to accept overlooks an association, however many tasks
\* share the listener: what one of them clears is never the readiness of an
\* association that arrived after it looked.
THEOREM AcceptsAreWoken == Spec => []NoLostWakeup
  <1>1. Wakeup => NoLostWakeup
    BY DEF Wakeup, Signalled, ParkedUnready, NoLostWakeup
  <1>2. Init => HoldInv /\ Wakeup
    BY HoldInit, WakeupInit
  <1>3. HoldInv /\ Wakeup /\ [Next]_vars => (HoldInv /\ Wakeup)'
    BY HoldNext, WakeupNext DEF HoldInv
  <1> QED
    BY <1>1, <1>2, <1>3, PTL DEF Spec

=============================================================================

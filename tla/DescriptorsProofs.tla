------------------------- MODULE DescriptorsProofs -------------------------
(***************************************************************************)
(* Ownership of the descriptors, for any number of threads and             *)
(* descriptors: as long as no registration of a bind fails, every wrapper  *)
(* keeps its descriptor open and its own; and whatever fails, only         *)
(* from_raw_fd leaks.                                                      *)
(***************************************************************************)
EXTENDS Descriptors, TLAPS

\* A thread that has a number at hand, wrapper or not, made the socket it
\* stands for.  This is what DescriptorIsOwn needs to be inductive: a thread
\* that closes a number on an error path closes its own socket.
AtHand ==
  \A t \in Threads :
    pc[t] # "idle" => /\ fd[t] \in Fds
                      /\ call[t] \in Constructors
                      /\ table[fd[t]] = [by |-> t, kind |-> call[t]]

OwnInv == TypeOK /\ AtHand

\* A step of thread t that closes its number and forgets it, or lets go of it
\* without a close, leaves the sockets of the others alone.
LEMMA ReturnKeepsAtHand ==
  ASSUME OwnInv, NEW t \in Threads, pc[t] # "idle",
         Return(t), Close(fd[t]) \/ UNCHANGED table
  PROVE  OwnInv'
  <1>1. fd[t] \in Fds /\ table[fd[t]] = [by |-> t, kind |-> call[t]]
    BY DEF OwnInv, AtHand
  <1>2. TypeOK'
    BY DEF OwnInv, TypeOK, Return, Close, Files, Pcs
  <1>3. AtHand'
    <2> SUFFICES ASSUME NEW u \in Threads, pc'[u] # "idle"
                 PROVE  /\ fd'[u] \in Fds /\ call'[u] \in Constructors
                        /\ table'[fd'[u]] = [by |-> u, kind |-> call'[u]]
      BY DEF AtHand
    <2>1. u # t /\ fd'[u] = fd[u] /\ pc[u] # "idle" /\ call'[u] = call[u]
      BY DEF OwnInv, TypeOK, Return
    <2>2. fd[u] \in Fds /\ call[u] \in Constructors /\ table[fd[u]] = [by |-> u, kind |-> call[u]]
      BY <2>1 DEF OwnInv, AtHand
    <2>3. fd[u] # fd[t]
      BY <1>1, <2>1, <2>2
    <2> QED
      BY <2>1, <2>2, <2>3, <1>1 DEF Close, OwnInv, TypeOK
  <1> QED
    BY <1>2, <1>3 DEF OwnInv

\* A step that only moves the thread on keeps the number at hand.
LEMMA GotoKeepsAtHand ==
  ASSUME OwnInv, NEW t \in Threads, pc[t] # "idle", NEW label \in Pcs,
         Goto(t, label), UNCHANGED table
  PROVE  OwnInv'
  BY DEF OwnInv, AtHand, TypeOK, Goto

\* A new socket takes a free number, which no other thread has at hand.
LEMMA OpenKeepsAtHand ==
  ASSUME OwnInv, NEW t \in Threads, NEW kind \in Constructors, Open(t, kind)
  PROVE  OwnInv'
  <1>1. PICK f \in Fds :
          /\ table[f] = Free
          /\ table' = [table EXCEPT ![f] = [by |-> t, kind |-> kind]]
          /\ fd' = [fd EXCEPT ![t] = f]
    BY DEF Open
  <1>2. /\ pc[t] = "idle"
        /\ pc' = [pc EXCEPT ![t] = "setup"]
        /\ call' = [call EXCEPT ![t] = kind]
    BY DEF Open
  <1>3. TypeOK'
    BY <1>1, <1>2 DEF OwnInv, TypeOK, Files, Pcs
  <1>4. AtHand'
    <2> SUFFICES ASSUME NEW u \in Threads, pc'[u] # "idle"
                 PROVE  /\ fd'[u] \in Fds /\ call'[u] \in Constructors
                        /\ table'[fd'[u]] = [by |-> u, kind |-> call'[u]]
      BY DEF AtHand
    <2>1. CASE u = t
      BY <2>1, <1>1, <1>2 DEF OwnInv, TypeOK
    <2>2. CASE u # t
      <3>1. fd'[u] = fd[u] /\ pc[u] # "idle" /\ call'[u] = call[u]
        BY <2>2, <1>1, <1>2 DEF OwnInv, TypeOK
      <3>2. /\ fd[u] \in Fds /\ call[u] \in Constructors
            /\ table[fd[u]] = [by |-> u, kind |-> call[u]]
        BY <3>1 DEF OwnInv, AtHand
      <3>3. fd[u] # f
        <4>1. table[fd[u]].kind # "none"
          BY <3>2 DEF Constructors
        <4>2. table[f].kind = "none"
          BY <1>1 DEF Free
        <4> QED
          BY <4>1, <4>2
      <3> QED
        BY <3>1, <3>2, <3>3, <1>1 DEF OwnInv, TypeOK
    <2> QED
      BY <2>1, <2>2
  <1> QED
    BY <1>3, <1>4 DEF OwnInv

\* Every step keeps the ownership, with the registration of a bind excepted
\* from the faults: its error path would close the number a second time.
LEMMA OwnNext ==
  ASSUME <<"bind", "register">> \notin Faults
  PROVE  OwnInv /\ [Next]_vars => OwnInv'
  <1> SUFFICES ASSUME OwnInv, [Next]_vars PROVE OwnInv'
    OBVIOUS
  <1>1. ASSUME NEW t \in Threads, Step(t) PROVE OwnInv'
    <2>1. CASE \E kind \in Constructors : Open(t, kind)
      BY <2>1, OpenKeepsAtHand
    <2>2. CASE OpenFails(t)
      BY <2>2 DEF OpenFails, vars, OwnInv, AtHand, TypeOK
    <2>3. CASE SetUp(t) \/ BindSetUpFails(t) \/ Register(t)
      BY <2>3, GotoKeepsAtHand DEF SetUp, BindSetUpFails, Register, Pcs
    <2>4. CASE ConnectSetUpFails(t) \/ FromRawFdFails(t) \/ BindFails(t) \/ Drop(t)
      BY <2>4, ReturnKeepsAtHand DEF ConnectSetUpFails, FromRawFdFails, BindFails, Drop
    <2>5. CASE RegisterFails(t)
      BY <2>5, ReturnKeepsAtHand DEF RegisterFails
    <2> QED
      BY <1>1, <2>1, <2>2, <2>3, <2>4, <2>5 DEF Step
  <1>2. CASE UNCHANGED vars
    BY <1>2 DEF vars, OwnInv, AtHand, TypeOK
  <1> QED
    BY <1>1, <1>2 DEF Next

\* No error path and no drop of one thread closes the socket of another, with
\* any number of threads, for every fault but the failed registration of a
\* bind.
THEOREM DescriptorsAreOwned ==
  ASSUME <<"bind", "register">> \notin Faults
  PROVE  Spec => []DescriptorIsOwn
  <1>1. Init => OwnInv
    BY DEF Init, OwnInv, AtHand, TypeOK, Files, Pcs
  <1>2. OwnInv /\ [Next]_vars => OwnInv'
    BY OwnNext
  <1>3. OwnInv => DescriptorIsOwn
    BY DEF OwnInv, AtHand, DescriptorIsOwn, HasWrapper
  <1> QED
    BY <1>1, <1>2, <1>3, PTL DEF Spec

-----------------------------------------------------------------------------
(* Leaks: here no fault is excepted.                                       *)

\* A socket that is not from accept or peeloff is at hand in a call of its
\* kind: this is what OnlyFromRawFdLeaks needs to be inductive, since
\* from_raw_fd lets go of a number in the calls of the other kinds.
Reachable ==
  \A f \in Fds :
    table[f] # Free /\ table[f].kind \notin {"accept", "peeloff"}
      => LET t == table[f].by
         IN  fd[t] = f /\ call[t] = table[f].kind /\ pc[t] # "idle"

LeakInv == TypeOK /\ Reachable

\* A thread that lets go of its number has closed it, or has nothing that
\* counts.
LEMMA ReturnKeepsReachable ==
  ASSUME LeakInv, NEW t \in Threads, Return(t),
         \/ Close(fd[t])
         \/ UNCHANGED table /\ call[t] \in {"accept", "peeloff"}
  PROVE  LeakInv'
  <1>1. TypeOK'
    BY DEF LeakInv, TypeOK, Return, Close, Files, Pcs
  <1>2. Reachable'
    <2> SUFFICES ASSUME NEW f \in Fds, table'[f] # Free,
                        table'[f].kind \notin {"accept", "peeloff"}
                 PROVE  LET u == table'[f].by
                        IN  fd'[u] = f /\ call'[u] = table'[f].kind /\ pc'[u] # "idle"
      BY DEF Reachable
    <2>1. table'[f] = table[f] /\ (fd[t] = f => call[t] \in {"accept", "peeloff"})
      BY DEF LeakInv, TypeOK, Close
    <2> DEFINE u == table[f].by
    <2>2. fd[u] = f /\ call[u] = table[f].kind /\ pc[u] # "idle"
      BY <2>1 DEF LeakInv, Reachable
    <2>3. u \in Threads
      BY <2>1 DEF LeakInv, TypeOK, Files
    <2>4. u # t
      BY <2>1, <2>2
    <2> QED
      BY <2>1, <2>2, <2>3, <2>4 DEF Return, LeakInv, TypeOK
  <1> QED
    BY <1>1, <1>2 DEF LeakInv

\* A step that moves the thread on, also one that closes a number, keeps what
\* is left reachable.
LEMMA GotoKeepsReachable ==
  ASSUME LeakInv, NEW t \in Threads, NEW label \in Pcs \ {"idle"},
         Goto(t, label), UNCHANGED table \/ Close(fd[t])
  PROVE  LeakInv'
  <1>1. TypeOK'
    BY DEF LeakInv, TypeOK, Goto, Close, Files
  <1>2. Reachable'
    <2> SUFFICES ASSUME NEW f \in Fds, table'[f] # Free,
                        table'[f].kind \notin {"accept", "peeloff"}
                 PROVE  LET u == table'[f].by
                        IN  fd'[u] = f /\ call'[u] = table'[f].kind /\ pc'[u] # "idle"
      BY DEF Reachable
    <2>1. table'[f] = table[f]
      BY DEF LeakInv, TypeOK, Close
    <2> DEFINE u == table[f].by
    <2>2. fd[u] = f /\ call[u] = table[f].kind /\ pc[u] # "idle"
      BY <2>1 DEF LeakInv, Reachable
    <2>3. u \in Threads
      BY <2>1 DEF LeakInv, TypeOK, Files
    <2> QED
      BY <2>1, <2>2, <2>3 DEF Goto, LeakInv, TypeOK
  <1> QED
    BY <1>1, <1>2 DEF LeakInv

\* A thread that opens a socket was idle: no socket that counts was its own.
LEMMA OpenKeepsReachable ==
  ASSUME LeakInv, NEW t \in Threads, NEW kind \in Constructors, Open(t, kind)
  PROVE  LeakInv'
  <1>1. PICK g \in Fds :
          /\ table' = [table EXCEPT ![g] = [by |-> t, kind |-> kind]]
          /\ fd' = [fd EXCEPT ![t] = g]
    BY DEF Open
  <1>2. /\ pc[t] = "idle"
        /\ pc' = [pc EXCEPT ![t] = "setup"]
        /\ call' = [call EXCEPT ![t] = kind]
    BY DEF Open
  <1>3. TypeOK'
    BY <1>1, <1>2 DEF LeakInv, TypeOK, Files, Pcs
  <1>4. Reachable'
    <2> SUFFICES ASSUME NEW f \in Fds, table'[f] # Free,
                        table'[f].kind \notin {"accept", "peeloff"}
                 PROVE  LET u == table'[f].by
                        IN  fd'[u] = f /\ call'[u] = table'[f].kind /\ pc'[u] # "idle"
      BY DEF Reachable
    <2>1. CASE f = g
      BY <2>1, <1>1, <1>2 DEF LeakInv, TypeOK
    <2>2. CASE f # g
      <3> DEFINE u == table[f].by
      <3>1. table'[f] = table[f]
        BY <2>2, <1>1 DEF LeakInv, TypeOK
      <3>2. fd[u] = f /\ call[u] = table[f].kind /\ pc[u] # "idle"
        BY <3>1 DEF LeakInv, Reachable
      <3>3. u \in Threads
        BY <3>1 DEF LeakInv, TypeOK, Files
      <3> QED
        BY <3>1, <3>2, <3>3, <1>1, <1>2 DEF LeakInv, TypeOK
    <2> QED
      BY <2>1, <2>2
  <1> QED
    BY <1>3, <1>4 DEF LeakInv

\* No descriptor is open at the start.
LEMMA LeakInitially == Init => LeakInv
  BY DEF Init, LeakInv, Reachable, TypeOK, Files, Pcs

\* Every step, under every fault, keeps what is open reachable.
LEMMA LeakNext == LeakInv /\ [Next]_vars => LeakInv'
  <1> SUFFICES ASSUME LeakInv, [Next]_vars PROVE LeakInv'
    OBVIOUS
  <1>1. ASSUME NEW t \in Threads, Step(t) PROVE LeakInv'
    <2>1. CASE \E kind \in Constructors : Open(t, kind)
      BY <2>1, OpenKeepsReachable
    <2>2. CASE OpenFails(t)
      BY <2>2 DEF OpenFails, vars, LeakInv, Reachable, TypeOK
    <2>3. CASE SetUp(t) \/ BindSetUpFails(t) \/ Register(t)
      BY <2>3, GotoKeepsReachable DEF SetUp, BindSetUpFails, Register, Pcs
    <2>4. CASE ConnectSetUpFails(t) \/ FromRawFdFails(t) \/ BindFails(t) \/ Drop(t)
      BY <2>4, ReturnKeepsReachable
      DEF ConnectSetUpFails, FromRawFdFails, BindFails, Drop
    <2>5. CASE RegisterFails(t)
      BY <2>5, ReturnKeepsReachable, GotoKeepsReachable DEF RegisterFails, Pcs
    <2> QED
      BY <1>1, <2>1, <2>2, <2>3, <2>4, <2>5 DEF Step
  <1>2. CASE UNCHANGED vars
    BY <1>2 DEF vars, LeakInv, Reachable, TypeOK
  <1> QED
    BY <1>1, <1>2 DEF Next

\* The descriptor table and the threads stay well-formed under every fault,
\* the double close of a bind included.
THEOREM DescriptorsTyped == Spec => []TypeOK
  <1>1. LeakInv => TypeOK
    BY DEF LeakInv
  <1> QED
    BY <1>1, LeakInitially, LeakNext, PTL DEF Spec

\* Under every fault, with any number of threads, a socket made by a bind or a
\* connect can still be closed by the thread that made it: only the error
\* paths of from_raw_fd, behind accept and peeloff, lose one.
THEOREM LeaksOnlyFromRawFd == Spec => []OnlyFromRawFdLeaks
  <1>1. LeakInv => OnlyFromRawFdLeaks
    BY DEF LeakInv, Reachable, OnlyFromRawFdLeaks
  <1> QED
    BY <1>1, LeakInitially, LeakNext, PTL DEF Spec

=============================================================================

---------------------------- MODULE Descriptors ----------------------------
(***************************************************************************)
(* Who owns a socket descriptor, from the system call that makes it to the *)
(* close: the constructors of SctpListener and SctpServer (bind_impl,      *)
(* setup), the association made of an accepted or peeled-off descriptor    *)
(* (from_raw_fd), the registration (reactor::register) and the Drop of the *)
(* sockets, run by threads that share the descriptor table of the process. *)
(* connect_bound is here as one of the constructors; SctpSetup has its     *)
(* steps.                                                                  *)
(***************************************************************************)
EXTENDS Integers

CONSTANTS
  Threads,    \* threads that make and drop sockets, one at a time each
  Fds,        \* bound: the descriptors of the process
  Faults      \* the <<constructor, step>> pairs that may fail

Constructors == {"bind", "connect", "accept", "peeloff"}

ASSUME DescriptorsAssumption ==
  /\ Fds \subseteq Nat \ {0}
  /\ Faults \subseteq Constructors \X {"setup", "register"}

VARIABLES
  table,   \* who opened each descriptor: [by, kind], or Free
  call,    \* the constructor each thread is in or used last
  pc,      \* where each thread is
  fd       \* the descriptor number each thread has at hand, 0 for none

vars == <<table, call, pc, fd>>

Free  == [by |-> "nobody", kind |-> "none"]
Files == [by : Threads, kind : Constructors] \cup {Free}

\* idle; setup: a socket is being set up; register: about to be registered;
\* bind_error: setup() of a bind has returned an error; live: registered, in
\* the hands of the program.
Pcs == {"idle", "setup", "register", "bind_error", "live"}

TypeOK ==
  /\ table \in [Fds -> Files]
  /\ call \in [Threads -> Constructors \cup {"none"}]
  /\ pc \in [Threads -> Pcs]
  /\ fd \in [Threads -> Fds \cup {0}]

Init ==
  /\ table = [f \in Fds |-> Free]
  /\ call = [t \in Threads |-> "none"]
  /\ pc = [t \in Threads |-> "idle"]
  /\ fd = [t \in Threads |-> 0]

\* The thread has constructed the wrapper (SctpSocket, ListenSocket,
\* ServerSocket) whose Drop closes the descriptor: connect_bound right after
\* socket(), the others in the call of register.
HasWrapper(t) ==
  \/ pc[t] \in {"register", "live"}
  \/ pc[t] = "setup" /\ call[t] = "connect"

\* close(2): whatever the number stands for by now is closed.
Close(f) == table' = [table EXCEPT ![f] = Free]

Goto(t, label) == pc' = [pc EXCEPT ![t] = label] /\ UNCHANGED <<call, fd>>
Return(t) ==
  /\ pc' = [pc EXCEPT ![t] = "idle"]
  /\ fd' = [fd EXCEPT ![t] = 0]
  /\ UNCHANGED call

-----------------------------------------------------------------------------
\* socket(), accept() or sctp_peeloff(): the lowest free number ...
Open(t, kind) ==
  /\ pc[t] = "idle"
  /\ \E f \in Fds :
       /\ table[f] = Free
       /\ \A g \in Fds : table[g] = Free => f <= g
       /\ table' = [table EXCEPT ![f] = [by |-> t, kind |-> kind]]
       /\ fd' = [fd EXCEPT ![t] = f]
  /\ pc' = [pc EXCEPT ![t] = "setup"]
  /\ call' = [call EXCEPT ![t] = kind]

\* Mutant: the result of the system call is used without a look at its sign.
OpenFailsUnchecked(t) ==
  /\ pc[t] = "idle"
  /\ \A f \in Fds : table[f] # Free
  /\ fd' = [fd EXCEPT ![t] = -1]
  /\ pc' = [pc EXCEPT ![t] = "setup"]
  /\ UNCHANGED <<table, call>>

\* ... or, when there is none, an error that the constructor returns.
OpenFails(t) ==
  /\ pc[t] = "idle"
  /\ \A f \in Fds : table[f] # Free
  /\ UNCHANGED vars

\* The options, bind, sctp_bindx, listen, the event subscription.
SetUp(t) ==
  /\ pc[t] = "setup"
  /\ Goto(t, "register")
  /\ UNCHANGED table

\* Mutant: the error of the set-up is returned as it is.
BindSetUpLeaves(t) ==
  /\ pc[t] = "setup"
  /\ call[t] = "bind"
  /\ <<"bind", "setup">> \in Faults
  /\ Return(t)
  /\ UNCHANGED table

\* A bind leaves the close to bind_impl ...
BindSetUpFails(t) ==
  /\ pc[t] = "setup"
  /\ call[t] = "bind"
  /\ <<"bind", "setup">> \in Faults
  /\ Goto(t, "bind_error")
  /\ UNCHANGED table

\* ... in connect_bound the socket is dropped ...
ConnectSetUpFails(t) ==
  /\ pc[t] = "setup"
  /\ call[t] = "connect"
  /\ <<"connect", "setup">> \in Faults
  /\ Close(fd[t])
  /\ Return(t)

\* ... and from_raw_fd returns the error with the number in nobody's hands.
FromRawFdFails(t) ==
  /\ pc[t] = "setup"
  /\ call[t] \in {"accept", "peeloff"}
  /\ <<call[t], "setup">> \in Faults
  /\ Return(t)
  /\ UNCHANGED table

Register(t) ==
  /\ pc[t] = "register"
  /\ Goto(t, "live")
  /\ UNCHANGED table

\* Mutant: the error path closes the number as well, as connect once did.
RegisterFailsCloses(t) ==
  /\ pc[t] = "register"
  /\ <<call[t], "register">> \in Faults
  /\ Close(fd[t])
  /\ Goto(t, "bind_error")

\* A registration that fails drops the wrapper, which closes the descriptor;
\* the error then goes through bind_impl for a bind.
RegisterFails(t) ==
  /\ pc[t] = "register"
  /\ <<call[t], "register">> \in Faults
  /\ Close(fd[t])
  /\ IF call[t] = "bind" THEN Goto(t, "bind_error") ELSE Return(t)

\* bind_impl, Err(e): close(fd), then the return.
BindFails(t) ==
  /\ pc[t] = "bind_error"
  /\ Close(fd[t])
  /\ Return(t)

\* The program drops the socket: deregistered, then closed.
Drop(t) ==
  /\ pc[t] = "live"
  /\ Close(fd[t])
  /\ Return(t)

Step(t) ==
  \/ \E kind \in Constructors : Open(t, kind)
  \/ OpenFails(t)
  \/ SetUp(t) \/ BindSetUpFails(t) \/ ConnectSetUpFails(t) \/ FromRawFdFails(t)
  \/ Register(t) \/ RegisterFails(t) \/ BindFails(t)
  \/ Drop(t)

Next == \E t \in Threads : Step(t)

Spec == Init /\ [][Next]_vars

-----------------------------------------------------------------------------
(* Properties.                                                             *)

\* reactor.rs, OwnsDescriptor: "the descriptor is open from the wrapper's
\* construction until its `Drop` closes it": no error path of another thread
\* closes it, and its number stands for the socket the thread made.
DescriptorIsOwn ==
  \A t \in Threads :
    HasWrapper(t) => table[fd[t]] = [by |-> t, kind |-> call[t]]

\* Every open descriptor is at hand in the thread that opened it, so that it
\* can still be closed; the descriptors of accept and peeloff are excepted,
\* which from_raw_fd loses when it fails.
OnlyFromRawFdLeaks ==
  \A f \in Fds :
    table[f] # Free /\ table[f].kind \notin {"accept", "peeloff"}
      => fd[table[f].by] = f

=============================================================================

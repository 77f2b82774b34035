---------------------------- MODULE SctpListener ----------------------------
(***************************************************************************)
(* src/listener.rs, accept(): any number of tasks accept on one listener.  *)
(* The association a task is given by the kernel goes through from_raw_fd  *)
(* (src/association.rs) before it is handed out: made non-blocking,        *)
(* subscribed to events, registered.  It may be lost at any time.          *)
(***************************************************************************)
EXTENDS ReadyLoop, SequencesExt

CONSTANTS
  Conns,     \* bound: the associations that peers set up
  Faults     \* which of "accept", "from_raw_fd" and "register" may fail

ASSUME ListenerAssumption ==
  Conns \subseteq Nat \ {0} /\ Faults \subseteq {"accept", "from_raw_fd", "register"}

VARIABLES
  backlog,     \* associations to be accepted
  conn,        \* where each association is
  hold,        \* the accepted association each task is setting up, 0 for none
  subscribed,  \* those whose socket subscribed to events
  report,      \* how the loss of each is told to its socket
  errors       \* accepts that returned an error which the kernel gave them

socketVars == <<conn, hold, subscribed, report>>
vars == <<fdVars, pc, backlog, socketVars, errors>>

\* leaked: open with no owner; closed: dropped with its socket.
Places  == {"none", "queued", "held", "out", "leaked", "closed"}
Reports == {"none", "end of file", "error", "notification"}
Pcs     == LoopPcs \cup {"accepted", "register"}

TypeOK ==
  /\ FdTypeOK
  /\ pc \in [Tasks -> Pcs]
  /\ backlog \in Seq(Conns)
  /\ conn \in [Conns -> Places]
  /\ hold \in [Tasks -> Conns \cup {0}]
  /\ subscribed \in SUBSET Conns
  /\ report \in [Conns -> Reports]
  /\ errors \in SUBSET Tasks

Init ==
  /\ FdInit
  /\ pc = [t \in Tasks |-> "idle"]
  /\ backlog = <<>>
  /\ conn = [c \in Conns |-> "none"]
  /\ hold = [t \in Tasks |-> 0]
  /\ subscribed = {}
  /\ report = [c \in Conns |-> "none"]
  /\ errors = {}

-----------------------------------------------------------------------------
(* The kernel and the peers.                                               *)

PollEvents == {e \in EpollEvents : e = "IN" /\ backlog # <<>>}

Arrive(c) ==
  /\ conn[c] = "none"
  /\ conn' = [conn EXCEPT ![c] = "queued"]
  /\ backlog' = Append(backlog, c)
  /\ edge' = TRUE
  /\ UNCHANGED <<event, ready, fresh, waiting, pc, hold, subscribed, report, errors>>

\* An association that is lost stays in the backlog and is accepted as one at
\* its end of file; later the socket error is set, and a notification queued
\* if the socket subscribed to it.
Lose(c) ==
  /\ conn[c] \in {"queued", "held", "out"}
  /\ report[c] = "none"
  /\ report' = [report EXCEPT ![c] =
       IF conn[c] = "queued" THEN "end of file"
       ELSE IF c \in subscribed THEN "notification" ELSE "error"]
  /\ UNCHANGED <<fdVars, pc, backlog, conn, hold, subscribed, errors>>

Reactor == (Harvest(PollEvents) \/ Dispatch) /\ UNCHANGED <<pc, backlog, socketVars, errors>>

-----------------------------------------------------------------------------
(* accept().                                                               *)

Call(t) == Enter(t) /\ errors' = errors \ {t} /\ UNCHANGED <<backlog, socketVars>>

Poll(t) == LoopStep(t, ReadInterest) /\ UNCHANGED <<backlog, socketVars, errors>>

Cancel(t) == DropCall(t) /\ UNCHANGED <<backlog, socketVars, errors>>

\* Mutant: the readiness is used up by the association it led to.
AfterAcceptClears(t) == ClearReady(t, ReadInterest)

\* A guard that led to an association is dropped: there may be another.
AfterAccept(t) == DropGuard(t)

Accept(t) ==
  /\ pc[t] = "step"
  /\ backlog # <<>>
  /\ backlog' = Tail(backlog)
  /\ conn' = [conn EXCEPT ![Head(backlog)] = "held"]
  /\ hold' = [hold EXCEPT ![t] = Head(backlog)]
  /\ AfterAccept(t)
  /\ Jump(t, "accepted")
  /\ UNCHANGED <<subscribed, report, errors>>

\* Mutant: the result is used without a look at its sign.
AcceptFailsUnchecked(t) ==
  /\ pc[t] = "step"
  /\ "accept" \in Faults
  /\ DropGuard(t)
  /\ Jump(t, "accepted")
  /\ UNCHANGED <<backlog, socketVars, errors>>

\* Any error but EWOULDBLOCK is returned (EMFILE, say).
AcceptFails(t) ==
  /\ pc[t] = "step"
  /\ "accept" \in Faults
  /\ errors' = errors \cup {t}
  /\ DropGuard(t)
  /\ Jump(t, "idle")
  /\ UNCHANGED <<backlog, socketVars>>

\* Mutants: EWOULDBLOCK is an error like the others; the readiness is left as
\* it is.
OnWouldBlockReturns(t) == Jump(t, "idle")
OnWouldBlockLoops(t)   == Jump(t, "poll")

OnWouldBlock(t) == Jump(t, "clear")

\* Another task was faster, or the readiness is old.
AcceptWouldBlock(t) ==
  /\ pc[t] = "step"
  /\ backlog = <<>>
  /\ OnWouldBlock(t)
  /\ UNCHANGED <<fdVars, backlog, socketVars, errors>>

-----------------------------------------------------------------------------
(* from_raw_fd().  There is no await in it.                                *)

\* Mutant: the subscription is left out, as on the listener's own socket.
SubscribeNot(t) ==
  /\ pc[t] = "accepted"
  /\ Jump(t, "register")
  /\ UNCHANGED <<fdVars, backlog, socketVars, errors>>

\* set_nonblocking, configure_events.
Subscribe(t) ==
  /\ pc[t] = "accepted"
  /\ subscribed' = subscribed \cup {hold[t]}
  /\ Jump(t, "register")
  /\ UNCHANGED <<fdVars, backlog, conn, hold, report, errors>>

\* The association leaves the task: it is handed out, or an error is.
Leave(t, place) ==
  /\ conn' = [conn EXCEPT ![hold[t]] = place]
  /\ hold' = [hold EXCEPT ![t] = 0]
  /\ errors' = IF place = "out" THEN errors ELSE errors \cup {t}
  /\ Jump(t, "idle")
  /\ UNCHANGED <<fdVars, backlog, subscribed, report>>

\* The peer's address cannot be read, or one of the two calls fails: nothing
\* owns the descriptor.
FromRawFdFails(t) == pc[t] = "accepted" /\ "from_raw_fd" \in Faults /\ Leave(t, "leaked")

\* The registration fails and drops the socket.
RegisterFails(t) == pc[t] = "register" /\ "register" \in Faults /\ Leave(t, "closed")

HandOut(t) == pc[t] = "register" /\ Leave(t, "out")

TaskStep(t) ==
  \/ Poll(t) \/ Accept(t) \/ AcceptFails(t) \/ AcceptWouldBlock(t)
  \/ Subscribe(t) \/ FromRawFdFails(t) \/ RegisterFails(t) \/ HandOut(t)

Next ==
  \/ \E c \in Conns : Arrive(c) \/ Lose(c)
  \/ Reactor
  \/ \E t \in Tasks : Call(t) \/ Cancel(t) \/ TaskStep(t)

Spec == Init /\ [][Next]_vars

\* The runtime turns its driver and runs every task that is in a call.
FairSpec == Spec /\ WF_vars(Reactor) /\ \A t \in Tasks : WF_vars(TaskStep(t))

-----------------------------------------------------------------------------
(* Properties.                                                             *)

\* No wakeup of an accept is lost: while one is parked and an association is
\* waiting, an edge or an event is on its way, also after other tasks took
\* associations, found none and cleared the readiness, or were dropped.
NoLostWakeup ==
  \A t \in Tasks :
    waiting[t] # {} /\ backlog # <<>> => edge \/ event \cap ReadInterest # {}

\* An accept that lost the race for an association waits on: it returns an
\* association, or an error it was given, or is dropped.
NoEmptyReturn ==
  [][\A t \in Tasks :
       pc[t] \notin {"idle", "wait"} /\ pc'[t] = "idle"
         => hold[t] # 0 \/ t \in errors']_vars

\* An association in the program's hands announces its loss by a notification
\* (tests/lost.rs relies on it): the socket error alone wakes no receive.
LossIsAnnounced ==
  [][\A c \in Conns :
       conn[c] = "out" /\ report'[c] # report[c] => report'[c] = "notification"]_vars

\* An accept comes to rest: it returns or it parks, and does not go round on
\* readiness that nothing is behind.
AcceptSettles == \A t \in Tasks : (pc[t] # "idle") ~> (pc[t] \in {"idle", "wait"})

\* An accept gets an association that waits, or the other ones took them all.
AcceptProceeds ==
  \A t \in Tasks :
    (pc[t] # "idle" /\ backlog # <<>>) ~> (pc[t] = "idle" \/ backlog = <<>>)

=============================================================================

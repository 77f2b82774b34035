------------------------------- MODULE AsyncFd -------------------------------
(***************************************************************************)
(* The tokio side of every socket of the crate: an AsyncFd registered with *)
(* an edge-triggered epoll instance.  External code (tokio and mio),       *)
(* modelled from how the crate uses it: readable(), writable(), ready(),   *)
(* clear_ready() and retain_ready() of a readiness guard.                  *)
(*                                                                         *)
(* The kernel raises an edge whenever something happened on the socket;    *)
(* the reactor collects the events that hold at that moment (Harvest),     *)
(* and later (Dispatch) adds them to the readiness cached for the socket,  *)
(* starts a new tick and wakes the tasks that wait for one of them.  The   *)
(* readiness stays cached until a task whose guard is of the current tick  *)
(* clears it.                                                              *)
(***************************************************************************)
EXTENDS Naturals

CONSTANT Tasks        \* the tasks that use the socket

VARIABLES
  edge,       \* the kernel signalled the socket since the last harvest
  event,      \* readiness harvested from epoll and not dispatched yet
  ready,      \* readiness cached in the registration
  fresh,      \* fresh[t]: the guard of t was taken in the current tick
  waiting     \* waiting[t]: the interest task t is parked for, {} if none

fdVars == <<edge, event, ready, fresh, waiting>>

Readiness == {"READABLE", "WRITABLE", "READ_CLOSED", "WRITE_CLOSED", "ERROR"}

\* Interest::READABLE, Interest::WRITABLE and Interest::ERROR.
ReadInterest  == {"READABLE", "READ_CLOSED"}
WriteInterest == {"WRITABLE", "WRITE_CLOSED"}
ErrorInterest == {"ERROR"}

\* The epoll events of a socket that concern readiness, and the readiness
\* mio makes of them.
EpollEvents == {"IN", "OUT", "RDHUP", "HUP", "ERR"}

FromEpoll(e) ==
  {r \in Readiness :
    \/ r = "READABLE" /\ "IN" \in e
    \/ r = "WRITABLE" /\ "OUT" \in e
    \/ r = "READ_CLOSED" /\ ("HUP" \in e \/ {"IN", "RDHUP"} \subseteq e)
    \/ r = "WRITE_CLOSED" /\ ("HUP" \in e \/ {"OUT", "ERR"} \subseteq e \/ e = {"ERR"})
    \/ r = "ERROR" /\ "ERR" \in e}

FdTypeOK ==
  /\ edge \in BOOLEAN
  /\ event \in SUBSET Readiness
  /\ ready \in SUBSET Readiness
  /\ fresh \in [Tasks -> BOOLEAN]
  /\ waiting \in [Tasks -> SUBSET Readiness]

\* Registering a socket reports what already holds: the edge is set.
FdInit ==
  /\ edge = TRUE
  /\ event = {}
  /\ ready = {}
  /\ fresh = [t \in Tasks |-> FALSE]
  /\ waiting = [t \in Tasks |-> {}]

\* A registration whose events e were dispatched before, with a guard that
\* was dropped without clearing anything.
FdCached(e) ==
  /\ edge = FALSE
  /\ event = {}
  /\ ready = FromEpoll(e)
  /\ fresh = [t \in Tasks |-> FALSE]
  /\ waiting = [t \in Tasks |-> {}]

-----------------------------------------------------------------------------
(* The reactor.                                                            *)

\* epoll_wait: the events that hold now, once per edge.
Harvest(e) ==
  /\ edge
  /\ event = {}
  /\ edge' = FALSE
  /\ event' = FromEpoll(e)
  /\ UNCHANGED <<ready, fresh, waiting>>

\* Readiness is cached, a new tick starts, the waiting tasks are woken.
Dispatch ==
  /\ event # {}
  /\ ready' = ready \cup event
  /\ event' = {}
  /\ fresh' = [t \in Tasks |-> FALSE]
  /\ waiting' = [t \in Tasks |-> IF waiting[t] \cap event # {} THEN {} ELSE waiting[t]]
  /\ UNCHANGED edge

-----------------------------------------------------------------------------
(* A task on the registration.                                             *)

\* The first poll of readable()/writable()/ready() finds cached readiness.
TakeGuard(t, interest) ==
  /\ ready \cap interest # {}
  /\ fresh' = [fresh EXCEPT ![t] = TRUE]
  /\ UNCHANGED <<edge, event, ready, waiting>>

\* ... or finds none, and the task parks.
Park(t, interest) ==
  /\ ready \cap interest = {}
  /\ waiting' = [waiting EXCEPT ![t] = interest]
  /\ UNCHANGED <<edge, event, ready, fresh>>

\* A woken task gets a guard, even if the readiness is gone again by now.
WakeUp(t) ==
  /\ waiting[t] = {}
  /\ fresh' = [fresh EXCEPT ![t] = TRUE]
  /\ UNCHANGED <<edge, event, ready, waiting>>

\* guard.clear_ready(): without effect in a later tick, and never on the
\* closed bits.  It uses the guard up.
ClearReady(t, interest) ==
  /\ ready' = IF fresh[t] THEN ready \ (interest \ {"READ_CLOSED", "WRITE_CLOSED"})
                          ELSE ready
  /\ fresh' = [fresh EXCEPT ![t] = FALSE]
  /\ UNCHANGED <<edge, event, waiting>>

\* The guard is dropped, the readiness stays cached.
DropGuard(t) ==
  /\ fresh' = [fresh EXCEPT ![t] = FALSE]
  /\ UNCHANGED <<edge, event, ready, waiting>>

\* The waiting future is dropped.
Unpark(t) ==
  /\ waiting' = [waiting EXCEPT ![t] = {}]
  /\ UNCHANGED <<edge, event, ready, fresh>>

=============================================================================

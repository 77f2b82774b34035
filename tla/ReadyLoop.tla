----------------------------- MODULE ReadyLoop -----------------------------
(***************************************************************************)
(* The loop every call of the crate that waits is built around: await the  *)
(* readiness, make one system call, and on EWOULDBLOCK clear the readiness *)
(* and go round.  The actions are on the registration and the program      *)
(* counters only; what else a step of a call leaves alone, and the system  *)
(* call itself, is up to the module of the call.                           *)
(***************************************************************************)
EXTENDS AsyncFd

VARIABLE pc    \* where each task is

\* idle; poll: about to poll the readiness; wait: at the await; step: holds a
\* guard, about to call the kernel; clear: about to clear the readiness.
LoopPcs == {"idle", "poll", "wait", "step", "clear"}

Jump(t, label) == pc' = [pc EXCEPT ![t] = label]

Enter(t) == pc[t] = "idle" /\ Jump(t, "poll") /\ UNCHANGED fdVars

\* The readiness future finds readiness, or parks, or is woken.
PollReady(t, interest)   == pc[t] = "poll" /\ TakeGuard(t, interest) /\ Jump(t, "step")
PollPending(t, interest) == pc[t] = "poll" /\ Park(t, interest) /\ Jump(t, "wait")
PollWoken(t)             == pc[t] = "wait" /\ WakeUp(t) /\ Jump(t, "step")

\* guard.clear_ready(); continue
ClearAndLoop(t, interest) == pc[t] = "clear" /\ ClearReady(t, interest) /\ Jump(t, "poll")

\* The caller drops the future at its await.
DropCall(t) == pc[t] = "wait" /\ Unpark(t) /\ Jump(t, "idle")

LoopStep(t, interest) ==
  \/ PollReady(t, interest) \/ PollPending(t, interest) \/ PollWoken(t)
  \/ ClearAndLoop(t, interest)

=============================================================================

-------------------------- MODULE SctpSetupProofs --------------------------
(***************************************************************************)
(* Theorems about SctpSetup for any calls: all lists of addresses, all     *)
(* configurations, all limits of the kernel and either byte order.         *)
(***************************************************************************)
EXTENDS SctpSetup, KernelSetupProofs

\* The task holds a guard: it is at a look at the outcome, or about to clear.
Looking == {SoError[a] : a \in Tasks} \cup {Probing[a] : a \in Tasks} \cup {"clear"}

\* The call has returned, or setup() has returned an error to bind_impl.
Over == {"done", "bind_error"}

\* The state of the descriptor goes with the progress of the call: made once,
\* not closed before an error, and by bind_impl only if not by the wrapper.
OwnerInv ==
  /\ args \in Args
  /\ result = "none" <=> pc \notin Over
  /\ result = "none" => fd \in {"none", "open"} /\ closes = 0
  /\ result = "none" => (fd = "none" <=> pc \in {"check", "socket"})
  /\ pc = "bind_error" => /\ args.kind # "connect" /\ result # "ok"
                          /\ fd \in {"open", "closed"}
                          /\ closes = IF fd = "closed" THEN 1 ELSE 0
  /\ OneOwner
  /\ OkMeansEstablished

\* What the call is at when the kernel decides nothing.
SetupPcs == {"set_nonblocking", "set_v6only", "config.apply", "configure_events",
             "bind_local", "listen", "register"}

-----------------------------------------------------------------------------
(* The steps of the set-up.                                                *)

\* Steps has an entry for each kind, all of them steps of the set-up.
LEMMA StepsAreSetup ==
  ASSUME NEW kind \in {"connect", "listener", "server"}
  PROVE  /\ Steps(kind)[1] \in SetupPcs
         /\ \A i \in DOMAIN Steps(kind) :
              i < Len(Steps(kind)) => Steps(kind)[i + 1] \in SetupPcs
  <1>1. CASE kind = "connect"
    <2>1. Steps(kind) = <<"set_nonblocking", "set_v6only", "config.apply",
                          "configure_events", "bind_local", "register">>
      BY <1>1 DEF Steps
    <2> QED
      BY <2>1 DEF SetupPcs
  <1>2. CASE kind = "listener"
    <2>1. Steps(kind) = <<"set_v6only", "config.apply", "bind_local", "listen",
                          "set_nonblocking", "register">>
      BY <1>2 DEF Steps
    <2> QED
      BY <2>1 DEF SetupPcs
  <1>3. CASE kind = "server"
    <2>1. Steps(kind) = <<"set_v6only", "config.apply", "configure_events",
                          "bind_local", "listen", "set_nonblocking", "register">>
      BY <1>3 DEF Steps
    <2> QED
      BY <2>1 DEF SetupPcs
  <1> QED
    BY <1>1, <1>2, <1>3

\* The places of established() are its own.
LEMMA LookingPcs ==
  /\ SoError["w"] = "so_error_w" /\ SoError["r"] = "so_error_r"
  /\ Probing["w"] = "probe_w" /\ Probing["r"] = "probe_r"
  /\ Looking = {"so_error_w", "so_error_r", "probe_w", "probe_r", "clear"}
  BY ArmsAssumption DEF SoError, Probing, Looking

-----------------------------------------------------------------------------
(* The descriptor and the outcome.                                         *)

\* An error that is returned closes the descriptor if there is one by then.
LEMMA FailKeepsOwner ==
  ASSUME OwnerInv, result = "none", NEW error, error \notin {"none", "ok"}, Fail(error)
  PROVE  OwnerInv'
  BY DEF OwnerInv, Over, Fail, Drop, HasWrapper, Close, OneOwner, OkMeansEstablished

\* A step that only moves the call on leaves the descriptor as it is.
LEMMA MoveKeepsOwner ==
  ASSUME OwnerInv, result = "none", pc' \notin Over,
         UNCHANGED <<args, fd, closes, result>>,
         fd = "none" <=> pc' \in {"check", "socket"}
  PROVE  OwnerInv'
  BY DEF OwnerInv, Over, OneOwner, OkMeansEstablished

\* One step of the set-up.
LEMMA TryKeepsOwner ==
  ASSUME OwnerInv, NEW label \in SetupPcs, NEW afterwards, NEW refusal \in {"io", "einval"},
         Try(label, afterwards, refusal)
  PROVE  OwnerInv'
  <1>1. pc = label /\ pc \in SetupPcs
    BY DEF Try
  <1>2. pc # "done" /\ result = "none" /\ fd = "open"
    BY <1>1 DEF OwnerInv, Over, SetupPcs
  <1>3. args.kind \in {"connect", "listener", "server"}
    BY ArmsAssumption DEF OwnerInv
  <1>4. CASE Fail(IF afterwards = {} THEN refusal ELSE "io")
    BY <1>2, <1>4, FailKeepsOwner
  <1>5. CASE pc' \in SetupPcs \cup {"sctp_connectx"} /\ UNCHANGED <<args, fd, closes, result>>
    BY <1>2, <1>5, MoveKeepsOwner DEF SetupPcs, Over
  <1>6. CASE /\ args.kind # "connect" /\ pc' = "done" /\ result' = "ok"
             /\ UNCHANGED <<args, fd, closes>>
    BY <1>2, <1>6 DEF OwnerInv, Over, OneOwner, OkMeansEstablished
  <1> QED
    BY <1>3, <1>4, <1>5, <1>6, StepsAreSetup DEF Try

\* The steps of connect_bound, bind_impl and setup.
LEMMA SetupKeepsOwner ==
  ASSUME OwnerInv,
         \/ CheckArguments \/ MakeSocket \/ SetNonblocking \/ SetV6Only \/ ApplyConfig
         \/ ConfigureEvents \/ BindLocal \/ Listen \/ Register \/ BindFails \/ ConnectX
  PROVE  OwnerInv'
  <1>1. CASE CheckArguments
    <2>1. pc = "check"
      BY <1>1 DEF CheckArguments
    <2>2. CASE Goto("socket")
      BY <2>1, <2>2, MoveKeepsOwner DEF Goto, OwnerInv, Over
    <2>3. CASE Fail("invalid")
      BY <2>1, <2>3, FailKeepsOwner DEF OwnerInv, Over
    <2> QED
      BY <1>1, <2>2, <2>3 DEF CheckArguments
  <1>2. CASE MakeSocket
    <2>1. pc = "socket"
      BY <1>2 DEF MakeSocket
    <2>2. CASE Fail("io")
      BY <2>1, <2>2, FailKeepsOwner DEF OwnerInv, Over
    <2>3. CASE /\ pc' = Steps(args.kind)[1] /\ fd' = "open"
               /\ UNCHANGED <<args, closes, result>>
      <3>1. pc' \in SetupPcs
        BY <2>3, StepsAreSetup, ArmsAssumption DEF OwnerInv
      <3> QED
        BY <2>1, <2>3, <3>1 DEF OwnerInv, Over, OneOwner, OkMeansEstablished, SetupPcs
    <2> QED
      BY <1>2, <2>2, <2>3 DEF MakeSocket
  <1>3. CASE SetNonblocking \/ ConfigureEvents \/ Listen \/ ApplyConfig \/ BindLocal \/ Register
    BY <1>3, TryKeepsOwner
    DEF SetNonblocking, ConfigureEvents, Listen, ApplyConfig, BindLocal, Register, SetupPcs
  <1>4. CASE SetV6Only
    BY <1>4, MoveKeepsOwner DEF SetV6Only, OwnerInv, Over
  <1>5. CASE ConnectX
    <2>1. pc = "sctp_connectx"
      BY <1>5 DEF ConnectX
    <2>2. CASE pc' = "select" /\ UNCHANGED <<args, fd, closes, result>>
      BY <2>1, <2>2, MoveKeepsOwner DEF OwnerInv, Over
    <2>3. CASE \E error \in {"einval", "io"} : Fail(error)
      BY <2>1, <2>3, FailKeepsOwner DEF OwnerInv, Over
    <2> QED
      BY <1>5, <2>2, <2>3 DEF ConnectX
  <1>6. CASE BindFails
    BY <1>6 DEF BindFails, Close, OwnerInv, Over, OneOwner, OkMeansEstablished
  <1> QED
    BY <1>1, <1>2, <1>3, <1>4, <1>5, <1>6

\* The steps of established(), and the drop of the connect.
LEMMA EstablishedKeepsOwner ==
  ASSUME OwnerInv,
         \/ SelectWait \/ Clear \/ Cancel
         \/ \E a \in Tasks : SelectReady(a) \/ SelectWoken(a) \/ CheckSoError(a) \/ Decide(a)
  PROVE  OwnerInv'
  <1> USE LookingPcs, ArmsAssumption
  <1>1. CASE SelectWait \/ Clear
    BY <1>1, MoveKeepsOwner DEF SelectWait, Clear, Goto, OwnerInv, Over
  <1>2. CASE Cancel
    BY <1>2, FailKeepsOwner DEF Cancel, OwnerInv, Over
  <1>3. ASSUME NEW a \in Tasks, SelectReady(a) \/ SelectWoken(a) PROVE OwnerInv'
    <2>1. pc \in {"select", "await"} /\ pc' \in {"so_error_w", "so_error_r"}
          /\ UNCHANGED <<args, fd, closes, result>>
      BY <1>3 DEF SelectReady, SelectWoken, Handle
    <2> QED
      BY <2>1, MoveKeepsOwner DEF OwnerInv, Over
  <1>4. ASSUME NEW a \in Tasks, CheckSoError(a) PROVE OwnerInv'
    <2>1. pc \in {"so_error_w", "so_error_r"}
      BY <1>4 DEF CheckSoError
    <2>2. CASE Fail("io")
      BY <2>1, <2>2, FailKeepsOwner DEF OwnerInv, Over
    <2>3. CASE Goto(Probing[a])
      BY <2>1, <2>3, MoveKeepsOwner DEF Goto, OwnerInv, Over
    <2> QED
      BY <1>4, <2>2, <2>3 DEF CheckSoError
  <1>5. ASSUME NEW a \in Tasks, Decide(a) PROVE OwnerInv'
    <2>1. pc \in {"probe_w", "probe_r"} /\ UNCHANGED net
      BY <1>5 DEF Decide, netVars
    <2>2. CASE Probe = "Established"
      <3>1. net \in {"up", "lost"}
        BY <2>2 DEF Probe, PollEvents
      <3>2. pc' = "done" /\ result' = "ok" /\ UNCHANGED <<args, fd, closes>>
        BY <1>5, <2>2 DEF Decide
      <3> QED
        BY <2>1, <3>1, <3>2 DEF OwnerInv, Over, OneOwner, OkMeansEstablished
    <2>3. CASE Fail("not_connected")
      BY <2>1, <2>3, FailKeepsOwner DEF OwnerInv, Over
    <2>4. CASE Goto("select") \/ Goto("clear")
      BY <2>1, <2>4, MoveKeepsOwner DEF Goto, OwnerInv, Over
    <2> QED
      BY <1>5, <2>2, <2>3, <2>4 DEF Decide
  <1> QED
    BY <1>1, <1>2, <1>3, <1>4, <1>5

\* Nothing is owned before the call begins.
LEMMA OwnerInit == Init => OwnerInv
  BY DEF Init, OwnerInv, Over, OneOwner, OkMeansEstablished

\* Every step keeps descriptor, progress and outcome together.
LEMMA OwnerNext == OwnerInv /\ [Next]_vars => OwnerInv'
  <1> SUFFICES ASSUME OwnerInv, [Next]_vars PROVE OwnerInv'
    OBVIOUS
  <1>1. CASE CallStep \/ Cancel
    BY <1>1, SetupKeepsOwner, EstablishedKeepsOwner DEF CallStep
  <1>2. CASE Decision \/ AssociationLost
    BY <1>2 DEF Decision, AssociationUp, AssociationRefused, AssociationLost, callVars,
      OwnerInv, OneOwner, OkMeansEstablished
  <1>3. CASE \/ ReactorHarvests \/ ReactorDispatches \/ ReactorErrs \/ UNCHANGED vars
    BY <1>3 DEF ReactorHarvests, ReactorDispatches, ReactorErrs, vars, callVars, netVars,
      OwnerInv, OneOwner, OkMeansEstablished
  <1> QED
    BY <1>1, <1>2, <1>3 DEF Next, Finished

\* A connect that fails, at whatever step, or is dropped has closed its
\* descriptor exactly once, and one that succeeds has left it open.
THEOREM ConnectOwnsOnce == Spec => []OneOwner
  <1>1. OwnerInv => OneOwner
    BY DEF OwnerInv
  <1> QED
    BY <1>1, OwnerInit, OwnerNext, PTL DEF Spec

\* connect returns Ok only for an association whose handshake completed,
\* whatever readiness the runtime reported without cause.
THEOREM OkIsEstablished == Spec => []OkMeansEstablished
  <1>1. OwnerInv => OkMeansEstablished
    BY DEF OwnerInv
  <1> QED
    BY <1>1, OwnerInit, OwnerNext, PTL DEF Spec

-----------------------------------------------------------------------------
(* A refusal is explained.                                                 *)

Undecided == net \in {"none", "connecting"}

\* As long as nothing is reported without cause, an undecided connect has no
\* readiness anywhere and its task is not at a look at the outcome; so the
\* outcome does not change between the look at the socket error and the probe.
NothingHappened ==
  hints = {} /\ Undecided =>
    /\ event = {} /\ ready = {}
    /\ pc \notin Looking
    /\ pc = "await" => \A a \in Arms : waiting[a] # {}

\* The error of a refusal stays until a return reports it; a probe comes after
\* it was looked at; and a connect that is not decided has not returned for a
\* reason the kernel gives.
RefusalInv ==
  /\ OwnerInv
  /\ NothingHappened
  /\ Undecided => ~queued /\ ~skErr
  /\ pc \in {"check", "socket", "sctp_connectx"} \cup SetupPcs => net = "none"
  /\ net = "refused" /\ result = "none" => skErr
  /\ net = "connecting" => result \in {"none", "io", "dropped"}
  /\ hints = {} /\ pc \in {"probe_w", "probe_r"} => net # "refused"
  /\ RefusalIsExplained

\* A set-up step returns or goes on to a set-up step; no association exists.
LEMMA SetupKeepsRefusal ==
  ASSUME RefusalInv,
         \/ CheckArguments \/ MakeSocket \/ SetNonblocking \/ SetV6Only \/ ApplyConfig
         \/ ConfigureEvents \/ BindLocal \/ Listen \/ Register
  PROVE  RefusalInv'
  <1>1. OwnerInv'
    BY SetupKeepsOwner DEF RefusalInv
  <1>2. UNCHANGED <<fdVars, netVars>>
    BY DEF CheckArguments, MakeSocket, SetNonblocking, SetV6Only, ApplyConfig,
      ConfigureEvents, BindLocal, Listen, Register, Try
  <1>3. pc \in {"check", "socket"} \cup SetupPcs
    BY DEF CheckArguments, MakeSocket, SetNonblocking, SetV6Only, ApplyConfig,
      ConfigureEvents, BindLocal, Listen, Register, Try, SetupPcs
  <1>4. pc' \in {"socket", "sctp_connectx"} \cup Over \cup SetupPcs
    <2>1. args.kind \in {"connect", "listener", "server"}
      BY ArmsAssumption DEF RefusalInv, OwnerInv
    <2> QED
      BY <2>1, StepsAreSetup DEF CheckArguments, MakeSocket, SetNonblocking, SetV6Only,
        ApplyConfig, ConfigureEvents, BindLocal, Listen, Register, Try, Fail, Goto, SetupPcs, Over
  <1>5. net = "none" /\ pc' \notin Looking \cup {"await", "probe_w", "probe_r"}
    BY <1>3, <1>4, LookingPcs DEF RefusalInv, SetupPcs, Over
  <1>6. NothingHappened' /\ (Undecided => ~queued /\ ~skErr)'
    BY <1>2, <1>5 DEF RefusalInv, NothingHappened, Undecided, fdVars, netVars, Looking
  <1> QED
    BY <1>1, <1>2, <1>5, <1>6 DEF RefusalInv, RefusalIsExplained, netVars

\* sctp_connectx(): the kernel has decided nothing yet.
LEMMA ConnectXKeepsRefusal ==
  ASSUME RefusalInv, ConnectX
  PROVE  RefusalInv'
  <1>1. OwnerInv'
    BY SetupKeepsOwner DEF RefusalInv
  <1>2. /\ pc = "sctp_connectx" /\ net = "none" /\ result = "none"
        /\ UNCHANGED <<edge, event, ready, fresh, waiting, queued, skErr, hints>>
    BY DEF ConnectX, RefusalInv, OwnerInv, Over, fdVars
  <1>3. \/ pc' = "select" /\ net' = "connecting" /\ result' = "none"
        \/ pc' \in Over /\ net' = "none"
    BY <1>2 DEF ConnectX, Fail, Over
  <1>4. NothingHappened' /\ (Undecided => ~queued /\ ~skErr)'
    BY <1>2, <1>3, LookingPcs DEF RefusalInv, NothingHappened, Undecided, Looking, Over
  <1> QED
    BY <1>1, <1>2, <1>3, <1>4 DEF RefusalInv, RefusalIsExplained, SetupPcs, Over

\* The close of bind_impl.
LEMMA BindFailsKeepsRefusal ==
  ASSUME RefusalInv, BindFails
  PROVE  RefusalInv'
  <1>1. OwnerInv'
    BY SetupKeepsOwner DEF RefusalInv
  <1>2. pc' = "done" /\ UNCHANGED <<edge, event, ready, result, net, queued, skErr, hints>>
    BY DEF BindFails, fdVars, netVars
  <1> QED
    BY <1>1, <1>2, LookingPcs
    DEF RefusalInv, NothingHappened, RefusalIsExplained, Undecided, SetupPcs, Looking

\* The select, and the drop of the connect: only readiness leads to a look.
LEMMA SelectKeepsRefusal ==
  ASSUME RefusalInv,
         SelectWait \/ Cancel \/ \E a \in Tasks : SelectReady(a) \/ SelectWoken(a)
  PROVE  RefusalInv'
  <1>1. OwnerInv'
    BY EstablishedKeepsOwner DEF RefusalInv
  <1>2. UNCHANGED <<edge, event, ready, net, queued, skErr, hints>>
    BY DEF SelectWait, Cancel, SelectReady, SelectWoken, TakeGuard, netVars
  <1>3. CASE SelectWait
    <2>1. /\ pc' = "await" /\ UNCHANGED <<both, result>>
          /\ \A a \in Arms : waiting'[a] = ArmInterest(a) /\ ArmInterest(a) # {}
      BY <1>3, ArmsAssumption DEF SelectWait, Goto, Arms, ArmInterest, ReadInterest, WriteInterest
    <2>2. Arms' = Arms
      BY <2>1 DEF Arms
    <2>3. NothingHappened'
      BY <1>2, <2>1, <2>2, LookingPcs DEF RefusalInv, NothingHappened, Undecided, Looking
    <2> QED
      BY <1>1, <1>2, <2>1, <2>3 DEF RefusalInv, RefusalIsExplained, Undecided, SetupPcs
  <1>4. CASE Cancel
    <2>1. pc' \in Over /\ result' = "dropped"
      BY <1>4 DEF Cancel, Fail, Over
    <2> QED
      BY <1>1, <1>2, <2>1, LookingPcs
      DEF RefusalInv, NothingHappened, RefusalIsExplained, Undecided, SetupPcs, Looking, Over
  <1>5. ASSUME NEW a \in Tasks, SelectReady(a) \/ SelectWoken(a) PROVE RefusalInv'
    <2>1. /\ pc' \in {"so_error_w", "so_error_r"} /\ UNCHANGED result
      BY <1>5, LookingPcs, ArmsAssumption DEF SelectReady, SelectWoken, Handle
    <2>2. ~(hints = {} /\ Undecided)
      BY <1>5 DEF SelectReady, SelectWoken, TakeGuard, RefusalInv, NothingHappened
    <2> QED
      BY <1>1, <1>2, <2>1, <2>2
      DEF RefusalInv, NothingHappened, RefusalIsExplained, Undecided, SetupPcs
  <1> QED
    BY <1>3, <1>4, <1>5

\* The looks at the socket error and at poll(): the error of a refusal is
\* taken by the first and reported.
LEMMA OutcomeKeepsRefusal ==
  ASSUME RefusalInv, Clear \/ \E a \in Tasks : CheckSoError(a) \/ Decide(a)
  PROVE  RefusalInv'
  <1> USE LookingPcs, ArmsAssumption
  <1>1. OwnerInv'
    BY EstablishedKeepsOwner DEF RefusalInv
  <1>2. UNCHANGED <<net, queued, hints>> /\ pc \in Looking /\ result = "none"
    BY DEF CheckSoError, Decide, Clear, netVars, RefusalInv, OwnerInv, Over
  <1>3. ~(hints = {} /\ Undecided)
    BY <1>2 DEF RefusalInv, NothingHappened
  <1>4. ASSUME NEW a \in Tasks, CheckSoError(a) PROVE RefusalInv'
    <2>1. \/ pc' \in Over /\ result' = "io" /\ (~skErr => ~skErr')
          \/ ~skErr /\ pc' \in {"probe_w", "probe_r"} /\ result' = "none" /\ skErr' = FALSE
      <3>1. CASE Fail("io") /\ (~skErr => ~skErr')
        BY <3>1 DEF Fail, Over
      <3>2. CASE ~skErr /\ Goto(Probing[a]) /\ skErr' = FALSE
        BY <1>2, <3>2 DEF Goto
      <3> QED
        BY <1>4, <3>1, <3>2 DEF CheckSoError
    <2> QED
      BY <1>1, <1>2, <1>3, <2>1
      DEF RefusalInv, NothingHappened, RefusalIsExplained, Undecided, SetupPcs, Over
  <1>5. ASSUME NEW a \in Tasks, Decide(a) PROVE RefusalInv'
    <2>1. pc \in {"probe_w", "probe_r"} /\ UNCHANGED skErr
      BY <1>5 DEF Decide, netVars
    <2>2. \/ pc' = "done" /\ result' = "ok" /\ net \in {"up", "lost"}
          \/ pc' \in Over /\ result' = "not_connected" /\ skErr
          \/ pc' \in {"select", "clear"} /\ result' = "none"
      BY <1>2, <1>5 DEF Decide, Probe, PollEvents, Fail, Goto, Over
    <2> QED
      BY <1>1, <1>2, <1>3, <2>1, <2>2
      DEF RefusalInv, NothingHappened, RefusalIsExplained, Undecided, SetupPcs, Over
  <1>6. CASE Clear
    <2>1. pc' = "select" /\ UNCHANGED <<result, skErr>>
      BY <1>6 DEF Clear, Goto, netVars
    <2> QED
      BY <1>1, <1>2, <1>3, <2>1
      DEF RefusalInv, NothingHappened, RefusalIsExplained, Undecided, SetupPcs
  <1> QED
    BY <1>4, <1>5, <1>6

\* The kernel decides, and the reactor reports what it finds.
LEMMA OutsideKeepsRefusal ==
  ASSUME RefusalInv,
         \/ Decision \/ AssociationLost
         \/ ReactorHarvests \/ ReactorDispatches \/ ReactorErrs
  PROVE  RefusalInv'
  <1>1. OwnerInv'
    BY OwnerNext DEF RefusalInv, Next
  <1>2. UNCHANGED <<args, pc, both, fd, closes, result, sock>>
    BY DEF Decision, AssociationUp, AssociationRefused, AssociationLost, ReactorHarvests,
      ReactorDispatches, ReactorErrs, callVars
  <1>3. CASE Decision \/ AssociationLost
    <2>1. ~Undecided' /\ net \in {"connecting", "up"} /\ UNCHANGED hints
      BY <1>3 DEF Decision, AssociationUp, AssociationRefused, AssociationLost, Undecided
    <2>2. net' = "refused" => net = "connecting" /\ skErr'
      BY <1>3 DEF Decision, AssociationUp, AssociationRefused, AssociationLost
    <2>3. net = "connecting" /\ hints = {} => pc \notin Looking
      BY DEF RefusalInv, NothingHappened, Undecided
    <2> QED
      BY <1>1, <1>2, <2>1, <2>2, <2>3, LookingPcs
      DEF RefusalInv, NothingHappened, RefusalIsExplained, Undecided
  <1>4. CASE ReactorErrs
    <2>1. hints' # {} /\ UNCHANGED <<net, queued, skErr>>
      BY <1>4 DEF ReactorErrs
    <2> QED
      BY <1>1, <1>2, <2>1 DEF RefusalInv, NothingHappened, RefusalIsExplained, Undecided
  <1>5. CASE ReactorHarvests \/ ReactorDispatches
    <2>1. UNCHANGED <<net, queued, skErr, hints>>
      BY <1>5 DEF ReactorHarvests, ReactorDispatches, netVars
    <2>2. NothingHappened'
      <3> SUFFICES ASSUME hints = {}, Undecided
                   PROVE  event' = {} /\ ready' = {} /\ UNCHANGED waiting
        BY <1>2, <2>1 DEF RefusalInv, NothingHappened, Undecided, Arms, Looking
      <3>1. event = {} /\ ready = {}
        BY DEF RefusalInv, NothingHappened
      <3>2. ReactorHarvests
        BY <1>5, <3>1 DEF ReactorDispatches, Dispatch
      <3>3. PollEvents = {}
        BY DEF RefusalInv, Undecided, PollEvents
      <3>4. FromEpoll(PollEvents) = {}
        BY <3>3 DEF FromEpoll
      <3> QED
        BY <3>1, <3>2, <3>4 DEF ReactorHarvests, Harvest
    <2> QED
      BY <1>1, <1>2, <2>1, <2>2 DEF RefusalInv, RefusalIsExplained, Undecided
  <1> QED
    BY <1>3, <1>4, <1>5

\* Nothing has happened before the call begins.
LEMMA RefusalInit == Init => RefusalInv
  <1> SUFFICES ASSUME Init PROVE RefusalInv
    OBVIOUS
  <1>1. NothingHappened
    BY LookingPcs DEF Init, FdInit, NothingHappened
  <1> QED
    BY <1>1, OwnerInit DEF Init, RefusalInv, Undecided, RefusalIsExplained

\* Every step keeps the error of a refusal for the return.
LEMMA RefusalNext == RefusalInv /\ [Next]_vars => RefusalInv'
  <1> SUFFICES ASSUME RefusalInv, [Next]_vars PROVE RefusalInv'
    OBVIOUS
  <1>1. CASE UNCHANGED vars
    <2>1. OwnerInv'
      BY <1>1, OwnerNext DEF RefusalInv
    <2> QED
      BY <1>1, <2>1 DEF vars, fdVars, netVars, callVars, RefusalInv, NothingHappened,
        RefusalIsExplained, Undecided, Arms, Looking
  <1>2. CASE CallStep \/ Cancel
    BY <1>2, SetupKeepsRefusal, BindFailsKeepsRefusal, ConnectXKeepsRefusal, SelectKeepsRefusal,
      OutcomeKeepsRefusal
    DEF CallStep
  <1> QED
    BY <1>1, <1>2, OutsideKeepsRefusal DEF Next, Finished

\* "The socket error decides": without false readiness, a connect that was
\* refused never returns the error-less NotConnected, although the error and
\* the state are looked at one after the other.
THEOREM RefusalsAreExplained == Spec => []RefusalIsExplained
  <1>1. RefusalInv => RefusalIsExplained
    BY DEF RefusalInv
  <1> QED
    BY <1>1, RefusalInit, RefusalNext, PTL DEF Spec

-----------------------------------------------------------------------------
(* What is queued stays for recv.                                          *)

\* ReadinessIsLeft at every step and not only at the return: what the socket
\* has is cached or on its way.  While the task is about to clear the readiness
\* of the present tick, an association that has come up since the probe is not
\* yet cached: its dispatch would have started another tick.
LeftInv ==
  /\ queued => edge \/ (event \cup ready) \cap ReadInterest # {}
  /\ net = "up" => edge \/ (event \cup ready) \cap WriteInterest # {}
  /\ pc = "clear" /\ fresh["w"] /\ net = "up" => edge \/ event \cap WriteInterest # {}

\* The steps of established(): only the clear takes readiness away, that of the
\* writable arm and nothing that a receive waits for.
LEMMA EstablishedKeepsReadiness ==
  ASSUME LeftInv,
         \/ SelectWait \/ Clear \/ Cancel
         \/ \E a \in Tasks : SelectReady(a) \/ SelectWoken(a) \/ CheckSoError(a) \/ Decide(a)
  PROVE  LeftInv'
  <1> USE LookingPcs, ArmsAssumption
  <1>1. CASE Clear
    <2>1. /\ pc = "clear" /\ pc' = "select" /\ UNCHANGED <<edge, event, net, queued>>
          /\ ready \cap ReadInterest \subseteq ready'
          /\ ~fresh["w"] => ready' = ready
      BY <1>1 DEF Clear, Goto, ClearReady, ReadInterest, WriteInterest, netVars
    <2> QED
      BY <2>1 DEF LeftInv
  <1>2. ASSUME NEW a \in Tasks, Decide(a) PROVE LeftInv'
    <2>1. UNCHANGED <<edge, event, ready, fresh, net, queued>>
      BY <1>2 DEF Decide, fdVars, netVars
    <2>2. pc' = "clear" => Probe = "Pending"
      BY <1>2 DEF Decide, Goto, Fail
    <2>3. Probe = "Pending" => net # "up"
      BY DEF Probe, PollEvents, EpollEvents
    <2> QED
      BY <2>1, <2>2, <2>3 DEF LeftInv
  <1>3. ASSUME \/ SelectWait \/ Cancel
               \/ \E a \in Tasks : SelectReady(a) \/ SelectWoken(a) \/ CheckSoError(a)
        PROVE  LeftInv'
    <2>1. UNCHANGED <<edge, event, ready, net, queued>>
      BY <1>3 DEF SelectWait, Cancel, SelectReady, SelectWoken, CheckSoError, Retain, DropGuard,
        TakeGuard, fdVars, netVars
    <2>2. pc' # "clear"
      BY <1>3 DEF SelectWait, Cancel, SelectReady, SelectWoken, CheckSoError, Handle, Goto, Fail
    <2> QED
      BY <2>1, <2>2 DEF LeftInv
  <1> QED
    BY <1>1, <1>2, <1>3

\* The kernel signals what it adds, and the reactor reports all there is.
LEMMA OutsideKeepsReadiness ==
  ASSUME LeftInv,
         \/ Decision \/ AssociationLost
         \/ ReactorHarvests \/ ReactorDispatches \/ ReactorErrs
  PROVE  LeftInv'
  <1>1. CASE Decision \/ AssociationLost
    BY <1>1 DEF Decision, AssociationUp, AssociationRefused, AssociationLost, Signal, LeftInv,
      callVars
  <1>2. CASE ReactorHarvests
    <2>1. event' = FromEpoll(PollEvents) /\ UNCHANGED <<net, queued>>
      BY <1>2 DEF ReactorHarvests, Harvest, netVars
    <2>2. /\ queued => "READABLE" \in event'
          /\ net = "up" => "WRITABLE" \in event'
      BY <2>1 DEF FromEpoll, PollEvents, EpollEvents, Readiness
    <2> QED
      BY <2>1, <2>2 DEF LeftInv, ReadInterest, WriteInterest
  <1>3. CASE ReactorDispatches
    <2>1. ~fresh'["w"]
      BY <1>3, ArmsAssumption DEF ReactorDispatches, Dispatch
    <2> QED
      BY <1>3, <2>1 DEF ReactorDispatches, Dispatch, netVars, LeftInv
  <1>4. CASE ReactorErrs
    BY <1>4 DEF ReactorErrs, callVars, LeftInv
  <1> QED
    BY <1>1, <1>2, <1>3, <1>4

\* "What is queued stays for recv": however connect came to its result, the
\* notifications it did not read and the room in the send buffer are cached or
\* signalled for the calls that follow, although the kernel and the reactor may
\* act between its probe and its clear.
THEOREM WhatIsQueuedStays == Spec => []ReadinessIsLeft
  <1>1. Init => LeftInv
    BY DEF Init, FdInit, LeftInv
  <1>2. RefusalInv /\ LeftInv /\ [Next]_vars => LeftInv'
    <2> SUFFICES ASSUME RefusalInv, LeftInv, [Next]_vars PROVE LeftInv'
      OBVIOUS
    <2>1. CASE \/ CheckArguments \/ MakeSocket \/ SetNonblocking \/ SetV6Only \/ ApplyConfig
               \/ ConfigureEvents \/ BindLocal \/ Listen \/ Register
      <3>1. UNCHANGED <<fdVars, netVars>>
        BY <2>1 DEF CheckArguments, MakeSocket, SetNonblocking, SetV6Only, ApplyConfig,
          ConfigureEvents, BindLocal, Listen, Register, Try
      <3>2. pc \in {"check", "socket"} \cup SetupPcs
        BY <2>1 DEF CheckArguments, MakeSocket, SetNonblocking, SetV6Only, ApplyConfig,
          ConfigureEvents, BindLocal, Listen, Register, Try, SetupPcs
      <3>3. net = "none"
        BY <3>2 DEF RefusalInv
      <3> QED
        BY <3>1, <3>3 DEF fdVars, netVars, LeftInv
    <2>2. CASE ConnectX
      <3>1. /\ UNCHANGED <<edge, event, ready, queued>>
            /\ pc' # "clear" /\ net' # "up"
        BY <2>2 DEF ConnectX, Fail, fdVars, RefusalInv
      <3> QED
        BY <3>1 DEF LeftInv
    <2>3. CASE BindFails
      BY <2>3 DEF BindFails, fdVars, netVars, LeftInv
    <2>4. CASE UNCHANGED vars
      BY <2>4 DEF vars, fdVars, netVars, callVars, LeftInv
    <2> QED
      BY <2>1, <2>2, <2>3, <2>4, EstablishedKeepsReadiness, OutsideKeepsReadiness
      DEF Next, CallStep, Finished
  <1>3. LeftInv => ReadinessIsLeft
    BY DEF LeftInv, ReadinessIsLeft
  <1> QED
    BY <1>1, <1>2, <1>3, RefusalInit, RefusalNext, PTL DEF Spec

-----------------------------------------------------------------------------
(* The addresses of a socket.                                              *)

\* bind() to the first address and sctp_bindx() to the others.
BindAll(s, addrs) ==
  UNION {BindAddresses(b, Entries(packed, Len(addrs) - 1)) :
           b \in BindAddresses(s, <<to_raw(Head(addrs))>>), packed \in {pack(Tail(addrs))}}

\* All addresses fit the socket.
AllFit(s, addrs) == \A i \in 1..Len(addrs) : Fits(s, to_raw(addrs[i]))

\* The socket is bound to the addresses asked for; and it is bound if they fit
\* and have one port.
LEMMA BindAllBinds ==
  ASSUME NEW addrs \in Seq(SocketAddr), addrs # <<>>,
         NEW s, IsSocket(s), s.port = 0, s.bound = <<>>
  PROVE  /\ \A b \in BindAll(s, addrs) :
              /\ IsSocket(b) /\ BoundTo(b, addrs)
              /\ b.domain = s.domain /\ b.v6only = s.v6only /\ b.peer = s.peer
         /\ AllFit(s, addrs) /\ OnePort(addrs) => BindAll(s, addrs) # {}
  <1> DEFINE h == <<Head(addrs)>>
             t == Tail(addrs)
             L == Len(addrs)
             p == PortFor(s, h)
             Fit1 == Fits(s, to_raw(addrs[1])) /\ addrs[1].port \in {0, p}
             b1 == Rebound(s, p, s.bound \o Raws(Ported(h, p)))
             Fit2 == \A i \in 1..L - 1 : Fits(b1, to_raw(t[i])) /\ t[i].port \in {0, p}
             b2 == Rebound(b1, p, b1.bound \o Raws(Ported(t, p)))
  <1>1. /\ h \in Seq(SocketAddr) /\ t \in Seq(SocketAddr)
        /\ Len(t) = L - 1 /\ L \in Nat \ {0}
        /\ h[1] = addrs[1] /\ Len(h) = 1
        /\ Raws(h) = <<to_raw(Head(addrs))>>
        /\ \A i \in 1..L - 1 : t[i] = addrs[i + 1]
    BY HeadAndTail
  <1>2. 0 \in U16 /\ EphemeralPort # 0
    BY DEF U16, EphemeralPort
  <1>3. p \in U16 /\ p # 0
    <2>1. p \in U16
      BY <1>1, <1>2, BindIs
    <2>2. h # <<>>
      BY <1>1
    <2> QED
      BY <1>2, <2>1, <2>2 DEF PortFor
  <1>4. BindAddresses(s, <<to_raw(Head(addrs))>>) = IF Fit1 THEN {b1} ELSE {}
    <2>1. BindAddresses(s, Raws(h)) =
            IF \A i \in 1..Len(h) : Fits(s, to_raw(h[i])) /\ h[i].port \in {0, p}
            THEN {[s EXCEPT !.port = p, !.bound = @ \o Raws(Ported(h, p))]}
            ELSE {}
      BY <1>1, <1>2, BindIs
    <2>2. (\A i \in 1..Len(h) : Fits(s, to_raw(h[i])) /\ h[i].port \in {0, p}) <=> Fit1
      <3>1. 1 \in 1..1 /\ \A i \in 1..1 : i = 1
        OBVIOUS
      <3> HIDE DEF h, p
      <3> QED
        BY <1>1, <3>1
    <2>3. [s EXCEPT !.port = p, !.bound = @ \o Raws(Ported(h, p))] = b1
      BY DEF Rebound
    <2> HIDE DEF h, p, b1, Fit1
    <2> QED
      BY <1>1, <2>1, <2>2, <2>3
  <1>5. /\ IsSocket(b1) /\ b1.port = p /\ b1.bound = s.bound \o Raws(Ported(h, p))
        /\ b1.domain = s.domain /\ b1.v6only = s.v6only /\ b1.peer = s.peer
    BY ReboundIs
  <1>6. Entries(pack(t), L - 1) = Raws(t)
    BY <1>1, PackKernel DEF Raws
  <1>7. BindAddresses(b1, Raws(t)) = IF Fit2 THEN {b2} ELSE {}
    <2> HIDE DEF b1, p, t, h
    <2>1. PortFor(b1, t) = p
      BY <1>3, <1>5 DEF PortFor
    <2>2. BindAddresses(b1, Raws(t)) =
            IF \A i \in 1..Len(t) : Fits(b1, to_raw(t[i])) /\ t[i].port \in {0, p}
            THEN {[b1 EXCEPT !.port = p, !.bound = @ \o Raws(Ported(t, p))]}
            ELSE {}
      BY <1>1, <1>3, <1>5, <2>1, BindIs
    <2>3. [b1 EXCEPT !.port = p, !.bound = @ \o Raws(Ported(t, p))] = b2
      BY DEF Rebound
    <2>4. (\A i \in 1..Len(t) : Fits(b1, to_raw(t[i])) /\ t[i].port \in {0, p}) <=> Fit2
      BY <1>1
    <2> HIDE DEF b2, Fit2
    <2> QED
      BY <2>2, <2>3, <2>4
  <1>8. /\ IsSocket(b2) /\ b2.port = p /\ b2.bound = b1.bound \o Raws(Ported(t, p))
        /\ b2.domain = s.domain /\ b2.v6only = s.v6only /\ b2.peer = s.peer
    <2> DEFINE Y == b1.bound \o Raws(Ported(t, p))
    <2> HIDE DEF b1, p, Y
    <2>1. b2 = Rebound(b1, p, Y)
      BY DEF Y
    <2> HIDE DEF b2
    <2>2. /\ IsSocket(b2) /\ b2.port = p /\ b2.bound = Y
          /\ b2.domain = b1.domain /\ b2.v6only = b1.v6only /\ b2.peer = b1.peer
      BY <1>5, <2>1, ReboundIs
    <2> QED
      BY <1>5, <2>2 DEF Y
  <1>9. BindAll(s, addrs) = IF Fit1 /\ Fit2 THEN {b2} ELSE {}
    <2> HIDE DEF b1, b2, Fit1, Fit2
    <2> DEFINE S1 == BindAddresses(s, <<to_raw(Head(addrs))>>)
               S2(b, packed) == BindAddresses(b, Entries(packed, L - 1))
    <2>1. BindAll(s, addrs) = UNION {S2(b, packed) : b \in S1, packed \in {pack(t)}}
      BY DEF BindAll
    <2>2. S1 = IF Fit1 THEN {b1} ELSE {}
      BY <1>4
    <2>3. S2(b1, pack(t)) = IF Fit2 THEN {b2} ELSE {}
      BY <1>6, <1>7
    <2> HIDE DEF S1, S2, t
    <2> QED
      BY <2>1, <2>2, <2>3
  <1>10. b2.bound = Raws(Ported(addrs, p))
    <2>1. (<<>> \o Raws(Ported(h, p))) \o Raws(Ported(t, p)) = Raws(Ported(addrs, p))
      BY <1>3, RawsSplit
    <2> QED
      BY <1>5, <1>8, <2>1
  <1>11. Fit1 /\ Fit2 => \A i \in 1..L : addrs[i].port \in {0, p}
    <2> SUFFICES ASSUME Fit1, Fit2, NEW i \in 1..L PROVE addrs[i].port \in {0, p}
      OBVIOUS
    <2>1. CASE i = 1
      BY <2>1
    <2>2. CASE i # 1
      <3>1. i - 1 \in 1..L - 1 /\ (i - 1) + 1 = i
        BY <1>1, <2>2
      <3>2. t[i - 1] = addrs[(i - 1) + 1] /\ t[i - 1].port \in {0, p}
        BY <1>1, <3>1
      <3> QED
        BY <3>1, <3>2
    <2> QED
      BY <2>1, <2>2
  <1>12. AllFit(s, addrs) /\ OnePort(addrs) => Fit1 /\ Fit2
    <2> SUFFICES ASSUME AllFit(s, addrs), OnePort(addrs) PROVE Fit1 /\ Fit2
      OBVIOUS
    <2>1. 1 \in 1..L /\ DOMAIN addrs = 1..L
      BY <1>1, LenProperties
    <2>2. addrs[1].port \in {0, p}
      <3>1. h # <<>>
        BY <1>1
      <3> HIDE DEF h
      <3> QED
        BY <1>1, <3>1 DEF PortFor
    <2>3. Fit1
      BY <2>1, <2>2 DEF AllFit
    <2>4. ASSUME NEW i \in 1..L - 1
          PROVE  Fits(b1, to_raw(t[i])) /\ t[i].port \in {0, p}
      <3>1. i + 1 \in 1..L /\ t[i] = addrs[i + 1]
        BY <1>1
      <3>2. t[i].port = addrs[1].port
        BY <2>1, <3>1 DEF OnePort
      <3>3. Fits(s, to_raw(t[i]))
        BY <3>1 DEF AllFit
      <3> HIDE DEF b1, t, p
      <3>4. Fits(b1, to_raw(t[i]))
        BY <1>5, <3>3 DEF Fits
      <3> QED
        BY <2>2, <3>2, <3>4
    <2> QED
      BY <2>3, <2>4
  <1> HIDE DEF b2, Fit1, Fit2, p
  <1>13. Fit1 /\ Fit2 => BoundTo(b2, addrs)
    BY <1>3, <1>8, <1>10, <1>11 DEF BoundTo
  <1> QED
    BY <1>8, <1>9, <1>12, <1>13

\* sctp_connectx() in terms of addresses.
LEMMA ConnectIs ==
  ASSUME NEW addrs \in Seq(SocketAddr), NEW s, IsSocket(s)
  PROVE  /\ \A c \in ConnectTo(s, Entries(pack(addrs), Len(addrs))) :
              /\ IsSocket(c) /\ c.peer = Raws(addrs) /\ c.bound = s.bound /\ c.port = s.port
              /\ c.domain = s.domain /\ c.v6only = s.v6only
         /\ AllFit(s, addrs) /\ OnePort(addrs)
              => ConnectTo(s, Entries(pack(addrs), Len(addrs))) # {}
  <1> DEFINE L == Len(addrs)
             R == Raws(addrs)
             c == [s EXCEPT !.peer = R]
  <1>1. L \in Nat /\ DOMAIN addrs = 1..L /\ \A i \in 1..L : addrs[i] \in SocketAddr
    BY LenProperties, ElementOfSeq
  <1>2. Entries(pack(addrs), L) = R /\ DOMAIN R = 1..L /\ \A i \in 1..L : R[i] = to_raw(addrs[i])
    BY PackKernel DEF Raws
  <1>3. \A i \in 1..L : PortOf(R[i]) = addrs[i].port
    BY <1>1, <1>2, RawFamilyPort
  <1> HIDE DEF R, L
  <1>4. ConnectTo(s, R) = IF \A i \in 1..L : Fits(s, R[i]) /\ PortOf(R[i]) = PortOf(R[1])
                          THEN {c} ELSE {}
    BY <1>2 DEF ConnectTo
  <1>5. /\ IsSocket(c) /\ c.peer = R /\ c.bound = s.bound /\ c.port = s.port
        /\ c.domain = s.domain /\ c.v6only = s.v6only
    BY DEF IsSocket
  <1> HIDE DEF c
  <1>6. ASSUME AllFit(s, addrs), OnePort(addrs), NEW i \in 1..L
        PROVE  Fits(s, R[i]) /\ PortOf(R[i]) = PortOf(R[1])
    <2>1. 1 \in 1..L
      BY <1>1
    <2>2. PortOf(R[i]) = PortOf(R[1])
      BY <1>1, <1>3, <1>6, <2>1 DEF OnePort
    <2>3. Fits(s, R[i])
      BY <1>2, <1>6 DEF AllFit, L
    <2> QED
      BY <2>2, <2>3
  <1>7. AllFit(s, addrs) /\ OnePort(addrs) => ConnectTo(s, R) # {}
    BY <1>4, <1>6
  <1>8. \A x \in ConnectTo(s, R) : x = c
    BY <1>4
  <1> QED
    BY <1>2, <1>5, <1>7, <1>8 DEF R, L

\* What local_addrs() is to say of an address asked for.
AsReported(s, a) ==
  IF s.domain = AF_INET6 /\ ~a.v6 THEN V6(V4Mapped(a.ip), s.port, 0, 0)
  ELSE [a EXCEPT !.port = s.port]

\* The kernel reports the bytes of the address with the port of the socket.
LEMMA EntryReported ==
  ASSUME NEW a \in SocketAddr, NEW s, s.port \in U16, NEW raw,
         raw = to_raw([a EXCEPT !.port = s.port])
  PROVE  /\ AsReported(s, a) \in SocketAddr
         /\ (IF s.domain = AF_INET6 /\ Family(raw) = AF_INET
             THEN ToNe(AF_INET6, 2) \o SubSeq(raw, 3, 4) \o ToBe(0, 4) \o V4Mapped(IpOf(raw))
                    \o ToBe(0, 4)
             ELSE raw) = to_raw(AsReported(s, a))
  <1> DEFINE c == [a EXCEPT !.port = s.port]
  <1>1. c \in SocketAddr /\ c.v6 = a.v6 /\ c.port = s.port /\ c.ip = a.ip
    BY OtherPort
  <1>2. raw = to_raw(c)
    OBVIOUS
  <1>3. (s.domain = AF_INET6 /\ ~a.v6) => AsReported(s, a) = V6(V4Mapped(a.ip), s.port, 0, 0)
    BY DEF AsReported
  <1>4. ~(s.domain = AF_INET6 /\ ~a.v6) => AsReported(s, a) = c
    BY DEF AsReported
  <1> HIDE DEF c
  <1>5. Family(raw) = FamilyOf(c) /\ c.v6 \in BOOLEAN /\ AF_INET # AF_INET6
    BY <1>1, <1>2, RawFamilyPort, AddrIs DEF AF_INET, AF_INET6
  <1>6. Family(raw) = AF_INET <=> ~a.v6
    BY <1>1, <1>5 DEF FamilyOf
  <1>7. CASE s.domain = AF_INET6 /\ ~a.v6
    <2>1. /\ MappedAddr(c) \in SocketAddr
          /\ ToNe(AF_INET6, 2) \o SubSeq(raw, 3, 4) \o ToBe(0, 4) \o V4Mapped(IpOf(raw))
               \o ToBe(0, 4)
               = to_raw(MappedAddr(c))
      BY <1>1, <1>2, <1>7, RawMapped
    <2>2. MappedAddr(c) = AsReported(s, a)
      BY <1>1, <1>3, <1>7 DEF MappedAddr
    <2> QED
      BY <1>6, <1>7, <2>1, <2>2, Zenon
  <1>8. CASE ~(s.domain = AF_INET6 /\ ~a.v6)
    BY <1>1, <1>2, <1>4, <1>6, <1>8, Zenon
  <1> QED
    BY <1>7, <1>8

\* local_addrs() reads the addresses asked for.
LEMMA ReportReads ==
  ASSUME NEW addrs \in Seq(SocketAddr), NEW s, BoundTo(s, addrs)
  PROVE  parse_array(Report(s), Len(s.bound)) = [i \in DOMAIN addrs |-> AsReported(s, addrs[i])]
  <1> DEFINE L == Len(addrs)
             M == [i \in 1..L |-> AsReported(s, addrs[i])]
             E(raw) == IF s.domain = AF_INET6 /\ Family(raw) = AF_INET
                       THEN ToNe(AF_INET6, 2) \o SubSeq(raw, 3, 4) \o ToBe(0, 4)
                              \o V4Mapped(IpOf(raw)) \o ToBe(0, 4)
                       ELSE raw
  <1>1. L \in Nat /\ DOMAIN addrs = 1..L /\ \A i \in 1..L : addrs[i] \in SocketAddr
    BY LenProperties, ElementOfSeq
  <1>2. s.port \in U16 /\ s.bound = Raws(Ported(addrs, s.port))
    BY DEF BoundTo
  <1>3. /\ DOMAIN s.bound = 1..L /\ Len(s.bound) = L
        /\ \A i \in 1..L : s.bound[i] = to_raw([addrs[i] EXCEPT !.port = s.port])
    <2> DEFINE P == Ported(addrs, s.port)
    <2>1. Len(P) = L /\ P = [i \in 1..L |-> [addrs[i] EXCEPT !.port = s.port]]
      BY <1>2, PortedAddrs DEF Ported
    <2> HIDE DEF P, L
    <2>2. s.bound = [i \in 1..L |-> to_raw(P[i])]
      BY <1>2, <2>1 DEF Raws, P
    <2>3. DOMAIN s.bound = 1..L /\ Len(s.bound) = L
      BY <1>1, <2>2
    <2>4. ASSUME NEW i \in 1..L PROVE s.bound[i] = to_raw([addrs[i] EXCEPT !.port = s.port])
      <3>1. s.bound[i] = to_raw(P[i])
        BY <2>2
      <3>2. P[i] = [addrs[i] EXCEPT !.port = s.port]
        BY <2>1
      <3> QED
        BY <3>1, <3>2
    <2> QED
      BY <2>3, <2>4
  <1> HIDE DEF L
  <1>4. ASSUME NEW i \in 1..L
        PROVE  /\ AsReported(s, addrs[i]) \in SocketAddr
               /\ E(s.bound[i]) = to_raw(AsReported(s, addrs[i]))
    <2> DEFINE a == addrs[i]
               raw == s.bound[i]
    <2>1. a \in SocketAddr /\ raw = to_raw([a EXCEPT !.port = s.port])
      BY <1>1, <1>3
    <2> HIDE DEF a, raw
    <2>2. AsReported(s, a) \in SocketAddr /\ E(raw) = to_raw(AsReported(s, a))
      BY <1>2, <2>1, EntryReported, Zenon
    <2> HIDE DEF E
    <2> QED
      BY <2>2 DEF a, raw
  <1>5. M \in Seq(SocketAddr) /\ Len(M) = L /\ DOMAIN M = 1..L
    <2>1. M \in [1..L -> SocketAddr]
      BY <1>4
    <2>2. M \in Seq(SocketAddr)
      BY <1>1, <2>1, SeqDef
    <2>3. Len(M) = L
      BY <1>1
    <2> QED
      BY <2>2, <2>3
  <1>6. Report(s) = FlattenSeq([i \in DOMAIN s.bound |-> E(s.bound[i])])
    BY DEF Report
  <1> HIDE DEF E
  <1>7. [i \in DOMAIN s.bound |-> E(s.bound[i])] = [i \in DOMAIN M |-> to_raw(M[i])]
    <2>1. \A i \in 1..L : E(s.bound[i]) = to_raw(M[i])
      BY <1>4
    <2> HIDE DEF M
    <2> QED
      BY <1>3, <1>5, <2>1
  <1>8. Report(s) = pack(M)
    BY <1>6, <1>7 DEF pack
  <1>9. M = [i \in DOMAIN addrs |-> AsReported(s, addrs[i])]
    BY <1>1
  <1> HIDE DEF M
  <1>10. parse_array(pack(M), Len(M)) = M
    BY <1>5, PackParses
  <1> QED
    BY <1>3, <1>5, <1>8, <1>9, <1>10

\* The kernel got the addresses of the peer.
LEMMA PeerReads ==
  ASSUME NEW addrs \in Seq(SocketAddr), NEW s, s.peer = Raws(addrs)
  PROVE  [i \in DOMAIN s.peer |-> <<IpOf(s.peer[i]), PortOf(s.peer[i])>>]
           = [i \in DOMAIN addrs |-> <<addrs[i].ip, addrs[i].port>>]
  <1> DEFINE L == Len(addrs)
  <1>1. DOMAIN addrs = 1..L /\ \A i \in 1..L : addrs[i] \in SocketAddr
    BY LenProperties, ElementOfSeq
  <1>2. DOMAIN s.peer = 1..L /\ \A i \in 1..L : s.peer[i] = to_raw(addrs[i])
    BY DEF Raws
  <1> HIDE DEF L
  <1>3. \A i \in 1..L : IpOf(s.peer[i]) = addrs[i].ip /\ PortOf(s.peer[i]) = addrs[i].port
    BY <1>1, <1>2, RawFamilyPort, RawRead
  <1> QED
    BY <1>1, <1>2, <1>3

\* A socket of the domain that the addresses call for takes them all, but IPv4
\* addresses only if it is not IPV6_V6ONLY.
LEMMA DomainFits ==
  ASSUME NEW addrs \in Seq(SocketAddr), NEW s, s.domain \in {AF_INET, AF_INET6},
         \A i \in 1..Len(addrs) :
           IF addrs[i].v6 THEN s.domain = AF_INET6 ELSE ~(s.domain = AF_INET6 /\ s.v6only)
  PROVE  AllFit(s, addrs)
  <1> SUFFICES ASSUME NEW i \in 1..Len(addrs) PROVE Fits(s, to_raw(addrs[i]))
    BY DEF AllFit
  <1> DEFINE a == addrs[i]
  <1>1. /\ a \in SocketAddr
        /\ IF a.v6 THEN s.domain = AF_INET6 ELSE ~(s.domain = AF_INET6 /\ s.v6only)
    BY ElementOfSeq
  <1> HIDE DEF a
  <1>2. Family(to_raw(a)) = FamilyOf(a) /\ a.v6 \in BOOLEAN
    BY <1>1, RawFamilyPort, AddrIs
  <1>3. Fits(s, to_raw(a))
    BY <1>1, <1>2 DEF Fits, FamilyOf
  <1> QED
    BY <1>3 DEF a

-----------------------------------------------------------------------------
(* What is known of the socket on the way.                                 *)

\* The steps up to the bind, and those of the set-up after it.
Before(kind, label) ==
  \/ label \in {"set_v6only", "config.apply", "configure_events", "bind_local"}
  \/ label = "set_nonblocking" /\ kind = "connect"

After(kind, label) ==
  \/ label \in {"listen", "register"}
  \/ label = "set_nonblocking" /\ kind # "connect"

\* The steps up to the one that applies the configuration, and those of the
\* set-up after it.
Unset(kind, label) ==
  \/ label \in {"set_v6only", "config.apply"}
  \/ label = "set_nonblocking" /\ kind = "connect"

IsSet(kind, label) == label \in SetupPcs /\ ~Unset(kind, label)

\* The wait for the outcome of the connect.
Waits(label) == label \in {"select", "await"} \cup Looking

SocketSoFar ==
  /\ IsSocket(sock) /\ sock.domain \in {AF_INET, AF_INET6}
  /\ pc \in {"check", "socket", "sctp_connectx"} \cup SetupPcs => sock.peer = <<>>
  /\ pc \in {"socket", "sctp_connectx"} \cup SetupPcs => ArgumentsFit
  /\ pc \in {"sctp_connectx"} \cup SetupPcs => sock.domain = Domain
  /\ Before(args.kind, pc) => sock.port = 0 /\ sock.bound = <<>>
  /\ After(args.kind, pc) \/ pc = "sctp_connectx" \/ Waits(pc) \/ result = "ok"
       => BoundTo(sock, args.local)
  /\ pc = "sctp_connectx" \/ Waits(pc) => args.kind = "connect"
  /\ Waits(pc) \/ result = "ok" => sock.peer = Raws(args.peer)

SetupInv == OwnerInv /\ SocketSoFar /\ AddressesFit

\* The order of the steps, as far as the addresses and options are concerned.
LEMMA StepsInOrder ==
  ASSUME NEW kind \in {"connect", "listener", "server"},
         NEW i \in DOMAIN Steps(kind), i < Len(Steps(kind)),
         NEW label, label = Steps(kind)[i], NEW next, next = Steps(kind)[i + 1]
  PROVE  /\ next \in SetupPcs /\ label # "register"
         /\ Before(kind, next) => Before(kind, label) /\ label # "bind_local"
         /\ After(kind, next) => After(kind, label) \/ label = "bind_local"
         /\ next \in {"config.apply", "configure_events", "bind_local"}
              => label \in {"set_v6only", "config.apply", "configure_events"}
         /\ Unset(kind, next) => Unset(kind, label) /\ label # "config.apply"
         /\ IsSet(kind, next) => IsSet(kind, label) \/ label = "config.apply"
  <1>1. CASE kind = "connect"
    <2>1. Steps(kind) = <<"set_nonblocking", "set_v6only", "config.apply",
                          "configure_events", "bind_local", "register">>
      BY <1>1 DEF Steps
    <2>2. i \in 1..5
      BY <2>1
    <2>3. \/ label = "set_nonblocking" /\ next = "set_v6only"
          \/ label = "set_v6only" /\ next = "config.apply"
          \/ label = "config.apply" /\ next = "configure_events"
          \/ label = "configure_events" /\ next = "bind_local"
          \/ label = "bind_local" /\ next = "register"
      BY <2>1, <2>2
    <2> QED
      BY <1>1, <2>3 DEF SetupPcs, Before, After, Unset, IsSet
  <1>2. CASE kind = "listener"
    <2>1. Steps(kind) = <<"set_v6only", "config.apply", "bind_local", "listen",
                          "set_nonblocking", "register">>
      BY <1>2 DEF Steps
    <2>2. i \in 1..5
      BY <2>1
    <2>3. \/ label = "set_v6only" /\ next = "config.apply"
          \/ label = "config.apply" /\ next = "bind_local"
          \/ label = "bind_local" /\ next = "listen"
          \/ label = "listen" /\ next = "set_nonblocking"
          \/ label = "set_nonblocking" /\ next = "register"
      BY <2>1, <2>2
    <2> QED
      BY <1>2, <2>3 DEF SetupPcs, Before, After, Unset, IsSet
  <1>3. CASE kind = "server"
    <2>1. Steps(kind) = <<"set_v6only", "config.apply", "configure_events",
                          "bind_local", "listen", "set_nonblocking", "register">>
      BY <1>3 DEF Steps
    <2>2. i \in 1..6
      BY <2>1
    <2>3. \/ label = "set_v6only" /\ next = "config.apply"
          \/ label = "config.apply" /\ next = "configure_events"
          \/ label = "configure_events" /\ next = "bind_local"
          \/ label = "bind_local" /\ next = "listen"
          \/ label = "listen" /\ next = "set_nonblocking"
          \/ label = "set_nonblocking" /\ next = "register"
      BY <2>1, <2>2
    <2> QED
      BY <1>3, <2>3 DEF SetupPcs, Before, After, Unset, IsSet
  <1> QED
    BY <1>1, <1>2, <1>3

\* The first step.
LEMMA FirstStep ==
  ASSUME NEW kind \in {"connect", "listener", "server"}
  PROVE  /\ kind = "connect" => Steps(kind)[1] = "set_nonblocking"
         /\ kind # "connect" => Steps(kind)[1] = "set_v6only"
  BY DEF Steps

\* The domain is IPv6 as soon as one address is.
LEMMA DomainIs ==
  ASSUME args \in Args
  PROVE  /\ Domain \in {AF_INET, AF_INET6}
         /\ \A a \in ToSet(args.peer \o args.local) : a.v6 => Domain = AF_INET6
         /\ \A i \in 1..Len(args.local) : args.local[i] \in ToSet(args.peer \o args.local)
         /\ \A i \in 1..Len(args.peer) : args.peer[i] \in ToSet(args.peer \o args.local)
  <1> DEFINE p == args.peer
             l == args.local
             b == p \o l
  <1>1. p \in Seq(SocketAddr) /\ l \in Seq(SocketAddr)
    BY ArmsAssumption
  <1> HIDE DEF p, l
  <1>2. /\ Len(b) = Len(p) + Len(l) /\ DOMAIN b = 1..Len(p) + Len(l)
        /\ Len(p) \in Nat /\ Len(l) \in Nat
        /\ \A i \in 1..Len(p) + Len(l) : b[i] = IF i <= Len(p) THEN p[i] ELSE l[i - Len(p)]
    BY <1>1, ConcatProperties, LenProperties
  <1>3. Domain \in {AF_INET, AF_INET6} /\ \A a \in ToSet(b) : a.v6 => Domain = AF_INET6
    BY DEF Domain, p, l
  <1>4. \A i \in DOMAIN b : b[i] \in ToSet(b)
    BY DEF ToSet
  <1> HIDE DEF b
  <1>5. ASSUME NEW i \in 1..Len(l) PROVE l[i] \in ToSet(b)
    <2>1. Len(p) + i \in 1..Len(p) + Len(l) /\ ~(Len(p) + i <= Len(p)) /\ (Len(p) + i) - Len(p) = i
      BY <1>2
    <2>2. b[Len(p) + i] = l[i]
      BY <1>2, <2>1
    <2> QED
      BY <1>2, <1>4, <2>1, <2>2
  <1>6. ASSUME NEW i \in 1..Len(p) PROVE p[i] \in ToSet(b)
    <2>1. i \in 1..Len(p) + Len(l) /\ i <= Len(p)
      BY <1>2
    <2>2. b[i] = p[i]
      BY <1>2, <2>1
    <2> QED
      BY <1>2, <1>4, <2>1, <2>2
  <1> QED
    BY <1>3, <1>5, <1>6 DEF p, l, b

\* What the arguments are.
LEMMA ArgsAre ==
  ASSUME args \in Args
  PROVE  /\ args.kind \in {"connect", "listener", "server"}
         /\ args.local \in Seq(SocketAddr) /\ args.peer \in Seq(SocketAddr)
         /\ args.kind # "connect" => args.peer = <<>>
  BY ArmsAssumption

\* Unless the addresses are Unfit, those asked for fit the socket.
LEMMA FitForSocket ==
  ASSUME args \in Args, sock.domain = Domain, ~Unfit
  PROVE  AllFit(sock, args.local) /\ AllFit(sock, args.peer)
  <1> DEFINE Asked == ToSet(args.peer \o args.local)
             Takes(a) == IF a.v6 THEN sock.domain = AF_INET6
                         ELSE ~(sock.domain = AF_INET6 /\ sock.v6only)
  <1>1. \A a \in Asked : Takes(a)
    <2>1. \A a \in Asked : a.v6 => Domain = AF_INET6
      BY DomainIs
    <2>2. sock.domain = AF_INET6 /\ sock.v6only => \A a \in Asked : a.v6
      BY DEF Unfit
    <2> HIDE DEF Asked
    <2> QED
      BY <2>1, <2>2
  <1>2. /\ \A i \in 1..Len(args.local) : args.local[i] \in Asked
        /\ \A i \in 1..Len(args.peer) : args.peer[i] \in Asked
    BY DomainIs
  <1>3. sock.domain \in {AF_INET, AF_INET6}
    BY DomainIs
  <1> HIDE DEF Asked
  <1>4. /\ \A i \in 1..Len(args.local) : Takes(args.local[i])
        /\ \A i \in 1..Len(args.peer) : Takes(args.peer[i])
    BY <1>1, <1>2
  <1> QED
    BY <1>3, <1>4, ArgsAre, DomainFits

-----------------------------------------------------------------------------
(* The steps.                                                              *)

\* Once there is an error, nothing is claimed of the socket but its type.
LEMMA OverKeepsSocket ==
  ASSUME SocketSoFar, pc' \in Over, result' # "ok", UNCHANGED <<args, sock>>
  PROVE  SocketSoFar'
  <1>1. \A x \in Over : x \notin {"check", "socket", "sctp_connectx", "config.apply",
                               "configure_events", "bind_local"} \cup SetupPcs
    BY DEF SetupPcs, Over
  <1>2. \A x \in Over : ~Waits(x) /\ ~Before(args.kind, x) /\ ~After(args.kind, x)
    BY LookingPcs DEF Waits, Before, After, Over
  <1> QED
    BY <1>1, <1>2 DEF SocketSoFar

\* An error is returned; EINVAL only for addresses that do not go together.
LEMMA FailKeepsSetup ==
  ASSUME SetupInv, result = "none", NEW error, error \notin {"none", "ok"}, Fail(error),
         error = "einval" => Unfit
  PROVE  SetupInv'
  <1>1. OwnerInv'
    BY FailKeepsOwner DEF SetupInv
  <1>2. pc' \in Over /\ result' = error /\ UNCHANGED <<args, sock>>
    BY DEF Fail, Over
  <1>3. AddressesFit'
    BY <1>2 DEF AddressesFit, Unfit
  <1>4. SocketSoFar'
    BY <1>2, OverKeepsSocket DEF SetupInv
  <1> QED
    BY <1>1, <1>3, <1>4 DEF SetupInv

\* The close of bind_impl.
LEMMA BindFailsKeepsSetup ==
  ASSUME SetupInv, BindFails
  PROVE  SetupInv'
  <1>1. OwnerInv'
    BY SetupKeepsOwner DEF SetupInv
  <1>2. pc' \in Over /\ result' = result /\ result # "ok" /\ UNCHANGED <<args, sock>>
    BY DEF BindFails, Over, SetupInv, OwnerInv
  <1>3. AddressesFit'
    BY <1>2 DEF AddressesFit, Unfit, SetupInv
  <1> QED
    BY <1>1, <1>2, <1>3, OverKeepsSocket DEF SetupInv

\* A step leaves the socket as it is, or only binds it.
Leaves(s, t, label, local) ==
  /\ IsSocket(t)
  /\ t.domain = s.domain /\ t.v6only = s.v6only /\ t.peer = s.peer
  /\ label # "bind_local" => t.bound = s.bound /\ t.port = s.port
  /\ label = "bind_local" => BoundTo(t, local)

\* One step of the set-up but set_v6only, which is not looked at.
LEMMA TryKeepsSetup ==
  ASSUME SetupInv, NEW label \in SetupPcs \ {"set_v6only"}, NEW afterwards,
         NEW refusal \in {"io", "einval"}, Try(label, afterwards, refusal),
         \A t \in afterwards : Leaves(sock, t, label, args.local),
         afterwards = {} /\ refusal = "einval" => Unfit
  PROVE  SetupInv'
  <1>1. OwnerInv'
    BY TryKeepsOwner DEF SetupInv
  <1>2. pc = label /\ result = "none" /\ args \in Args
    BY DEF Try, SetupInv, OwnerInv, SetupPcs, Over
  <1>3. CASE Fail(IF afterwards = {} THEN refusal ELSE "io")
    BY <1>2, <1>3, FailKeepsSetup
  <1>4. CASE ~Fail(IF afterwards = {} THEN refusal ELSE "io")
    <2>1. /\ sock' \in afterwards /\ UNCHANGED args
          /\ \E i \in DOMAIN Steps(args.kind) :
               /\ Steps(args.kind)[i] = label
               /\ \/ /\ i < Len(Steps(args.kind))
                     /\ pc' = Steps(args.kind)[i + 1]
                     /\ UNCHANGED result
                  \/ /\ label = "register" /\ args.kind = "connect"
                     /\ pc' = "sctp_connectx"
                     /\ UNCHANGED result
                  \/ /\ label = "register" /\ args.kind # "connect"
                     /\ pc' = "done"
                     /\ result' = "ok"
      BY <1>4 DEF Try
    <2>2. Leaves(sock, sock', label, args.local)
      BY <2>1
    <2>3. /\ IsSocket(sock') /\ sock'.domain = sock.domain
          /\ sock'.peer = <<>> /\ sock.domain = Domain /\ ArgumentsFit
          /\ sock.domain \in {AF_INET, AF_INET6}
      BY <1>2, <2>2 DEF Leaves, SetupInv, SocketSoFar
    <2>4. Domain' = Domain /\ ArgumentsFit' = ArgumentsFit
      BY <2>1 DEF Domain, ArgumentsFit
    <2>5. After(args.kind, label) => BoundTo(sock', args.local)
      <3>1. After(args.kind, label) => BoundTo(sock, args.local)
        BY <1>2 DEF SetupInv, SocketSoFar
      <3>2. After(args.kind, label) => label # "bind_local"
        BY DEF After
      <3> QED
        BY <2>2, <3>1, <3>2 DEF Leaves, BoundTo
    <2>6. label = "bind_local" => BoundTo(sock', args.local)
      BY <2>2 DEF Leaves
    <2>7. Before(args.kind, label) /\ label # "bind_local" => sock'.port = 0 /\ sock'.bound = <<>>
      BY <1>2, <2>2 DEF Leaves, SetupInv, SocketSoFar
    <2>8. /\ args.kind \in {"connect", "listener", "server"}
          /\ args.kind # "connect" => args.peer = <<>>
      BY <1>2, ArgsAre
    <2>9. \A x \in SetupPcs \cup {"sctp_connectx", "done"} : ~Waits(x)
      BY LookingPcs DEF Waits, SetupPcs
    <2>10. CASE \E i \in DOMAIN Steps(args.kind) :
                  /\ Steps(args.kind)[i] = label
                  /\ i < Len(Steps(args.kind))
                  /\ pc' = Steps(args.kind)[i + 1]
                  /\ UNCHANGED result
      <3>1. /\ pc' \in SetupPcs
            /\ Before(args.kind, pc') => Before(args.kind, label) /\ label # "bind_local"
            /\ After(args.kind, pc') => After(args.kind, label) \/ label = "bind_local"
        BY <2>8, <2>10, StepsInOrder
      <3>2. result' = "none" /\ ~Waits(pc') /\ pc' # "sctp_connectx"
        BY <1>2, <2>9, <2>10, <3>1 DEF SetupPcs
      <3>3. After(args.kind, pc') => BoundTo(sock', args.local)
        BY <2>5, <2>6, <3>1
      <3>4. Before(args.kind, pc') => sock'.port = 0 /\ sock'.bound = <<>>
        BY <2>7, <3>1
      <3>5. SocketSoFar'
        BY <2>1, <2>3, <2>4, <3>1, <3>2, <3>3, <3>4 DEF SocketSoFar
      <3> QED
        BY <1>1, <3>2, <3>5 DEF SetupInv, AddressesFit
    <2>11. CASE /\ label = "register" /\ args.kind = "connect"
                /\ pc' = "sctp_connectx" /\ UNCHANGED result
      <3>1. BoundTo(sock', args.local) /\ ~Before(args.kind, pc')
            /\ ~After(args.kind, pc') /\ ~Waits(pc') /\ result' = "none"
        BY <1>2, <2>5, <2>9, <2>11 DEF Before, After
      <3>2. SocketSoFar'
        BY <2>1, <2>3, <2>4, <2>11, <3>1 DEF SocketSoFar
      <3> QED
        BY <1>1, <3>1, <3>2 DEF SetupInv, AddressesFit
    <2>12. CASE label = "register" /\ args.kind # "connect" /\ pc' = "done" /\ result' = "ok"
      <3>1. BoundTo(sock', args.local) /\ ~Before(args.kind, pc')
            /\ ~After(args.kind, pc') /\ ~Waits(pc')
        BY <2>5, <2>9, <2>12 DEF Before, After
      <3>2. sock'.peer = Raws(args.peer)
        <4>1. args.peer = <<>>
          BY <2>8, <2>12
        <4>2. Raws(<<>>) = <<>>
          BY DEF Raws
        <4> QED
          BY <2>3, <4>1, <4>2
      <3>3. pc' \notin {"check", "socket", "sctp_connectx"} \cup SetupPcs
        BY <2>12 DEF SetupPcs
      <3>4. SocketSoFar'
        BY <2>1, <2>3, <3>1, <3>2, <3>3 DEF SocketSoFar
      <3> QED
        BY <1>1, <2>12, <3>4 DEF SetupInv, AddressesFit
    <2> QED
      BY <2>1, <2>10, <2>11, <2>12
  <1> QED
    BY <1>3, <1>4

\* The configuration changes the options of a socket only.
LEMMA OptionsLeave ==
  ASSUME NEW s, IsSocket(s), NEW os, NEW t \in SetOptions(s, os), NEW local
  PROVE  Leaves(s, t, "config.apply", local)
  <1> DEFINE o == FoldLeft(SetOption, s.options, os)
  <1>1. t = [s EXCEPT !.options = o]
    BY DEF SetOptions
  <1> HIDE DEF o
  <1> QED
    BY <1>1 DEF IsSocket, Leaves

\* bind_local() binds the socket to the addresses asked for, and fails for
\* those of Unfit only.
LEMMA BoundIs ==
  ASSUME SetupInv, pc = "bind_local"
  PROVE  /\ \A t \in Bound : Leaves(sock, t, "bind_local", args.local)
         /\ Bound = {} => Unfit
  <1>1. /\ args \in Args /\ IsSocket(sock) /\ sock.port = 0 /\ sock.bound = <<>>
        /\ sock.domain = Domain /\ ArgumentsFit
    BY DEF SetupInv, OwnerInv, SocketSoFar, Before, SetupPcs
  <1>2. args.local \in Seq(SocketAddr)
    BY <1>1, ArgsAre
  <1>3. CASE args.local = <<>>
    <2>1. Bound = {sock}
      BY <1>3 DEF Bound
    <2>2. BoundTo(sock, <<>>)
      <3>1. Raws(Ported(<<>>, 0)) = <<>> /\ 0 \in U16 /\ Len(<<>>) = 0
        BY DEF Raws, Ported, U16
      <3> QED
        BY <1>1, <3>1 DEF BoundTo
    <2> QED
      BY <1>1, <1>3, <2>1, <2>2 DEF Leaves
  <1>4. CASE args.local # <<>>
    <2>1. Bound = BindAll(sock, args.local)
      BY <1>4 DEF Bound, BindAll
    <2>2. ~Unfit => AllFit(sock, args.local)
      BY <1>1, FitForSocket
    <2>3. /\ \A b \in BindAll(sock, args.local) :
               /\ IsSocket(b) /\ BoundTo(b, args.local)
               /\ b.domain = sock.domain /\ b.v6only = sock.v6only /\ b.peer = sock.peer
          /\ AllFit(sock, args.local) /\ OnePort(args.local) => BindAll(sock, args.local) # {}
      BY <1>1, <1>2, <1>4, BindAllBinds
    <2>4. ~Unfit => OnePort(args.local)
      BY <1>1 DEF ArgumentsFit, Unfit
    <2> QED
      BY <2>1, <2>2, <2>3, <2>4 DEF Leaves
  <1> QED
    BY <1>3, <1>4

\* The steps that may fail.
LEMMA TriesKeepSetup ==
  ASSUME SetupInv,
         SetNonblocking \/ ApplyConfig \/ ConfigureEvents \/ BindLocal \/ Listen \/ Register
  PROVE  SetupInv'
  <1>1. IsSocket(sock)
    BY DEF SetupInv, SocketSoFar
  <1>2. CASE SetNonblocking \/ ConfigureEvents \/ Listen \/ Register
    <2>1. PICK label \in {"set_nonblocking", "configure_events", "listen", "register"} :
            Try(label, {sock}, "io")
      BY <1>2 DEF SetNonblocking, ConfigureEvents, Listen, Register
    <2>2. Leaves(sock, sock, label, args.local)
      BY <1>1 DEF Leaves
    <2>3. label \in SetupPcs \ {"set_v6only"}
      BY DEF SetupPcs
    <2> QED
      BY <2>1, <2>2, <2>3, TryKeepsSetup
  <1>3. CASE ApplyConfig
    <2> DEFINE os == apply(Build(args.calls))
               S == SetOptions(sock, os)
    <2>1. Try("config.apply", S, "io")
      BY <1>3 DEF ApplyConfig
    <2>2. \A t \in S : Leaves(sock, t, "config.apply", args.local)
      <3> HIDE DEF os
      <3> QED
        BY <1>1, OptionsLeave
    <2>3. "config.apply" \in SetupPcs \ {"set_v6only"}
      BY DEF SetupPcs
    <2> HIDE DEF S
    <2> QED
      BY <2>1, <2>2, <2>3, TryKeepsSetup
  <1>4. CASE BindLocal
    <2>1. Try("bind_local", Bound, "einval") /\ pc = "bind_local"
      BY <1>4 DEF BindLocal, Try
    <2>2. "bind_local" \in SetupPcs \ {"set_v6only"}
      BY DEF SetupPcs
    <2> QED
      BY <2>1, <2>2, BoundIs, TryKeepsSetup
  <1> QED
    BY <1>2, <1>3, <1>4

\* IPV6_V6ONLY changes nothing else of a socket, whether it is set or not.
LEMMA V6OnlyIs ==
  ASSUME IsSocket(sock), SetV6Only
  PROVE  /\ IsSocket(sock') /\ sock'.domain = sock.domain /\ sock'.peer = sock.peer
         /\ sock'.port = sock.port /\ sock'.bound = sock.bound
         /\ sock'.type = sock.type /\ sock'.options = sock.options
  <1> DEFINE v == sock.v6only /\ sock.domain # AF_INET6
  <1>1. v \in BOOLEAN
    OBVIOUS
  <1>2. sock' = sock \/ sock' = [sock EXCEPT !.v6only = v]
    BY DEF SetV6Only
  <1> HIDE DEF v
  <1> QED
    BY <1>1, <1>2 DEF IsSocket

\* The arguments are checked, the socket made, and made dual-stack or not.
LEMMA BeginningKeepsSetup ==
  ASSUME SetupInv, CheckArguments \/ MakeSocket \/ SetV6Only
  PROVE  SetupInv'
  <1>1. OwnerInv'
    BY SetupKeepsOwner DEF SetupInv
  <1>2. args \in Args /\ IsSocket(sock) /\ sock.domain \in {AF_INET, AF_INET6}
    BY DEF SetupInv, OwnerInv, SocketSoFar
  <1>3. \A x \in SetupPcs \cup {"socket"} : ~Waits(x) /\ x # "sctp_connectx" /\ x # "done"
    BY LookingPcs DEF Waits, SetupPcs
  <1>4. CASE CheckArguments
    <2>1. pc = "check"
      BY <1>4 DEF CheckArguments
    <2>2. CASE Fail("invalid")
      BY <2>1, <2>2, FailKeepsSetup DEF SetupInv, OwnerInv, Over
    <2>3. CASE ArgumentsFit /\ Goto("socket")
      <3>1. pc' = "socket" /\ UNCHANGED <<args, result, sock>> /\ result = "none"
        BY <2>1, <2>3 DEF Goto, SetupInv, OwnerInv, Over
      <3>2. ArgumentsFit' /\ sock.peer = <<>>
        BY <2>1, <2>3, <3>1 DEF ArgumentsFit, SetupInv, SocketSoFar
      <3>3. ~Before(args.kind, "socket") /\ ~After(args.kind, "socket") /\ "socket" \notin SetupPcs
        BY DEF Before, After, SetupPcs
      <3>4. SocketSoFar'
        BY <1>2, <1>3, <3>1, <3>2, <3>3 DEF SocketSoFar
      <3> QED
        BY <1>1, <3>1, <3>4 DEF SetupInv, AddressesFit
    <2> QED
      BY <1>4, <2>2, <2>3 DEF CheckArguments
  <1>5. CASE MakeSocket
    <2>1. pc = "socket"
      BY <1>5 DEF MakeSocket
    <2>2. CASE Fail("io")
      BY <2>1, <2>2, FailKeepsSetup DEF SetupInv, OwnerInv, Over
    <2>3. CASE ~Fail("io")
      <3> DEFINE ty == IF args.kind = "server" THEN "SOCK_SEQPACKET" ELSE "SOCK_STREAM"
      <3>1. /\ pc' = Steps(args.kind)[1] /\ UNCHANGED <<args, result>>
            /\ sock' = NewSocket(ty, Domain, sock.v6only)
        BY <1>5, <2>3 DEF MakeSocket
      <3> HIDE DEF ty
      <3>2. /\ IsSocket(sock') /\ sock'.domain = Domain /\ sock'.peer = <<>>
            /\ sock'.port = 0 /\ sock'.bound = <<>>
        BY <1>2, <3>1 DEF NewSocket, IsSocket
      <3>3. /\ pc' \in {"set_nonblocking", "set_v6only"}
            /\ pc' = "set_nonblocking" => args.kind = "connect"
        BY <1>2, <3>1, ArgsAre, FirstStep
      <3>4. result = "none" /\ ArgumentsFit
        BY <2>1 DEF SetupInv, OwnerInv, Over, SocketSoFar
      <3>5. Domain' = Domain /\ ArgumentsFit' = ArgumentsFit
        BY <3>1 DEF Domain, ArgumentsFit
      <3>6. ~After(args.kind, pc') /\ ~Waits(pc') /\ pc' # "sctp_connectx"
        BY <1>3, <3>3 DEF After, SetupPcs
      <3>7. Domain \in {AF_INET, AF_INET6}
        BY DEF Domain
      <3>8. SocketSoFar'
        BY <3>1, <3>2, <3>4, <3>5, <3>6, <3>7 DEF SocketSoFar
      <3> QED
        BY <1>1, <3>1, <3>4, <3>8 DEF SetupInv, AddressesFit
    <2> QED
      BY <2>2, <2>3
  <1>6. CASE SetV6Only
    <2>1. pc = "set_v6only" /\ pc' = "config.apply" /\ UNCHANGED <<args, result>>
      BY <1>6 DEF SetV6Only
    <2>2. /\ IsSocket(sock') /\ sock'.domain = sock.domain /\ sock'.peer = sock.peer
          /\ sock'.port = sock.port /\ sock'.bound = sock.bound
      BY <1>2, <1>6, V6OnlyIs
    <2>3. /\ sock.domain = Domain /\ sock.peer = <<>> /\ sock.port = 0 /\ sock.bound = <<>>
          /\ ArgumentsFit /\ result = "none"
      BY <2>1 DEF SetupInv, OwnerInv, Over, SocketSoFar, SetupPcs, Before
    <2>4. Domain' = Domain /\ ArgumentsFit' = ArgumentsFit
      BY <2>1 DEF Domain, ArgumentsFit
    <2>5. ~After(args.kind, pc') /\ ~Waits(pc') /\ pc' # "sctp_connectx"
      BY <1>3, <2>1 DEF After, SetupPcs
    <2>6. SocketSoFar'
      BY <1>2, <2>1, <2>2, <2>3, <2>4, <2>5 DEF SocketSoFar
    <2> QED
      BY <1>1, <2>1, <2>3, <2>6 DEF SetupInv, AddressesFit
  <1> QED
    BY <1>4, <1>5, <1>6

\* sctp_connectx() hands the addresses of the peer over, and fails for those
\* of Unfit only.
LEMMA ConnectXKeepsSetup ==
  ASSUME SetupInv, ConnectX
  PROVE  SetupInv'
  <1>1. OwnerInv'
    BY SetupKeepsOwner DEF SetupInv
  <1>2. /\ pc = "sctp_connectx" /\ args \in Args /\ IsSocket(sock) /\ result = "none"
        /\ sock.domain \in {AF_INET, AF_INET6} /\ sock.domain = Domain
        /\ args.kind = "connect" /\ BoundTo(sock, args.local)
    BY DEF ConnectX, SetupInv, OwnerInv, Over, SocketSoFar
  <1> DEFINE started == ConnectTo(sock, Entries(pack(args.peer), Len(args.peer)))
  <1>3. \/ sock' \in started /\ pc' = "select" /\ UNCHANGED <<args, result>>
        \/ Fail(IF started = {} THEN "einval" ELSE "io")
    BY DEF ConnectX
  <1>4. args.peer \in Seq(SocketAddr)
    BY <1>2, ArgsAre
  <1>5. ~Unfit => AllFit(sock, args.peer) /\ OnePort(args.peer)
    BY <1>2, FitForSocket DEF Unfit
  <1>6. /\ \A c \in started :
             /\ IsSocket(c) /\ c.peer = Raws(args.peer) /\ c.bound = sock.bound
             /\ c.port = sock.port /\ c.domain = sock.domain
        /\ AllFit(sock, args.peer) /\ OnePort(args.peer) => started # {}
    BY <1>2, <1>4, ConnectIs
  <1> HIDE DEF started
  <1>7. CASE Fail(IF started = {} THEN "einval" ELSE "io")
    BY <1>2, <1>5, <1>6, <1>7, FailKeepsSetup
  <1>8. CASE sock' \in started /\ pc' = "select" /\ UNCHANGED <<args, result>>
    <2>1. /\ IsSocket(sock') /\ sock'.peer = Raws(args.peer) /\ sock'.bound = sock.bound
          /\ sock'.port = sock.port /\ sock'.domain = sock.domain
      BY <1>6, <1>8
    <2>2. BoundTo(sock', args.local)
      BY <1>2, <2>1 DEF BoundTo
    <2>3. ~Before(args.kind, "select") /\ ~After(args.kind, "select") /\ "select" \notin SetupPcs
      BY DEF Before, After, SetupPcs
    <2>4. SocketSoFar'
      BY <1>2, <1>8, <2>1, <2>2, <2>3 DEF SocketSoFar
    <2> QED
      BY <1>1, <1>2, <1>8, <2>4 DEF SetupInv, AddressesFit
  <1> QED
    BY <1>3, <1>7, <1>8

\* Nothing of the socket changes once the connect is started.
LEMMA WaitKeepsSetup ==
  ASSUME SetupInv, OwnerInv', Waits(pc), UNCHANGED <<args, sock>>,
         \/ Waits(pc') /\ UNCHANGED result
         \/ pc' = "done" /\ result' \notin {"none", "einval"}
  PROVE  SetupInv'
  <1>1. /\ result = "none"
        /\ \A x : Waits(x) => x \notin SetupPcs \cup {"check", "socket", "sctp_connectx", "done"}
    BY LookingPcs DEF Waits, SetupPcs, SetupInv, OwnerInv, Over
  <1>2. /\ IsSocket(sock) /\ sock.domain \in {AF_INET, AF_INET6} /\ BoundTo(sock, args.local)
        /\ args.kind = "connect" /\ sock.peer = Raws(args.peer)
    BY DEF SetupInv, SocketSoFar
  <1>3. ~Before(args.kind, pc') /\ ~After(args.kind, pc')
        /\ pc' \notin SetupPcs \cup {"check", "socket", "sctp_connectx", "config.apply",
                                     "configure_events", "bind_local"}
    BY <1>1 DEF Before, After, SetupPcs
  <1>4. SocketSoFar'
    BY <1>2, <1>3 DEF SocketSoFar
  <1>5. AddressesFit'
    BY <1>1 DEF AddressesFit
  <1> QED
    BY <1>4, <1>5 DEF SetupInv

\* The steps of established().
LEMMA EstablishedKeepsSetup ==
  ASSUME SetupInv,
         \/ SelectWait \/ Clear \/ Cancel
         \/ \E a \in Tasks : SelectReady(a) \/ SelectWoken(a) \/ CheckSoError(a) \/ Decide(a)
  PROVE  SetupInv'
  <1> USE LookingPcs, ArmsAssumption
  <1>1. OwnerInv'
    BY EstablishedKeepsOwner DEF SetupInv
  <1>2. Waits(pc) /\ args.kind = "connect" /\ UNCHANGED <<args, sock>>
    <2>1. Waits(pc) /\ UNCHANGED <<args, sock>>
      BY DEF SelectWait, Clear, Cancel, SelectReady, SelectWoken, CheckSoError, Decide, Handle,
        Goto, Fail, Waits
    <2> QED
      BY <2>1 DEF SetupInv, SocketSoFar
  <1>3. \/ Waits(pc') /\ UNCHANGED result
        \/ pc' = "done" /\ result' \notin {"none", "einval"}
    <2>1. CASE SelectWait \/ Clear \/ Cancel
      BY <1>2, <2>1 DEF SelectWait, Clear, Cancel, Goto, Fail, Waits
    <2>2. ASSUME NEW a \in Tasks, SelectReady(a) \/ SelectWoken(a)
          PROVE  Waits(pc') /\ UNCHANGED result
      BY <2>2 DEF SelectReady, SelectWoken, Handle, Waits
    <2>3. ASSUME NEW a \in Tasks, CheckSoError(a) \/ Decide(a)
          PROVE  \/ Waits(pc') /\ UNCHANGED result
                 \/ pc' = "done" /\ result' \notin {"none", "einval"}
      BY <1>2, <2>3 DEF CheckSoError, Decide, Goto, Fail, Waits
    <2> QED
      BY <2>1, <2>2, <2>3
  <1> QED
    BY <1>1, <1>2, <1>3, WaitKeepsSetup

\* A new socket has no addresses.
LEMMA SetupInit == Init => SetupInv
  <1> SUFFICES ASSUME Init PROVE SetupInv
    OBVIOUS
  <1>1. PICK v \in BOOLEAN : sock = NewSocket("SOCK_STREAM", AF_INET, v)
    BY DEF Init
  <1>2. IsSocket(sock) /\ sock.domain = AF_INET /\ sock.peer = <<>>
    BY <1>1 DEF NewSocket, IsSocket
  <1>3. pc = "check" /\ result = "none"
    BY DEF Init
  <1>4. ~Before(args.kind, "check") /\ ~After(args.kind, "check") /\ ~Waits("check")
        /\ "check" \notin SetupPcs
    BY LookingPcs DEF Before, After, Waits, SetupPcs
  <1>5. SocketSoFar
    BY <1>2, <1>3, <1>4 DEF SocketSoFar
  <1> QED
    BY <1>3, <1>5, OwnerInit DEF SetupInv, AddressesFit

\* Every step keeps what is known of the socket.
LEMMA SetupNext == SetupInv /\ [Next]_vars => SetupInv'
  <1> SUFFICES ASSUME SetupInv, [Next]_vars PROVE SetupInv'
    OBVIOUS
  <1>1. CASE CallStep \/ Cancel
    BY <1>1, BeginningKeepsSetup, TriesKeepSetup, BindFailsKeepsSetup, ConnectXKeepsSetup,
      EstablishedKeepsSetup
    DEF CallStep
  <1>2. CASE UNCHANGED callVars
    <2>1. OwnerInv'
      BY OwnerNext DEF SetupInv
    <2>2. UNCHANGED <<args, pc, result, sock>>
      BY <1>2 DEF callVars
    <2>3. Domain' = Domain /\ ArgumentsFit' = ArgumentsFit
      BY <2>2 DEF Domain, ArgumentsFit
    <2>4. SocketSoFar'
      BY <2>2, <2>3 DEF SetupInv, SocketSoFar
    <2>5. AddressesFit'
      BY <2>2 DEF SetupInv, AddressesFit, Unfit
    <2> QED
      BY <2>1, <2>4, <2>5 DEF SetupInv
  <1>3. Decision \/ AssociationLost \/ ReactorHarvests \/ ReactorDispatches \/ ReactorErrs
          => UNCHANGED callVars
    BY DEF Decision, AssociationUp, AssociationRefused, AssociationLost, ReactorHarvests,
      ReactorDispatches, ReactorErrs
  <1>4. UNCHANGED vars => UNCHANGED callVars
    BY DEF vars
  <1> QED
    BY <1>1, <1>2, <1>3, <1>4 DEF Next, Finished

\* Whatever addresses of either family are given, the domain of the socket,
\* IPV6_V6ONLY and the check of the ports leave the kernel nothing to refuse but
\* ports that differ within a bind or within a peer, and IPv4 addresses on an
\* IPv6 socket on which IPV6_V6ONLY was set by the host and not reset.
THEOREM AddressesAreAccepted == Spec => []AddressesFit
  <1>1. SetupInv => AddressesFit
    BY DEF SetupInv
  <1> QED
    BY <1>1, SetupInit, SetupNext, PTL DEF Spec

\* For any lists of addresses: a call that returns Ok has handed the kernel
\* exactly the addresses asked for, local and of the peer, and local_addrs()
\* reads the local ones back with the port of the socket.
THEOREM AddressesArrive == Spec => []AddressesAsAsked
  <1>1. SetupInv => AddressesAsAsked
    <2> SUFFICES ASSUME SetupInv, result = "ok" PROVE AddressesAsAsked
      BY DEF AddressesAsAsked
    <2> DEFINE local == args.local
               peer == args.peer
    <2>1. BoundTo(sock, local) /\ sock.peer = Raws(peer) /\ args \in Args
      BY DEF SetupInv, SocketSoFar, OwnerInv
    <2>2. local \in Seq(SocketAddr) /\ peer \in Seq(SocketAddr)
      BY <2>1, ArgsAre
    <2> DEFINE Mapped(a) == IF sock.domain = AF_INET6 /\ ~a.v6
                            THEN V6(V4Mapped(a.ip), sock.port, 0, 0)
                            ELSE [a EXCEPT !.port = sock.port]
    <2>3. [i \in DOMAIN sock.peer |-> <<IpOf(sock.peer[i]), PortOf(sock.peer[i])>>]
            = [i \in DOMAIN peer |-> <<peer[i].ip, peer[i].port>>]
      BY <2>1, <2>2, PeerReads
    <2>4. parse_array(Report(sock), Len(sock.bound)) = [i \in DOMAIN local |-> Mapped(local[i])]
      BY <2>1, <2>2, ReportReads DEF AsReported
    <2>5. \A i \in DOMAIN local : local[i].port \in {0, sock.port}
      BY <2>1, <2>2, LenProperties DEF BoundTo
    <2> HIDE DEF Mapped
    <2>6. \A bytes \in {Report(sock)} :
            parse_array(bytes, Len(sock.bound)) = [i \in DOMAIN local |-> Mapped(local[i])]
      BY <2>4
    <2> QED
      BY <2>3, <2>5, <2>6 DEF AddressesAsAsked, Mapped
  <1> QED
    BY <1>1, SetupInit, SetupNext, PTL DEF Spec

-----------------------------------------------------------------------------
(* The options of a socket.                                                *)

\* The options of a socket after the configuration; with an autoclose on a
\* one-to-many socket only.
Configured(s, calls) ==
  /\ s.options = FoldLeft(SetOption, DefaultOptions, apply(Build(calls)))
  /\ LastOf(calls, "autoclose") # 0 => s.type # "SOCK_STREAM"

\* The defaults of the kernel until the configuration is applied, its options
\* from then on; and a one-to-many socket for a server only.
OptionsSoFar ==
  /\ Unset(args.kind, pc) => sock.options = DefaultOptions
  /\ IsSet(args.kind, pc) \/ pc = "sctp_connectx" \/ Waits(pc) \/ result = "ok"
       => Configured(sock, args.calls)
  /\ pc \in {"sctp_connectx"} \cup SetupPcs \/ Waits(pc) \/ result = "ok"
       => sock.type = IF args.kind = "server" THEN "SOCK_SEQPACKET" ELSE "SOCK_STREAM"

OptionsInv == SetupInv /\ OptionsSoFar

\* What a step does to the options.
Sets(s, t, label, calls) ==
  /\ t.type = s.type
  /\ label # "config.apply" => t.options = s.options
  /\ label = "config.apply" /\ s.options = DefaultOptions => Configured(t, calls)

\* Nothing is claimed of the options once there is an error, nor before there
\* is a socket.
LEMMA OverKeepsOptions ==
  ASSUME pc' \in Over \cup {"check", "socket"}, result' # "ok"
  PROVE  OptionsSoFar'
  <1>1. pc' \notin SetupPcs \cup {"sctp_connectx", "set_nonblocking", "set_v6only", "config.apply"}
    BY DEF SetupPcs, Over
  <1>2. ~Waits(pc')
    BY LookingPcs DEF Waits, Over
  <1> QED
    BY <1>1, <1>2 DEF OptionsSoFar, Unset, IsSet

\* One step of the set-up.
LEMMA TryKeepsOptions ==
  ASSUME OptionsInv, NEW label \in SetupPcs \ {"set_v6only"}, NEW afterwards,
         NEW refusal \in {"io", "einval"}, Try(label, afterwards, refusal),
         \A t \in afterwards : Sets(sock, t, label, args.calls)
  PROVE  OptionsSoFar'
  <1>1. pc = label /\ result = "none" /\ args \in Args
    BY DEF Try, OptionsInv, SetupInv, OwnerInv, SetupPcs, Over
  <1>2. CASE Fail(IF afterwards = {} THEN refusal ELSE "io")
    <2>1. pc' \in Over /\ result' # "ok"
      BY <1>2 DEF Fail, Over
    <2> QED
      BY <2>1, OverKeepsOptions
  <1>3. CASE ~Fail(IF afterwards = {} THEN refusal ELSE "io")
    <2>1. /\ sock' \in afterwards /\ UNCHANGED args
          /\ \E i \in DOMAIN Steps(args.kind) :
               /\ Steps(args.kind)[i] = label
               /\ \/ /\ i < Len(Steps(args.kind))
                     /\ pc' = Steps(args.kind)[i + 1]
                     /\ UNCHANGED result
                  \/ /\ label = "register" /\ args.kind = "connect"
                     /\ pc' = "sctp_connectx"
                     /\ UNCHANGED result
                  \/ /\ label = "register" /\ args.kind # "connect"
                     /\ pc' = "done"
                     /\ result' = "ok"
      BY <1>3 DEF Try
    <2>2. Sets(sock, sock', label, args.calls)
      BY <2>1
    <2>3. sock'.type = (IF args.kind = "server" THEN "SOCK_SEQPACKET" ELSE "SOCK_STREAM")
      BY <1>1, <2>2 DEF Sets, OptionsInv, OptionsSoFar
    <2>4. Unset(args.kind, label) /\ label # "config.apply" => sock'.options = DefaultOptions
      BY <1>1, <2>2 DEF Sets, OptionsInv, OptionsSoFar
    <2>5. IsSet(args.kind, label) \/ label = "config.apply" => Configured(sock', args.calls)
      <3>1. CASE IsSet(args.kind, label)
        <4>1. label # "config.apply"
          BY <3>1 DEF IsSet, Unset
        <4>2. Configured(sock, args.calls)
          BY <1>1, <3>1 DEF OptionsInv, OptionsSoFar
        <4> QED
          BY <2>2, <4>1, <4>2 DEF Sets, Configured
      <3>2. CASE label = "config.apply"
        <4>1. sock.options = DefaultOptions
          BY <1>1, <3>2 DEF OptionsInv, OptionsSoFar, Unset
        <4> QED
          BY <2>2, <3>2, <4>1 DEF Sets
      <3> QED
        BY <3>1, <3>2
    <2>6. args.kind \in {"connect", "listener", "server"}
      BY <1>1, ArgsAre
    <2>7. CASE \E i \in DOMAIN Steps(args.kind) :
                 /\ Steps(args.kind)[i] = label
                 /\ i < Len(Steps(args.kind))
                 /\ pc' = Steps(args.kind)[i + 1]
                 /\ UNCHANGED result
      <3>1. /\ Unset(args.kind, pc') => Unset(args.kind, label) /\ label # "config.apply"
            /\ IsSet(args.kind, pc') => IsSet(args.kind, label) \/ label = "config.apply"
        BY <2>6, <2>7, StepsInOrder
      <3>2. pc' \in SetupPcs
        BY <2>6, <2>7, StepsAreSetup
      <3>3. result' = "none" /\ ~Waits(pc') /\ pc' # "sctp_connectx"
        BY <1>1, <2>7, <3>2, LookingPcs DEF SetupPcs, Waits
      <3>4. Unset(args.kind, pc') => sock'.options = DefaultOptions
        BY <2>4, <3>1
      <3>5. IsSet(args.kind, pc') => Configured(sock', args.calls)
        BY <2>5, <3>1
      <3> QED
        BY <2>1, <2>3, <3>3, <3>4, <3>5 DEF OptionsSoFar
    <2>8. CASE label = "register" /\ pc' \in {"sctp_connectx", "done"}
      <3>1. Configured(sock', args.calls)
        BY <2>5, <2>8 DEF IsSet, Unset, SetupPcs
      <3>2. ~Unset(args.kind, pc')
        BY <2>8 DEF Unset
      <3> QED
        BY <2>1, <2>3, <3>1, <3>2 DEF OptionsSoFar
    <2> QED
      BY <2>1, <2>7, <2>8
  <1> QED
    BY <1>2, <1>3

\* setsockopt() for each option of the configuration, and none refused.
LEMMA ApplySets ==
  ASSUME NEW s, IsSocket(s), NEW calls \in Seq(Calls),
         NEW t \in SetOptions(s, apply(Build(calls)))
  PROVE  Sets(s, t, "config.apply", calls)
  <1> DEFINE os == apply(Build(calls))
             o  == FoldLeft(SetOption, s.options, os)
  <1>1. t = [s EXCEPT !.options = o] /\ ~\E i \in DOMAIN os : Refused(s, os[i])
    BY DEF SetOptions
  <1>2. LastOf(calls, "autoclose") # 0 => \E i \in DOMAIN os : os[i][1] = "SCTP_AUTOCLOSE"
    BY OptionsInForce
  <1>3. LastOf(calls, "autoclose") # 0 => s.type # "SOCK_STREAM"
    <2> HIDE DEF os
    <2> QED
      BY <1>1, <1>2 DEF Refused
  <1> HIDE DEF o
  <1>4. t.type = s.type /\ t.options = o
    BY <1>1 DEF IsSocket
  <1> QED
    BY <1>3, <1>4 DEF Sets, Configured, o

\* bind() and sctp_bindx() leave the options alone.
LEMMA BindSets ==
  ASSUME NEW s, IsSocket(s), NEW raws, NEW t \in BindAddresses(s, raws)
  PROVE  IsSocket(t) /\ t.type = s.type /\ t.options = s.options
  <1>1. PICK port, bound : t = [s EXCEPT !.port = port, !.bound = bound]
    BY DEF BindAddresses
  <1> QED
    BY <1>1 DEF IsSocket

\* bind_local() leaves the options alone.
LEMMA BoundSets ==
  ASSUME IsSocket(sock), NEW t \in Bound
  PROVE  t.type = sock.type /\ t.options = sock.options
  <1>1. CASE args.local = <<>>
    BY <1>1 DEF Bound
  <1>2. CASE args.local # <<>>
    <2>1. PICK s \in BindAddresses(sock, <<to_raw(Head(args.local))>>) :
            \E raws : t \in BindAddresses(s, raws)
      BY <1>2 DEF Bound
    <2>2. PICK raws : t \in BindAddresses(s, raws)
      BY <2>1
    <2>3. IsSocket(s) /\ s.type = sock.type /\ s.options = sock.options
      BY BindSets
    <2>4. t.type = s.type /\ t.options = s.options
      BY <2>2, <2>3, BindSets
    <2> QED
      BY <2>3, <2>4
  <1> QED
    BY <1>1, <1>2

\* The steps that may fail.
LEMMA TriesKeepOptions ==
  ASSUME OptionsInv,
         SetNonblocking \/ ApplyConfig \/ ConfigureEvents \/ BindLocal \/ Listen \/ Register
  PROVE  OptionsSoFar'
  <1>1. IsSocket(sock) /\ args \in Args
    BY DEF OptionsInv, SetupInv, SocketSoFar, OwnerInv
  <1>2. CASE SetNonblocking \/ ConfigureEvents \/ Listen \/ Register
    <2>1. PICK label \in {"set_nonblocking", "configure_events", "listen", "register"} :
            Try(label, {sock}, "io")
      BY <1>2 DEF SetNonblocking, ConfigureEvents, Listen, Register
    <2>2. Sets(sock, sock, label, args.calls)
      BY DEF Sets
    <2>3. label \in SetupPcs \ {"set_v6only"}
      BY DEF SetupPcs
    <2> QED
      BY <2>1, <2>2, <2>3, TryKeepsOptions
  <1>3. CASE ApplyConfig
    <2> DEFINE S == SetOptions(sock, apply(Build(args.calls)))
    <2>1. Try("config.apply", S, "io")
      BY <1>3 DEF ApplyConfig
    <2>2. args.calls \in Seq(Calls)
      BY <1>1, ArmsAssumption
    <2>3. \A t \in S : Sets(sock, t, "config.apply", args.calls)
      BY <1>1, <2>2, ApplySets
    <2>4. "config.apply" \in SetupPcs \ {"set_v6only"}
      BY DEF SetupPcs
    <2> HIDE DEF S
    <2> QED
      BY <2>1, <2>3, <2>4, TryKeepsOptions
  <1>4. CASE BindLocal
    <2>1. Try("bind_local", Bound, "einval")
      BY <1>4 DEF BindLocal
    <2>2. \A t \in Bound : Sets(sock, t, "bind_local", args.calls)
      BY <1>1, BoundSets DEF Sets
    <2>3. "bind_local" \in SetupPcs \ {"set_v6only"}
      BY DEF SetupPcs
    <2> QED
      BY <2>1, <2>2, <2>3, TryKeepsOptions
  <1> QED
    BY <1>2, <1>3, <1>4

\* The first steps: the socket is made with the defaults.
LEMMA BeginningKeepsOptions ==
  ASSUME OptionsInv, CheckArguments \/ MakeSocket \/ SetV6Only \/ BindFails
  PROVE  OptionsSoFar'
  <1>1. args \in Args /\ IsSocket(sock)
    BY DEF OptionsInv, SetupInv, OwnerInv, SocketSoFar
  <1>2. CASE CheckArguments \/ BindFails
    <2>1. pc' \in Over \cup {"check", "socket"} /\ result' # "ok"
      BY <1>2 DEF CheckArguments, BindFails, Goto, Fail, Over, OptionsInv, SetupInv, OwnerInv
    <2> QED
      BY <2>1, OverKeepsOptions
  <1>3. CASE MakeSocket
    <2>1. CASE Fail("io")
      <3>1. pc' \in Over /\ result' # "ok"
        BY <2>1 DEF Fail, Over
      <3> QED
        BY <3>1, OverKeepsOptions
    <2>2. CASE ~Fail("io")
      <3> DEFINE ty == IF args.kind = "server" THEN "SOCK_SEQPACKET" ELSE "SOCK_STREAM"
      <3>1. /\ pc = "socket" /\ pc' = Steps(args.kind)[1] /\ UNCHANGED <<args, result>>
            /\ sock' = NewSocket(ty, Domain, sock.v6only)
        BY <1>3, <2>2 DEF MakeSocket
      <3>2. sock'.type = ty /\ sock'.options = DefaultOptions
        BY <3>1 DEF NewSocket
      <3>3. /\ pc' \in {"set_nonblocking", "set_v6only"}
            /\ pc' = "set_nonblocking" => args.kind = "connect"
        BY <1>1, <3>1, ArgsAre, FirstStep
      <3>4. result' = "none"
        BY <3>1 DEF OptionsInv, SetupInv, OwnerInv, Over
      <3>5. Unset(args.kind, pc') /\ ~IsSet(args.kind, pc') /\ ~Waits(pc') /\ pc' # "sctp_connectx"
        BY <3>3, LookingPcs DEF Unset, IsSet, Waits
      <3> QED
        BY <3>1, <3>2, <3>4, <3>5 DEF OptionsSoFar
    <2> QED
      BY <2>1, <2>2
  <1>4. CASE SetV6Only
    <2>1. pc = "set_v6only" /\ pc' = "config.apply" /\ UNCHANGED <<args, result>>
      BY <1>4 DEF SetV6Only
    <2>2. sock'.type = sock.type /\ sock'.options = sock.options
      BY <1>1, <1>4, V6OnlyIs
    <2>3. result' = "none"
      BY <2>1 DEF OptionsInv, SetupInv, OwnerInv, Over
    <2>4. /\ sock.options = DefaultOptions
          /\ sock.type = IF args.kind = "server" THEN "SOCK_SEQPACKET" ELSE "SOCK_STREAM"
      BY <2>1 DEF OptionsInv, OptionsSoFar, Unset, SetupPcs
    <2>5. ~IsSet(args.kind, "config.apply") /\ ~Waits("config.apply")
      BY LookingPcs DEF IsSet, Unset, Waits
    <2> QED
      BY <2>1, <2>2, <2>3, <2>4, <2>5 DEF OptionsSoFar
  <1> QED
    BY <1>2, <1>3, <1>4

\* From sctp_connectx() on the options stay.
LEMMA ConnectKeepsOptions ==
  ASSUME OptionsInv,
         \/ ConnectX \/ SelectWait \/ Clear \/ Cancel
         \/ \E a \in Tasks : SelectReady(a) \/ SelectWoken(a) \/ CheckSoError(a) \/ Decide(a)
  PROVE  OptionsSoFar'
  <1> USE LookingPcs, ArmsAssumption
  <1>1. IsSocket(sock)
    BY DEF OptionsInv, SetupInv, SocketSoFar
  <1>2. pc = "sctp_connectx" \/ Waits(pc)
    BY DEF ConnectX, SelectWait, Clear, Cancel, SelectReady, SelectWoken, CheckSoError, Decide,
      Waits
  <1>3. /\ Configured(sock, args.calls)
        /\ sock.type = IF args.kind = "server" THEN "SOCK_SEQPACKET" ELSE "SOCK_STREAM"
    BY <1>2 DEF OptionsInv, OptionsSoFar
  <1>4. UNCHANGED args /\ sock'.type = sock.type /\ sock'.options = sock.options
    <2>1. CASE ConnectX
      <3>1. \/ UNCHANGED <<args, sock>>
            \/ /\ UNCHANGED args
               /\ \E raws : sock' \in ConnectTo(sock, raws)
        BY <2>1 DEF ConnectX, Fail
      <3>2. ASSUME NEW raws, NEW t \in ConnectTo(sock, raws)
            PROVE  t.type = sock.type /\ t.options = sock.options
        <4>1. t = [sock EXCEPT !.peer = raws]
          BY DEF ConnectTo
        <4> QED
          BY <1>1, <4>1 DEF IsSocket
      <3> QED
        BY <3>1, <3>2
    <2>2. CASE ~ConnectX
      BY <2>2 DEF SelectWait, Clear, Cancel, SelectReady, SelectWoken, CheckSoError, Decide,
        Handle, Goto, Fail
    <2> QED
      BY <2>1, <2>2
  <1>5. Configured(sock', args.calls)
    BY <1>3, <1>4 DEF Configured
  <1>6. ~Unset(args.kind, pc')
    <2>1. pc' \in {"select", "await", "done", "bind_error"} \cup Looking
      BY DEF ConnectX, SelectWait, Clear, Cancel, SelectReady, SelectWoken, CheckSoError, Decide,
        Handle, Goto, Fail
    <2> QED
      BY <2>1 DEF Unset
  <1> QED
    BY <1>3, <1>4, <1>5, <1>6 DEF OptionsSoFar

\* There are no options before there is a socket.
LEMMA OptionsInit == Init => OptionsInv
  <1> SUFFICES ASSUME Init PROVE OptionsInv
    OBVIOUS
  <1>1. pc = "check" /\ result = "none"
    BY DEF Init
  <1>2. ~Waits("check") /\ "check" \notin SetupPcs
    BY LookingPcs DEF Waits, SetupPcs
  <1> QED
    BY <1>1, <1>2, SetupInit DEF OptionsInv, OptionsSoFar, Unset, IsSet

\* Every step keeps what is known of the options.
LEMMA OptionsNext == OptionsInv /\ [Next]_vars => OptionsInv'
  <1> SUFFICES ASSUME OptionsInv, [Next]_vars PROVE OptionsInv'
    OBVIOUS
  <1>1. SetupInv'
    BY SetupNext DEF OptionsInv
  <1>2. CASE CallStep \/ Cancel
    BY <1>1, <1>2, BeginningKeepsOptions, TriesKeepOptions, ConnectKeepsOptions
    DEF CallStep, OptionsInv
  <1>3. CASE UNCHANGED callVars
    <2>1. UNCHANGED <<args, pc, result, sock>>
      BY <1>3 DEF callVars
    <2> QED
      BY <1>1, <2>1 DEF OptionsInv, OptionsSoFar
  <1>4. Decision \/ AssociationLost \/ ReactorHarvests \/ ReactorDispatches \/ ReactorErrs
          => UNCHANGED callVars
    BY DEF Decision, AssociationUp, AssociationRefused, AssociationLost, ReactorHarvests,
      ReactorDispatches, ReactorErrs
  <1>5. UNCHANGED vars => UNCHANGED callVars
    BY DEF vars
  <1> QED
    BY <1>2, <1>3, <1>4, <1>5 DEF Next, Finished

\* For any chain of calls of the builder and any limits of the kernel: a call
\* that returns Ok leaves the socket with the options of the last calls that set
\* them and with the defaults of the kernel for the others, and autoclose is
\* given to a server only.
THEOREM OptionsArrive == Spec => []OptionsAsAsked
  <1>1. OptionsInv => OptionsAsAsked
    <2> SUFFICES ASSUME OptionsInv, result = "ok" PROVE OptionsAsAsked
      BY DEF OptionsAsAsked
    <2>1. /\ args \in Args /\ Configured(sock, args.calls)
          /\ sock.type = IF args.kind = "server" THEN "SOCK_SEQPACKET" ELSE "SOCK_STREAM"
      BY DEF OptionsInv, OptionsSoFar, SetupInv, OwnerInv
    <2>2. args.calls \in Seq(Calls)
      BY <2>1, ArmsAssumption
    <2>3. LastOf(args.calls, "autoclose") # 0 => args.kind = "server"
      BY <2>1 DEF Configured
    <2>4. sock.options = FoldLeft(SetOption, DefaultOptions, apply(Build(args.calls)))
      BY <2>1 DEF Configured
    <2> DEFINE LastCall(m)      == LastOf(args.calls, m)
               Asked(m, i)      == args.calls[LastCall(m)][i]
               InForce(m, i, d) == IF LastCall(m) = 0 \/ Asked(m, i) = 0 THEN d ELSE Asked(m, i)
               BufferFor(m, d)  == IF LastCall(m) = 0 THEN d
                                   ELSE Max({2 * Min({Asked(m, 2), BufLimit}), BufFloor})
               default          == DefaultOptions
    <2>5. /\ sock.options.init =
               [out_streams    |-> InForce("streams", 2, default.init.out_streams),
                max_in_streams |-> InForce("streams", 3, default.init.max_in_streams),
                max_attempts   |-> InForce("init_retransmit", 2, default.init.max_attempts),
                max_init_timeo |-> InForce("init_retransmit", 3, default.init.max_init_timeo)]
          /\ sock.options.nodelay = IF LastCall("nodelay") # 0 /\ Asked("nodelay", 2) THEN 1 ELSE 0
          /\ (LastCall("recv_buf") # 0 => Asked("recv_buf", 2) < 2^IntBits)
               => sock.options.rcvbuf = BufferFor("recv_buf", default.rcvbuf)
          /\ (LastCall("send_buf") # 0 => Asked("send_buf", 2) < 2^IntBits)
               => sock.options.sndbuf = BufferFor("send_buf", default.sndbuf)
          /\ sock.options.autoclose = IF LastCall("autoclose") = 0 THEN 0
                                      ELSE Min({Asked("autoclose", 2), AutocloseLimit})
      BY <2>2, <2>4, OptionsInForce, ZenonT(60)
    <2> HIDE DEF Asked, InForce, BufferFor, default
    <2> QED
      BY <2>3, <2>5 DEF OptionsAsAsked, LastOf, Asked, InForce, BufferFor, default
  <1> QED
    BY <1>1, OptionsInit, OptionsNext, PTL DEF Spec

-----------------------------------------------------------------------------
(* Types.                                                                  *)

\* The places the call can be at.
LEMMA PcsAre ==
  Pcs = SetupPcs \cup {"check", "socket", "sctp_connectx", "select", "await"} \cup Over \cup Looking
  <1>1. Steps("connect") = <<"set_nonblocking", "set_v6only", "config.apply",
                             "configure_events", "bind_local", "register">>
    BY DEF Steps
  <1>2. Steps("server") = <<"set_v6only", "config.apply", "configure_events",
                            "bind_local", "listen", "set_nonblocking", "register">>
    BY DEF Steps
  <1>3. ToSet(Steps("connect")) = {"set_nonblocking", "set_v6only", "config.apply",
                                   "configure_events", "bind_local", "register"}
    BY <1>1 DEF ToSet
  <1>4. ToSet(Steps("server")) = {"set_v6only", "config.apply", "configure_events",
                                  "bind_local", "listen", "set_nonblocking", "register"}
    BY <1>2 DEF ToSet
  <1> QED
    BY <1>3, <1>4 DEF Pcs, Looking, SetupPcs, Over

\* TypeOK without the registration and the domain of the socket.
CallTypeOK ==
  /\ args \in Args
  /\ pc \in Pcs
  /\ both \in BOOLEAN
  /\ fd \in {"none", "open", "closed"}
  /\ closes \in Nat
  /\ result \in Results

\* A return.
LEMMA FailTyped ==
  ASSUME CallTypeOK, NEW error \in Results, Fail(error)
  PROVE  CallTypeOK'
  BY PcsAre DEF CallTypeOK, Fail, Drop, Close, Over

\* The steps of the call.
LEMMA CallTyped ==
  ASSUME CallTypeOK, CallStep \/ Cancel
  PROVE  CallTypeOK'
  <1> USE LookingPcs, ArmsAssumption
  <1>1. args.kind \in {"connect", "listener", "server"}
    BY DEF CallTypeOK
  <1>2. {"ok", "invalid", "einval", "io", "not_connected", "dropped"} \subseteq Results
    BY DEF Results
  <1>3. ASSUME NEW label \in SetupPcs, NEW afterwards, NEW refusal \in {"io", "einval"},
               Try(label, afterwards, refusal)
        PROVE  CallTypeOK'
    <2>1. CASE Fail(IF afterwards = {} THEN refusal ELSE "io")
      BY <1>2, <2>1, FailTyped
    <2>2. CASE ~Fail(IF afterwards = {} THEN refusal ELSE "io")
      <3>1. UNCHANGED <<args, both, fd, closes>> /\ result' \in {result, "ok"}
        BY <1>3, <2>2 DEF Try
      <3>2. pc' \in SetupPcs \cup {"sctp_connectx", "done"}
        BY <1>1, <1>3, <2>2, StepsAreSetup DEF Try
      <3> QED
        BY <1>2, <3>1, <3>2, PcsAre DEF CallTypeOK, Over
    <2> QED
      BY <2>1, <2>2
  <1>4. CASE SetNonblocking \/ ConfigureEvents \/ Listen \/ ApplyConfig \/ BindLocal \/ Register
    BY <1>3, <1>4
    DEF SetNonblocking, ConfigureEvents, Listen, ApplyConfig, BindLocal, Register, SetupPcs
  <1>5. CASE CheckArguments
    BY <1>2, <1>5, FailTyped, PcsAre DEF CheckArguments, Goto, CallTypeOK
  <1>6. CASE MakeSocket
    <2>1. Steps(args.kind)[1] \in SetupPcs
      BY <1>1, StepsAreSetup
    <2>2. CASE Fail("io")
      BY <1>2, <2>2, FailTyped
    <2> QED
      BY <1>6, <2>1, <2>2, PcsAre DEF MakeSocket, CallTypeOK
  <1>7. CASE SetV6Only
    BY <1>7, PcsAre DEF SetV6Only, CallTypeOK, SetupPcs
  <1>8. CASE ConnectX
    <2>1. CASE \E error \in {"einval", "io"} : Fail(error)
      BY <1>2, <2>1, FailTyped
    <2>2. CASE pc' = "select" /\ UNCHANGED <<args, both, fd, closes, result>>
      BY <2>2, PcsAre DEF CallTypeOK
    <2> QED
      BY <1>8, <2>1, <2>2 DEF ConnectX
  <1>9. CASE SelectWait \/ Clear
    BY <1>9, PcsAre DEF SelectWait, Clear, Goto, CallTypeOK
  <1>10. CASE Cancel
    BY <1>2, <1>10, FailTyped DEF Cancel
  <1>11. ASSUME NEW a \in Tasks, SelectReady(a) \/ SelectWoken(a) PROVE CallTypeOK'
    BY <1>11, PcsAre DEF SelectReady, SelectWoken, Handle, CallTypeOK
  <1>12. ASSUME NEW a \in Tasks, CheckSoError(a) PROVE CallTypeOK'
    BY <1>2, <1>12, FailTyped, PcsAre DEF CheckSoError, Goto, CallTypeOK
  <1>13. ASSUME NEW a \in Tasks, Decide(a) PROVE CallTypeOK'
    <2>1. CASE Fail("not_connected")
      BY <1>2, <2>1, FailTyped
    <2> QED
      BY <1>2, <1>13, <2>1, PcsAre DEF Decide, Goto, CallTypeOK, Over
  <1>14. CASE BindFails
    BY <1>14, PcsAre DEF BindFails, Close, CallTypeOK, Over
  <1> QED
    BY <1>4, <1>5, <1>6, <1>7, <1>8, <1>9, <1>10, <1>11, <1>12, <1>13, <1>14 DEF CallStep

\* The registration and the association.
NetTypeOK ==
  /\ net \in {"none", "connecting", "up", "lost", "refused"}
  /\ queued \in BOOLEAN
  /\ skErr \in BOOLEAN
  /\ hints \subseteq FalsePositives

\* Every step keeps the type of the registration.
LEMMA FdTyped ==
  ASSUME FdTypeOK, [Next]_vars
  PROVE  FdTypeOK'
  <1> USE ArmsAssumption DEF FdTypeOK
  <1>1. CASE \/ CheckArguments \/ MakeSocket \/ SetNonblocking \/ SetV6Only \/ ApplyConfig
             \/ ConfigureEvents \/ BindLocal \/ Listen \/ Register \/ BindFails \/ ConnectX
             \/ UNCHANGED vars
    BY <1>1 DEF CheckArguments, MakeSocket, SetNonblocking, SetV6Only, ApplyConfig, Try,
      ConfigureEvents, BindLocal, Listen, Register, BindFails, ConnectX, fdVars, vars
  <1>2. CASE SelectWait \/ Cancel
    <2>1. \A a \in Tasks : ArmInterest(a) \in SUBSET Readiness
      BY DEF ArmInterest, ReadInterest, WriteInterest, Readiness
    <2> QED
      BY <1>2, <2>1 DEF SelectWait, Cancel
  <1>3. ASSUME NEW a \in Tasks, SelectReady(a) \/ SelectWoken(a) \/ CheckSoError(a) \/ Decide(a)
        PROVE  FdTypeOK'
    BY <1>3 DEF SelectReady, SelectWoken, CheckSoError, Retain, Decide, TakeGuard, DropGuard,
      fdVars
  <1>4. CASE Decision \/ AssociationLost
    BY <1>4 DEF Decision, AssociationUp, AssociationRefused, AssociationLost, Signal
  <1>5. CASE ReactorHarvests \/ ReactorDispatches
    BY <1>5 DEF ReactorHarvests, Harvest, FromEpoll, ReactorDispatches, Dispatch
  <1>6. CASE ReactorErrs
    BY <1>6 DEF ReactorErrs
  <1>7. CASE Clear
    BY <1>7 DEF Clear, ClearReady
  <1> QED
    BY <1>1, <1>2, <1>3, <1>4, <1>5, <1>6, <1>7 DEF Next, CallStep, Finished

\* Every step keeps the type of what the kernel knows of the association.
LEMMA NetTyped ==
  ASSUME NetTypeOK, [Next]_vars
  PROVE  NetTypeOK'
  <1> USE DEF NetTypeOK
  <1>1. CASE \/ CheckArguments \/ MakeSocket \/ SetNonblocking \/ SetV6Only \/ ApplyConfig
             \/ ConfigureEvents \/ BindLocal \/ Listen \/ Register \/ BindFails
             \/ UNCHANGED vars
    BY <1>1 DEF CheckArguments, MakeSocket, SetNonblocking, SetV6Only, ApplyConfig, Try,
      ConfigureEvents, BindLocal, Listen, Register, BindFails, netVars, vars
  <1>2. CASE ConnectX
    BY <1>2 DEF ConnectX
  <1>3. CASE \/ SelectWait \/ Clear \/ Cancel
             \/ \E a \in Tasks : SelectReady(a) \/ SelectWoken(a) \/ CheckSoError(a) \/ Decide(a)
    BY <1>3 DEF SelectWait, Clear, Cancel, SelectReady, SelectWoken, CheckSoError, Decide, netVars
  <1>4. CASE Decision \/ AssociationLost
    BY <1>4 DEF Decision, AssociationUp, AssociationRefused, AssociationLost
  <1>5. CASE ReactorHarvests \/ ReactorDispatches \/ ReactorErrs
    BY <1>5 DEF ReactorHarvests, ReactorDispatches, ReactorErrs, netVars
  <1> QED
    BY <1>1, <1>2, <1>3, <1>4, <1>5 DEF Next, CallStep, Finished

\* Every step of a call, the reactor and the kernel keeps the types.
THEOREM SetupTyped == Spec => []TypeOK
  <1> DEFINE TypeInv == FdTypeOK /\ CallTypeOK /\ NetTypeOK /\ SetupInv
  <1>1. Init => TypeInv
    <2> SUFFICES ASSUME Init PROVE TypeInv
      OBVIOUS
    <2>1. FdTypeOK
      BY DEF Init, FdInit, FdTypeOK
    <2>2. CallTypeOK
      BY PcsAre DEF Init, CallTypeOK, Results
    <2>3. NetTypeOK
      BY DEF Init, NetTypeOK
    <2> QED
      BY <2>1, <2>2, <2>3, SetupInit
  <1>2. TypeInv /\ [Next]_vars => TypeInv'
    <2> SUFFICES ASSUME TypeInv, [Next]_vars PROVE TypeInv'
      OBVIOUS
    <2>1. CallTypeOK'
      <3>1. CASE CallStep \/ Cancel
        BY <3>1, CallTyped
      <3>2. CASE UNCHANGED callVars
        BY <3>2 DEF CallTypeOK, callVars
      <3>3. \/ CallStep \/ Cancel \/ UNCHANGED callVars
        BY DEF Next, Finished, Decision, AssociationUp, AssociationRefused, AssociationLost,
          ReactorHarvests, ReactorDispatches, ReactorErrs, vars
      <3> QED
        BY <3>1, <3>2, <3>3
    <2>2. FdTypeOK' /\ NetTypeOK' /\ SetupInv'
      BY FdTyped, NetTyped, SetupNext
    <2> QED
      BY <2>1, <2>2
  <1>3. TypeInv => TypeOK
    BY DEF TypeOK, CallTypeOK, NetTypeOK, SetupInv, SocketSoFar
  <1> QED
    BY <1>1, <1>2, <1>3, PTL DEF Spec

-----------------------------------------------------------------------------
(* The set-up implements the ownership of descriptors.                     *)

\* Where the call is, as Descriptors sees it.
Held ==
  IF pc \in {"bind_error", "register"} THEN pc
  ELSE IF fd # "open" THEN "idle"
  ELSE IF Registered THEN "live" ELSE "setup"

\* A step that changes neither the descriptor nor where it is held is none of
\* Descriptors.
LEMMA HeldUnchanged ==
  ASSUME UNCHANGED <<args, fd>>, Held' = Held, (pc = "bind_error") <=> (pc' = "bind_error")
  PROVE  UNCHANGED Ownership!vars
  BY DEF Ownership!vars, Held, Constructor

\* A step of the one thread is a step of Descriptors.
LEMMA ThreadSteps == Ownership!Step("call") => Ownership!Next
  BY DEF Ownership!Next

\* Where the call is held in terms of its progress.
LEMMA HeldIs ==
  ASSUME SetupInv, result = "none"
  PROVE  /\ fd = "none" => Held = "idle"
         /\ fd = "open" => Held \in {"setup", "register", "live"}
         /\ fd \in {"none", "open"}
         /\ Held = "register" <=> pc = "register"
         /\ Held = "live" => args.kind = "connect"
         /\ pc # "bind_error"
  BY LookingPcs DEF SetupInv, OwnerInv, Over, Held, Registered, SocketSoFar, Waits, Looking

\* An error is returned: at the set-up, from the registration, or after it.
LEMMA FailIsOwned ==
  ASSUME SetupInv, result = "none", NEW error, error \notin {"none", "ok"}, Fail(error)
  PROVE  [Ownership!Next]_(Ownership!vars)
  <1>1. UNCHANGED args /\ result' = error
    BY DEF Fail
  <1>2. CASE fd = "none"
    <2>1. fd' = "none" /\ pc' = "done" /\ Held' = "idle" /\ Held = "idle" /\ pc # "bind_error"
      BY <1>2, HeldIs DEF Fail, Drop, HasWrapper, Held
    <2> QED
      BY <1>1, <1>2, <2>1, HeldUnchanged
  <1>3. CASE fd = "open" /\ args.kind = "connect"
    <2>1. fd' = "closed" /\ pc' = "done"
      BY <1>3 DEF Fail, Drop, HasWrapper, Close
    <2>2. \/ Held = "setup" /\ Ownership!ConnectSetUpFails("call")
          \/ Held = "register" /\ Ownership!RegisterFails("call")
          \/ Held = "live" /\ Ownership!Drop("call")
      BY <1>1, <1>3, <2>1, HeldIs
      DEF Ownership!ConnectSetUpFails, Ownership!RegisterFails, Ownership!Drop, Ownership!Close,
        Ownership!Return, Ownership!Free, Constructor, Held
    <2> QED
      BY <2>2, ThreadSteps DEF Ownership!Step
  <1>4. CASE fd = "open" /\ args.kind # "connect" /\ pc # "register"
    <2>1. fd' = "open" /\ pc' = "bind_error" /\ Held = "setup"
      BY <1>4, HeldIs DEF Fail, Drop, HasWrapper
    <2>2. Ownership!BindSetUpFails("call")
      BY <1>1, <1>4, <2>1
      DEF Ownership!BindSetUpFails, Ownership!Goto, Constructor, Held
    <2> QED
      BY <2>2, ThreadSteps DEF Ownership!Step
  <1>5. CASE fd = "open" /\ args.kind # "connect" /\ pc = "register"
    <2>1. fd' = "closed" /\ pc' = "bind_error"
      BY <1>5 DEF Fail, Drop, HasWrapper, Close
    <2>2. Ownership!RegisterFails("call")
      BY <1>1, <1>5, <2>1
      DEF Ownership!RegisterFails, Ownership!Goto, Ownership!Close, Ownership!Free, Constructor
    <2> QED
      BY <2>2, ThreadSteps DEF Ownership!Step
  <1> QED
    BY <1>2, <1>3, <1>4, <1>5, HeldIs

\* One step of the set-up.
LEMMA TryIsOwned ==
  ASSUME SetupInv, NEW label \in SetupPcs, NEW afterwards, NEW refusal \in {"io", "einval"},
         Try(label, afterwards, refusal)
  PROVE  [Ownership!Next]_(Ownership!vars)
  <1>1. /\ pc = label /\ result = "none" /\ fd = "open"
        /\ args.kind \in {"connect", "listener", "server"}
    BY ArmsAssumption DEF Try, SetupInv, OwnerInv, SetupPcs, Over
  <1>2. CASE Fail(IF afterwards = {} THEN refusal ELSE "io")
    BY <1>1, <1>2, FailIsOwned
  <1>3. CASE ~Fail(IF afterwards = {} THEN refusal ELSE "io")
    <2>1. UNCHANGED <<args, fd>>
      BY <1>3 DEF Try
    <2>2. CASE pc' \in SetupPcs /\ label # "register" /\ UNCHANGED result
      <3>1. \A x \in SetupPcs : x \notin {"sctp_connectx", "select", "await", "bind_error"} \cup Looking
        BY LookingPcs DEF SetupPcs
      <3>2. /\ pc # "register" => Held = "setup"
            /\ pc' # "register" => Held' = "setup"
        BY <1>1, <2>1, <2>2, <3>1 DEF Held, Registered, Looking
      <3>3. CASE pc' # "register"
        BY <2>1, <2>2, <3>1, <3>2, <3>3, <1>1, HeldUnchanged DEF Held
      <3>4. CASE pc' = "register"
        BY <1>1, <2>1, <2>2, <3>2, <3>4, ThreadSteps
        DEF Ownership!Step, Ownership!SetUp, Ownership!Goto, Constructor, Held
      <3> QED
        BY <3>3, <3>4
    <2>3. CASE label = "register" /\ (pc' = "sctp_connectx" \/ (pc' = "done" /\ result' = "ok"))
      <3>1. Held' = "live" /\ pc' # "bind_error"
        BY <1>1, <2>1, <2>3 DEF Held, Registered
      <3> QED
        BY <1>1, <2>1, <2>3, <3>1, ThreadSteps
        DEF Ownership!Step, Ownership!Register, Ownership!Goto, Constructor, Held
    <2>4. PICK i \in DOMAIN Steps(args.kind) :
            /\ Steps(args.kind)[i] = label
            /\ \/ /\ i < Len(Steps(args.kind))
                  /\ pc' = Steps(args.kind)[i + 1]
                  /\ UNCHANGED result
               \/ /\ label = "register" /\ args.kind = "connect"
                  /\ pc' = "sctp_connectx"
                  /\ UNCHANGED result
               \/ /\ label = "register" /\ args.kind # "connect"
                  /\ pc' = "done"
                  /\ result' = "ok"
      BY <1>3 DEF Try
    <2>5. i < Len(Steps(args.kind)) => Steps(args.kind)[i + 1] \in SetupPcs /\ label # "register"
      BY <1>1, <2>4, StepsInOrder
    <2>6. \/ pc' \in SetupPcs /\ label # "register" /\ UNCHANGED result
          \/ label = "register" /\ (pc' = "sctp_connectx" \/ (pc' = "done" /\ result' = "ok"))
      BY <2>4, <2>5
    <2> QED
      BY <2>2, <2>3, <2>6
  <1> QED
    BY <1>2, <1>3

\* Every step of a call is one of the thread in Descriptors, or none.
LEMMA StepIsOwned ==
  ASSUME SetupInv, [Next]_vars
  PROVE  [Ownership!Next]_(Ownership!vars)
  <1> USE LookingPcs, ArmsAssumption
  <1>1. CASE CheckArguments
    <2>1. pc = "check" /\ result = "none" /\ fd = "none"
      BY <1>1 DEF CheckArguments, SetupInv, OwnerInv, Over
    <2>2. CASE Goto("socket")
      BY <2>1, <2>2, HeldUnchanged DEF Goto, Held
    <2> QED
      BY <1>1, <2>1, <2>2, FailIsOwned DEF CheckArguments
  <1>2. CASE MakeSocket
    <2>1. /\ pc = "socket" /\ result = "none" /\ fd = "none"
          /\ args.kind \in {"connect", "listener", "server"}
      BY <1>2 DEF MakeSocket, SetupInv, OwnerInv, Over
    <2>2. CASE pc' = Steps(args.kind)[1] /\ fd' = "open" /\ UNCHANGED <<args, result>>
      <3>1. pc' \in {"set_nonblocking", "set_v6only"}
        BY <2>1, <2>2, FirstStep
      <3>2. Held = "idle" /\ Held' = "setup"
        BY <2>1, <2>2, <3>1 DEF Held, Registered
      <3>3. Constructor' = Constructor /\ Constructor \in Ownership!Constructors
        BY <2>2 DEF Ownership!Constructors, Constructor
      <3>4. pc # "bind_error" /\ pc # "register" /\ pc' # "bind_error" /\ pc' # "register"
        BY <2>1, <3>1
      <3>5. Ownership!Open("call", Constructor)
        <4>1. 1 \in {1} /\ \A g \in {1} : 1 <= g
          OBVIOUS
        <4> QED
          BY <2>1, <2>2, <3>2, <3>3, <3>4, <4>1 DEF Ownership!Open, Ownership!Free, Held
      <3> QED
        BY <3>3, <3>5, ThreadSteps DEF Ownership!Step
    <2> QED
      BY <1>2, <2>1, <2>2, FailIsOwned DEF MakeSocket
  <1>3. CASE SetNonblocking \/ ConfigureEvents \/ Listen \/ ApplyConfig \/ BindLocal \/ Register
    BY <1>3, TryIsOwned
    DEF SetNonblocking, ConfigureEvents, Listen, ApplyConfig, BindLocal, Register, SetupPcs
  <1>4. CASE SetV6Only
    <2>1. pc = "set_v6only" /\ pc' = "config.apply" /\ UNCHANGED <<args, fd, result>>
      BY <1>4 DEF SetV6Only
    <2> QED
      BY <2>1, HeldUnchanged DEF Held, Registered
  <1>5. CASE BindFails
    <2>1. /\ pc = "bind_error" /\ pc' = "done" /\ fd' = "closed" /\ UNCHANGED args
          /\ fd \in {"open", "closed"} /\ args.kind # "connect"
      BY <1>5 DEF BindFails, Close, SetupInv, OwnerInv
    <2>2. Ownership!BindFails("call")
      BY <2>1 DEF Ownership!BindFails, Ownership!Close, Ownership!Return, Ownership!Free, Constructor
    <2> QED
      BY <2>2, ThreadSteps DEF Ownership!Step
  <1>6. CASE ConnectX
    <2>1. pc = "sctp_connectx" /\ result = "none" /\ fd = "open"
      BY <1>6 DEF ConnectX, SetupInv, OwnerInv, Over
    <2>2. CASE pc' = "select" /\ UNCHANGED <<args, fd>>
      BY <2>1, <2>2, HeldUnchanged DEF Held, Registered
    <2>3. CASE \E error \in {"einval", "io"} : Fail(error)
      BY <2>1, <2>3, FailIsOwned
    <2> QED
      BY <1>6, <2>2, <2>3 DEF ConnectX
  <1>7. CASE \/ SelectWait \/ Clear \/ Cancel
             \/ \E a \in Tasks : SelectReady(a) \/ SelectWoken(a) \/ CheckSoError(a) \/ Decide(a)
    <2>1. /\ pc \in {"select", "await"} \cup Looking /\ result = "none" /\ fd = "open"
      BY <1>7 DEF SelectWait, Clear, Cancel, SelectReady, SelectWoken, CheckSoError, Decide,
        SetupInv, OwnerInv, Over
    <2>2. CASE /\ pc' \in {"select", "await"} \cup Looking \/ (pc' = "done" /\ result' = "ok")
               /\ UNCHANGED <<args, fd>>
      BY <2>1, <2>2, HeldUnchanged DEF Held, Registered, Looking
    <2>3. CASE \E error \in {"io", "dropped", "not_connected"} : Fail(error)
      BY <2>1, <2>3, FailIsOwned
    <2>4. CASE SelectWait \/ Clear \/ Cancel
      BY <2>2, <2>3, <2>4 DEF SelectWait, Clear, Cancel, Goto
    <2>5. ASSUME NEW a \in Tasks, SelectReady(a) \/ SelectWoken(a) \/ CheckSoError(a) \/ Decide(a)
          PROVE  [Ownership!Next]_(Ownership!vars)
      BY <2>2, <2>3, <2>5
      DEF SelectReady, SelectWoken, Handle, CheckSoError, Decide, Goto, Looking
    <2> QED
      BY <1>7, <2>4, <2>5
  <1>8. CASE UNCHANGED callVars
    BY <1>8, HeldUnchanged DEF callVars, Held, Registered
  <1>9. Decision \/ AssociationLost \/ ReactorHarvests \/ ReactorDispatches \/ ReactorErrs
          => UNCHANGED callVars
    BY DEF Decision, AssociationUp, AssociationRefused, AssociationLost, ReactorHarvests,
      ReactorDispatches, ReactorErrs
  <1>10. UNCHANGED vars => UNCHANGED callVars
    BY DEF vars
  <1> QED
    BY <1>1, <1>2, <1>3, <1>4, <1>5, <1>6, <1>7, <1>8, <1>9, <1>10 DEF Next, CallStep, Finished

\* connect_bound and bind_impl, with all that they do between their system
\* calls, are the connect and the bind of Descriptors: they make one descriptor
\* and let go of it where that module says, on every error path.
THEOREM OwnershipIsImplemented == Spec => ImplementsOwnership
  <1>1. Init => Ownership!Init
    BY DEF Init, Ownership!Init, Ownership!Free, Registered, Constructor
  <1>2. SetupInv /\ [Next]_vars => [Ownership!Next]_(Ownership!vars)
    BY StepIsOwned
  <1> QED
    BY <1>1, <1>2, SetupInit, SetupNext, PTL DEF Spec, ImplementsOwnership, Ownership!Spec

=============================================================================

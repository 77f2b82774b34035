----------------------------- MODULE SctpSetup -----------------------------
(***************************************************************************)
(* How a socket comes to be: connect_bound() of src/association.rs, and    *)
(* bind_impl() and setup() of src/listener.rs and src/server.rs.  A socket *)
(* is made, given its options and addresses and registered; a client is    *)
(* then connected, and established() waits for the outcome.  Every system  *)
(* call on the way may fail; a connect may be dropped while it waits.      *)
(*                                                                         *)
(* The one task holds up to two readiness futures, the arms of the select  *)
(* in established(): "w" for inner.writable() and "r" for inner.readable().*)
(* They are the Tasks of AsyncFd.                                          *)
(***************************************************************************)
EXTENDS AsyncFd, KernelSetup

CONSTANTS
  Args,             \* bound: the calls, records [kind, local, peer, calls]
  FalsePositives    \* readiness the runtime may report without cause

ASSUME ArmsAssumption ==
  /\ Tasks = {"w", "r"}
  /\ FalsePositives \subseteq Readiness
  /\ \A a \in Args : /\ a.kind \in {"connect", "listener", "server"}
                     /\ a.local \in Seq(SocketAddr) /\ a.peer \in Seq(SocketAddr)
                     /\ a.kind # "connect" => a.peer = <<>>
                     /\ a.calls \in Seq(Calls)

VARIABLES
  args,       \* the call: a "connect", or the bind of a "listener" or a
              \* "server"; the local addresses, those of the peer, and the
              \* calls that made the configuration
  pc,         \* the next thing the call does
  both,       \* established(): readable is waited for as well
  fd,         \* the descriptor: "none", "open" or "closed"
  closes,     \* times it was closed
  result,     \* "none", "ok" or the error returned
  sock,       \* the socket as it is set up in the kernel
  net,        \* the association: "none", "connecting", "up", "lost", "refused"
  queued,     \* a notification waits to be read
  skErr,      \* the socket error is set
  hints       \* readiness that was reported without cause (history)

netVars  == <<net, queued, skErr, hints>>
callVars == <<args, pc, both, fd, closes, result, sock>>
vars     == <<fdVars, netVars, callVars>>

SoError == [w |-> "so_error_w", r |-> "so_error_r"]
Probing == [w |-> "probe_w", r |-> "probe_r"]

\* The steps of the set-up, in their order.
Steps(kind) ==
  CASE kind = "connect"  -> <<"set_nonblocking", "set_v6only", "config.apply",
                              "configure_events", "bind_local", "register">>
    [] kind = "listener" -> <<"set_v6only", "config.apply", "bind_local", "listen",
                              "set_nonblocking", "register">>
    [] kind = "server"   -> <<"set_v6only", "config.apply", "configure_events",
                              "bind_local", "listen", "set_nonblocking", "register">>

Pcs == ToSet(Steps("connect")) \cup ToSet(Steps("server"))
       \cup {"check", "socket", "sctp_connectx", "select", "await", "clear", "bind_error", "done"}
       \cup {SoError[a] : a \in Tasks} \cup {Probing[a] : a \in Tasks}

\* "einval" is the error of the kernel for addresses that do not fit the
\* socket or each other, "io" any other error of a system call.
Results == {"none", "ok", "invalid", "einval", "io", "not_connected", "dropped"}

TypeOK ==
  /\ FdTypeOK
  /\ args \in Args
  /\ pc \in Pcs
  /\ both \in BOOLEAN
  /\ fd \in {"none", "open", "closed"}
  /\ closes \in Nat
  /\ result \in Results
  /\ sock.domain \in {AF_INET, AF_INET6}
  /\ net \in {"none", "connecting", "up", "lost", "refused"}
  /\ queued \in BOOLEAN
  /\ skErr \in BOOLEAN
  /\ hints \subseteq FalsePositives

\* (The registration starts its life with the register step; until the socket
\* is made, sock says only how the host makes new ones.)
Init ==
  /\ args \in Args
  /\ FdInit
  /\ pc = "check"
  /\ both = TRUE
  /\ fd = "none"
  /\ closes = 0
  /\ result = "none"
  /\ \E bindv6only \in BOOLEAN : sock = NewSocket("SOCK_STREAM", AF_INET, bindv6only)
  /\ net = "none"
  /\ queued = FALSE
  /\ skErr = FALSE
  /\ hints = {}

Registered ==
  \/ pc \in {"sctp_connectx", "select", "await", "clear"} \cup {SoError[a] : a \in Tasks}
             \cup {Probing[a] : a \in Tasks}
  \/ result = "ok"

-----------------------------------------------------------------------------
(* Returns.                                                                *)

Goto(label) == pc' = label /\ UNCHANGED <<args, both, fd, closes, result, sock>>

\* Mutant: the socket is forgotten rather than dropped.
DropForgets == UNCHANGED <<fd, closes>>

\* The wrapper whose Drop closes the descriptor is there: in connect_bound from
\* socket() on, in a bind from the call of register on.
HasWrapper == fd = "open" /\ (args.kind = "connect" \/ pc = "register")

Close == fd' = "closed" /\ closes' = closes + 1

\* The end of the call, or of setup(), drops the wrapper, wherever it is by then.
Drop == IF HasWrapper THEN Close ELSE UNCHANGED <<fd, closes>>

\* An error is returned, that of setup() to bind_impl.
Fail(error) ==
  /\ pc' = IF args.kind # "connect" /\ fd = "open" THEN "bind_error" ELSE "done"
  /\ result' = error
  /\ Drop
  /\ UNCHANGED <<args, both, sock>>

\* Mutant: the error of setup() is returned as it is.
BindFailsLeaves ==
  /\ pc = "bind_error"
  /\ pc' = "done"
  /\ UNCHANGED <<args, both, fd, closes, result, sock, fdVars, netVars>>

\* bind_impl, Err(e): the descriptor is closed, also when the failed
\* registration has closed it before.
BindFails ==
  /\ pc = "bind_error"
  /\ pc' = "done"
  /\ Close
  /\ UNCHANGED <<args, both, result, sock, fdVars, netVars>>

\* One step of the set-up: it leaves the socket in one of the states
\* afterwards, or fails and its error is returned with `?`.  After the last
\* step a bind is done.
Try(label, afterwards, refusal) ==
  /\ pc = label
  /\ \/ /\ sock' \in afterwards
        /\ \E i \in DOMAIN Steps(args.kind) :
             /\ Steps(args.kind)[i] = label
             /\ \/ /\ i < Len(Steps(args.kind))
                   /\ pc' = Steps(args.kind)[i + 1]
                   /\ UNCHANGED result
                \/ /\ label = "register" /\ args.kind = "connect"
                   /\ pc' = "sctp_connectx"
                   /\ UNCHANGED result
                \/ /\ label = "register" /\ args.kind # "connect"
                   /\ pc' = "done"
                   /\ result' = "ok"
        /\ UNCHANGED <<args, both, fd, closes>>
     \/ Fail(IF afterwards = {} THEN refusal ELSE "io")
  /\ UNCHANGED <<fdVars, netVars>>

-----------------------------------------------------------------------------
(* connect_bound, bind_impl and setup.                                     *)

OnePort(addrs) == \A i \in DOMAIN addrs : addrs[i].port = addrs[1].port

\* No check of the ports in a bind.
ArgumentsFit ==
  IF args.kind = "connect" THEN args.peer # <<>> /\ OnePort(args.local) ELSE args.local # <<>>

CheckArguments ==
  /\ pc = "check"
  /\ IF ArgumentsFit THEN Goto("socket") ELSE Fail("invalid")
  /\ UNCHANGED <<fdVars, netVars>>

\* Mutant: the local addresses have no say in the domain.
DomainOfPeer ==
  IF \E i \in DOMAIN args.peer : args.peer[i].v6 THEN AF_INET6 ELSE AF_INET

Domain ==
  IF \E a \in ToSet(args.peer \o args.local) : a.v6 THEN AF_INET6 ELSE AF_INET

\* Mutant: the descriptor is used without a look at its sign.
MakeSocketUnchecked ==
  /\ pc = "socket"
  /\ pc' = Steps(args.kind)[1]
  /\ fd' \in {"open", "invalid"}
  /\ UNCHANGED <<args, both, closes, result, sock, fdVars, netVars>>

MakeSocket ==
  /\ pc = "socket"
  /\ \/ /\ pc' = Steps(args.kind)[1]
        /\ fd' = "open"
        /\ sock' = NewSocket(IF args.kind = "server" THEN "SOCK_SEQPACKET" ELSE "SOCK_STREAM",
                             Domain, sock.v6only)
        /\ UNCHANGED <<args, both, closes, result>>
     \/ Fail("io")
  /\ UNCHANGED <<fdVars, netVars>>

SetNonblocking  == Try("set_nonblocking", {sock}, "io")
ConfigureEvents == Try("configure_events", {sock}, "io")
Listen          == Try("listen", {sock}, "io")
ApplyConfig     == Try("config.apply", SetOptions(sock, apply(Build(args.calls))), "io")

\* For an IPv6 socket only.  The result of the option is not looked at: when it
\* fails, the socket keeps what the host gave it.
SetV6Only ==
  /\ pc = "set_v6only"
  /\ sock' \in {sock, [sock EXCEPT !.v6only = @ /\ sock.domain # AF_INET6]}
  /\ pc' = "config.apply"
  /\ UNCHANGED <<args, both, fd, closes, result, fdVars, netVars>>

\* bind() to the first address if there is one, then sctp_bindx() to the
\* others.
Bound ==
  IF args.local = <<>> THEN {sock}
  ELSE UNION {BindAddresses(s, Entries(packed, Len(args.local) - 1)) :
                s \in BindAddresses(sock, <<to_raw(Head(args.local))>>),
                packed \in {pack(Tail(args.local))}}

BindLocal == Try("bind_local", Bound, "einval")

\* reactor::register takes the socket; when it fails the socket is dropped
\* with it.
Register == Try("register", {sock}, "io")

\* The connect is started, or refused outright (any errno but EINPROGRESS).
ConnectX ==
  /\ pc = "sctp_connectx"
  /\ \E packed \in {pack(args.peer)} :
       \E started \in {ConnectTo(sock, Entries(packed, Len(args.peer)))} :
         \/ /\ sock' \in started
            /\ pc' = "select"
            /\ net' = "connecting"
            /\ UNCHANGED <<args, both, fd, closes, result>>
         \/ Fail(IF started = {} THEN "einval" ELSE "io") /\ UNCHANGED net
  /\ UNCHANGED <<fdVars, queued, skErr, hints>>

-----------------------------------------------------------------------------
(* established().                                                          *)

\* Mutant: only writability is waited for, as before.
ArmsWritable == {"w"}

\* The arms of the select: the second has the condition `if both`.
Arms == IF both THEN {"w", "r"} ELSE {"w"}

ArmInterest(a) == IF a = "w" THEN WriteInterest ELSE ReadInterest

\* The handler of an arm runs; that of the readable arm clears `both`.
Handle(a) ==
  /\ pc' = SoError[a]
  /\ both' = (both /\ a = "w")
  /\ UNCHANGED <<args, fd, closes, result, sock>>

\* The first poll: the arms in order, writable first (biased).
SelectReady(a) ==
  /\ pc = "select"
  /\ a \in Arms
  /\ a = "r" => ready \cap WriteInterest = {}
  /\ TakeGuard(a, ArmInterest(a))
  /\ Handle(a)
  /\ UNCHANGED netVars

SelectWait ==
  /\ pc = "select"
  /\ \A a \in Arms : ready \cap ArmInterest(a) = {}
  /\ waiting' = [a \in Tasks |-> IF a \in Arms THEN ArmInterest(a) ELSE {}]
  /\ Goto("await")
  /\ UNCHANGED <<edge, event, ready, fresh, netVars>>

\* An arm was woken; the other future is dropped.
SelectWoken(a) ==
  /\ pc = "await"
  /\ a \in Arms
  /\ waiting[a] = {}
  /\ a = "r" => waiting["w"] # {}
  /\ waiting' = [b \in Tasks |-> {}]
  /\ fresh' = [fresh EXCEPT ![a] = TRUE]
  /\ Handle(a)
  /\ UNCHANGED <<edge, event, ready, netVars>>

\* What poll() says of the socket, also to epoll: a socket that is connecting
\* is neither writable nor in error.
PollEvents ==
  {e \in EpollEvents :
    \/ e = "ERR" /\ skErr
    \/ e = "IN" /\ queued
    \/ e = "OUT" /\ net \in {"up", "lost"}}

\* Mutant: any answer of poll() is taken for a connection.
ProbeAnything == IF PollEvents = {} THEN "Pending" ELSE "Established"

\* probe(): POLLOUT first, then POLLERR, POLLHUP or POLLNVAL.
Probe ==
  IF "OUT" \in PollEvents THEN "Established"
  ELSE IF PollEvents \cap {"ERR", "HUP"} # {} THEN "Failed"
  ELSE "Pending"

\* Mutant: an arm clears what woke it before it looks.
RetainClears(a) == ClearReady(a, ArmInterest(a))

\* The readable arm gives its guard back before it looks (retain_ready): what is
\* queued is for recv.  The writable arm keeps its own.
Retain(a) == IF a = "r" THEN DropGuard(a) ELSE UNCHANGED fdVars

\* Mutant: the socket error is left to the probe.
CheckSoErrorSkipped(a) ==
  /\ pc = SoError[a]
  /\ Goto(Probing[a])
  /\ Retain(a)
  /\ UNCHANGED netVars

\* check_so_error: reading the error clears it; getsockopt() may fail.
CheckSoError(a) ==
  /\ pc = SoError[a]
  /\ \/ /\ IF skErr THEN Fail("io") ELSE Goto(Probing[a])
        /\ skErr' = FALSE
     \/ Fail("io") /\ UNCHANGED skErr
  /\ Retain(a)
  /\ UNCHANGED <<net, queued, hints>>

\* The answer of the probe is acted on; when nothing is decided, the writable
\* arm goes on to clear the readiness that woke it.
Decide(a) ==
  /\ pc = Probing[a]
  /\ \/ /\ Probe = "Established"
        /\ pc' = "done"
        /\ result' = "ok"
        /\ UNCHANGED <<args, both, fd, closes, sock>>
     \/ Probe = "Failed" /\ Fail("not_connected")
     \/ Probe = "Pending" /\ Goto(IF a = "w" THEN "clear" ELSE "select")
  /\ UNCHANGED <<fdVars, netVars>>

\* guard.clear_ready(): the kernel and the reactor may have acted since the
\* probe.
Clear ==
  /\ pc = "clear"
  /\ Goto("select")
  /\ ClearReady("w", WriteInterest)
  /\ UNCHANGED netVars

\* The caller drops the connect at its await: the registration is removed
\* and the socket closed.
Cancel ==
  /\ pc = "await"
  /\ Fail("dropped")
  /\ waiting' = [a \in Tasks |-> {}]
  /\ UNCHANGED <<edge, event, ready, fresh, netVars>>

-----------------------------------------------------------------------------
(* The kernel and the reactor.                                             *)

Signal == edge' = TRUE /\ UNCHANGED <<event, ready, fresh, waiting>>

\* The peer accepts: COMM_UP is queued and the socket becomes writable.
AssociationUp ==
  /\ net = "connecting"
  /\ net' = "up"
  /\ queued' = TRUE
  /\ Signal
  /\ UNCHANGED <<skErr, hints, callVars>>

\* The INIT is answered with an ABORT or given up: CANT_STR_ASSOC is queued.
AssociationRefused ==
  /\ net = "connecting"
  /\ net' = "refused"
  /\ queued' = TRUE
  /\ skErr' = TRUE
  /\ Signal
  /\ UNCHANGED <<hints, callVars>>

\* An association that came up is lost before connect has looked.
AssociationLost ==
  /\ net = "up"
  /\ net' = "lost"
  /\ queued' = TRUE
  /\ skErr' = TRUE
  /\ Signal
  /\ UNCHANGED <<hints, callVars>>

ReactorHarvests ==
  /\ Registered
  /\ Harvest(PollEvents)
  /\ UNCHANGED <<netVars, callVars>>

ReactorDispatches ==
  /\ Dispatch
  /\ UNCHANGED <<netVars, callVars>>

\* Readiness is a hint: the runtime may report it without cause.
ReactorErrs ==
  /\ Registered
  /\ event = {}
  /\ \E r \in FalsePositives : event' = {r} /\ hints' = hints \cup {r}
  /\ UNCHANGED <<edge, ready, fresh, waiting, net, queued, skErr, callVars>>

CallStep ==
  \/ CheckArguments \/ MakeSocket \/ SetNonblocking \/ SetV6Only \/ ApplyConfig
  \/ ConfigureEvents \/ BindLocal \/ Listen \/ Register \/ BindFails \/ ConnectX
  \/ SelectWait \/ Clear
  \/ \E a \in Tasks : SelectReady(a) \/ SelectWoken(a) \/ CheckSoError(a) \/ Decide(a)

Decision == AssociationUp \/ AssociationRefused

\* The call is over and no event of the socket is outstanding.
Finished == pc = "done" /\ UNCHANGED vars

Next ==
  \/ CallStep
  \/ Cancel
  \/ Decision \/ AssociationLost
  \/ ReactorHarvests \/ ReactorDispatches \/ ReactorErrs
  \/ Finished

Spec == Init /\ [][Next]_vars

\* The runtime runs the task and its driver; the kernel decides every
\* connect, the INIT being sent a bounded number of times.  The driver collects
\* what the kernel has at every turn: a report without cause is made beside
\* that and cannot take its place for ever.
FairSpec ==
  /\ Spec
  /\ WF_vars(CallStep)
  /\ WF_vars(Decision)
  /\ SF_vars(ReactorHarvests)
  /\ WF_vars(ReactorDispatches)

-----------------------------------------------------------------------------
(* Properties.                                                             *)

\* A connect returns an association only when the handshake completed, and
\* never on account of a false readiness report.
OkMeansEstablished == args.kind = "connect" /\ result = "ok" => net \in {"up", "lost"}

\* "The socket error decides" (established): a connect that the peer refused
\* or that was given up returns the socket error and not the error-less
\* NotConnected, as long as no readiness is reported without cause.
RefusalIsExplained ==
  net = "refused" /\ hints = {} /\ result # "none" => result \in {"io", "dropped"}

\* "The socket owns the fd from here on and closes it on any return": a call
\* that failed or was dropped has closed its descriptor, a connect exactly once
\* and a bind once or, because of the close in bind_impl, twice; one that
\* succeeded has it open.  (When a bind closes twice is in ImplementsOwnership.)
OneOwner ==
  pc = "done" =>
    /\ fd = "open" <=> result = "ok"
    /\ closes \in IF fd # "closed" THEN {0} ELSE IF args.kind = "connect" THEN {1} ELSE {1, 2}

\* The call as one thread of Descriptors, with one descriptor.
Constructor == IF args.kind = "connect" THEN "connect" ELSE "bind"

Ownership == INSTANCE Descriptors WITH
  Threads <- {"call"},
  Fds     <- {1},
  Faults  <- {"bind", "connect"} \X {"setup", "register"},
  table   <- [f \in {1} |-> IF fd = "open" THEN [by |-> "call", kind |-> Constructor]
                            ELSE [by |-> "nobody", kind |-> "none"]],
  call    <- [t \in {"call"} |-> IF fd = "none" THEN "none" ELSE Constructor],
  pc      <- [t \in {"call"} |-> IF pc \in {"bind_error", "register"} THEN pc
                                 ELSE IF fd # "open" THEN "idle"
                                 ELSE IF Registered THEN "live" ELSE "setup"],
  fd      <- [t \in {"call"} |-> IF fd = "open" \/ pc = "bind_error" THEN 1 ELSE 0]

\* The set-up, step by step, is what Descriptors has of it in the hands of one
\* thread: its bind and its connect make, keep, let go of and close a
\* descriptor when bind_impl and connect_bound do, on every error path.
ImplementsOwnership == Ownership!Spec

\* "What is queued stays for recv": when connect returns, whatever makes the
\* socket readable or writable is still cached or on its way, so that the
\* first receive and the first send find it.
ReadinessIsLeft ==
  result = "ok" =>
    /\ queued => edge \/ (event \cup ready) \cap ReadInterest # {}
    /\ net = "up" => edge \/ (event \cup ready) \cap WriteInterest # {}

\* A connect ends, with an association or an error, whatever readiness was
\* reported without cause and whenever the kernel decides.  The one that does
\* not was refused after a readable report that decided nothing: "only
\* writability is waited for from then on", and a refusal is not writable.
ConnectReturns == <>(pc = "done" \/ (pc = "await" /\ ~both /\ net = "refused"))

\* The ports of a peer, or of a bind, differ; or the option that makes an IPv6
\* socket take IPv4 addresses failed on a host that does not by default.
Unfit ==
  \/ ~OnePort(args.peer)
  \/ args.kind # "connect" /\ ~OnePort(args.local)
  \/ /\ sock.domain = AF_INET6 /\ sock.v6only
     /\ \E a \in ToSet(args.peer \o args.local) : ~a.v6

\* The domain, IPV6_V6ONLY and connect's check of the ports make every
\* combination of addresses acceptable to the kernel, but for those of Unfit.
AddressesFit == result = "einval" => Unfit

\* "A peer that identifies this endpoint by its addresses and port sees
\* exactly these": through the bytes of to_raw and pack the kernel gets the
\* addresses asked for, in both lists, and local_addrs() reads the same back
\* (v4-mapped on an IPv6 socket) with the port the kernel chose for port 0.
AddressesAsAsked ==
  result = "ok" =>
    LET Mapped(a) == IF sock.domain = AF_INET6 /\ ~a.v6
                     THEN V6(V4Mapped(a.ip), sock.port, 0, 0)
                     ELSE [a EXCEPT !.port = sock.port]
        local     == args.local
    IN  /\ [i \in DOMAIN sock.peer |-> <<IpOf(sock.peer[i]), PortOf(sock.peer[i])>>]
             = [i \in DOMAIN args.peer |-> <<args.peer[i].ip, args.peer[i].port>>]
        /\ \A bytes \in {Report(sock)} :
             parse_array(bytes, Len(sock.bound)) = [i \in DOMAIN local |-> Mapped(local[i])]
        /\ \A i \in DOMAIN local : local[i].port \in {0, sock.port}

\* "None leaves the kernel default in place", and of several calls of a
\* builder the last counts, in whatever order they are made and also when they
\* set different parts of the INIT parameters: the options of a socket that
\* was set up are those asked for.  A number that a c_int turns negative is
\* taken by the kernel as it was meant; a buffer of 2^IntBits bytes or more is
\* not, and is left out.  "One-to-many sockets only": autoclose is in force on
\* a server, and an error elsewhere.
OptionsAsAsked ==
  result = "ok" =>
    LET LastCall(method)  == SelectLastInSeq(args.calls, LAMBDA c : c[1] = method)
        Asked(method, i)  == args.calls[LastCall(method)][i]
        InForce(method, i, default) ==
          IF LastCall(method) = 0 \/ Asked(method, i) = 0 THEN default ELSE Asked(method, i)
        BufferFor(method, default) ==
          IF LastCall(method) = 0 THEN default
          ELSE Max({2 * Min({Asked(method, 2), BufLimit}), BufFloor})
        default == DefaultOptions
    IN  /\ sock.options.init =
             [out_streams    |-> InForce("streams", 2, default.init.out_streams),
              max_in_streams |-> InForce("streams", 3, default.init.max_in_streams),
              max_attempts   |-> InForce("init_retransmit", 2, default.init.max_attempts),
              max_init_timeo |-> InForce("init_retransmit", 3, default.init.max_init_timeo)]
        /\ sock.options.nodelay =
             IF LastCall("nodelay") # 0 /\ Asked("nodelay", 2) THEN 1 ELSE 0
        /\ (LastCall("recv_buf") # 0 => Asked("recv_buf", 2) < 2^IntBits)
             => sock.options.rcvbuf = BufferFor("recv_buf", default.rcvbuf)
        /\ (LastCall("send_buf") # 0 => Asked("send_buf", 2) < 2^IntBits)
             => sock.options.sndbuf = BufferFor("send_buf", default.sndbuf)
        /\ sock.options.autoclose =
             IF LastCall("autoclose") = 0 THEN 0 ELSE Min({Asked("autoclose", 2), AutocloseLimit})
        /\ LastCall("autoclose") # 0 => args.kind = "server"

=============================================================================

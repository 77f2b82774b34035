---------------------------- MODULE KernelSetup ----------------------------
(***************************************************************************)
(* What the kernel does with the options and the addresses a socket is set *)
(* up with.  External code, modelled from how the crate uses it.  The      *)
(* kernel keeps addresses as the bytes it was given; a call that it        *)
(* refuses leads to no state of the socket, {}.                            *)
(***************************************************************************)
EXTENDS Addresses, SctpConfig

CONSTANTS
  BufLimit,         \* net.core.rmem_max and wmem_max
  BufFloor,         \* SOCK_MIN_RCVBUF and SOCK_MIN_SNDBUF
  AutocloseLimit    \* net.sctp.max_autoclose

ASSUME LimitsAssumption == BufLimit \in Nat /\ BufFloor \in Nat /\ AutocloseLimit \in Nat

EphemeralPort == 49153    \* the port the kernel chooses for port 0

DefaultOptions ==
  [init      |-> [out_streams |-> 10, max_in_streams |-> 65535,
                  max_attempts |-> 8, max_init_timeo |-> 60000],
   nodelay   |-> 0,
   rcvbuf    |-> 2 * BufLimit,
   sndbuf    |-> 2 * BufLimit,
   autoclose |-> 0]

\* The type is SOCK_STREAM or SOCK_SEQPACKET; bindv6only is the setting of
\* the host for new sockets.
NewSocket(type, domain, bindv6only) ==
  [type |-> type, domain |-> domain, v6only |-> bindv6only, options |-> DefaultOptions,
   bound |-> <<>>, port |-> 0, peer |-> <<>>]

-----------------------------------------------------------------------------
(* Options.                                                                *)

\* Numbers are read as unsigned; a buffer is doubled for the bookkeeping.
Unsigned(n) == n % 2^IntBits
BufferOf(n) == Max({2 * Min({Unsigned(n), BufLimit}), BufFloor})

\* Zero in an INIT parameter keeps what the socket has.
SetOption(options, o) ==
  CASE o[1] = "SCTP_INITMSG" ->
         [options EXCEPT !.init = [f \in DOMAIN @ |-> IF o[2][f] = 0 THEN @[f] ELSE o[2][f]]]
    [] o[1] = "SCTP_NODELAY"   -> [options EXCEPT !.nodelay = o[2]]
    [] o[1] = "SO_RCVBUF"      -> [options EXCEPT !.rcvbuf = BufferOf(o[2])]
    [] o[1] = "SO_SNDBUF"      -> [options EXCEPT !.sndbuf = BufferOf(o[2])]
    [] o[1] = "SCTP_AUTOCLOSE" ->
         [options EXCEPT !.autoclose = Min({Unsigned(o[2]), AutocloseLimit})]

\* SCTP_AUTOCLOSE is refused on a one-to-one socket.
Refused(sock, o) == o[1] = "SCTP_AUTOCLOSE" /\ sock.type = "SOCK_STREAM"

SetOptions(sock, os) ==
  IF \E i \in DOMAIN os : Refused(sock, os[i]) THEN {}
  ELSE {[sock EXCEPT !.options = FoldLeft(SetOption, @, os)]}

-----------------------------------------------------------------------------
(* Addresses.                                                              *)

PortOf(raw) == 256 * raw[3] + raw[4]
IpOf(raw)   == IF Family(raw) = AF_INET THEN SubSeq(raw, 5, 8) ELSE SubSeq(raw, 9, 24)
WithPort(raw, port) == [raw EXCEPT ![3] = port \div 256, ![4] = port % 256]

\* The entries of an array of count addresses.
Entries(bytes, count) ==
  LET offset == Offsets(bytes, count)
  IN  [i \in 1..count |-> Entry(bytes, offset[i - 1])]

\* An IPv4 address fits an IPv6 socket that is not IPV6_V6ONLY.
Fits(sock, raw) ==
  \/ Family(raw) = sock.domain
  \/ Family(raw) = AF_INET /\ sock.domain = AF_INET6 /\ ~sock.v6only

\* bind() or sctp_bindx(): the port of a bound socket stays; that of another is
\* the one of the first address, or one the kernel chooses if that is 0.  An
\* address with port 0 gets the port of the socket, any other has to have it.
BindAddresses(sock, raws) ==
  LET port == IF sock.port # 0 \/ raws = <<>> THEN sock.port
              ELSE IF PortOf(raws[1]) # 0 THEN PortOf(raws[1])
              ELSE EphemeralPort
  IN  IF \A i \in DOMAIN raws : Fits(sock, raws[i]) /\ PortOf(raws[i]) \in {0, port}
      THEN {[sock EXCEPT !.port = port,
                         !.bound = @ \o [i \in DOMAIN raws |-> WithPort(raws[i], port)]]}
      ELSE {}

\* sctp_connectx(): one port for all addresses of the peer.
ConnectTo(sock, raws) ==
  IF \A i \in DOMAIN raws : Fits(sock, raws[i]) /\ PortOf(raws[i]) = PortOf(raws[1])
  THEN {[sock EXCEPT !.peer = raws]}
  ELSE {}

\* sctp_getladdrs(): on an IPv6 socket, IPv4 addresses are v4-mapped.
V4Mapped(ip) == [i \in 1..10 |-> 0] \o <<255, 255>> \o ip

Report(sock) ==
  FlattenSeq([i \in DOMAIN sock.bound |->
    LET raw == sock.bound[i]
    IN  IF sock.domain = AF_INET6 /\ Family(raw) = AF_INET
        THEN ToNe(AF_INET6, 2) \o SubSeq(raw, 3, 4) \o ToBe(0, 4) \o V4Mapped(IpOf(raw))
               \o ToBe(0, 4)
        ELSE raw])

=============================================================================

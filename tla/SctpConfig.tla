----------------------------- MODULE SctpConfig -----------------------------
(***************************************************************************)
(* src/config.rs: the options of a socket, built by a chain of calls and   *)
(* applied by a sequence of setsockopt calls; and the chain the Python     *)
(* constructor makes of its keywords.  An Option is the set of its values. *)
(***************************************************************************)
EXTENDS Integers, SequencesExt

CONSTANT IntBits    \* the width of a c_int

\* (The second conjunct follows from the first, but the provers know powers of
\* literals only.)
ASSUME IntBitsAssumption == IntBits \in Nat \ {0} /\ 2^IntBits \in Nat \ {0}

\* `as c_int`: the low bits, the highest of them the sign.
CInt(n) ==
  LET low == n % 2^IntBits
  IN  IF low >= 2^(IntBits - 1) THEN low - 2^IntBits ELSE low

-----------------------------------------------------------------------------
(* The builder.                                                            *)

NoInit == [out_streams |-> 0, max_in_streams |-> 0, max_attempts |-> 0, max_init_timeo |-> 0]

new == [init |-> {}, nodelay |-> {}, recv_buf |-> {}, send_buf |-> {}, autoclose_secs |-> {}]

\* Mutant: the INIT parameters are started anew.
GetOrInsertAlways(init) == NoInit

\* get_or_insert(InitMsg::default())
GetOrInsert(init) == IF init = {} THEN NoInit ELSE CHOOSE i \in init : TRUE

streams(c, out, max_in) ==
  [c EXCEPT !.init = {[GetOrInsert(@) EXCEPT !.out_streams = out, !.max_in_streams = max_in]}]

init_retransmit(c, attempts, timeo) ==
  [c EXCEPT !.init = {[GetOrInsert(@) EXCEPT !.max_attempts = attempts, !.max_init_timeo = timeo]}]

\* A call of the chain: <<method, arguments...>>, the numbers u16, usize and, of
\* the width of a c_int, u32.
Short == 0..2^16 - 1

Calls ==
  ({"streams", "init_retransmit"} \X Short \X Short)
  \cup ({"nodelay"} \X BOOLEAN)
  \cup ({"recv_buf", "send_buf"} \X Nat)
  \cup ({"autoclose"} \X (0..2^IntBits - 1))

CallOn(c, call) ==
  CASE call[1] = "streams"         -> streams(c, call[2], call[3])
    [] call[1] = "init_retransmit" -> init_retransmit(c, call[2], call[3])
    [] call[1] = "nodelay"         -> [c EXCEPT !.nodelay = {call[2]}]
    [] call[1] = "recv_buf"        -> [c EXCEPT !.recv_buf = {call[2]}]
    [] call[1] = "send_buf"        -> [c EXCEPT !.send_buf = {call[2]}]
    [] call[1] = "autoclose"       -> [c EXCEPT !.autoclose_secs = {call[2]}]

Build(calls) == FoldLeft(CallOn, new, calls)

\* PyConfig::new: the calls for its keywords, of which out_streams and
\* max_in_streams have defaults and the others are options.
PyConfig(kw) ==
  LET Given(method, value) == SetToSeq({<<method, v>> : v \in value})
  IN  (IF kw.out_streams > 0 \/ kw.max_in_streams > 0
       THEN <<<<"streams", kw.out_streams, kw.max_in_streams>>>> ELSE <<>>)
      \o Given("nodelay", kw.nodelay) \o Given("recv_buf", kw.recv_buf)
      \o Given("send_buf", kw.send_buf) \o Given("autoclose", kw.autoclose)

-----------------------------------------------------------------------------
\* apply(): the setsockopt calls, in their order, each an option and the value
\* handed to the kernel.  The first that fails ends it.
apply(c) ==
  LET Option(name, values) == SetToSeq({<<name, v>> : v \in values})
  IN  Option("SCTP_INITMSG", c.init)
      \o Option("SCTP_NODELAY", {IF on THEN 1 ELSE 0 : on \in c.nodelay})
      \o Option("SO_RCVBUF", {CInt(b) : b \in c.recv_buf})
      \o Option("SO_SNDBUF", {CInt(b) : b \in c.send_buf})
      \o Option("SCTP_AUTOCLOSE", {CInt(s) : s \in c.autoclose_secs})

=============================================================================

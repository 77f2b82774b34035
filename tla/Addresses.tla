----------------------------- MODULE Addresses -----------------------------
(***************************************************************************)
(* src/addr.rs: socket addresses and the bytes the kernel exchanges for    *)
(* them.  A SocketAddr is a record; an IPv4 address has no flow            *)
(* information and no scope, which are 0 here.  An Option or a Result is   *)
(* the set of its values.                                                  *)
(***************************************************************************)
EXTENDS Integers, FiniteSetsExt, SequencesExt

CONSTANT LittleEndian    \* the byte order of the host

ASSUME EndianAssumption == LittleEndian \in BOOLEAN

AF_INET  == 2
AF_INET6 == 10

V4(ip, port) == [v6 |-> FALSE, ip |-> ip, port |-> port, flowinfo |-> 0, scope_id |-> 0]
V6(ip, port, flowinfo, scope_id) ==
  [v6 |-> TRUE, ip |-> ip, port |-> port, flowinfo |-> flowinfo, scope_id |-> scope_id]

\* An IP address is its bytes.  (An integer is bounded by its highest byte:
\* 2^32 is out of TLC's range.)
Bytes(n) == [1..n -> 0..255]
U16      == {n \in Nat : n \div 256 < 256}
U32      == {n \in Nat : n \div 256^3 < 256}

SocketAddr ==
  [v6 : {FALSE}, ip : Bytes(4), port : U16, flowinfo : {0}, scope_id : {0}]
  \cup [v6 : {TRUE}, ip : Bytes(16), port : U16, flowinfo : U32, scope_id : U32]

-----------------------------------------------------------------------------
(* Integers in memory.                                                     *)

ToBe(n, size) == [i \in 1..size |-> (n \div 256^(size - i)) % 256]
ToNe(n, size) == IF LittleEndian THEN Reverse(ToBe(n, size)) ELSE ToBe(n, size)
FromBe(bytes) ==
  LET value[i \in 0..Len(bytes)] == IF i = 0 THEN 0 ELSE 256 * value[i - 1] + bytes[i]
  IN  value[Len(bytes)]
FromNe(bytes) == FromBe(IF LittleEndian THEN Reverse(bytes) ELSE bytes)

-----------------------------------------------------------------------------
(* sockaddr_in: family, port, address and 8 bytes of padding.              *)
(* sockaddr_in6: family, port, flow information, address, scope.           *)

SizeOf(family) == IF family = AF_INET THEN 16 ELSE 28

\* Mutant: the port is stored without to_be().
RawPortNative(port) == ToNe(port, 2)

RawPort(port) == ToBe(port, 2)

to_raw(a) ==
  IF a.v6
  THEN ToNe(AF_INET6, 2) \o RawPort(a.port) \o ToNe(a.flowinfo, 4) \o a.ip
         \o ToNe(a.scope_id, 4)
  ELSE ToNe(AF_INET, 2) \o RawPort(a.port) \o a.ip \o [i \in 1..8 |-> 0]

Family(raw) == FromNe(SubSeq(raw, 1, 2))

from_raw(raw) ==
  LET port == FromBe(SubSeq(raw, 3, 4))
  IN  CASE Family(raw) = AF_INET  -> {V4(SubSeq(raw, 5, 8), port)}
        [] Family(raw) = AF_INET6 -> {V6(SubSeq(raw, 9, 24), port, FromNe(SubSeq(raw, 5, 8)),
                                         FromNe(SubSeq(raw, 25, 28)))}
        [] OTHER                  -> {}

-----------------------------------------------------------------------------
(* Arrays of addresses, each entry of the size of its family.              *)

pack(addrs) == FlattenSeq([i \in DOMAIN addrs |-> to_raw(addrs[i])])

\* The entry that begins at p, and where the entries of an array begin.  (The
\* place before is taken from a set, so that TLC evaluates it once.)
SizeAt(bytes, p) == SizeOf(Family(SubSeq(bytes, p + 1, p + 2)))
Entry(bytes, p)  == SubSeq(bytes, p + 1, p + SizeAt(bytes, p))

Offsets(bytes, count) ==
  LET After(p) == CHOOSE q \in {r + SizeAt(bytes, r) : r \in {p}} : TRUE
      offset[n \in 0..count] == IF n = 0 THEN 0 ELSE After(offset[n - 1])
  IN  offset

\* The entries are read up to the first one of another family.
parse_array(bytes, count) ==
  LET offset  == Offsets(bytes, count)
      Read(i) == from_raw(Entry(bytes, offset[i]))
      known   == {n \in 0..count : \A i \in 0..n - 1 : Read(i) # {}}
  IN  [i \in 1..Max(known) |-> CHOOSE a \in Read(i - 1) : TRUE]

=============================================================================

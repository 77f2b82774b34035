------------------------- MODULE KernelSetupProofs -------------------------
(***************************************************************************)
(* What becomes of addresses and of options on their way into the kernel.  *)
(* In the bytes, to_raw and from_raw, pack and parse_array are inverse to  *)
(* each other for all addresses and either byte order; what bind() and     *)
(* sctp_bindx() do, in terms of addresses and no more of bytes; and the    *)
(* options that a chain of calls of the builder leaves a new socket with.  *)
(***************************************************************************)
EXTENDS KernelSetup, SequenceProofs, FiniteSetTheorems

-----------------------------------------------------------------------------
(* Bytes and numbers.                                                      *)

\* A byte is a number.
LEMMA ByteIsNat == \A x \in 0..255 : x \in Nat
  OBVIOUS

\* The bytes of a number of two.
LEMMA ToBeTwo ==
  ASSUME NEW n \in U16
  PROVE  /\ ToBe(n, 2) \in Bytes(2)
         /\ n = 256 * ToBe(n, 2)[1] + ToBe(n, 2)[2]
  <1>0. n \in Nat /\ n \div 256 < 256
    BY DEF U16
  <1>1. 256^(2 - 1) = 256 /\ 256^(2 - 2) = 1
    OBVIOUS
  <1>2. n \div 1 = n /\ n \div 256 \in Nat
    BY <1>0
  <1>3. ToBe(n, 2)[1] = (n \div 256^(2 - 1)) % 256 /\ ToBe(n, 2)[2] = (n \div 256^(2 - 2)) % 256
    BY DEF ToBe
  <1>4. ToBe(n, 2)[1] = (n \div 256) % 256 /\ ToBe(n, 2)[2] = n % 256
    BY <1>1, <1>2, <1>3
  <1>5. ToBe(n, 2) = [i \in 1..2 |-> ToBe(n, 2)[i]]
    BY DEF ToBe
  <1>6. (n \div 256) % 256 \in 0..255 /\ n % 256 \in 0..255
    BY <1>0, <1>2
  <1>7. ToBe(n, 2) \in Bytes(2)
    BY <1>4, <1>5, <1>6 DEF Bytes
  <1>8. n = 256 * ((n \div 256) % 256) + (n % 256)
    BY <1>0
  <1> QED
    BY <1>4, <1>7, <1>8

\* Bytes are a sequence of their number.
LEMMA BytesSeq ==
  ASSUME NEW n \in Nat, NEW b \in Bytes(n)
  PROVE  b \in Seq(0..255) /\ Len(b) = n /\ \A i \in 1..n : b[i] \in 0..255
  <1>1. b \in [1..n -> 0..255]
    BY DEF Bytes
  <1>2. b \in Seq(0..255)
    BY <1>1, SeqDef
  <1>3. DOMAIN b = 1..n /\ \A i \in 1..n : b[i] \in 0..255
    BY <1>1
  <1>4. Len(b) \in Nat /\ DOMAIN b = 1..Len(b)
    BY <1>2, LenProperties
  <1>5. 1..n = 1..Len(b)
    BY <1>3, <1>4
  <1>6. n = Len(b)
    <2>1. \A k : k \in 1..n <=> k \in 1..Len(b)
      BY <1>5
    <2> DEFINE m == Len(b)
    <2>2. m \in Nat /\ \A k : k \in 1..n <=> k \in 1..m
      BY <1>4, <2>1
    <2> HIDE DEF m
    <2>3. n <= m
      <3>1. CASE n = 0
        BY <2>2, <3>1
      <3>2. CASE n # 0
        <4>1. n \in 1..n
          BY <3>2
        <4>2. n \in 1..m
          BY <2>2, <4>1
        <4> QED
          BY <2>2, <4>2
      <3> QED
        BY <3>1, <3>2
    <2>4. m <= n
      <3>1. CASE m = 0
        BY <3>1
      <3>2. CASE m # 0
        <4>1. m \in 1..m
          BY <2>2, <3>2
        <4>2. m \in 1..n
          BY <2>2, <4>1
        <4> QED
          BY <4>2
      <3> QED
        BY <3>1, <3>2
    <2> QED
      BY <2>2, <2>3, <2>4 DEF m
  <1> QED
    BY <1>2, <1>3, <1>6

\* Bytes turned around.
LEMMA ReverseBytes ==
  ASSUME NEW n \in Nat, NEW b \in Bytes(n)
  PROVE  /\ Reverse(b) \in Bytes(n)
         /\ \A i \in 1..n : Reverse(b)[i] = b[n - i + 1]
         /\ Reverse(Reverse(b)) = b
  <1>1. Len(b) = n /\ b \in Seq(0..255)
    BY BytesSeq
  <1>2. Reverse(b) = [i \in 1..n |-> b[(n - i) + 1]]
    BY <1>1 DEF Reverse
  <1>3. \A i \in 1..n : (n - i) + 1 \in 1..n /\ (n - ((n - i) + 1)) + 1 = i
    OBVIOUS
  <1>4. Reverse(b) \in Bytes(n)
    BY <1>2, <1>3 DEF Bytes
  <1> DEFINE r == Reverse(b)
  <1>5. Len(r) = n
    BY <1>4, BytesSeq
  <1> HIDE DEF r
  <1>6. Reverse(r) = [i \in 1..n |-> r[(n - i) + 1]]
    BY <1>5 DEF Reverse
  <1>7. \A i \in 1..n : r[(n - i) + 1] = b[i]
    BY <1>2, <1>3 DEF r
  <1>8. Reverse(r) = b
    BY <1>6, <1>7 DEF Bytes
  <1> QED
    BY <1>2, <1>4, <1>8 DEF r

\* A sequence of n bytes is n bytes.
LEMMA SeqBytes ==
  ASSUME NEW b \in Seq(0..255)
  PROVE  b \in Bytes(Len(b))
  BY LenProperties DEF Bytes

\* Two lists of bytes with the same bytes are the same.
LEMMA BytesEqual ==
  ASSUME NEW n \in Nat, NEW b \in Bytes(n), NEW c \in Bytes(n),
         \A i \in 1..n : b[i] = c[i]
  PROVE  b = c
  BY DEF Bytes

\* One list of bytes after another.
LEMMA ConcatBytes ==
  ASSUME NEW m \in Nat, NEW n \in Nat, NEW b \in Bytes(m), NEW c \in Bytes(n)
  PROVE  /\ b \o c \in Bytes(m + n)
         /\ \A i \in 1..m : (b \o c)[i] = b[i]
         /\ \A i \in 1..n : (b \o c)[m + i] = c[i]
  <1> DEFINE X == 0..255
  <1>1. b \in Seq(X) /\ Len(b) = m /\ c \in Seq(X) /\ Len(c) = n
    BY BytesSeq
  <1> HIDE DEF X
  <1>2. b \o c \in Seq(X) /\ Len(b \o c) = m + n
    BY <1>1
  <1>3. b \o c \in Bytes(m + n)
    <2> USE DEF X
    <2> QED
      BY <1>2, SeqBytes
  <1>4. \A i \in 1 .. m + n : (b \o c)[i] = IF i <= m THEN b[i] ELSE c[i - m]
    BY <1>1
  <1>5. ASSUME NEW i \in 1..m PROVE (b \o c)[i] = b[i]
    <2>1. i \in 1 .. m + n /\ i <= m
      OBVIOUS
    <2> QED
      BY <1>4, <2>1
  <1>6. ASSUME NEW i \in 1..n PROVE (b \o c)[m + i] = c[i]
    <2>1. m + i \in 1 .. m + n /\ ~(m + i <= m) /\ (m + i) - m = i
      OBVIOUS
    <2> QED
      BY <1>4, <2>1
  <1> QED
    BY <1>3, <1>5, <1>6

\* The bytes of d are m bytes b and then n bytes c.
Follows(d, m, b, n, c) ==
  /\ d \in Bytes(m + n)
  /\ \A i \in 1..m : d[i] = b[i]
  /\ \A i \in 1..n : d[m + i] = c[i]

\* One list of bytes follows another.
LEMMA ConcatFollows ==
  ASSUME NEW m \in Nat, NEW n \in Nat, NEW b \in Bytes(m), NEW c \in Bytes(n)
  PROVE  Follows(b \o c, m, b, n, c)
  BY ConcatBytes DEF Follows

\* A part of a list of bytes.
LEMMA SliceBytes ==
  ASSUME NEW n \in Nat, NEW b \in Bytes(n), NEW i \in 0..n, NEW k \in 0..n - i
  PROVE  /\ SubSeq(b, i + 1, i + k) \in Bytes(k)
         /\ \A j \in 1..k : SubSeq(b, i + 1, i + k)[j] = b[i + j]
  <1>1. \A j \in i + 1 .. i + k : b[j] \in 0..255
    BY BytesSeq
  <1> DEFINE s == SubSeq(b, i + 1, i + k)
  <1>2. /\ s \in Seq(0..255)
        /\ Len(s) = IF i + 1 <= i + k THEN (i + k) - (i + 1) + 1 ELSE 0
        /\ \A j \in 1 .. (i + k) - (i + 1) + 1 : s[j] = b[(i + 1) + j - 1]
    BY <1>1, SubSeqProperties
  <1> HIDE DEF s
  <1>3. Len(s) = k
    BY <1>2
  <1>4. s \in Bytes(k)
    BY <1>2, <1>3, SeqBytes
  <1>5. \A j \in 1..k : s[j] = b[i + j]
    <2> TAKE j \in 1..k
    <2>1. j \in 1 .. (i + k) - (i + 1) + 1 /\ (i + 1) + j - 1 = i + j
      OBVIOUS
    <2> QED
      BY <1>2, <2>1
  <1> QED
    BY <1>4, <1>5 DEF s

\* A part of the first of two lists, and of the second.
LEMMA SliceConcat ==
  ASSUME NEW m \in Nat, NEW n \in Nat, NEW b \in Bytes(m), NEW c \in Bytes(n)
  PROVE  /\ \A i \in 0..m : \A k \in 0..m - i :
              SubSeq(b \o c, i + 1, i + k) = SubSeq(b, i + 1, i + k)
         /\ SubSeq(b \o c, m + 1, m + n) = c
  <1> DEFINE d == b \o c
  <1>1. /\ d \in Bytes(m + n)
        /\ \A i \in 1..m : d[i] = b[i]
        /\ \A i \in 1..n : d[m + i] = c[i]
    BY ConcatBytes
  <1> HIDE DEF d
  <1>2. ASSUME NEW i \in 0..m, NEW k \in 0..m - i
        PROVE  SubSeq(d, i + 1, i + k) = SubSeq(b, i + 1, i + k)
    <2>1. i \in 0..m + n /\ k \in 0..(m + n) - i /\ k \in Nat /\ m + n \in Nat
      OBVIOUS
    <2>2. /\ SubSeq(d, i + 1, i + k) \in Bytes(k)
          /\ \A j \in 1..k : SubSeq(d, i + 1, i + k)[j] = d[i + j]
      BY <1>1, <2>1, SliceBytes
    <2>3. /\ SubSeq(b, i + 1, i + k) \in Bytes(k)
          /\ \A j \in 1..k : SubSeq(b, i + 1, i + k)[j] = b[i + j]
      BY SliceBytes
    <2>4. \A j \in 1..k : d[i + j] = b[i + j]
      BY <1>1
    <2> QED
      BY <2>1, <2>2, <2>3, <2>4, BytesEqual
  <1>3. SubSeq(d, m + 1, m + n) = c
    <2>1. m \in 0..m + n /\ n \in 0..(m + n) - m /\ m + n \in Nat
      OBVIOUS
    <2>2. /\ SubSeq(d, m + 1, m + n) \in Bytes(n)
          /\ \A j \in 1..n : SubSeq(d, m + 1, m + n)[j] = d[m + j]
      BY <1>1, <2>1, SliceBytes
    <2>3. \A j \in 1..n : SubSeq(d, m + 1, m + n)[j] = c[j]
      BY <1>1, <2>2, Zenon
    <2> QED
      BY <2>2, <2>3, BytesEqual, Zenon
  <1> QED
    BY <1>2, <1>3 DEF d

\* The bytes of a number of four.
LEMMA ToBeFour ==
  ASSUME NEW n \in U32
  PROVE  /\ ToBe(n, 4) \in Bytes(4)
         /\ n = 256 * (256 * (256 * ToBe(n, 4)[1] + ToBe(n, 4)[2]) + ToBe(n, 4)[3]) + ToBe(n, 4)[4]
  <1>1. n \in Nat /\ n \div 16777216 < 256
    BY DEF U32
  <1>2. 256^(4 - 1) = 16777216 /\ 256^(4 - 2) = 65536 /\ 256^(4 - 3) = 256 /\ 256^(4 - 4) = 1
    OBVIOUS
  <1>3. n \div 1 = n /\ n \div 256 \in Nat /\ n \div 65536 \in Nat /\ n \div 16777216 \in Nat
    BY <1>1
  <1>4. /\ ToBe(n, 4)[1] = (n \div 256^(4 - 1)) % 256
        /\ ToBe(n, 4)[2] = (n \div 256^(4 - 2)) % 256
        /\ ToBe(n, 4)[3] = (n \div 256^(4 - 3)) % 256
        /\ ToBe(n, 4)[4] = (n \div 256^(4 - 4)) % 256
    BY DEF ToBe
  <1>5. /\ ToBe(n, 4)[1] = (n \div 16777216) % 256
        /\ ToBe(n, 4)[2] = (n \div 65536) % 256
        /\ ToBe(n, 4)[3] = (n \div 256) % 256
        /\ ToBe(n, 4)[4] = n % 256
    BY <1>2, <1>3, <1>4
  <1>6. /\ (n \div 16777216) % 256 \in 0..255 /\ (n \div 65536) % 256 \in 0..255
        /\ (n \div 256) % 256 \in 0..255 /\ n % 256 \in 0..255
    BY <1>1, <1>3
  <1>7. ToBe(n, 4) = [i \in 1..4 |-> ToBe(n, 4)[i]]
    BY DEF ToBe
  <1>8. ToBe(n, 4) \in Bytes(4)
    BY <1>5, <1>6, <1>7 DEF Bytes
  <1>9. n = 256 * (256 * (256 * ((n \div 16777216) % 256) + ((n \div 65536) % 256))
                   + ((n \div 256) % 256)) + (n % 256)
    BY <1>1
  <1> QED
    BY <1>5, <1>8, <1>9

\* f reads the bytes b as a number, one after another.
Reads(f, b) ==
  /\ f[0] = 0
  /\ \A n \in 1..Len(b) : f[n] = 256 * f[n - 1] + b[n]

\* The recursive function in FromBe.
LEMMA FromBeReads ==
  ASSUME NEW b \in Seq(0..255)
  PROVE  \E f : Reads(f, b) /\ FromBe(b) = f[Len(b)]
  <1> DEFINE N == Len(b)
             D == [n \in Nat |-> [y \in Nat |-> IF n \in 1..N THEN 256 * y + b[n] ELSE y]]
             Is(f) == f = [n \in 0..N |-> IF n = 0 THEN 0 ELSE 256 * f[n - 1] + b[n]]
             f == CHOOSE k : Is(k)
  <1>1. FromBe(b) = f[N]
    BY DEF FromBe
  <1>2. N \in Nat /\ \A n \in 1..N : b[n] \in Nat
    <2>1. N \in Nat
      BY LenProperties
    <2>2. ASSUME NEW n \in 1..Len(b) PROVE b[n] \in Nat
      <3>1. b[n] \in 0..255
        BY ElementOfSeq
      <3> QED
        BY <3>1, ByteIsNat, Zenon
    <2> QED
      BY <2>1, <2>2
  <1> HIDE DEF N
  <1>3. D \in [Nat -> [Nat -> Nat]]
    <2>1. ASSUME NEW n \in Nat, NEW y \in Nat
          PROVE  (IF n \in 1..N THEN 256 * y + b[n] ELSE y) \in Nat
      <3>1. CASE n \in 1..N
        <4>1. b[n] \in Nat
          BY <1>2, <3>1
        <4> QED
          BY <3>1, <4>1
      <3> QED
        BY <3>1
    <2> QED
      BY <2>1
  <1>4. PICK g : Iterates(g, N, Nat, 0, D)
    <2> HIDE DEF D
    <2> QED
      BY <1>2, <1>3, RecursionExists
  <1>5. /\ g \in [0..N -> Nat] /\ g[0] = 0
        /\ \A n \in 1..N : g[n] = 256 * g[n - 1] + b[n]
    <2>1. g \in [0..N -> Nat] /\ g[0] = 0 /\ \A n \in 1..N : g[n] = D[n][g[n - 1]]
      BY <1>4 DEF Iterates
    <2>2. ASSUME NEW n \in 1..N PROVE n \in Nat /\ g[n - 1] \in Nat
      <3>1. n - 1 \in 0..N /\ n \in Nat
        BY <1>2
      <3>2. \A k \in 0..N : g[k] \in Nat
        BY <2>1
      <3> QED
        BY <3>1, <3>2, Zenon
    <2> QED
      BY <2>1, <2>2
  <1> HIDE DEF D
  <1>6. Is(g)
    <2> DEFINE gg == [n \in 0..N |-> IF n = 0 THEN 0 ELSE 256 * g[n - 1] + b[n]]
    <2>1. \A n \in 0..N : g[n] = gg[n]
      BY <1>5
    <2>2. g = gg
      BY <1>5, <2>1
    <2> QED
      BY <2>2
  <1>7. Is(f)
    <2> HIDE DEF Is
    <2> QED
      BY <1>6
  <1> HIDE DEF f
  <1>8. f[0] = 0 /\ \A n \in 1..N : f[n] = 256 * f[n - 1] + b[n]
    <2> DEFINE ff == [n \in 0..N |-> IF n = 0 THEN 0 ELSE 256 * f[n - 1] + b[n]]
    <2>1. f = ff
      BY <1>7
    <2>2. \A n \in 0..N : ff[n] = IF n = 0 THEN 0 ELSE 256 * f[n - 1] + b[n]
      OBVIOUS
    <2> HIDE DEF ff
    <2>3. 0 \in 0..N /\ \A n \in 1..N : n \in 0..N /\ n # 0
      BY <1>2
    <2> QED
      BY <2>1, <2>2, <2>3
  <1> QED
    BY <1>1, <1>8 DEF N, Reads

\* The value of two bytes, and of four.
LEMMA FromBeBytes ==
  /\ \A b \in Bytes(2) : FromBe(b) = 256 * b[1] + b[2]
  /\ \A b \in Bytes(4) : FromBe(b) = 256 * (256 * (256 * b[1] + b[2]) + b[3]) + b[4]
  <1>1. ASSUME NEW b \in Bytes(2)
        PROVE  FromBe(b) = 256 * b[1] + b[2]
    <2>1. b \in Seq(0..255) /\ Len(b) = 2 /\ b[1] \in Nat
      <3>1. 2 \in Nat /\ 1 \in 1..2
        OBVIOUS
      <3>2. b \in Seq(0..255) /\ Len(b) = 2 /\ \A i \in 1..2 : b[i] \in 0..255
        BY <3>1, BytesSeq
      <3> QED
        BY <3>1, <3>2, ByteIsNat, Zenon
    <2>2. PICK f : Reads(f, b) /\ FromBe(b) = f[2]
      BY <2>1, FromBeReads
    <2>3. f[0] = 0 /\ f[1] = 256 * f[0] + b[1] /\ f[2] = 256 * f[1] + b[2]
      BY <2>1, <2>2 DEF Reads
    <2> QED
      BY <2>1, <2>2, <2>3
  <1>2. ASSUME NEW b \in Bytes(4)
        PROVE  FromBe(b) = 256 * (256 * (256 * b[1] + b[2]) + b[3]) + b[4]
    <2>1. b \in Seq(0..255) /\ Len(b) = 4 /\ b[1] \in Nat
      <3>1. 4 \in Nat /\ 1 \in 1..4
        OBVIOUS
      <3>2. b \in Seq(0..255) /\ Len(b) = 4 /\ \A i \in 1..4 : b[i] \in 0..255
        BY <3>1, BytesSeq
      <3> QED
        BY <3>1, <3>2, ByteIsNat, Zenon
    <2>2. PICK f : Reads(f, b) /\ FromBe(b) = f[4]
      BY <2>1, FromBeReads
    <2>3. /\ f[0] = 0 /\ f[1] = 256 * f[0] + b[1] /\ f[2] = 256 * f[1] + b[2]
          /\ f[3] = 256 * f[2] + b[3] /\ f[4] = 256 * f[3] + b[4]
      BY <2>1, <2>2 DEF Reads
    <2> QED
      BY <2>1, <2>2, <2>3
  <1> QED
    BY <1>1, <1>2

\* A number stored and read again, in the order of the network and of the host.
LEMMA StoredTwo ==
  ASSUME NEW n \in U16
  PROVE  /\ ToBe(n, 2) \in Bytes(2) /\ FromBe(ToBe(n, 2)) = n
         /\ ToNe(n, 2) \in Bytes(2) /\ FromNe(ToNe(n, 2)) = n
         /\ n = 256 * ToBe(n, 2)[1] + ToBe(n, 2)[2]
  <1>1. /\ ToBe(n, 2) \in Bytes(2)
        /\ n = 256 * ToBe(n, 2)[1] + ToBe(n, 2)[2]
    BY ToBeTwo
  <1>2. FromBe(ToBe(n, 2)) = n
    BY <1>1, FromBeBytes
  <1>3. Reverse(ToBe(n, 2)) \in Bytes(2) /\ Reverse(Reverse(ToBe(n, 2))) = ToBe(n, 2)
    BY <1>1, ReverseBytes
  <1>4. ToNe(n, 2) \in Bytes(2) /\ FromNe(ToNe(n, 2)) = FromBe(ToBe(n, 2))
    BY <1>1, <1>3 DEF ToNe, FromNe
  <1> QED
    BY <1>1, <1>2, <1>4

\* The same for four bytes.
LEMMA StoredFour ==
  ASSUME NEW n \in U32
  PROVE  ToNe(n, 4) \in Bytes(4) /\ FromNe(ToNe(n, 4)) = n
  <1>1. /\ ToBe(n, 4) \in Bytes(4)
        /\ n = 256 * (256 * (256 * ToBe(n, 4)[1] + ToBe(n, 4)[2]) + ToBe(n, 4)[3]) + ToBe(n, 4)[4]
    BY ToBeFour
  <1>2. FromBe(ToBe(n, 4)) = n
    BY <1>1, FromBeBytes
  <1>3. Reverse(ToBe(n, 4)) \in Bytes(4) /\ Reverse(Reverse(ToBe(n, 4))) = ToBe(n, 4)
    BY <1>1, ReverseBytes
  <1> QED
    BY <1>1, <1>2, <1>3 DEF ToNe, FromNe

-----------------------------------------------------------------------------
(* Parts of bytes.                                                         *)

\* k bytes from i on.
Slice(b, i, k) == SubSeq(b, i + 1, i + k)

\* A slice of n bytes is that many of them.
LEMMA SliceIs ==
  ASSUME NEW n \in Nat, NEW b \in Bytes(n), NEW i \in 0..n, NEW k \in 0..n - i
  PROVE  Slice(b, i, k) \in Bytes(k) /\ \A j \in 1..k : Slice(b, i, k)[j] = b[i + j]
  BY SliceBytes DEF Slice

\* The slices of d are those of m bytes b and then of n bytes c.
Joins(d, m, b, n, c) ==
  /\ d \in Bytes(m + n)
  /\ \A i \in 0..m : \A k \in 0..m - i : Slice(d, i, k) = Slice(b, i, k)
  /\ \A i \in 0..n : \A k \in 0..n - i : Slice(d, m + i, k) = Slice(c, i, k)
  /\ Slice(d, m, n) = c
  /\ Slice(b, 0, m) = b

\* Slices of the first and of the second of two lists of bytes.
LEMMA SliceOfConcat ==
  ASSUME NEW m \in Nat, NEW n \in Nat, NEW b \in Bytes(m), NEW c \in Bytes(n)
  PROVE  Joins(b \o c, m, b, n, c)
  <1> DEFINE d == b \o c
  <1>1. /\ d \in Bytes(m + n)
        /\ \A i \in 1..m : d[i] = b[i]
        /\ \A i \in 1..n : d[m + i] = c[i]
    BY ConcatBytes
  <1>2. /\ \A i \in 0..m : \A k \in 0..m - i : Slice(d, i, k) = Slice(b, i, k)
        /\ Slice(d, m, n) = c
    BY SliceConcat DEF Slice
  <1> HIDE DEF d
  <1>3. ASSUME NEW i \in 0..n, NEW k \in 0..n - i
        PROVE  Slice(d, m + i, k) = Slice(c, i, k)
    <2>1. m + i \in 0..m + n /\ k \in 0..(m + n) - (m + i) /\ k \in Nat /\ m + n \in Nat
      OBVIOUS
    <2>2. Slice(d, m + i, k) \in Bytes(k) /\ \A j \in 1..k : Slice(d, m + i, k)[j] = d[(m + i) + j]
      BY <1>1, <2>1, SliceIs
    <2>3. Slice(c, i, k) \in Bytes(k) /\ \A j \in 1..k : Slice(c, i, k)[j] = c[i + j]
      BY SliceIs
    <2>4. ASSUME NEW j \in 1..k PROVE d[(m + i) + j] = c[i + j]
      <3>1. i + j \in 1..n /\ (m + i) + j = m + (i + j)
        OBVIOUS
      <3> QED
        BY <1>1, <3>1
    <2>5. \A j \in 1..k : Slice(d, m + i, k)[j] = Slice(c, i, k)[j]
      BY <2>2, <2>3, <2>4, Zenon
    <2> QED
      BY <2>1, <2>2, <2>3, <2>5, BytesEqual, Zenon
  <1>4. Slice(b, 0, m) = b
    <2>1. 0 \in 0..m /\ m \in 0..m - 0
      OBVIOUS
    <2>2. Slice(b, 0, m) \in Bytes(m) /\ \A j \in 1..m : Slice(b, 0, m)[j] = b[0 + j]
      BY <2>1, SliceIs
    <2>3. \A j \in 1..m : 0 + j = j
      OBVIOUS
    <2>4. \A j \in 1..m : Slice(b, 0, m)[j] = b[j]
      BY <2>2, <2>3
    <2> QED
      BY <2>2, <2>4, BytesEqual, Zenon
  <1> QED
    BY <1>1, <1>2, <1>3, <1>4, Zenon DEF d, Joins

\* Family and port in front of the rest of a sockaddr.
LEMMA Header ==
  ASSUME NEW A \in Bytes(2), NEW B \in Bytes(2), NEW n \in Nat, NEW T \in Bytes(n)
  PROVE  LET R == (A \o B) \o T IN
         /\ R \in Bytes(4 + n)
         /\ Slice(R, 0, 2) = A /\ Slice(R, 2, 2) = B
         /\ \A i \in 0..n : \A k \in 0..n - i : Slice(R, 4 + i, k) = Slice(T, i, k)
         /\ R[3] = B[1] /\ R[4] = B[2]
  <1> DEFINE H == A \o B
             R == H \o T
  <1>1. 2 \in Nat /\ 4 \in Nat /\ 2 + 2 = 4
    OBVIOUS
  <1>2. /\ H \in Bytes(2 + 2)
        /\ \A i \in 0..2 : \A k \in 0..2 - i : Slice(H, i, k) = Slice(A, i, k)
        /\ Slice(H, 2, 2) = B
        /\ Slice(A, 0, 2) = A
    <2>1. Joins(H, 2, A, 2, B)
      BY <1>1, SliceOfConcat
    <2> QED
      BY <2>1, Zenon DEF Joins
  <1>3. \A i \in 1..2 : H[2 + i] = B[i]
    <2>1. Follows(H, 2, A, 2, B)
      BY <1>1, ConcatFollows
    <2> QED
      BY <2>1, Zenon DEF Follows
  <1> HIDE DEF H
  <1>4. H \in Bytes(4) /\ Slice(H, 0, 2) = A /\ Slice(H, 2, 2) = B
    <2>1. 0 \in 0..2 /\ 2 \in 0..2 - 0
      OBVIOUS
    <2> QED
      BY <1>1, <1>2, <2>1
  <1>5. H[3] = B[1] /\ H[4] = B[2]
    <2>1. 1 \in 1..2 /\ 2 \in 1..2 /\ 2 + 1 = 3
      OBVIOUS
    <2>2. H[2 + 1] = B[1] /\ H[2 + 2] = B[2]
      BY <1>3, <2>1, Zenon
    <2> QED
      BY <2>2
  <1>6. /\ R \in Bytes(4 + n)
        /\ \A i \in 0..4 : \A k \in 0..4 - i : Slice(R, i, k) = Slice(H, i, k)
        /\ \A i \in 0..n : \A k \in 0..n - i : Slice(R, 4 + i, k) = Slice(T, i, k)
    <2>1. Joins(R, 4, H, n, T)
      BY <1>1, <1>4, SliceOfConcat
    <2> QED
      BY <2>1, Zenon DEF Joins
  <1>7. \A i \in 1..4 : R[i] = H[i]
    <2>1. Follows(R, 4, H, n, T)
      BY <1>1, <1>4, ConcatFollows
    <2> QED
      BY <2>1, Zenon DEF Follows
  <1> HIDE DEF R
  <1>8. Slice(R, 0, 2) = A /\ Slice(R, 2, 2) = B
    <2>1. 0 \in 0..4 /\ 2 \in 0..4 /\ 2 \in 0..4 - 0 /\ 2 \in 0..4 - 2
      OBVIOUS
    <2> QED
      BY <1>4, <1>6, <2>1, Zenon
  <1>9. R[3] = B[1] /\ R[4] = B[2]
    <2>1. 3 \in 1..4 /\ 4 \in 1..4
      OBVIOUS
    <2> QED
      BY <1>5, <1>7, <2>1, Zenon
  <1> QED
    BY <1>6, <1>8, <1>9, Zenon DEF R, H

\* Another port in the header.
LEMMA NewPort ==
  ASSUME NEW A \in Bytes(2), NEW B \in Bytes(2), NEW C \in Bytes(2), NEW n \in Nat,
         NEW T \in Bytes(n)
  PROVE  [((A \o B) \o T) EXCEPT ![3] = C[1], ![4] = C[2]] = (A \o C) \o T
  <1> DEFINE H == A \o B
             G == A \o C
             R == H \o T
             Q == G \o T
             E == [R EXCEPT ![3] = C[1], ![4] = C[2]]
  <1>1. 2 \in Nat /\ 4 \in Nat /\ 2 + 2 = 4
    OBVIOUS
  <1>2. /\ H \in Bytes(2 + 2) /\ G \in Bytes(2 + 2)
        /\ \A i \in 1..2 : H[i] = A[i] /\ G[i] = A[i] /\ G[2 + i] = C[i]
    <2>1. Follows(H, 2, A, 2, B) /\ Follows(G, 2, A, 2, C)
      BY <1>1, ConcatFollows
    <2> HIDE DEF H, G
    <2> QED
      BY <2>1 DEF Follows
  <1> HIDE DEF H, G
  <1>3. H \in Bytes(4) /\ G \in Bytes(4)
    BY <1>1, <1>2, Zenon
  <1>4. G[1] = H[1] /\ G[2] = H[2] /\ G[3] = C[1] /\ G[4] = C[2]
    <2>1. 1 \in 1..2 /\ 2 \in 1..2
      OBVIOUS
    <2>2. G[1] = H[1] /\ G[2] = H[2] /\ G[2 + 1] = C[1] /\ G[2 + 2] = C[2]
      BY <1>2, <2>1
    <2> QED
      BY <2>2
  <1>5. /\ R \in Bytes(4 + n) /\ Q \in Bytes(4 + n)
        /\ \A i \in 1..4 : R[i] = H[i] /\ Q[i] = G[i]
        /\ \A i \in 1..n : R[4 + i] = T[i] /\ Q[4 + i] = T[i]
    <2>1. Follows(R, 4, H, n, T) /\ Follows(Q, 4, G, n, T)
      BY <1>1, <1>3, ConcatFollows
    <2> HIDE DEF R, Q
    <2> QED
      BY <2>1, Zenon DEF Follows
  <1> HIDE DEF R, Q
  <1>6. ASSUME NEW i \in 1..4 + n
        PROVE  Q[i] = IF i = 4 THEN C[2] ELSE IF i = 3 THEN C[1] ELSE R[i]
    <2>1. CASE i \in 1..4
      <3>1. Q[i] = G[i] /\ R[i] = H[i]
        BY <1>5, <2>1
      <3>2. i = 1 \/ i = 2 \/ i = 3 \/ i = 4
        BY <2>1
      <3> QED
        BY <1>4, <3>1, <3>2
    <2>2. CASE i \notin 1..4
      <3>1. i - 4 \in 1..n /\ 4 + (i - 4) = i /\ i # 3 /\ i # 4
        BY <2>2
      <3>2. R[4 + (i - 4)] = T[i - 4] /\ Q[4 + (i - 4)] = T[i - 4]
        BY <1>5, <3>1, Zenon
      <3> QED
        BY <3>1, <3>2
    <2> QED
      BY <2>1, <2>2
  <1>7. DOMAIN Q = 1..4 + n /\ DOMAIN R = 1..4 + n /\ Q = [i \in 1..4 + n |-> Q[i]]
    BY <1>5 DEF Bytes
  <1>8. E = [i \in 1..4 + n |-> IF i = 4 THEN C[2] ELSE IF i = 3 THEN C[1] ELSE R[i]]
    BY <1>7
  <1> HIDE DEF E
  <1>9. E = Q
    BY <1>6, <1>7, <1>8
  <1> QED
    BY <1>9, Zenon DEF E, R, Q, H, G

-----------------------------------------------------------------------------
(* One address.                                                            *)

\* An address is an IPv4 or an IPv6 one.
LEMMA AddrIs ==
  ASSUME NEW a \in SocketAddr
  PROVE  /\ a.v6 \in BOOLEAN /\ a.port \in U16
         /\ ~a.v6 => a = V4(a.ip, a.port) /\ a.ip \in Bytes(4)
         /\ a.v6 => /\ a = V6(a.ip, a.port, a.flowinfo, a.scope_id)
                    /\ a.ip \in Bytes(16) /\ a.flowinfo \in U32 /\ a.scope_id \in U32
  <1>1. CASE a \in [v6 : {FALSE}, ip : Bytes(4), port : U16, flowinfo : {0}, scope_id : {0}]
    BY <1>1 DEF V4
  <1>2. CASE a \in [v6 : {TRUE}, ip : Bytes(16), port : U16, flowinfo : U32, scope_id : U32]
    BY <1>2 DEF V6
  <1> QED
    BY <1>1, <1>2 DEF SocketAddr

\* The family of an address, and what follows family and port in its bytes.
FamilyOf(a) == IF a.v6 THEN AF_INET6 ELSE AF_INET

Rest(a) == IF a.v6 THEN (ToNe(a.flowinfo, 4) \o a.ip) \o ToNe(a.scope_id, 4)
           ELSE a.ip \o [i \in 1..8 |-> 0]

RestSize(a) == IF a.v6 THEN 24 ELSE 12

\* The bytes are a sequence, and so they can be regrouped.
LEMMA Regroup ==
  \A x \in Seq(0..255), y \in Seq(0..255), z \in Seq(0..255) : (x \o y) \o z = x \o (y \o z)
  OBVIOUS

\* The families are two bytes.
LEMMA FamilyStored ==
  ASSUME NEW f \in {AF_INET, AF_INET6}
  PROVE  ToNe(f, 2) \in Bytes(2) /\ FromNe(ToNe(f, 2)) = f
  <1>1. f \in U16
    BY DEF U16, AF_INET, AF_INET6
  <1> QED
    BY <1>1, StoredTwo

\* The rest of the bytes of an IPv4 address.
LEMMA RestOfV4 ==
  ASSUME NEW a \in SocketAddr, ~a.v6
  PROVE  Rest(a) \in Bytes(12) /\ Slice(Rest(a), 0, 4) = a.ip
  <1> DEFINE Z == [i \in 1..8 |-> 0]
             b == a.ip
  <1>1. b \in Bytes(4)
    BY AddrIs
  <1>2. Z \in Bytes(8)
    BY DEF Bytes
  <1>3. Rest(a) = b \o Z
    BY DEF Rest
  <1> HIDE DEF Z, b
  <1>4. 4 \in Nat /\ 8 \in Nat /\ 4 + 8 = 12 /\ 0 \in 0..4 /\ 4 \in 0..4 - 0
    OBVIOUS
  <1>5. Joins(b \o Z, 4, b, 8, Z)
    BY <1>1, <1>2, <1>4, SliceOfConcat
  <1>6. b \o Z \in Bytes(4 + 8) /\ Slice(b \o Z, 0, 4) = b
    BY <1>4, <1>5, Zenon DEF Joins
  <1> QED
    BY <1>3, <1>4, <1>6 DEF b

\* The rest of the bytes of an IPv6 address.
LEMMA RestOfV6 ==
  ASSUME NEW a \in SocketAddr, a.v6
  PROVE  /\ Rest(a) \in Bytes(24)
         /\ Slice(Rest(a), 0, 4) = ToNe(a.flowinfo, 4)
         /\ Slice(Rest(a), 4, 16) = a.ip
         /\ Slice(Rest(a), 20, 4) = ToNe(a.scope_id, 4)
  <1> DEFINE F == ToNe(a.flowinfo, 4)
             b == a.ip
             S == ToNe(a.scope_id, 4)
             G == F \o b
  <1>1. b \in Bytes(16) /\ F \in Bytes(4) /\ S \in Bytes(4)
    BY AddrIs, StoredFour
  <1>2. Rest(a) = G \o S
    BY DEF Rest
  <1> HIDE DEF F, b, S
  <1>3. /\ 4 \in Nat /\ 16 \in Nat /\ 20 \in Nat /\ 4 + 16 = 20 /\ 20 + 4 = 24
        /\ 0 \in 0..4 /\ 4 \in 0..4 - 0
        /\ 0 \in 0..20 /\ 4 \in 0..20 - 0 /\ 4 \in 0..20 /\ 16 \in 0..20 - 4
    OBVIOUS
  <1>4. Joins(G, 4, F, 16, b)
    BY <1>1, <1>3, SliceOfConcat
  <1>5. G \in Bytes(4 + 16) /\ Slice(G, 0, 4) = F /\ Slice(G, 4, 16) = b
    BY <1>3, <1>4, Zenon DEF Joins
  <1>6. G \in Bytes(20)
    BY <1>3, <1>5
  <1> HIDE DEF G
  <1>7. Joins(G \o S, 20, G, 4, S)
    BY <1>1, <1>3, <1>6, SliceOfConcat
  <1>8. /\ G \o S \in Bytes(20 + 4) /\ Slice(G \o S, 0, 4) = F /\ Slice(G \o S, 4, 16) = b
        /\ Slice(G \o S, 20, 4) = S
    BY <1>3, <1>5, <1>7, Zenon DEF Joins
  <1> QED
    BY <1>2, <1>3, <1>8 DEF F, b, S

\* to_raw: family, port and the rest.
LEMMA RawIs ==
  ASSUME NEW a \in SocketAddr
  PROVE  /\ to_raw(a) = (ToNe(FamilyOf(a), 2) \o ToBe(a.port, 2)) \o Rest(a)
         /\ ToNe(FamilyOf(a), 2) \in Bytes(2) /\ FromNe(ToNe(FamilyOf(a), 2)) = FamilyOf(a)
         /\ ToBe(a.port, 2) \in Bytes(2)
         /\ Rest(a) \in Bytes(RestSize(a)) /\ RestSize(a) \in Nat
  <1> DEFINE A == ToNe(FamilyOf(a), 2)
             B == ToBe(a.port, 2)
             H == A \o B
  <1>1. a.v6 \in BOOLEAN /\ a.port \in U16
    BY AddrIs
  <1>2. A \in Bytes(2) /\ FromNe(A) = FamilyOf(a)
    BY FamilyStored DEF FamilyOf
  <1>3. B \in Bytes(2)
    BY <1>1, StoredTwo
  <1>4. 2 \in Nat /\ 4 \in Nat /\ 8 \in Nat /\ 16 \in Nat
    OBVIOUS
  <1>5. H \in Seq(0..255)
    BY <1>2, <1>3, <1>4, BytesSeq, ConcatType
  <1>6. CASE ~a.v6
    <2> DEFINE Z == [i \in 1..8 |-> 0]
               b == a.ip
    <2>1. to_raw(a) = (H \o b) \o Z
      BY <1>6 DEF to_raw, RawPort, FamilyOf
    <2>2. Rest(a) = b \o Z /\ RestSize(a) = 12
      BY <1>6 DEF Rest, RestSize
    <2>3. Rest(a) \in Bytes(12)
      BY <1>6, RestOfV4
    <2>4. b \in Seq(0..255) /\ Z \in Seq(0..255)
      <3>1. b \in Bytes(4)
        BY <1>6, AddrIs
      <3>2. Z \in Bytes(8)
        BY DEF Bytes
      <3> HIDE DEF b, Z
      <3> QED
        BY <1>4, <3>1, <3>2, BytesSeq
    <2> HIDE DEF Z, b, H
    <2>5. (H \o b) \o Z = H \o (b \o Z)
      <3>1. \A y \in Seq(0..255), z \in Seq(0..255) : (H \o y) \o z = H \o (y \o z)
        BY <1>5, Regroup, Zenon
      <3>2. \A z \in Seq(0..255) : (H \o b) \o z = H \o (b \o z)
        BY <2>4, <3>1, Zenon
      <3> QED
        BY <2>4, <3>2, Zenon
    <2>6. to_raw(a) = H \o Rest(a) /\ RestSize(a) \in Nat /\ Rest(a) \in Bytes(RestSize(a))
      BY <2>1, <2>2, <2>3, <2>5
    <2> QED
      BY <1>2, <1>3, <2>6, Zenon DEF H
  <1>7. CASE a.v6
    <2> DEFINE F == ToNe(a.flowinfo, 4)
               b == a.ip
               S == ToNe(a.scope_id, 4)
               G == F \o b
    <2>1. to_raw(a) = ((H \o F) \o b) \o S
      BY <1>7 DEF to_raw, RawPort, FamilyOf
    <2>2. Rest(a) = G \o S /\ RestSize(a) = 24
      BY <1>7 DEF Rest, RestSize
    <2>3. Rest(a) \in Bytes(24)
      BY <1>7, RestOfV6
    <2>4. F \in Seq(0..255) /\ b \in Seq(0..255) /\ S \in Seq(0..255)
      <3>1. b \in Bytes(16) /\ F \in Bytes(4) /\ S \in Bytes(4)
        BY <1>7, AddrIs, StoredFour
      <3> HIDE DEF F, b, S
      <3> QED
        BY <1>4, <3>1, BytesSeq
    <2> HIDE DEF F, b, S, H
    <2>5. (H \o F) \o b = H \o G
      <3>1. \A y \in Seq(0..255), z \in Seq(0..255) : (H \o y) \o z = H \o (y \o z)
        BY <1>5, Regroup, Zenon
      <3>2. \A z \in Seq(0..255) : (H \o F) \o z = H \o (F \o z)
        BY <2>4, <3>1, Zenon
      <3> QED
        BY <2>4, <3>2, Zenon
    <2>6. G \in Seq(0..255)
      BY <2>4, ConcatType
    <2> HIDE DEF G
    <2>7. (H \o G) \o S = H \o (G \o S)
      <3>1. \A y \in Seq(0..255), z \in Seq(0..255) : (H \o y) \o z = H \o (y \o z)
        BY <1>5, Regroup, Zenon
      <3>2. \A z \in Seq(0..255) : (H \o G) \o z = H \o (G \o z)
        BY <2>6, <3>1, Zenon
      <3> QED
        BY <2>4, <3>2, Zenon
    <2>8. to_raw(a) = H \o Rest(a)
      BY <2>1, <2>2, <2>5, <2>7, Zenon
    <2>9. RestSize(a) \in Nat /\ Rest(a) \in Bytes(RestSize(a))
      BY <2>2, <2>3
    <2> QED
      BY <1>2, <1>3, <2>8, <2>9, Zenon DEF H
  <1> QED
    BY <1>1, <1>6, <1>7

\* The parts of the bytes of an address.
LEMMA RawParts ==
  ASSUME NEW a \in SocketAddr
  PROVE  /\ to_raw(a) \in Bytes(SizeOf(FamilyOf(a)))
         /\ Slice(to_raw(a), 0, 2) = ToNe(FamilyOf(a), 2)
         /\ Slice(to_raw(a), 2, 2) = ToBe(a.port, 2)
         /\ \A i \in 0..RestSize(a) : \A k \in 0..RestSize(a) - i :
              Slice(to_raw(a), 4 + i, k) = Slice(Rest(a), i, k)
         /\ to_raw(a)[3] = ToBe(a.port, 2)[1] /\ to_raw(a)[4] = ToBe(a.port, 2)[2]
  <1> DEFINE A == ToNe(FamilyOf(a), 2)
             B == ToBe(a.port, 2)
             n == RestSize(a)
             T == Rest(a)
             R == (A \o B) \o T
  <1>1. to_raw(a) = R /\ A \in Bytes(2) /\ B \in Bytes(2) /\ T \in Bytes(n) /\ n \in Nat
    BY RawIs
  <1>2. 4 + n = SizeOf(FamilyOf(a))
    <2>1. a.v6 \in BOOLEAN
      BY AddrIs
    <2> QED
      BY <2>1 DEF RestSize, SizeOf, FamilyOf, AF_INET, AF_INET6
  <1> HIDE DEF A, B, n, T
  <1>3. /\ R \in Bytes(4 + n)
        /\ Slice(R, 0, 2) = A /\ Slice(R, 2, 2) = B
        /\ \A i \in 0..n : \A k \in 0..n - i : Slice(R, 4 + i, k) = Slice(T, i, k)
        /\ R[3] = B[1] /\ R[4] = B[2]
    BY <1>1, Header
  <1> HIDE DEF R
  <1> QED
    BY <1>1, <1>2, <1>3, Zenon DEF A, B, n, T

\* The kernel finds family and port.
LEMMA RawFamilyPort ==
  ASSUME NEW a \in SocketAddr
  PROVE  Family(to_raw(a)) = FamilyOf(a) /\ PortOf(to_raw(a)) = a.port
  <1>1. Family(to_raw(a)) = FromNe(Slice(to_raw(a), 0, 2))
    BY DEF Family, Slice
  <1>2. Slice(to_raw(a), 0, 2) = ToNe(FamilyOf(a), 2)
    BY RawParts
  <1>3. FromNe(ToNe(FamilyOf(a), 2)) = FamilyOf(a)
    BY RawIs
  <1>4. to_raw(a)[3] = ToBe(a.port, 2)[1] /\ to_raw(a)[4] = ToBe(a.port, 2)[2]
    BY RawParts
  <1>5. a.port = 256 * ToBe(a.port, 2)[1] + ToBe(a.port, 2)[2]
    BY AddrIs, StoredTwo
  <1> QED
    BY <1>1, <1>2, <1>3, <1>4, <1>5 DEF PortOf

\* The kernel finds the IP address, and from_raw is the inverse of to_raw.
LEMMA RawRead ==
  ASSUME NEW a \in SocketAddr
  PROVE  IpOf(to_raw(a)) = a.ip /\ from_raw(to_raw(a)) = {a}
  <1> DEFINE R == to_raw(a)
  <1>1. Family(R) = FamilyOf(a) /\ a.v6 \in BOOLEAN /\ AF_INET # AF_INET6
    BY RawFamilyPort, AddrIs DEF AF_INET, AF_INET6
  <1>2. FromBe(SubSeq(R, 3, 4)) = a.port
    <2>1. SubSeq(R, 3, 4) = Slice(R, 2, 2)
      BY DEF Slice
    <2>2. Slice(R, 2, 2) = ToBe(a.port, 2)
      BY RawParts
    <2>3. FromBe(ToBe(a.port, 2)) = a.port
      BY AddrIs, StoredTwo
    <2> QED
      BY <2>1, <2>2, <2>3
  <1>3. ASSUME NEW i \in 0..RestSize(a), NEW k \in 0..RestSize(a) - i
        PROVE  Slice(R, 4 + i, k) = Slice(Rest(a), i, k)
    BY RawParts
  <1> HIDE DEF R
  <1>4. CASE ~a.v6
    <2>1. a = V4(a.ip, a.port)
      BY <1>4, AddrIs
    <2>2. SubSeq(R, 5, 8) = a.ip
      <3>1. SubSeq(R, 5, 8) = Slice(R, 4 + 0, 4)
        BY DEF Slice
      <3>2. 0 \in 0..RestSize(a) /\ 4 \in 0..RestSize(a) - 0
        BY <1>4 DEF RestSize
      <3>3. Slice(R, 4 + 0, 4) = Slice(Rest(a), 0, 4)
        BY <1>3, <3>2, Zenon
      <3> QED
        BY <1>4, <3>1, <3>3, RestOfV4
    <2>3. Family(R) = AF_INET
      BY <1>1, <1>4 DEF FamilyOf
    <2>4. IpOf(R) = a.ip
      BY <2>2, <2>3 DEF IpOf
    <2>5. from_raw(R) = {V4(SubSeq(R, 5, 8), FromBe(SubSeq(R, 3, 4)))}
      BY <1>1, <2>3 DEF from_raw
    <2> QED
      BY <1>2, <2>1, <2>2, <2>4, <2>5 DEF R
  <1>5. CASE a.v6
    <2>1. a = V6(a.ip, a.port, a.flowinfo, a.scope_id)
      BY <1>5, AddrIs
    <2>2. SubSeq(R, 9, 24) = a.ip
      <3>1. SubSeq(R, 9, 24) = Slice(R, 4 + 4, 16)
        BY DEF Slice
      <3>2. 4 \in 0..RestSize(a) /\ 16 \in 0..RestSize(a) - 4
        BY <1>5 DEF RestSize
      <3>3. Slice(R, 4 + 4, 16) = Slice(Rest(a), 4, 16)
        BY <1>3, <3>2, Zenon
      <3> QED
        BY <1>5, <3>1, <3>3, RestOfV6
    <2>3. FromNe(SubSeq(R, 5, 8)) = a.flowinfo
      <3>1. SubSeq(R, 5, 8) = Slice(R, 4 + 0, 4)
        BY DEF Slice
      <3>2. 0 \in 0..RestSize(a) /\ 4 \in 0..RestSize(a) - 0
        BY <1>5 DEF RestSize
      <3>3. Slice(R, 4 + 0, 4) = Slice(Rest(a), 0, 4)
        BY <1>3, <3>2, Zenon
      <3>4. FromNe(ToNe(a.flowinfo, 4)) = a.flowinfo
        BY <1>5, AddrIs, StoredFour
      <3> QED
        BY <1>5, <3>1, <3>3, <3>4, RestOfV6
    <2>4. FromNe(SubSeq(R, 25, 28)) = a.scope_id
      <3>1. SubSeq(R, 25, 28) = Slice(R, 4 + 20, 4)
        BY DEF Slice
      <3>2. 20 \in 0..RestSize(a) /\ 4 \in 0..RestSize(a) - 20
        BY <1>5 DEF RestSize
      <3>3. Slice(R, 4 + 20, 4) = Slice(Rest(a), 20, 4)
        BY <1>3, <3>2, Zenon
      <3>4. FromNe(ToNe(a.scope_id, 4)) = a.scope_id
        BY <1>5, AddrIs, StoredFour
      <3> QED
        BY <1>5, <3>1, <3>3, <3>4, RestOfV6
    <2>5. Family(R) = AF_INET6
      BY <1>1, <1>5 DEF FamilyOf
    <2>6. IpOf(R) = a.ip
      BY <1>1, <2>2, <2>5 DEF IpOf
    <2>7. from_raw(R) = {V6(SubSeq(R, 9, 24), FromBe(SubSeq(R, 3, 4)),
                            FromNe(SubSeq(R, 5, 8)), FromNe(SubSeq(R, 25, 28)))}
      BY <1>1, <2>5 DEF from_raw
    <2> QED
      BY <1>2, <2>1, <2>2, <2>3, <2>4, <2>6, <2>7 DEF R
  <1> QED
    BY <1>1, <1>4, <1>5

\* An address with another port is one.
LEMMA OtherPort ==
  ASSUME NEW a \in SocketAddr, NEW p \in U16
  PROVE  /\ [a EXCEPT !.port = p] \in SocketAddr
         /\ [a EXCEPT !.port = p].port = p
         /\ [a EXCEPT !.port = p].v6 = a.v6 /\ [a EXCEPT !.port = p].ip = a.ip
         /\ [a EXCEPT !.port = p].flowinfo = a.flowinfo
         /\ [a EXCEPT !.port = p].scope_id = a.scope_id
  <1>1. CASE a \in [v6 : {FALSE}, ip : Bytes(4), port : U16, flowinfo : {0}, scope_id : {0}]
    BY <1>1 DEF SocketAddr
  <1>2. CASE a \in [v6 : {TRUE}, ip : Bytes(16), port : U16, flowinfo : U32, scope_id : U32]
    BY <1>2 DEF SocketAddr
  <1> QED
    BY <1>1, <1>2 DEF SocketAddr

\* The kernel puts a port into the bytes of an address.
LEMMA RawWithPort ==
  ASSUME NEW a \in SocketAddr, NEW p \in U16
  PROVE  WithPort(to_raw(a), p) = to_raw([a EXCEPT !.port = p])
  <1> DEFINE c == [a EXCEPT !.port = p]
             A == ToNe(FamilyOf(a), 2)
             B == ToBe(a.port, 2)
             C == ToBe(p, 2)
             n == RestSize(a)
             T == Rest(a)
  <1>1. c \in SocketAddr /\ c.port = p /\ c.v6 = a.v6 /\ c.ip = a.ip
        /\ c.flowinfo = a.flowinfo /\ c.scope_id = a.scope_id
    BY OtherPort
  <1>2. to_raw(a) = (A \o B) \o T /\ A \in Bytes(2) /\ B \in Bytes(2) /\ T \in Bytes(n) /\ n \in Nat
    BY RawIs
  <1>3. C \in Bytes(2)
    BY StoredTwo
  <1>4. C[1] = p \div 256 /\ C[2] = p % 256
    <2>1. p \in Nat /\ p \div 256 < 256
      BY DEF U16
    <2>2. C[1] = (p \div 256^(2 - 1)) % 256 /\ C[2] = (p \div 256^(2 - 2)) % 256
      BY DEF ToBe
    <2>3. 256^(2 - 1) = 256 /\ 256^(2 - 2) = 1
      OBVIOUS
    <2>4. p \div 1 = p /\ (p \div 256) % 256 = p \div 256
      BY <2>1
    <2> QED
      BY <2>2, <2>3, <2>4
  <1> HIDE DEF c
  <1>5. to_raw(c) = (A \o C) \o T
    <2>1. to_raw(c) = (ToNe(FamilyOf(c), 2) \o ToBe(c.port, 2)) \o Rest(c)
      BY <1>1, RawIs
    <2>2. FamilyOf(c) = FamilyOf(a)
      BY <1>1 DEF FamilyOf
    <2>3. Rest(c) = Rest(a)
      BY <1>1 DEF Rest
    <2> QED
      BY <1>1, <2>1, <2>2, <2>3
  <1> HIDE DEF A, B, C, n, T
  <1>6. [((A \o B) \o T) EXCEPT ![3] = C[1], ![4] = C[2]] = (A \o C) \o T
    BY <1>2, <1>3, NewPort
  <1>7. WithPort(to_raw(a), p) = [((A \o B) \o T) EXCEPT ![3] = C[1], ![4] = C[2]]
    BY <1>2, <1>4, Zenon DEF WithPort
  <1> QED
    BY <1>5, <1>6, <1>7, Zenon DEF c

\* Zero has the same bytes in either order.
LEMMA ZeroBytes == 0 \in U32 /\ ToBe(0, 4) = ToNe(0, 4)
  <1>1. 0 \in U32
    BY DEF U32
  <1> DEFINE Z == ToBe(0, 4)
  <1>2. Z \in Bytes(4) /\ Z = [i \in 1..4 |-> Z[i]]
    BY <1>1, ToBeFour DEF ToBe
  <1>3. \A i \in 1..4 : Z[i] = 0
    <2>1. 256^(4 - 1) = 16777216 /\ 256^(4 - 2) = 65536 /\ 256^(4 - 3) = 256 /\ 256^(4 - 4) = 1
      OBVIOUS
    <2>2. /\ Z[1] = (0 \div 256^(4 - 1)) % 256 /\ Z[2] = (0 \div 256^(4 - 2)) % 256
          /\ Z[3] = (0 \div 256^(4 - 3)) % 256 /\ Z[4] = (0 \div 256^(4 - 4)) % 256
      BY DEF ToBe
    <2>3. Z[1] = 0 /\ Z[2] = 0 /\ Z[3] = 0 /\ Z[4] = 0
      BY <2>1, <2>2
    <2> HIDE DEF Z
    <2> QED
      BY <2>3
  <1>4. Reverse(Z) \in Bytes(4) /\ \A i \in 1..4 : Reverse(Z)[i] = Z[4 - i + 1]
    BY <1>2, ReverseBytes
  <1> HIDE DEF Z
  <1>5. \A i \in 1..4 : 4 - i + 1 \in 1..4
    OBVIOUS
  <1>6. \A i \in 1..4 : Reverse(Z)[i] = Z[i]
    BY <1>3, <1>4, <1>5
  <1>7. Reverse(Z) = Z
    BY <1>2, <1>4, <1>6, BytesEqual
  <1> QED
    BY <1>1, <1>7 DEF Z, ToNe

\* A v4-mapped address is the bytes of an IPv6 address.
LEMMA MappedBytes ==
  ASSUME NEW ip \in Bytes(4)
  PROVE  V4Mapped(ip) \in Bytes(16)
  <1> DEFINE Z == [i \in 1..10 |-> 0]
             P == <<255, 255>>
             H == Z \o P
  <1>1. Z \in Bytes(10) /\ P \in Bytes(2)
    BY DEF Bytes
  <1> HIDE DEF Z, P
  <1>2. 10 \in Nat /\ 2 \in Nat /\ 10 + 2 = 12 /\ 12 \in Nat /\ 4 \in Nat /\ 12 + 4 = 16
    OBVIOUS
  <1>3. H \in Bytes(10 + 2)
    BY <1>1, <1>2, ConcatBytes
  <1>4. H \in Bytes(12)
    BY <1>2, <1>3
  <1> HIDE DEF H
  <1>5. H \o ip \in Bytes(12 + 4)
    BY <1>2, <1>4, ConcatBytes
  <1>6. V4Mapped(ip) = H \o ip
    BY DEF V4Mapped, H, Z, P
  <1> QED
    BY <1>2, <1>5, <1>6

\* The v4-mapped form of an IPv4 address.
MappedAddr(a) == V6(V4Mapped(a.ip), a.port, 0, 0)

\* What the kernel reports of an IPv4 address on an IPv6 socket.
LEMMA RawMapped ==
  ASSUME NEW a \in SocketAddr, ~a.v6
  PROVE  /\ MappedAddr(a) \in SocketAddr
         /\ ToNe(AF_INET6, 2) \o SubSeq(to_raw(a), 3, 4) \o ToBe(0, 4)
              \o V4Mapped(IpOf(to_raw(a))) \o ToBe(0, 4) = to_raw(MappedAddr(a))
  <1> DEFINE m == MappedAddr(a)
  <1>1. a.ip \in Bytes(4) /\ a.port \in U16
    BY AddrIs
  <1>2. V4Mapped(a.ip) \in Bytes(16) /\ 0 \in U32 /\ ToBe(0, 4) = ToNe(0, 4)
    BY <1>1, MappedBytes, ZeroBytes
  <1>3. m \in SocketAddr
    BY <1>1, <1>2 DEF MappedAddr, V6, SocketAddr
  <1>4. m.v6 /\ m.ip = V4Mapped(a.ip) /\ m.port = a.port /\ m.flowinfo = 0 /\ m.scope_id = 0
    BY DEF MappedAddr, V6
  <1>5. SubSeq(to_raw(a), 3, 4) = ToBe(a.port, 2)
    <2>1. SubSeq(to_raw(a), 3, 4) = Slice(to_raw(a), 2, 2)
      BY DEF Slice
    <2> QED
      BY <2>1, RawParts
  <1>6. IpOf(to_raw(a)) = a.ip
    BY RawRead
  <1> HIDE DEF m
  <1>7. to_raw(m) = ToNe(AF_INET6, 2) \o ToBe(a.port, 2) \o ToNe(0, 4) \o V4Mapped(a.ip)
                      \o ToNe(0, 4)
    BY <1>4 DEF to_raw, RawPort
  <1> QED
    BY <1>2, <1>3, <1>5, <1>6, <1>7, Zenon DEF m

-----------------------------------------------------------------------------
(* Arrays of addresses.                                                    *)

\* The recursive function in Offsets adds up the sizes.
LEMMA OffsetsAdd ==
  ASSUME NEW bytes, NEW N \in Nat
  PROVE  LET f == Offsets(bytes, N) IN
         /\ f[0] = 0
         /\ \A n \in 1..N : f[n] = f[n - 1] + SizeAt(bytes, f[n - 1])
  <1> DEFINE After(p) == CHOOSE q \in {r + SizeAt(bytes, r) : r \in {p}} : TRUE
             D == [n \in Nat |-> [y \in Nat |-> y + SizeAt(bytes, y)]]
             Is(f) == f = [n \in 0..N |-> IF n = 0 THEN 0 ELSE After(f[n - 1])]
             f == CHOOSE k : Is(k)
  <1>1. Offsets(bytes, N) = f
    BY DEF Offsets
  <1>2. \A p : After(p) = p + SizeAt(bytes, p)
    OBVIOUS
  <1> HIDE DEF After
  <1>3. D \in [Nat -> [Nat -> Nat]]
    BY DEF SizeAt, SizeOf
  <1>4. PICK g : Iterates(g, N, Nat, 0, D)
    <2> HIDE DEF D
    <2> QED
      BY <1>3, RecursionExists
  <1>5. /\ g \in [0..N -> Nat] /\ g[0] = 0
        /\ \A n \in 1..N : g[n] = After(g[n - 1])
    <2>1. g \in [0..N -> Nat] /\ g[0] = 0 /\ \A n \in 1..N : g[n] = D[n][g[n - 1]]
      BY <1>4 DEF Iterates
    <2>2. ASSUME NEW n \in 1..N PROVE g[n] = After(g[n - 1])
      <3>1. n - 1 \in 0..N /\ n \in Nat
        OBVIOUS
      <3>2. g[n - 1] \in Nat
        BY <2>1, <3>1
      <3>3. D[n][g[n - 1]] = g[n - 1] + SizeAt(bytes, g[n - 1])
        BY <3>1, <3>2
      <3> QED
        BY <1>2, <2>1, <3>3
    <2> QED
      BY <2>1, <2>2
  <1> HIDE DEF D
  <1>6. Is(g)
    <2> DEFINE gg == [n \in 0..N |-> IF n = 0 THEN 0 ELSE After(g[n - 1])]
    <2>1. \A n \in 0..N : g[n] = gg[n]
      BY <1>5
    <2>2. g = gg
      BY <1>5, <2>1
    <2> QED
      BY <2>2
  <1>7. Is(f)
    <2> HIDE DEF Is
    <2> QED
      BY <1>6
  <1> HIDE DEF f
  <1>8. f[0] = 0 /\ \A n \in 1..N : f[n] = After(f[n - 1])
    <2> DEFINE ff == [n \in 0..N |-> IF n = 0 THEN 0 ELSE After(f[n - 1])]
    <2>1. f = ff
      BY <1>7
    <2>2. \A n \in 0..N : ff[n] = IF n = 0 THEN 0 ELSE After(f[n - 1])
      OBVIOUS
    <2> HIDE DEF ff
    <2>3. 0 \in 0..N /\ \A n \in 1..N : n \in 0..N /\ n # 0
      OBVIOUS
    <2> QED
      BY <2>1, <2>2, <2>3
  <1> QED
    BY <1>1, <1>2, <1>8

SizeOfAddr(a) == SizeOf(FamilyOf(a))

\* A slice of the front of a slice.
LEMMA SliceOfSlice ==
  ASSUME NEW n \in Nat, NEW b \in Bytes(n), NEW i \in 0..n, NEW k \in 0..n - i, NEW j \in 0..k
  PROVE  Slice(Slice(b, i, k), 0, j) = Slice(b, i, j)
  <1> DEFINE s == Slice(b, i, k)
  <1>1. s \in Bytes(k) /\ (\A l \in 1..k : s[l] = b[i + l]) /\ k \in Nat /\ j \in Nat
    BY SliceIs
  <1> HIDE DEF s
  <1>2. 0 \in 0..k /\ j \in 0..k - 0 /\ j \in 0..n - i
    BY <1>1
  <1>3. Slice(s, 0, j) \in Bytes(j) /\ \A l \in 1..j : Slice(s, 0, j)[l] = s[0 + l]
    BY <1>1, <1>2, SliceIs
  <1>4. Slice(b, i, j) \in Bytes(j) /\ \A l \in 1..j : Slice(b, i, j)[l] = b[i + l]
    BY <1>2, SliceIs
  <1>5. ASSUME NEW l \in 1..j PROVE Slice(s, 0, j)[l] = Slice(b, i, j)[l]
    <2>1. 0 + l = l /\ l \in 1..k
      BY <1>1
    <2> QED
      BY <1>1, <1>3, <1>4, <2>1
  <1> QED
    BY <1>1, <1>3, <1>4, <1>5, BytesEqual DEF s

\* The bytes b hold the addresses, the n-th of them up to o[n].
Laid(o, N, addrs, b) ==
  /\ N \in Nat /\ b \in Bytes(N)
  /\ o[0] = 0 /\ o[Len(addrs)] = N
  /\ \A n \in 1..Len(addrs) :
       /\ o[n - 1] \in 0..N
       /\ SizeOfAddr(addrs[n]) \in 0..N - o[n - 1]
       /\ o[n] = o[n - 1] + SizeOfAddr(addrs[n])
       /\ Slice(b, o[n - 1], SizeOfAddr(addrs[n])) = to_raw(addrs[n])

\* pack of one address more.
LEMMA PackAppend ==
  ASSUME NEW addrs \in Seq(SocketAddr), NEW a \in SocketAddr
  PROVE  pack(Append(addrs, a)) = pack(addrs) \o to_raw(a)
  <1> DEFINE R(s) == [i \in DOMAIN s |-> to_raw(s[i])]
             X == Seq(0..255)
  <1>1. ASSUME NEW x \in SocketAddr PROVE to_raw(x) \in X
    <2>1. to_raw(x) \in Bytes(SizeOf(FamilyOf(x)))
      BY RawParts
    <2>2. SizeOf(FamilyOf(x)) \in Nat
      BY DEF SizeOf
    <2> QED
      BY <2>1, <2>2, BytesSeq
  <1>2. R(addrs) \in Seq(X)
    <2>1. DOMAIN addrs = 1..Len(addrs) /\ Len(addrs) \in Nat
      BY LenProperties
    <2>2. \A i \in 1..Len(addrs) : to_raw(addrs[i]) \in X
      BY <1>1, ElementOfSeq
    <2> HIDE DEF X
    <2> QED
      BY <2>1, <2>2, SeqDef
  <1>3. R(Append(addrs, a)) = Append(R(addrs), to_raw(a))
    <2>1. /\ DOMAIN addrs = 1..Len(addrs) /\ Len(addrs) \in Nat
          /\ DOMAIN Append(addrs, a) = 1..Len(addrs) + 1
          /\ \A i \in 1..Len(addrs) : Append(addrs, a)[i] = addrs[i]
          /\ Append(addrs, a)[Len(addrs) + 1] = a
      BY LenProperties, AppendProperties
    <2>2. Len(R(addrs)) = Len(addrs)
      BY <2>1
    <2> QED
      BY <2>1, <2>2
  <1>4. to_raw(a) \in X
    BY <1>1
  <1>5. /\ pack(Append(addrs, a)) = FlattenSeq(R(Append(addrs, a)))
        /\ pack(addrs) = FlattenSeq(R(addrs))
    BY DEF pack
  <1> HIDE DEF R
  <1>6. FlattenSeq(Append(R(addrs), to_raw(a))) = FlattenSeq(R(addrs)) \o to_raw(a)
    BY <1>2, <1>4, FlattenAppend
  <1> QED
    BY <1>3, <1>5, <1>6

\* pack of no addresses.
LEMMA PackEmpty == pack(<<>>) = <<>>
  <1>1. [i \in DOMAIN <<>> |-> to_raw(<<>>[i])] = <<>>
    OBVIOUS
  <1> QED
    BY <1>1, FlattenEmpty DEF pack

\* pack lays its addresses one after another.
LEMMA PackLays ==
  ASSUME NEW addrs \in Seq(SocketAddr)
  PROVE  \E o, N : Laid(o, N, addrs, pack(addrs))
  <1> DEFINE G == {s \in Seq(SocketAddr) : \E o, N : Laid(o, N, s, pack(s))}
  <1>1. <<>> \in G
    <2> DEFINE o == [n \in 0..0 |-> 0]
    <2>1. <<>> \in Bytes(0) /\ Len(<<>>) = 0
      BY DEF Bytes
    <2>2. Laid(o, 0, <<>>, pack(<<>>))
      BY <2>1, PackEmpty DEF Laid
    <2> QED
      BY <2>2
  <1>2. ASSUME NEW s \in Seq(SocketAddr), NEW a \in SocketAddr, s \in G
        PROVE  Append(s, a) \in G
    <2> DEFINE L == Len(s)
               t == Append(s, a)
               b == pack(s)
               r == to_raw(a)
               z == SizeOfAddr(a)
    <2>1. PICK o, N : Laid(o, N, s, b)
      BY <1>2
    <2>2. L \in Nat /\ t \in Seq(SocketAddr) /\ Len(t) = L + 1 /\ t[L + 1] = a
          /\ \A n \in 1..L : t[n] = s[n]
      BY LenProperties, AppendProperties
    <2>3. r \in Bytes(z) /\ z \in Nat
      BY RawParts DEF SizeOfAddr, SizeOf
    <2>4. pack(t) = b \o r
      BY PackAppend
    <2> DEFINE d == b \o r
               p == [n \in 0..L + 1 |-> IF n = L + 1 THEN N + z ELSE o[n]]
    <2>5. N \in Nat /\ b \in Bytes(N) /\ o[0] = 0 /\ o[L] = N
      BY <2>1 DEF Laid
    <2> HIDE DEF L, t, b, r, z
    <2>6. Joins(d, N, b, z, r)
      BY <2>3, <2>5, SliceOfConcat
    <2>7. d \in Bytes(N + z) /\ Slice(d, N, z) = r
      BY <2>6, Zenon DEF Joins
    <2>8. p[0] = 0 /\ p[L + 1] = N + z /\ N + z \in Nat /\ p[L] = N
      BY <2>2, <2>3, <2>5
    <2>9. ASSUME NEW n \in 1..L + 1
          PROVE  /\ p[n - 1] \in 0..N + z
                 /\ SizeOfAddr(t[n]) \in 0..(N + z) - p[n - 1]
                 /\ p[n] = p[n - 1] + SizeOfAddr(t[n])
                 /\ Slice(d, p[n - 1], SizeOfAddr(t[n])) = to_raw(t[n])
      <3>1. CASE n = L + 1
        <4>1. n - 1 = L /\ p[n - 1] = N /\ p[n] = N + z
          BY <2>2, <2>8, <3>1
        <4>2. SizeOfAddr(t[n]) = z /\ to_raw(t[n]) = r
          BY <2>2, <3>1 DEF z, r
        <4>3. N \in 0..N + z /\ z \in 0..(N + z) - N
          BY <2>3, <2>5
        <4> QED
          BY <2>7, <4>1, <4>2, <4>3
      <3>2. CASE n # L + 1
        <4>1. n \in 1..L /\ n - 1 \in 0..L + 1 /\ n - 1 # L + 1 /\ n \in 0..L + 1
          BY <2>2, <3>2
        <4>2. p[n - 1] = o[n - 1] /\ p[n] = o[n] /\ t[n] = s[n]
          BY <2>2, <3>2, <4>1
        <4> DEFINE y == SizeOfAddr(s[n])
        <4>3. /\ o[n - 1] \in 0..N /\ y \in 0..N - o[n - 1] /\ o[n] = o[n - 1] + y
              /\ Slice(b, o[n - 1], y) = to_raw(s[n])
          BY <2>1, <4>1 DEF Laid, L
        <4> HIDE DEF y
        <4>4. Slice(d, o[n - 1], y) = Slice(b, o[n - 1], y)
          BY <2>6, <4>3, Zenon DEF Joins
        <4>5. o[n - 1] \in 0..N + z /\ y \in 0..(N + z) - o[n - 1]
          BY <2>3, <2>5, <4>3
        <4> QED
          BY <4>2, <4>3, <4>4, <4>5, Zenon DEF y
      <3> QED
        BY <3>1, <3>2
    <2> HIDE DEF p, d
    <2>10. Laid(p, N + z, t, d)
      BY <2>2, <2>7, <2>8, <2>9, Zenon DEF Laid
    <2>11. \E q, M : Laid(q, M, t, pack(t))
      BY <2>4, <2>10, Zenon DEF d
    <2> QED
      BY <2>2, <2>11 DEF t
  <1> HIDE DEF G
  <1>3. Seq(SocketAddr) \subseteq G
    BY <1>1, <1>2, SeqInd
  <1> QED
    BY <1>3 DEF G

\* The size of an address is that of its family.
LEMMA SizeOfAddrIs ==
  ASSUME NEW a \in SocketAddr
  PROVE  SizeOfAddr(a) \in Nat /\ SizeOfAddr(a) >= 16
  BY DEF SizeOfAddr, SizeOf

\* Where the bytes of an address begin, the entry is that address.
LEMMA EntryIs ==
  ASSUME NEW n \in Nat, NEW b \in Bytes(n), NEW p \in 0..n, NEW a \in SocketAddr,
         SizeOfAddr(a) \in 0..n - p, Slice(b, p, SizeOfAddr(a)) = to_raw(a)
  PROVE  SizeAt(b, p) = SizeOfAddr(a) /\ Entry(b, p) = to_raw(a)
  <1> DEFINE z == SizeOfAddr(a)
             A == ToNe(FamilyOf(a), 2)
  <1>1. z \in 0..n - p /\ z \in Nat /\ 2 \in 0..z /\ 2 \in Nat
    BY SizeOfAddrIs
  <1>2. A \in Bytes(2) /\ FromNe(A) = FamilyOf(a)
    BY RawIs
  <1>3. Slice(to_raw(a), 0, 2) = A /\ Slice(b, p, z) = to_raw(a)
    BY RawParts
  <1>4. SizeAt(b, p) = SizeOf(FromNe(Slice(Slice(b, p, 2), 0, 2)))
    BY DEF SizeAt, Slice, Family
  <1>5. Entry(b, p) = Slice(b, p, SizeAt(b, p)) /\ z = SizeOf(FamilyOf(a))
    BY DEF Entry, Slice, SizeOfAddr
  <1> HIDE DEF z, A
  <1>6. Slice(Slice(b, p, z), 0, 2) = Slice(b, p, 2)
    BY <1>1, SliceOfSlice
  <1>7. Slice(b, p, 2) = A
    BY <1>3, <1>6
  <1>8. Slice(A, 0, 2) = A
    <2>1. 0 \in 0..2 /\ 2 \in 0..2 - 0
      OBVIOUS
    <2>2. Slice(A, 0, 2) \in Bytes(2) /\ \A j \in 1..2 : Slice(A, 0, 2)[j] = A[0 + j]
      BY <1>1, <1>2, <2>1, SliceIs
    <2>3. \A j \in 1..2 : Slice(A, 0, 2)[j] = A[j]
      BY <2>2
    <2> QED
      BY <1>1, <1>2, <2>2, <2>3, BytesEqual, Zenon
  <1>9. SizeAt(b, p) = z
    BY <1>2, <1>4, <1>5, <1>7, <1>8
  <1> QED
    BY <1>3, <1>5, <1>9 DEF z

\* The entries of an array that pack made.
LEMMA PackEntries ==
  ASSUME NEW addrs \in Seq(SocketAddr)
  PROVE  \A i \in 1..Len(addrs) :
           Entry(pack(addrs), Offsets(pack(addrs), Len(addrs))[i - 1]) = to_raw(addrs[i])
  <1> DEFINE b == pack(addrs)
             L == Len(addrs)
             f == Offsets(b, L)
  <1>1. PICK o, N : Laid(o, N, addrs, b)
    BY PackLays
  <1>2. L \in Nat
    BY LenProperties
  <1>3. f[0] = 0 /\ \A n \in 1..L : f[n] = f[n - 1] + SizeAt(b, f[n - 1])
    BY <1>2, OffsetsAdd
  <1>4. N \in Nat /\ b \in Bytes(N) /\ o[0] = 0
    BY <1>1 DEF Laid
  <1>5. \A n \in 1..L :
          /\ o[n - 1] \in 0..N
          /\ SizeOfAddr(addrs[n]) \in 0..N - o[n - 1]
          /\ o[n] = o[n - 1] + SizeOfAddr(addrs[n])
          /\ Slice(b, o[n - 1], SizeOfAddr(addrs[n])) = to_raw(addrs[n])
    BY <1>1 DEF Laid
  <1>6. \A n \in 1..L : addrs[n] \in SocketAddr
    BY ElementOfSeq
  <1> HIDE DEF b, L, f
  <1>7. ASSUME NEW n \in 1..L
        PROVE  SizeAt(b, o[n - 1]) = SizeOfAddr(addrs[n]) /\ Entry(b, o[n - 1]) = to_raw(addrs[n])
    <2> DEFINE p == o[n - 1]
               a == addrs[n]
    <2>1. p \in 0..N /\ a \in SocketAddr /\ SizeOfAddr(a) \in 0..N - p
          /\ Slice(b, p, SizeOfAddr(a)) = to_raw(a)
      BY <1>5, <1>6
    <2> HIDE DEF p, a
    <2>2. SizeAt(b, p) = SizeOfAddr(a) /\ Entry(b, p) = to_raw(a)
      BY <1>4, <2>1, EntryIs
    <2> QED
      BY <2>2 DEF p, a
  <1> DEFINE G == {n \in 0..L : f[n] = o[n]}
  <1>8. 0 \in G
    BY <1>2, <1>3, <1>4
  <1>9. ASSUME NEW n \in 1..L, n - 1 \in G PROVE n \in G
    <2>1. f[n - 1] = o[n - 1] /\ n \in 0..L
      BY <1>9
    <2> QED
      BY <1>3, <1>5, <1>7, <2>1
  <1> HIDE DEF G
  <1>10. 0..L \subseteq G
    BY <1>2, <1>8, <1>9, UpTo
  <1>11. ASSUME NEW i \in 1..L PROVE Entry(b, f[i - 1]) = to_raw(addrs[i])
    <2>1. i - 1 \in 0..L
      BY <1>2
    <2>2. f[i - 1] = o[i - 1]
      BY <1>10, <2>1 DEF G
    <2> QED
      BY <1>7, <2>2
  <1> QED
    BY <1>11 DEF b, L, f

\* The kernel gets the addresses that were packed.
LEMMA PackKernel ==
  ASSUME NEW addrs \in Seq(SocketAddr)
  PROVE  Entries(pack(addrs), Len(addrs)) = [i \in 1..Len(addrs) |-> to_raw(addrs[i])]
  <1> DEFINE b == pack(addrs)
             L == Len(addrs)
             f == Offsets(b, L)
  <1>1. \A i \in 1..L : Entry(b, f[i - 1]) = to_raw(addrs[i])
    BY PackEntries
  <1>2. Entries(b, L) = [i \in 1..L |-> Entry(b, f[i - 1])]
    BY DEF Entries
  <1> HIDE DEF b, L, f
  <1> QED
    BY <1>1, <1>2 DEF b, L

\* The greatest number up to L.
LEMMA MaxUpTo ==
  ASSUME NEW L \in Nat
  PROVE  Max(0..L) = L
  BY DEF Max

\* parse_array() reads what pack() wrote: lists of any length, of any mixture
\* of IPv4 and IPv6 addresses, on hosts of either byte order.
THEOREM PackParses ==
  ASSUME NEW addrs \in Seq(SocketAddr)
  PROVE  parse_array(pack(addrs), Len(addrs)) = addrs
  <1> DEFINE b == pack(addrs)
             L == Len(addrs)
             f == Offsets(b, L)
             Read(i) == from_raw(Entry(b, f[i]))
             known == {n \in 0..L : \A i \in 0..n - 1 : Read(i) # {}}
  <1>1. \A i \in 1..L : Entry(b, f[i - 1]) = to_raw(addrs[i])
    BY PackEntries
  <1>2. L \in Nat /\ \A i \in 1..L : addrs[i] \in SocketAddr
    BY LenProperties, ElementOfSeq
  <1>3. parse_array(b, L) = [i \in 1..Max(known) |-> CHOOSE a \in Read(i - 1) : TRUE]
    BY DEF parse_array
  <1>4. addrs = [i \in 1..L |-> addrs[i]]
    BY LenProperties
  <1> HIDE DEF b, L, f
  <1>5. ASSUME NEW i \in 1..L PROVE Read(i - 1) = {addrs[i]}
    BY <1>1, <1>2, RawRead
  <1> HIDE DEF Read
  <1>6. known = 0..L
    <2>1. ASSUME NEW n \in 0..L, NEW i \in 0..n - 1 PROVE Read(i) # {}
      <3>1. i + 1 \in 1..L /\ (i + 1) - 1 = i
        BY <1>2
      <3>2. Read((i + 1) - 1) = {addrs[i + 1]}
        BY <1>5, <3>1, Zenon
      <3> QED
        BY <3>1, <3>2
    <2> QED
      BY <2>1
  <1>7. Max(known) = L
    BY <1>2, <1>6, MaxUpTo
  <1> HIDE DEF known
  <1>8. \A i \in 1..L : (CHOOSE a \in Read(i - 1) : TRUE) = addrs[i]
    BY <1>5
  <1>9. parse_array(b, L) = addrs
    BY <1>3, <1>4, <1>7, <1>8
  <1> QED
    BY <1>9 DEF b, L

-----------------------------------------------------------------------------
(* Binding.                                                                *)

\* The bytes of addresses, and addresses with another port.
Raws(addrs)      == [i \in 1..Len(addrs) |-> to_raw(addrs[i])]
Ported(addrs, p) == [i \in 1..Len(addrs) |-> [addrs[i] EXCEPT !.port = p]]

\* Addresses with another port are addresses.
LEMMA PortedAddrs ==
  ASSUME NEW addrs \in Seq(SocketAddr), NEW p \in U16
  PROVE  Ported(addrs, p) \in Seq(SocketAddr) /\ Len(Ported(addrs, p)) = Len(addrs)
  <1> DEFINE L == Len(addrs)
  <1>1. L \in Nat /\ \A i \in 1..L : addrs[i] \in SocketAddr
    BY LenProperties, ElementOfSeq
  <1>2. \A i \in 1..L : [addrs[i] EXCEPT !.port = p] \in SocketAddr
    BY <1>1, OtherPort
  <1>3. Ported(addrs, p) = [i \in 1..L |-> [addrs[i] EXCEPT !.port = p]]
    BY DEF Ported
  <1> HIDE DEF L
  <1>4. Ported(addrs, p) \in Seq(SocketAddr)
    <2>1. Ported(addrs, p) \in [1..L -> SocketAddr]
      BY <1>2, <1>3
    <2> QED
      BY <1>1, <2>1, SeqDef
  <1>5. Len(Ported(addrs, p)) = L
    BY <1>1, <1>3
  <1> QED
    BY <1>4, <1>5 DEF L

\* The record of a socket has all its fields.
IsSocket(s) ==
  /\ DOMAIN s = {"type", "domain", "v6only", "options", "bound", "port", "peer"}
  /\ s.v6only \in BOOLEAN

\* The port that a bind gives the socket.
PortFor(s, addrs) ==
  IF s.port # 0 \/ addrs = <<>> THEN s.port
  ELSE IF addrs[1].port # 0 THEN addrs[1].port ELSE EphemeralPort

\* bind() and sctp_bindx() in terms of addresses.
LEMMA BindIs ==
  ASSUME NEW addrs \in Seq(SocketAddr), NEW s, s.port \in U16
  PROVE  LET p == PortFor(s, addrs) IN
         /\ p \in U16
         /\ BindAddresses(s, Raws(addrs)) =
              IF \A i \in 1..Len(addrs) : Fits(s, to_raw(addrs[i])) /\ addrs[i].port \in {0, p}
              THEN {[s EXCEPT !.port = p, !.bound = @ \o Raws(Ported(addrs, p))]}
              ELSE {}
  <1> DEFINE L == Len(addrs)
             R == Raws(addrs)
             p == PortFor(s, addrs)
  <1>1. L \in Nat /\ \A i \in 1..L : addrs[i] \in SocketAddr
    BY LenProperties, ElementOfSeq
  <1>2. R = [i \in 1..L |-> to_raw(addrs[i])] /\ DOMAIN R = 1..L
    BY DEF Raws
  <1>3. addrs = <<>> <=> L = 0
    BY EmptySeq
  <1>4. R = <<>> <=> L = 0
    BY <1>1, <1>2
  <1>5. \A i \in 1..L : addrs[i].port \in U16
    BY <1>1, AddrIs
  <1>6. EphemeralPort \in U16
    BY DEF EphemeralPort, U16
  <1>7. p \in U16
    <2>1. addrs # <<>> => 1 \in 1..L
      BY <1>1, <1>3
    <2> HIDE DEF L
    <2> QED
      BY <1>5, <1>6, <2>1 DEF PortFor
  <1>8. \A i \in 1..L : PortOf(R[i]) = addrs[i].port /\ R[i] = to_raw(addrs[i])
    BY <1>1, <1>2, RawFamilyPort
  <1>9. p = IF s.port # 0 \/ R = <<>> THEN s.port
            ELSE IF PortOf(R[1]) # 0 THEN PortOf(R[1]) ELSE EphemeralPort
    <2>1. addrs # <<>> => 1 \in 1..L
      BY <1>1, <1>3
    <2> HIDE DEF L, R
    <2> QED
      BY <1>3, <1>4, <1>8, <2>1, Zenon DEF PortFor
  <1>10. Raws(Ported(addrs, p)) = [i \in 1..L |-> WithPort(R[i], p)]
    <2> DEFINE P == Ported(addrs, p)
    <2>1. Len(P) = L /\ P = [i \in 1..L |-> [addrs[i] EXCEPT !.port = p]]
      BY <1>7, PortedAddrs DEF Ported
    <2> HIDE DEF P, p, L
    <2>2. \A i \in 1..L : to_raw(P[i]) = to_raw([addrs[i] EXCEPT !.port = p])
      BY <2>1
    <2>3. \A i \in 1..L : WithPort(to_raw(addrs[i]), p) = to_raw([addrs[i] EXCEPT !.port = p])
      BY <1>1, <1>7, RawWithPort
    <2>4. \A i \in 1..L : to_raw(P[i]) = WithPort(R[i], p)
      BY <1>8, <2>2, <2>3, Zenon
    <2>5. Raws(P) = [i \in 1..L |-> to_raw(P[i])]
      BY <2>1 DEF Raws
    <2> QED
      BY <2>4, <2>5 DEF P
  <1> DEFINE Q == [i \in 1..L |-> WithPort(R[i], p)]
  <1> HIDE DEF L, p, R
  <1>11. BindAddresses(s, R) =
           IF \A i \in 1..L : Fits(s, R[i]) /\ PortOf(R[i]) \in {0, p}
           THEN {[s EXCEPT !.port = p, !.bound = @ \o Q]}
           ELSE {}
    <2> DEFINE q == IF s.port # 0 \/ R = <<>> THEN s.port
                    ELSE IF PortOf(R[1]) # 0 THEN PortOf(R[1]) ELSE EphemeralPort
    <2>1. BindAddresses(s, R) =
            IF \A i \in DOMAIN R : Fits(s, R[i]) /\ PortOf(R[i]) \in {0, q}
            THEN {[s EXCEPT !.port = q, !.bound = @ \o [i \in DOMAIN R |-> WithPort(R[i], q)]]}
            ELSE {}
      BY Zenon DEF BindAddresses
    <2>2. p = q /\ DOMAIN R = 1..L
      BY <1>2, <1>9
    <2> HIDE DEF q
    <2> QED
      BY <2>1, <2>2
  <1> HIDE DEF Q
  <1>12. (\A i \in 1..L : Fits(s, R[i]) /\ PortOf(R[i]) \in {0, p})
         <=> \A i \in 1..L : Fits(s, to_raw(addrs[i])) /\ addrs[i].port \in {0, p}
    BY <1>8, Zenon
  <1>13. Q = Raws(Ported(addrs, p))
    BY <1>10 DEF Q
  <1> QED
    BY <1>7, <1>11, <1>12, <1>13, Zenon DEF L, p, R

\* A socket that is bound to the addresses asked for.
BoundTo(s, addrs) ==
  /\ s.port \in U16
  /\ s.bound = Raws(Ported(addrs, s.port))
  /\ \A i \in 1..Len(addrs) : addrs[i].port \in {0, s.port}

\* s with another port and other addresses.
Rebound(s, p, bound) == [s EXCEPT !.port = p, !.bound = bound]

\* Rebinding changes nothing else.
LEMMA ReboundIs ==
  ASSUME NEW s, IsSocket(s), NEW p, NEW bound
  PROVE  /\ IsSocket(Rebound(s, p, bound))
         /\ Rebound(s, p, bound).port = p /\ Rebound(s, p, bound).bound = bound
         /\ Rebound(s, p, bound).domain = s.domain /\ Rebound(s, p, bound).v6only = s.v6only
         /\ Rebound(s, p, bound).peer = s.peer
  BY DEF IsSocket, Rebound

\* The first address and the others.
LEMMA HeadAndTail ==
  ASSUME NEW addrs \in Seq(SocketAddr), addrs # <<>>
  PROVE  /\ <<Head(addrs)>> \in Seq(SocketAddr) /\ Tail(addrs) \in Seq(SocketAddr)
         /\ Len(Tail(addrs)) = Len(addrs) - 1 /\ Len(addrs) \in Nat \ {0}
         /\ <<Head(addrs)>>[1] = addrs[1] /\ Len(<<Head(addrs)>>) = 1
         /\ Raws(<<Head(addrs)>>) = <<to_raw(Head(addrs))>>
         /\ \A i \in 1..Len(addrs) - 1 : Tail(addrs)[i] = addrs[i + 1]
  <1>1. Head(addrs) \in SocketAddr /\ Head(addrs) = addrs[1]
    OBVIOUS
  <1>2. /\ <<Head(addrs)>> \in Seq(SocketAddr) /\ Len(<<Head(addrs)>>) = 1
        /\ <<Head(addrs)>>[1] = addrs[1]
    BY <1>1
  <1>3. /\ Tail(addrs) \in Seq(SocketAddr) /\ Len(Tail(addrs)) = Len(addrs) - 1
        /\ Len(addrs) \in Nat \ {0}
        /\ \A i \in 1..Len(addrs) - 1 : Tail(addrs)[i] = addrs[i + 1]
    OBVIOUS
  <1>4. Raws(<<Head(addrs)>>) = <<to_raw(Head(addrs))>>
    BY <1>2 DEF Raws
  <1> QED
    BY <1>2, <1>3, <1>4

\* The bytes of the first address and of the others are those of all.
LEMMA RawsSplit ==
  ASSUME NEW addrs \in Seq(SocketAddr), addrs # <<>>, NEW p \in U16
  PROVE  (<<>> \o Raws(Ported(<<Head(addrs)>>, p))) \o Raws(Ported(Tail(addrs), p))
           = Raws(Ported(addrs, p))
  <1> DEFINE h == <<Head(addrs)>>
             t == Tail(addrs)
             n == Len(addrs) - 1
             F(a) == to_raw([a EXCEPT !.port = p])
             H == [i \in 1..1 |-> F(addrs[1])]
             T == [i \in 1..n |-> F(addrs[i + 1])]
             A == [i \in 1..n + 1 |-> F(addrs[i])]
  <1>1. ASSUME NEW x \in Seq(SocketAddr)
        PROVE  Raws(Ported(x, p)) = [i \in 1..Len(x) |-> F(x[i])]
    <2>1. /\ Len(Ported(x, p)) = Len(x)
          /\ Ported(x, p) = [i \in 1..Len(x) |-> [x[i] EXCEPT !.port = p]]
      BY PortedAddrs DEF Ported
    <2> QED
      BY <2>1 DEF Raws
  <1>2. /\ h \in Seq(SocketAddr) /\ t \in Seq(SocketAddr) /\ Len(t) = n /\ Len(h) = 1
        /\ n \in Nat /\ Len(addrs) = n + 1
        /\ h[1] = addrs[1] /\ \A i \in 1..n : t[i] = addrs[i + 1]
    BY HeadAndTail
  <1> HIDE DEF h, t, n
  <1>3. /\ Raws(Ported(h, p)) = [i \in 1..1 |-> F(h[i])]
        /\ Raws(Ported(t, p)) = [i \in 1..n |-> F(t[i])]
        /\ Raws(Ported(addrs, p)) = [i \in 1..n + 1 |-> F(addrs[i])]
    BY <1>1, <1>2
  <1> HIDE DEF F
  <1>4. Raws(Ported(h, p)) = H /\ Raws(Ported(t, p)) = T /\ Raws(Ported(addrs, p)) = A
    <2>1. \A i \in 1..1 : F(h[i]) = F(addrs[1])
      BY <1>2
    <2>2. \A i \in 1..n : F(t[i]) = F(addrs[i + 1])
      BY <1>2
    <2> QED
      BY <1>3, <2>1, <2>2
  <1>5. <<>> \o H = H
    OBVIOUS
  <1>6. H \o T = A
    <2>1. Len(H) = 1 /\ Len(T) = n
      BY <1>2
    <2>2. H \o T = [i \in 1..n + 1 |-> IF i <= 1 THEN H[i] ELSE T[i - 1]]
      BY <1>2, <2>1
    <2>3. ASSUME NEW i \in 1..n + 1
          PROVE  (IF i <= 1 THEN H[i] ELSE T[i - 1]) = F(addrs[i])
      <3>1. CASE i <= 1
        <4>1. i = 1 /\ H[i] = F(addrs[1])
          BY <1>2, <3>1
        <4> QED
          BY <4>1
      <3>2. CASE ~(i <= 1)
        <4>1. i - 1 \in 1..n /\ (i - 1) + 1 = i
          BY <1>2, <3>2
        <4>2. T[i - 1] = F(addrs[(i - 1) + 1])
          BY <4>1
        <4> QED
          BY <3>2, <4>1, <4>2
      <3> QED
        BY <3>1, <3>2
    <2> HIDE DEF H, T
    <2> QED
      BY <2>2, <2>3
  <1> HIDE DEF H, T, A
  <1> QED
    BY <1>4, <1>5, <1>6 DEF h, t

-----------------------------------------------------------------------------
(* The builder.                                                            *)

InitMsgs ==
  [out_streams : Nat, max_in_streams : Nat, max_attempts : Nat, max_init_timeo : Nat]

Configs ==
  [init : SUBSET InitMsgs, nodelay : SUBSET BOOLEAN, recv_buf : SUBSET Nat,
   send_buf : SUBSET Nat, autoclose_secs : SUBSET Nat]

\* Where a method is called, and where it is called last.
Called(calls, method) == {i \in 1..Len(calls) : calls[i][1] = method}
LastOf(calls, method) == SelectLastInSeq(calls, LAMBDA c : c[1] = method)

\* A u16 is a number.
LEMMA ShortIsNat == \A n \in Short : n \in Nat
  <1>1. 2^16 \in Int
    OBVIOUS
  <1> DEFINE m == 2^16
  <1> HIDE DEF m
  <1>2. m \in Int => \A n \in 0..m - 1 : n \in Nat
    OBVIOUS
  <1> QED
    BY <1>1, <1>2 DEF Short, m

\* The arguments of the methods.
LEMMA CallsAre ==
  ASSUME NEW call \in Calls
  PROVE  /\ call[1] \in {"streams", "init_retransmit", "nodelay", "recv_buf", "send_buf",
                         "autoclose"}
         /\ call[1] \in {"streams", "init_retransmit"} => call[2] \in Nat /\ call[3] \in Nat
         /\ call[1] = "nodelay" => call[2] \in BOOLEAN
         /\ call[1] \in {"recv_buf", "send_buf"} => call[2] \in Nat
         /\ call[1] = "autoclose" => call[2] \in 0..2^IntBits - 1 /\ call[2] \in Nat
  <1>1. 2^IntBits \in Nat
    BY IntBitsAssumption
  <1> DEFINE M == 2^IntBits
  <1> HIDE DEF M
  <1>2. CASE call \in {"streams", "init_retransmit"} \X Short \X Short
    <2>1. PICK m \in {"streams", "init_retransmit"}, a \in Short, b \in Short :
                 call = <<m, a, b>>
      BY <1>2
    <2>2. a \in Nat /\ b \in Nat
      BY ShortIsNat
    <2> QED
      BY <2>1, <2>2
  <1>3. CASE call \in {"nodelay"} \X BOOLEAN
    BY <1>3
  <1>4. CASE call \in {"recv_buf", "send_buf"} \X Nat
    BY <1>4
  <1>5. CASE call \in {"autoclose"} \X (0..M - 1)
    BY <1>1, <1>5 DEF M
  <1>6. \/ call \in {"streams", "init_retransmit"} \X Short \X Short
        \/ call \in {"nodelay"} \X BOOLEAN
        \/ call \in {"recv_buf", "send_buf"} \X Nat
        \/ call \in {"autoclose"} \X (0..M - 1)
    BY DEF Calls, M
  <1> QED
    BY <1>2, <1>3, <1>4, <1>5, <1>6

\* The INIT parameters so far.
LEMMA GetOrInsertIs ==
  /\ GetOrInsert({}) = NoInit
  /\ \A i : GetOrInsert({i}) = i
  /\ NoInit \in InitMsgs
  /\ \A init \in SUBSET InitMsgs : GetOrInsert(init) \in InitMsgs
  BY DEF GetOrInsert, NoInit, InitMsgs

\* What a call does to each of the options.
LEMMA CallIs ==
  ASSUME NEW c \in Configs, NEW call \in Calls
  PROVE  /\ CallOn(c, call) \in Configs
         /\ CallOn(c, call).nodelay = IF call[1] = "nodelay" THEN {call[2]} ELSE c.nodelay
         /\ CallOn(c, call).recv_buf = IF call[1] = "recv_buf" THEN {call[2]} ELSE c.recv_buf
         /\ CallOn(c, call).send_buf = IF call[1] = "send_buf" THEN {call[2]} ELSE c.send_buf
         /\ CallOn(c, call).autoclose_secs =
              IF call[1] = "autoclose" THEN {call[2]} ELSE c.autoclose_secs
         /\ CallOn(c, call).init =
              CASE call[1] = "streams" ->
                     {[GetOrInsert(c.init) EXCEPT !.out_streams = call[2],
                                                  !.max_in_streams = call[3]]}
                [] call[1] = "init_retransmit" ->
                     {[GetOrInsert(c.init) EXCEPT !.max_attempts = call[2],
                                                  !.max_init_timeo = call[3]]}
                [] OTHER -> c.init
  <1>1. GetOrInsert(c.init) \in InitMsgs
    BY GetOrInsertIs DEF Configs
  <1>2. CASE call[1] = "streams"
    <2>1. CallOn(c, call) =
            [c EXCEPT !.init = {[GetOrInsert(c.init) EXCEPT !.out_streams = call[2],
                                                            !.max_in_streams = call[3]]}]
      BY <1>2 DEF CallOn, streams
    <2>2. [GetOrInsert(c.init) EXCEPT !.out_streams = call[2], !.max_in_streams = call[3]]
            \in InitMsgs
      BY <1>1, <1>2, CallsAre DEF InitMsgs
    <2> DEFINE i == [GetOrInsert(c.init) EXCEPT !.out_streams = call[2],
                                                !.max_in_streams = call[3]]
    <2>3. i \in InitMsgs /\ CallOn(c, call) = [c EXCEPT !.init = {i}]
      BY <2>1, <2>2
    <2>4. CallOn(c, call).init = {i}
      <3> HIDE DEF i
      <3> QED
        BY <2>3 DEF Configs
    <2>5. /\ CallOn(c, call) \in Configs
          /\ CallOn(c, call).nodelay = c.nodelay /\ CallOn(c, call).recv_buf = c.recv_buf
          /\ CallOn(c, call).send_buf = c.send_buf
          /\ CallOn(c, call).autoclose_secs = c.autoclose_secs
      <3> HIDE DEF i
      <3> QED
        BY <2>3 DEF Configs
    <2> QED
      BY <1>2, <2>4, <2>5
  <1>3. CASE call[1] = "init_retransmit"
    <2>1. CallOn(c, call) =
            [c EXCEPT !.init = {[GetOrInsert(c.init) EXCEPT !.max_attempts = call[2],
                                                            !.max_init_timeo = call[3]]}]
      BY <1>3 DEF CallOn, init_retransmit
    <2>2. [GetOrInsert(c.init) EXCEPT !.max_attempts = call[2], !.max_init_timeo = call[3]]
            \in InitMsgs
      BY <1>1, <1>3, CallsAre DEF InitMsgs
    <2> DEFINE i == [GetOrInsert(c.init) EXCEPT !.max_attempts = call[2],
                                                !.max_init_timeo = call[3]]
    <2>3. i \in InitMsgs /\ CallOn(c, call) = [c EXCEPT !.init = {i}]
      BY <2>1, <2>2
    <2>4. CallOn(c, call).init = {i}
      <3> HIDE DEF i
      <3> QED
        BY <2>3 DEF Configs
    <2>5. /\ CallOn(c, call) \in Configs
          /\ CallOn(c, call).nodelay = c.nodelay /\ CallOn(c, call).recv_buf = c.recv_buf
          /\ CallOn(c, call).send_buf = c.send_buf
          /\ CallOn(c, call).autoclose_secs = c.autoclose_secs
      <3> HIDE DEF i
      <3> QED
        BY <2>3 DEF Configs
    <2> QED
      BY <1>3, <2>4, <2>5
  <1>4. CASE call[1] = "nodelay"
    BY <1>4, CallsAre DEF CallOn, Configs
  <1>5. CASE call[1] = "recv_buf"
    BY <1>5, CallsAre DEF CallOn, Configs
  <1>6. CASE call[1] = "send_buf"
    BY <1>6, CallsAre DEF CallOn, Configs
  <1>7. CASE call[1] = "autoclose"
    BY <1>7, CallsAre DEF CallOn, Configs
  <1> QED
    BY <1>2, <1>3, <1>4, <1>5, <1>6, <1>7, CallsAre

\* h holds the configurations that a chain of calls goes through.
Chain(h, calls) ==
  /\ h[0] = new
  /\ \A k \in 1..Len(calls) : h[k] = CallOn(h[k - 1], calls[k])
  /\ \A k \in 0..Len(calls) : h[k] \in Configs
  /\ Build(calls) = h[Len(calls)]

\* The fold of the chain goes through its configurations.
LEMMA BuildSteps ==
  ASSUME NEW calls \in Seq(Calls)
  PROVE  \E h : Chain(h, calls)
  <1> DEFINE N == Len(calls)
             P == SUBSET (1..N)
             Good(g) == g = [s \in P |-> IF s = {} THEN new
                                         ELSE CallOn(g[s \ {Max(s)}], calls[Max(s)])]
             D == [n \in Nat |-> [c \in Configs |->
                     IF n \in 1..N THEN CallOn(c, calls[n]) ELSE c]]
  <1>1. N \in Nat /\ DOMAIN calls = 1..N /\ \A i \in 1..N : calls[i] \in Calls
    BY LenProperties, ElementOfSeq
  <1>2. new \in Configs
    BY DEF new, Configs
  <1>3. D \in [Nat -> [Configs -> Configs]]
    BY <1>1, CallIs
  <1>4. PICK g \in [P -> Configs] : FoldsOver(g, N, new, D)
    <2> HIDE DEF D
    <2> QED
      BY <1>1, <1>2, <1>3, FoldExists
  <1>5. Good(g)
    <2> SUFFICES ASSUME NEW s \in P
                 PROVE  g[s] = IF s = {} THEN new ELSE CallOn(g[s \ {Max(s)}], calls[Max(s)])
      BY <1>4
    <2>1. CASE s = {}
      BY <1>4, <2>1 DEF FoldsOver
    <2>2. CASE s # {}
      <3>1. Max(s) \in 1..N /\ s \ {Max(s)} \in P
        BY <1>1, <2>2, MaxIs
      <3>2. g[s \ {Max(s)}] \in Configs
        BY <1>4, <3>1
      <3>3. g[s] = D[Max(s)][g[s \ {Max(s)}]]
        BY <1>4, <2>2 DEF FoldsOver
      <3> QED
        BY <1>1, <2>2, <3>1, <3>2, <3>3
    <2> QED
      BY <2>1, <2>2
  <1> DEFINE iter == CHOOSE f : Good(f)
             h == [k \in 0..N |-> iter[1..k]]
  <1>6. Good(iter)
    <2> HIDE DEF Good
    <2> QED
      BY <1>5
  <1>7. Build(calls) = iter[1..N]
    BY <1>1 DEF Build, FoldLeft, MapThenFoldSet
  <1> HIDE DEF iter
  <1>8. h[0] = new
    <2>1. 1..0 = {} /\ 1..0 \in P
      OBVIOUS
    <2> QED
      BY <1>1, <1>6, <2>1
  <1>9. ASSUME NEW k \in 1..N PROVE h[k] = CallOn(h[k - 1], calls[k])
    <2>1. 1..k \in P /\ 1..k # {} /\ Max(1..k) = k /\ (1..k) \ {Max(1..k)} = 1..(k - 1)
      BY <1>1, FirstNumbers
    <2>2. iter[1..k] = CallOn(iter[(1..k) \ {Max(1..k)}], calls[Max(1..k)])
      BY <1>6, <2>1
    <2>3. h[k] = iter[1..k] /\ h[k - 1] = iter[1..(k - 1)]
      BY <1>1
    <2> QED
      BY <2>1, <2>2, <2>3
  <1>10. Build(calls) = h[N]
    BY <1>1, <1>7
  <1> HIDE DEF h
  <1> DEFINE G == {k \in 0..N : h[k] \in Configs}
  <1>11. 0 \in G
    BY <1>1, <1>2, <1>8
  <1>12. ASSUME NEW k \in 1..N, k - 1 \in G PROVE k \in G
    <2>1. h[k - 1] \in Configs /\ calls[k] \in Calls
      BY <1>1, <1>12
    <2>2. CallOn(h[k - 1], calls[k]) \in Configs
      BY <2>1, CallIs
    <2> QED
      BY <1>9, <2>2
  <1>13. 0..N \subseteq G
    <2> HIDE DEF G
    <2> QED
      BY <1>1, <1>11, <1>12, UpTo
  <1> QED
    BY <1>8, <1>9, <1>10, <1>13 DEF Chain

\* v takes the values of w at the numbers of S.
Overwritten(v, w, N, S) == \A n \in 1..N : v[n] = IF n \in S THEN w[n] ELSE v[n - 1]

\* What was written last stays.
LEMMA LastStays ==
  ASSUME NEW N \in Nat, NEW S \in SUBSET (1..N), NEW v, NEW w, Overwritten(v, w, N, S)
  PROVE  v[N] = IF S = {} THEN v[0] ELSE w[Max(S)]
  <1> DEFINE from == IF S = {} THEN 0 ELSE Max(S)
             G    == {n \in 0..N : n >= from => v[n] = v[from]}
  <1>1. from \in 0..N /\ \A x \in S : x <= from
    <2>1. CASE S = {}
      BY <2>1
    <2>2. CASE S # {}
      <3>1. Max(S) \in S /\ \A x \in S : x <= Max(S)
        BY <2>2, MaxIs
      <3>2. from = Max(S) /\ Max(S) \in 1..N
        BY <2>2, <3>1
      <3> HIDE DEF from
      <3> QED
        BY <3>1, <3>2
    <2> QED
      BY <2>1, <2>2
  <1>2. S # {} => v[from] = w[from] /\ from = Max(S)
    BY MaxIs DEF Overwritten
  <1>3. S = {} => from = 0
    OBVIOUS
  <1> HIDE DEF from
  <1>4. 0 \in G
    BY <1>1
  <1>5. ASSUME NEW n \in 1..N, n - 1 \in G PROVE n \in G
    BY <1>1, <1>5 DEF Overwritten
  <1>6. 0..N \subseteq G
    <2> HIDE DEF G
    <2> QED
      BY <1>4, <1>5, UpTo
  <1> QED
    BY <1>1, <1>2, <1>3, <1>6

\* The last call of a method.
LEMMA LastOfIs ==
  ASSUME NEW calls \in Seq(Calls), NEW method
  PROVE  /\ LastOf(calls, method) =
              IF Called(calls, method) = {} THEN 0 ELSE Max(Called(calls, method))
         /\ Called(calls, method) \in SUBSET (1..Len(calls))
         /\ LastOf(calls, method) # 0 =>
              /\ LastOf(calls, method) \in 1..Len(calls)
              /\ calls[LastOf(calls, method)] \in Calls
              /\ calls[LastOf(calls, method)][1] = method
  <1>1. LastOf(calls, method) =
          IF Called(calls, method) # {} THEN Max(Called(calls, method)) ELSE 0
    BY DEF LastOf, Called, SelectLastInSeq
  <1>2. Called(calls, method) \in SUBSET (1..Len(calls)) /\ Len(calls) \in Nat
    BY LenProperties DEF Called
  <1>3. ASSUME Called(calls, method) # {}
        PROVE  Max(Called(calls, method)) \in Called(calls, method)
    BY <1>2, <1>3, MaxIs
  <1>4. \A i \in Called(calls, method) :
          i \in 1..Len(calls) /\ i # 0 /\ calls[i] \in Calls /\ calls[i][1] = method
    BY ElementOfSeq DEF Called
  <1> QED
    BY <1>1, <1>2, <1>3, <1>4

\* What a chain of calls leads to: for each parameter the argument of the last
\* call that sets it.
LEMMA BuildIs ==
  ASSUME NEW calls \in Seq(Calls)
  PROVE  LET c       == Build(calls)
             At(m) == LastOf(calls, m)
         IN  /\ c \in Configs
             /\ c.nodelay = IF At("nodelay") = 0 THEN {} ELSE {calls[At("nodelay")][2]}
             /\ c.recv_buf = IF At("recv_buf") = 0 THEN {} ELSE {calls[At("recv_buf")][2]}
             /\ c.send_buf = IF At("send_buf") = 0 THEN {} ELSE {calls[At("send_buf")][2]}
             /\ c.autoclose_secs =
                  IF At("autoclose") = 0 THEN {} ELSE {calls[At("autoclose")][2]}
             /\ c.init = {} \/ c.init = {GetOrInsert(c.init)}
             /\ GetOrInsert(c.init) =
                  [out_streams    |-> IF At("streams") = 0 THEN 0 ELSE calls[At("streams")][2],
                   max_in_streams |-> IF At("streams") = 0 THEN 0 ELSE calls[At("streams")][3],
                   max_attempts   |-> IF At("init_retransmit") = 0 THEN 0
                                      ELSE calls[At("init_retransmit")][2],
                   max_init_timeo |-> IF At("init_retransmit") = 0 THEN 0
                                      ELSE calls[At("init_retransmit")][3]]
  <1> DEFINE N == Len(calls)
             C(m) == Called(calls, m)
             At(m) == LastOf(calls, m)
  <1>1. PICK h : Chain(h, calls)
    BY BuildSteps
  <1>2. N \in Nat /\ \A i \in 1..N : calls[i] \in Calls
    BY LenProperties, ElementOfSeq
  <1>3. /\ h[0] = new /\ Build(calls) = h[N] /\ h[N] \in Configs
        /\ \A k \in 1..N : /\ h[k] = CallOn(h[k - 1], calls[k])
                           /\ h[k - 1] \in Configs /\ h[k] \in Configs
    BY <1>1, <1>2 DEF Chain
  <1>4. \A m : /\ C(m) \in SUBSET (1..N)
               /\ \A k \in 1..N : k \in C(m) <=> calls[k][1] = m
               /\ At(m) = IF C(m) = {} THEN 0 ELSE Max(C(m))
               /\ C(m) # {} => Max(C(m)) \in 1..N
    BY <1>2, LastOfIs, MaxIs DEF Called
  <1> HIDE DEF C, At
  <1>5. ASSUME NEW f, NEW m, new[f] = {},
               \A c \in Configs : \A call \in Calls :
                 CallOn(c, call)[f] = IF call[1] = m THEN {call[2]} ELSE c[f]
        PROVE  Build(calls)[f] = IF At(m) = 0 THEN {} ELSE {calls[At(m)][2]}
    <2> DEFINE v == [k \in 0..N |-> h[k][f]]
               w == [k \in 1..N |-> {calls[k][2]}]
    <2>1. ASSUME NEW k \in 1..N PROVE v[k] = IF k \in C(m) THEN w[k] ELSE v[k - 1]
      <3>1. v[k] = h[k][f] /\ v[k - 1] = h[k - 1][f] /\ w[k] = {calls[k][2]}
        BY <1>2
      <3>2. h[k][f] = IF calls[k][1] = m THEN {calls[k][2]} ELSE h[k - 1][f]
        <4>1. h[k] = CallOn(h[k - 1], calls[k]) /\ h[k - 1] \in Configs /\ calls[k] \in Calls
          BY <1>2, <1>3
        <4>2. CallOn(h[k - 1], calls[k])[f] =
                IF calls[k][1] = m THEN {calls[k][2]} ELSE h[k - 1][f]
          BY <1>5, <4>1, Zenon
        <4> QED
          BY <4>1, <4>2
      <3> QED
        BY <1>4, <3>1, <3>2
    <2>2. v[0] = {} /\ v[N] = h[N][f]
      BY <1>2, <1>3, <1>5
    <2>3. C(m) # {} => w[Max(C(m))] = {calls[Max(C(m))][2]} /\ Max(C(m)) # 0
      BY <1>4
    <2> HIDE DEF v, w
    <2>4. v[N] = IF C(m) = {} THEN v[0] ELSE w[Max(C(m))]
      <3> DEFINE S == C(m)
      <3>1. N \in Nat /\ S \in SUBSET (1..N)
        BY <1>2, <1>4
      <3>2. Overwritten(v, w, N, S)
        BY <2>1 DEF Overwritten
      <3> HIDE DEF S, N
      <3>3. v[N] = IF S = {} THEN v[0] ELSE w[Max(S)]
        BY <3>1, <3>2, LastStays
      <3> QED
        BY <3>3 DEF S
    <2> QED
      BY <1>3, <1>4, <2>2, <2>3, <2>4
  <1> DEFINE SetBy(f, m, i) ==
               /\ NoInit[f] = 0
               /\ \A c \in Configs : \A call \in Calls :
                    GetOrInsert(CallOn(c, call).init)[f] =
                      IF call[1] = m THEN call[i] ELSE GetOrInsert(c.init)[f]
  <1>6. ASSUME NEW f, NEW m, NEW i, SetBy(f, m, i)
        PROVE  GetOrInsert(Build(calls).init)[f] = IF At(m) = 0 THEN 0 ELSE calls[At(m)][i]
    <2> DEFINE v == [k \in 0..N |-> GetOrInsert(h[k].init)[f]]
               w == [k \in 1..N |-> calls[k][i]]
    <2>1. ASSUME NEW k \in 1..N PROVE v[k] = IF k \in C(m) THEN w[k] ELSE v[k - 1]
      <3>1. /\ v[k] = GetOrInsert(h[k].init)[f]
            /\ v[k - 1] = GetOrInsert(h[k - 1].init)[f]
            /\ w[k] = calls[k][i]
        BY <1>2
      <3>2. GetOrInsert(h[k].init)[f] =
              IF calls[k][1] = m THEN calls[k][i] ELSE GetOrInsert(h[k - 1].init)[f]
        <4>1. h[k] = CallOn(h[k - 1], calls[k]) /\ h[k - 1] \in Configs /\ calls[k] \in Calls
          BY <1>2, <1>3
        <4>2. GetOrInsert(CallOn(h[k - 1], calls[k]).init)[f] =
                IF calls[k][1] = m THEN calls[k][i] ELSE GetOrInsert(h[k - 1].init)[f]
          BY <1>6, <4>1, Zenon
        <4> QED
          BY <4>1, <4>2
      <3> QED
        BY <1>4, <3>1, <3>2
    <2>2. v[0] = 0 /\ v[N] = GetOrInsert(h[N].init)[f]
      <3>1. GetOrInsert(new.init) = NoInit
        BY GetOrInsertIs DEF new
      <3> QED
        BY <1>2, <1>3, <1>6, <3>1
    <2>3. C(m) # {} => w[Max(C(m))] = calls[Max(C(m))][i] /\ Max(C(m)) # 0
      BY <1>4
    <2> HIDE DEF v, w
    <2>4. v[N] = IF C(m) = {} THEN v[0] ELSE w[Max(C(m))]
      <3> DEFINE S == C(m)
      <3>1. N \in Nat /\ S \in SUBSET (1..N)
        BY <1>2, <1>4
      <3>2. Overwritten(v, w, N, S)
        BY <2>1 DEF Overwritten
      <3> HIDE DEF S, N
      <3>3. v[N] = IF S = {} THEN v[0] ELSE w[Max(S)]
        BY <3>1, <3>2, LastStays
      <3> QED
        BY <3>3 DEF S
    <2> QED
      BY <1>3, <1>4, <2>2, <2>3, <2>4
  <1>7. /\ Build(calls).nodelay = IF At("nodelay") = 0 THEN {} ELSE {calls[At("nodelay")][2]}
        /\ Build(calls).recv_buf = IF At("recv_buf") = 0 THEN {} ELSE {calls[At("recv_buf")][2]}
        /\ Build(calls).send_buf = IF At("send_buf") = 0 THEN {} ELSE {calls[At("send_buf")][2]}
        /\ Build(calls).autoclose_secs =
             IF At("autoclose") = 0 THEN {} ELSE {calls[At("autoclose")][2]}
    <2>1. new.nodelay = {} /\ new.recv_buf = {} /\ new.send_buf = {} /\ new.autoclose_secs = {}
      BY DEF new
    <2>2. Build(calls).nodelay =
            IF At("nodelay") = 0 THEN {} ELSE {calls[At("nodelay")][2]}
      <3>1. \A c \in Configs : \A call \in Calls :
              CallOn(c, call).nodelay = IF call[1] = "nodelay" THEN {call[2]} ELSE c.nodelay
        BY CallIs
      <3> QED
        BY <1>5, <2>1, <3>1
    <2>3. Build(calls).recv_buf =
            IF At("recv_buf") = 0 THEN {} ELSE {calls[At("recv_buf")][2]}
      <3>1. \A c \in Configs : \A call \in Calls :
              CallOn(c, call).recv_buf = IF call[1] = "recv_buf" THEN {call[2]} ELSE c.recv_buf
        BY CallIs
      <3> QED
        BY <1>5, <2>1, <3>1
    <2>4. Build(calls).send_buf =
            IF At("send_buf") = 0 THEN {} ELSE {calls[At("send_buf")][2]}
      <3>1. \A c \in Configs : \A call \in Calls :
              CallOn(c, call).send_buf = IF call[1] = "send_buf" THEN {call[2]} ELSE c.send_buf
        BY CallIs
      <3> QED
        BY <1>5, <2>1, <3>1
    <2>5. Build(calls).autoclose_secs =
            IF At("autoclose") = 0 THEN {} ELSE {calls[At("autoclose")][2]}
      <3>1. \A c \in Configs : \A call \in Calls :
              CallOn(c, call).autoclose_secs =
                IF call[1] = "autoclose" THEN {call[2]} ELSE c.autoclose_secs
        BY CallIs
      <3> QED
        BY <1>5, <2>1, <3>1
    <2> QED
      BY <2>2, <2>3, <2>4, <2>5
  <1>8. Build(calls).init = {} \/ Build(calls).init = {GetOrInsert(Build(calls).init)}
    <2> DEFINE G == {k \in 0..N : h[k].init = {} \/ h[k].init = {GetOrInsert(h[k].init)}}
    <2>1. 0 \in G
      BY <1>2, <1>3 DEF new
    <2>2. ASSUME NEW k \in 1..N, k - 1 \in G PROVE k \in G
      <3>1. h[k] = CallOn(h[k - 1], calls[k]) /\ h[k - 1] \in Configs /\ calls[k] \in Calls
        BY <1>2, <1>3
      <3>2. h[k].init = h[k - 1].init \/ \E i : h[k].init = {i}
        <4>1. CASE calls[k][1] \in {"streams", "init_retransmit"}
          BY <3>1, <4>1 DEF CallOn, streams, init_retransmit, Configs
        <4>2. CASE calls[k][1] \notin {"streams", "init_retransmit"}
          BY <3>1, <4>2, CallsAre DEF CallOn, Configs
        <4> QED
          BY <4>1, <4>2
      <3>3. CASE h[k].init = h[k - 1].init
        BY <2>2, <3>3
      <3>4. CASE \E i : h[k].init = {i}
        <4>1. PICK i : h[k].init = {i}
          BY <3>4
        <4>2. GetOrInsert({i}) = i
          BY GetOrInsertIs
        <4>3. h[k].init = {GetOrInsert(h[k].init)}
          BY <4>1, <4>2, Zenon
        <4> QED
          BY <4>3
      <3> QED
        BY <3>2, <3>3, <3>4
    <2>3. 0..N \subseteq G
      <3> HIDE DEF G
      <3> QED
        BY <1>2, <2>1, <2>2, UpTo
    <2> QED
      BY <1>2, <1>3, <2>3
  <1>9. \A c \in Configs : \A call \in Calls : GetOrInsert(CallOn(c, call).init) =
          CASE call[1] = "streams" ->
                 [GetOrInsert(c.init) EXCEPT !.out_streams = call[2], !.max_in_streams = call[3]]
            [] call[1] = "init_retransmit" ->
                 [GetOrInsert(c.init) EXCEPT !.max_attempts = call[2], !.max_init_timeo = call[3]]
            [] OTHER -> GetOrInsert(c.init)
    BY CallIs, GetOrInsertIs
  <1>10. \A c \in Configs : GetOrInsert(c.init) \in InitMsgs
    BY GetOrInsertIs DEF Configs
  <1>11. \A c \in Configs : \A call \in Calls :
           LET i == GetOrInsert(c.init)
               j == GetOrInsert(CallOn(c, call).init)
           IN  /\ j.out_streams = IF call[1] = "streams" THEN call[2] ELSE i.out_streams
               /\ j.max_in_streams = IF call[1] = "streams" THEN call[3] ELSE i.max_in_streams
               /\ j.max_attempts = IF call[1] = "init_retransmit" THEN call[2] ELSE i.max_attempts
               /\ j.max_init_timeo =
                    IF call[1] = "init_retransmit" THEN call[3] ELSE i.max_init_timeo
    <2> SUFFICES ASSUME NEW c \in Configs, NEW call \in Calls
                 PROVE
            LET i == GetOrInsert(c.init)
                k == GetOrInsert(CallOn(c, call).init)
            IN  /\ k.out_streams = IF call[1] = "streams" THEN call[2] ELSE i.out_streams
                /\ k.max_in_streams = IF call[1] = "streams" THEN call[3] ELSE i.max_in_streams
                /\ k.max_attempts = IF call[1] = "init_retransmit" THEN call[2] ELSE i.max_attempts
                /\ k.max_init_timeo =
                     IF call[1] = "init_retransmit" THEN call[3] ELSE i.max_init_timeo
      OBVIOUS
    <2>1. GetOrInsert(c.init) \in InitMsgs
      BY <1>10
    <2>2. CASE call[1] = "streams"
      BY <1>9, <2>1, <2>2 DEF InitMsgs
    <2>3. CASE call[1] = "init_retransmit"
      BY <1>9, <2>1, <2>3 DEF InitMsgs
    <2>4. CASE call[1] \notin {"streams", "init_retransmit"}
      BY <1>9, <2>1, <2>4
    <2> QED
      BY <2>2, <2>3, <2>4
  <1> DEFINE j == GetOrInsert(Build(calls).init)
  <1>12. /\ j.out_streams = (IF At("streams") = 0 THEN 0 ELSE calls[At("streams")][2])
         /\ j.max_in_streams = (IF At("streams") = 0 THEN 0 ELSE calls[At("streams")][3])
         /\ j.max_attempts =
              (IF At("init_retransmit") = 0 THEN 0 ELSE calls[At("init_retransmit")][2])
         /\ j.max_init_timeo =
              (IF At("init_retransmit") = 0 THEN 0 ELSE calls[At("init_retransmit")][3])
    <2>1. /\ NoInit.out_streams = 0 /\ NoInit.max_in_streams = 0
          /\ NoInit.max_attempts = 0 /\ NoInit.max_init_timeo = 0
      BY DEF NoInit
    <2>2. j.out_streams = (IF At("streams") = 0 THEN 0 ELSE calls[At("streams")][2])
      <3>1. SetBy("out_streams", "streams", 2)
        BY <1>11, <2>1
      <3> HIDE DEF SetBy
      <3> QED
        BY <1>6, <3>1
    <2>3. j.max_in_streams = (IF At("streams") = 0 THEN 0 ELSE calls[At("streams")][3])
      <3>1. SetBy("max_in_streams", "streams", 3)
        BY <1>11, <2>1
      <3> HIDE DEF SetBy
      <3> QED
        BY <1>6, <3>1
    <2>4. j.max_attempts =
            (IF At("init_retransmit") = 0 THEN 0 ELSE calls[At("init_retransmit")][2])
      <3>1. SetBy("max_attempts", "init_retransmit", 2)
        BY <1>11, <2>1
      <3> HIDE DEF SetBy
      <3> QED
        BY <1>6, <3>1
    <2>5. j.max_init_timeo =
            (IF At("init_retransmit") = 0 THEN 0 ELSE calls[At("init_retransmit")][3])
      <3>1. SetBy("max_init_timeo", "init_retransmit", 3)
        BY <1>11, <2>1
      <3> HIDE DEF SetBy
      <3> QED
        BY <1>6, <3>1
    <2> QED
      BY <2>2, <2>3, <2>4, <2>5
  <1>13. Build(calls) \in Configs /\ j \in InitMsgs
    BY <1>3, <1>10
  <1>14. j = [out_streams |-> j.out_streams, max_in_streams |-> j.max_in_streams,
              max_attempts |-> j.max_attempts, max_init_timeo |-> j.max_init_timeo]
    BY <1>13 DEF InitMsgs
  <1> HIDE DEF j
  <1>15. j = [out_streams    |-> IF At("streams") = 0 THEN 0 ELSE calls[At("streams")][2],
              max_in_streams |-> IF At("streams") = 0 THEN 0 ELSE calls[At("streams")][3],
              max_attempts   |-> IF At("init_retransmit") = 0 THEN 0
                                 ELSE calls[At("init_retransmit")][2],
              max_init_timeo |-> IF At("init_retransmit") = 0 THEN 0
                                 ELSE calls[At("init_retransmit")][3]]
    BY <1>12, <1>14
  <1> QED
    BY <1>7, <1>8, <1>13, <1>15 DEF j, At

-----------------------------------------------------------------------------
(* The options of the socket.                                              *)

OptionRecords == [init : InitMsgs, nodelay : Int, rcvbuf : Int, sndbuf : Int, autoclose : Int]

\* An option and its value, as apply hands them to the kernel.
OptionValues ==
  ({"SCTP_INITMSG"} \X InitMsgs)
  \cup ({"SCTP_NODELAY", "SO_RCVBUF", "SO_SNDBUF", "SCTP_AUTOCLOSE"} \X Int)

\* Of two numbers.
LEMMA MaxMinOfTwo ==
  ASSUME NEW a \in Int, NEW b \in Int
  PROVE  /\ Max({a, b}) \in Int /\ Min({a, b}) \in Int
         /\ Max({a, b}) = IF a >= b THEN a ELSE b
         /\ Min({a, b}) = IF a <= b THEN a ELSE b
  <1>1. Max({a, b}) = IF a >= b THEN a ELSE b
    BY DEF Max
  <1>2. Min({a, b}) = IF a <= b THEN a ELSE b
    BY DEF Min
  <1> QED
    BY <1>1, <1>2

\* Setting an option.
LEMMA SetOptionTyped ==
  ASSUME NEW r \in OptionRecords, NEW o \in OptionValues
  PROVE  SetOption(r, o) \in OptionRecords
  <1> DEFINE M == 2^IntBits
  <1>1. M \in Nat \ {0} /\ BufLimit \in Int /\ BufFloor \in Int /\ AutocloseLimit \in Int
    BY IntBitsAssumption, LimitsAssumption
  <1> HIDE DEF M
  <1>2. \A n \in Int : n % M \in Int
    BY <1>1
  <1>3. \A n \in Int : Unsigned(n) \in Int
    BY <1>2 DEF Unsigned, M
  <1>4. \A n \in Int : BufferOf(n) \in Int
    <2> TAKE n \in Int
    <2>1. Min({Unsigned(n), BufLimit}) \in Int
      BY <1>1, <1>3, MaxMinOfTwo
    <2>2. 2 * Min({Unsigned(n), BufLimit}) \in Int
      BY <2>1
    <2> QED
      BY <1>1, <2>2, MaxMinOfTwo DEF BufferOf
  <1>5. \A n \in Int : Min({Unsigned(n), AutocloseLimit}) \in Int
    BY <1>1, <1>3, MaxMinOfTwo
  <1>6. CASE o \in {"SCTP_INITMSG"} \X InitMsgs
    <2>1. o[1] = "SCTP_INITMSG" /\ o[2] \in InitMsgs /\ r.init \in InitMsgs
      BY <1>6 DEF OptionRecords
    <2>2. [f \in DOMAIN r.init |-> IF o[2][f] = 0 THEN r.init[f] ELSE o[2][f]] \in InitMsgs
      BY <2>1 DEF InitMsgs
    <2>3. SetOption(r, o) =
            [r EXCEPT !.init = [f \in DOMAIN r.init |-> IF o[2][f] = 0 THEN r.init[f] ELSE o[2][f]]]
      BY <2>1 DEF SetOption
    <2> QED
      BY <2>2, <2>3 DEF OptionRecords
  <1>7. CASE o \in {"SCTP_NODELAY", "SO_RCVBUF", "SO_SNDBUF", "SCTP_AUTOCLOSE"} \X Int
    <2>1. o[1] \in {"SCTP_NODELAY", "SO_RCVBUF", "SO_SNDBUF", "SCTP_AUTOCLOSE"} /\ o[2] \in Int
      BY <1>7
    <2>2. CASE o[1] = "SCTP_NODELAY"
      BY <2>1, <2>2 DEF SetOption, OptionRecords
    <2>3. CASE o[1] = "SO_RCVBUF"
      BY <1>4, <2>1, <2>3 DEF SetOption, OptionRecords
    <2>4. CASE o[1] = "SO_SNDBUF"
      BY <1>4, <2>1, <2>4 DEF SetOption, OptionRecords
    <2>5. CASE o[1] = "SCTP_AUTOCLOSE"
      BY <1>5, <2>1, <2>5 DEF SetOption, OptionRecords
    <2> QED
      BY <2>1, <2>2, <2>3, <2>4, <2>5
  <1> QED
    BY <1>6, <1>7 DEF OptionValues

\* h holds the options that the calls of setsockopt go through.
Setting(h, r, os) ==
  /\ h[0] = r
  /\ \A k \in 1..Len(os) : h[k] = SetOption(h[k - 1], os[k])
  /\ FoldLeft(SetOption, r, os) = h[Len(os)]

\* The fold of the options goes through them.
LEMMA SettingSteps ==
  ASSUME NEW r \in OptionRecords, NEW os \in Seq(OptionValues)
  PROVE  \E h : Setting(h, r, os) /\ h[Len(os)] \in OptionRecords
  <1> DEFINE N == Len(os)
             P == SUBSET (1..N)
             Good(g) == g = [s \in P |-> IF s = {} THEN r
                                         ELSE SetOption(g[s \ {Max(s)}], os[Max(s)])]
             D == [n \in Nat |-> [c \in OptionRecords |->
                     IF n \in 1..N THEN SetOption(c, os[n]) ELSE c]]
  <1>1. N \in Nat /\ DOMAIN os = 1..N /\ \A i \in 1..N : os[i] \in OptionValues
    BY LenProperties, ElementOfSeq
  <1>3. D \in [Nat -> [OptionRecords -> OptionRecords]]
    BY <1>1, SetOptionTyped
  <1>4. PICK g \in [P -> OptionRecords] : FoldsOver(g, N, r, D)
    <2> HIDE DEF D
    <2> QED
      BY <1>1, <1>3, FoldExists
  <1>5. Good(g)
    <2> SUFFICES ASSUME NEW s \in P
                 PROVE  g[s] = IF s = {} THEN r ELSE SetOption(g[s \ {Max(s)}], os[Max(s)])
      BY <1>4
    <2>1. CASE s = {}
      BY <1>4, <2>1 DEF FoldsOver
    <2>2. CASE s # {}
      <3>1. Max(s) \in 1..N /\ s \ {Max(s)} \in P
        BY <1>1, <2>2, MaxIs
      <3>2. g[s \ {Max(s)}] \in OptionRecords
        BY <1>4, <3>1
      <3>3. g[s] = D[Max(s)][g[s \ {Max(s)}]]
        BY <1>4, <2>2 DEF FoldsOver
      <3> QED
        BY <1>1, <2>2, <3>1, <3>2, <3>3
    <2> QED
      BY <2>1, <2>2
  <1> DEFINE iter == CHOOSE f : Good(f)
             h == [k \in 0..N |-> iter[1..k]]
  <1>6. Good(iter)
    <2> HIDE DEF Good
    <2> QED
      BY <1>5
  <1>7. FoldLeft(SetOption, r, os) = iter[1..N]
    BY <1>1 DEF FoldLeft, MapThenFoldSet
  <1> HIDE DEF iter
  <1>8. h[0] = r
    <2>1. 1..0 = {} /\ 1..0 \in P
      OBVIOUS
    <2> QED
      BY <1>1, <1>6, <2>1
  <1>9. ASSUME NEW k \in 1..N PROVE h[k] = SetOption(h[k - 1], os[k])
    <2>1. 1..k \in P /\ 1..k # {} /\ Max(1..k) = k /\ (1..k) \ {Max(1..k)} = 1..(k - 1)
      BY <1>1, FirstNumbers
    <2>2. iter[1..k] = SetOption(iter[(1..k) \ {Max(1..k)}], os[Max(1..k)])
      BY <1>6, <2>1
    <2>3. h[k] = iter[1..k] /\ h[k - 1] = iter[1..(k - 1)]
      BY <1>1
    <2> QED
      BY <2>1, <2>2, <2>3
  <1>10. FoldLeft(SetOption, r, os) = h[N]
    BY <1>1, <1>7
  <1> HIDE DEF h
  <1> DEFINE G == {k \in 0..N : h[k] \in OptionRecords}
  <1>11. 0 \in G
    BY <1>1, <1>8
  <1>12. ASSUME NEW k \in 1..N, k - 1 \in G PROVE k \in G
    <2>1. h[k - 1] \in OptionRecords /\ os[k] \in OptionValues
      BY <1>1, <1>12
    <2>2. SetOption(h[k - 1], os[k]) \in OptionRecords
      BY <2>1, SetOptionTyped
    <2> QED
      BY <1>9, <2>2
  <1>13. 0..N \subseteq G
    <2> HIDE DEF G
    <2> QED
      BY <1>1, <1>11, <1>12, UpTo
  <1> QED
    BY <1>1, <1>8, <1>9, <1>10, <1>13 DEF Setting

\* One more option is set after the others.
LEMMA SettingAppend ==
  ASSUME NEW r \in OptionRecords, NEW os \in Seq(OptionValues), NEW o \in OptionValues
  PROVE  FoldLeft(SetOption, r, os \o <<o>>) = SetOption(FoldLeft(SetOption, r, os), o)
  <1> DEFINE N  == Len(os)
             os2 == os \o <<o>>
  <1>1. /\ os2 \in Seq(OptionValues) /\ Len(os2) = N + 1 /\ N \in Nat
        /\ os2[N + 1] = o /\ \A k \in 1..N : os2[k] = os[k]
    BY ConcatProperties, LenProperties
  <1> HIDE DEF os2
  <1>2. PICK h : Setting(h, r, os)
    BY SettingSteps
  <1>3. PICK g : Setting(g, r, os2)
    BY <1>1, SettingSteps
  <1> DEFINE G == {k \in 0..N : g[k] = h[k]}
  <1>4. 0 \in G
    BY <1>1, <1>2, <1>3 DEF Setting
  <1>5. ASSUME NEW k \in 1..N, k - 1 \in G PROVE k \in G
    <2>1. g[k] = SetOption(g[k - 1], os2[k])
      BY <1>1, <1>3 DEF Setting
    <2>2. h[k] = SetOption(h[k - 1], os[k])
      BY <1>2 DEF Setting
    <2> QED
      BY <1>1, <1>5, <2>1, <2>2
  <1>6. 0..N \subseteq G
    <2> HIDE DEF G
    <2> QED
      BY <1>1, <1>4, <1>5, UpTo
  <1>7. g[N] = h[N]
    BY <1>1, <1>6
  <1>8. g[N + 1] = SetOption(g[N], o)
    BY <1>1, <1>3 DEF Setting
  <1> QED
    BY <1>1, <1>2, <1>3, <1>7, <1>8 DEF Setting, os2

\* No option is set.
LEMMA SettingEmpty ==
  ASSUME NEW r \in OptionRecords
  PROVE  FoldLeft(SetOption, r, <<>>) = r
  <1>1. <<>> \in Seq(OptionValues) /\ Len(<<>>) = 0
    OBVIOUS
  <1>2. PICK h : Setting(h, r, <<>>)
    BY <1>1, SettingSteps
  <1> QED
    BY <1>1, <1>2 DEF Setting

\* An option that is given or not.
LEMMA OptionSeq ==
  /\ SetToSeq({}) = <<>>
  /\ \A x : SetToSeq({x}) = <<x>>
  <1>1. SetToSeq({}) = <<>>
    <2>1. Cardinality({}) = 0 /\ 1..0 = {}
      BY FS_EmptySet
    <2>2. ASSUME NEW f PROVE f \in [{} -> {}] <=> f = <<>>
      <3>1. f \in [{} -> {}] => f = <<>>
        OBVIOUS
      <3>2. <<>> \in [{} -> {}]
        OBVIOUS
      <3> QED
        BY <3>1, <3>2
    <2>3. IsInjective(<<>>)
      BY DEF IsInjective
    <2> QED
      BY <2>1, <2>2, <2>3 DEF SetToSeq
  <1>2. ASSUME NEW x PROVE SetToSeq({x}) = <<x>>
    <2>1. Cardinality({x}) = 1 /\ 1..1 = {1}
      BY FS_Singleton
    <2>2. ASSUME NEW f PROVE f \in [{1} -> {x}] <=> f = <<x>>
      <3>1. <<x>> = [i \in {1} |-> x]
        BY <2>1
      <3> QED
        BY <3>1
    <2>3. IsInjective(<<x>>)
      BY DEF IsInjective
    <2> QED
      BY <2>1, <2>2, <2>3 DEF SetToSeq
  <1> QED
    BY <1>1, <1>2

AtMostOne(V) == V = {} \/ \E x : V = {x}

\* The options of a part of apply.
Part(name, V) == SetToSeq({<<name, v>> : v \in V})

IsPart(name, V) == AtMostOne(V) /\ \A v \in V : <<name, v>> \in OptionValues

\* From r on, the part sets its option after those of os, or none.
SetsAfter(r, os, name, V) ==
  /\ os \o Part(name, V) \in Seq(OptionValues)
  /\ FoldLeft(SetOption, r, os) \in OptionRecords
  /\ V = {} => /\ Part(name, V) = <<>>
               /\ FoldLeft(SetOption, r, os \o Part(name, V)) = FoldLeft(SetOption, r, os)
  /\ \A v : V = {v} =>
       /\ Part(name, V) = <<<<name, v>>>>
       /\ FoldLeft(SetOption, r, os \o Part(name, V)) =
            SetOption(FoldLeft(SetOption, r, os), <<name, v>>)

\* One part more of apply sets one option or none.
LEMMA PartSets ==
  ASSUME NEW r \in OptionRecords, NEW os \in Seq(OptionValues), NEW name, NEW V,
         IsPart(name, V)
  PROVE  SetsAfter(r, os, name, V)
  <1>0. AtMostOne(V) /\ \A v \in V : <<name, v>> \in OptionValues
    BY DEF IsPart
  <1>1. FoldLeft(SetOption, r, os) \in OptionRecords
    BY SettingSteps DEF Setting
  <1>2. CASE V = {}
    <2>1. {<<name, v>> : v \in V} = {}
      BY <1>2
    <2>2. Part(name, V) = <<>>
      BY <2>1, OptionSeq DEF Part
    <2>3. os \o <<>> = os
      BY ConcatEmptySeq
    <2> QED
      BY <1>1, <1>2, <2>2, <2>3 DEF SetsAfter
  <1>3. ASSUME NEW v, V = {v}
        PROVE  /\ os \o Part(name, V) \in Seq(OptionValues)
               /\ Part(name, V) = <<<<name, v>>>>
               /\ FoldLeft(SetOption, r, os \o Part(name, V)) =
                    SetOption(FoldLeft(SetOption, r, os), <<name, v>>)
    <2>1. {<<name, u>> : u \in V} = {<<name, v>>}
      BY <1>3
    <2>2. Part(name, V) = <<<<name, v>>>>
      BY <2>1, OptionSeq DEF Part
    <2>3. <<name, v>> \in OptionValues
      BY <1>0, <1>3
    <2>4. os \o <<<<name, v>>>> \in Seq(OptionValues)
      BY <2>3
    <2> QED
      BY <2>2, <2>3, <2>4, SettingAppend
  <1> QED
    BY <1>0, <1>1, <1>2, <1>3 DEF AtMostOne, SetsAfter

\* `as c_int`, and back as the kernel reads it: the low bits.
LEMMA CIntIs ==
  ASSUME NEW n \in Nat
  PROVE  /\ CInt(n) \in Int
         /\ Unsigned(CInt(n)) = n % 2^IntBits
         /\ n < 2^IntBits => Unsigned(CInt(n)) = n
  <1> DEFINE M == 2^IntBits
  <1>1. M \in Nat \ {0}
    BY IntBitsAssumption
  <1>2. CInt(n) = IF n % M >= 2^(IntBits - 1) THEN (n % M) - M ELSE n % M
    BY DEF CInt
  <1> HIDE DEF M
  <1>3. n % M \in 0..M - 1 /\ (n < M => n % M = n)
    BY <1>1
  <1>4. \A x \in 0..M - 1 : x % M = x /\ (x - M) % M = x
    BY <1>1
  <1>5. CInt(n) = (n % M) - M \/ CInt(n) = n % M
    BY <1>2
  <1>6. CInt(n) % M = n % M
    BY <1>3, <1>4, <1>5
  <1>7. CInt(n) \in Int
    BY <1>1, <1>3, <1>5
  <1> QED
    BY <1>3, <1>6, <1>7 DEF Unsigned, M

\* The options e are those of r but for what the configuration c gives; and the
\* calls of apply include that of an autoclose that is given.
Applied(r, c, e) ==
  /\ e \in OptionRecords
  /\ c.init = {} => e.init = r.init
  /\ \A q : c.init = {q} =>
       e.init = [f \in DOMAIN r.init |-> IF q[f] = 0 THEN r.init[f] ELSE q[f]]
  /\ c.nodelay = {} => e.nodelay = r.nodelay
  /\ \A on : c.nodelay = {on} => e.nodelay = IF on THEN 1 ELSE 0
  /\ c.recv_buf = {} => e.rcvbuf = r.rcvbuf
  /\ \A b : c.recv_buf = {b} => e.rcvbuf = BufferOf(CInt(b))
  /\ c.send_buf = {} => e.sndbuf = r.sndbuf
  /\ \A b : c.send_buf = {b} => e.sndbuf = BufferOf(CInt(b))
  /\ c.autoclose_secs = {} => e.autoclose = r.autoclose
  /\ \A t : c.autoclose_secs = {t} => e.autoclose = Min({Unsigned(CInt(t)), AutocloseLimit})
  /\ c.autoclose_secs # {} => \E i \in DOMAIN apply(c) : apply(c)[i][1] = "SCTP_AUTOCLOSE"

\* What apply leads to, with each option given at most once.
LEMMA ApplyIs ==
  ASSUME NEW r \in OptionRecords, NEW c \in Configs,
         AtMostOne(c.init), AtMostOne(c.nodelay), AtMostOne(c.recv_buf),
         AtMostOne(c.send_buf), AtMostOne(c.autoclose_secs)
  PROVE  Applied(r, c, FoldLeft(SetOption, r, apply(c)))
  <1> DEFINE V2 == {IF on THEN 1 ELSE 0 : on \in c.nodelay}
             V3 == {CInt(b) : b \in c.recv_buf}
             V4s == {CInt(b) : b \in c.send_buf}
             V5 == {CInt(t) : t \in c.autoclose_secs}
             p1 == <<>> \o Part("SCTP_INITMSG", c.init)
             p2 == p1 \o Part("SCTP_NODELAY", V2)
             p3 == p2 \o Part("SO_RCVBUF", V3)
             p4 == p3 \o Part("SO_SNDBUF", V4s)
             p5 == p4 \o Part("SCTP_AUTOCLOSE", V5)
             E(p) == FoldLeft(SetOption, r, p)
  <1>1. /\ c.init \in SUBSET InitMsgs /\ c.nodelay \in SUBSET BOOLEAN /\ c.recv_buf \in SUBSET Nat
        /\ c.send_buf \in SUBSET Nat /\ c.autoclose_secs \in SUBSET Nat
    BY DEF Configs
  <1>2. \A n \in Nat : CInt(n) \in Int
    BY CIntIs
  <1>3. /\ \A v \in c.init : <<"SCTP_INITMSG", v>> \in OptionValues
        /\ \A v \in V2 : <<"SCTP_NODELAY", v>> \in OptionValues
        /\ \A v \in V3 : <<"SO_RCVBUF", v>> \in OptionValues
        /\ \A v \in V4s : <<"SO_SNDBUF", v>> \in OptionValues
        /\ \A v \in V5 : <<"SCTP_AUTOCLOSE", v>> \in OptionValues
    BY <1>1, <1>2 DEF OptionValues
  <1>4. /\ c.nodelay = {} => V2 = {}
        /\ \A on : c.nodelay = {on} => V2 = {IF on THEN 1 ELSE 0}
        /\ c.recv_buf = {} => V3 = {}
        /\ \A b : c.recv_buf = {b} => V3 = {CInt(b)}
        /\ c.send_buf = {} => V4s = {}
        /\ \A b : c.send_buf = {b} => V4s = {CInt(b)}
        /\ c.autoclose_secs = {} => V5 = {}
        /\ \A t : c.autoclose_secs = {t} => V5 = {CInt(t)}
    OBVIOUS
  <1>5. AtMostOne(V2) /\ AtMostOne(V3) /\ AtMostOne(V4s) /\ AtMostOne(V5)
    <2> HIDE DEF V2, V3, V4s, V5
    <2>1. AtMostOne(V2)
      BY <1>4 DEF AtMostOne
    <2>2. AtMostOne(V3)
      BY <1>4 DEF AtMostOne
    <2>3. AtMostOne(V4s)
      BY <1>4 DEF AtMostOne
    <2>4. AtMostOne(V5)
      BY <1>4 DEF AtMostOne
    <2> QED
      BY <2>1, <2>2, <2>3, <2>4
  <1>6. /\ IsPart("SCTP_INITMSG", c.init) /\ IsPart("SCTP_NODELAY", V2)
        /\ IsPart("SO_RCVBUF", V3) /\ IsPart("SO_SNDBUF", V4s) /\ IsPart("SCTP_AUTOCLOSE", V5)
    <2> HIDE DEF V2, V3, V4s, V5
    <2> QED
      BY <1>3, <1>5 DEF IsPart
  <1>7. apply(c) = p5
    <2>1. Part("SCTP_INITMSG", c.init) \in Seq(OptionValues)
      <3>1. SetsAfter(r, <<>>, "SCTP_INITMSG", c.init)
        <4>1. <<>> \in Seq(OptionValues)
          OBVIOUS
        <4> QED
          BY <1>6, <4>1, PartSets
      <3>2. CASE c.init = {}
        BY <3>1, <3>2 DEF SetsAfter
      <3>3. CASE c.init # {}
        <4>1. PICK q : c.init = {q}
          BY <3>3 DEF AtMostOne
        <4>2. Part("SCTP_INITMSG", c.init) = <<<<"SCTP_INITMSG", q>>>>
          BY <3>1, <4>1 DEF SetsAfter
        <4> QED
          BY <1>3, <4>1, <4>2
      <3> QED
        BY <3>2, <3>3
    <2>2. <<>> \o Part("SCTP_INITMSG", c.init) = Part("SCTP_INITMSG", c.init)
      BY <2>1, ConcatEmptySeq
    <2> QED
      BY <2>2 DEF apply, Part
  <1> HIDE DEF V2, V3, V4s, V5
  <1>8. /\ p1 \in Seq(OptionValues)
        /\ c.init = {} => E(p1) = r
        /\ \A v : c.init = {v} => E(p1) = SetOption(r, <<"SCTP_INITMSG", v>>)
    <2>1. SetsAfter(r, <<>>, "SCTP_INITMSG", c.init)
      <3>1. <<>> \in Seq(OptionValues)
        OBVIOUS
      <3> QED
        BY <1>6, <3>1, PartSets
    <2>2. FoldLeft(SetOption, r, <<>>) = r
      BY SettingEmpty
    <2> QED
      BY <2>1, <2>2 DEF SetsAfter
  <1> HIDE DEF p1
  <1>9. /\ p2 \in Seq(OptionValues) /\ E(p1) \in OptionRecords
        /\ V2 = {} => E(p2) = E(p1)
        /\ \A v : V2 = {v} => E(p2) = SetOption(E(p1), <<"SCTP_NODELAY", v>>)
    <2>1. SetsAfter(r, p1, "SCTP_NODELAY", V2)
      BY <1>6, <1>8, PartSets
    <2> QED
      BY <2>1 DEF SetsAfter
  <1> HIDE DEF p2
  <1>10. /\ p3 \in Seq(OptionValues) /\ E(p2) \in OptionRecords
         /\ V3 = {} => E(p3) = E(p2)
         /\ \A v : V3 = {v} => E(p3) = SetOption(E(p2), <<"SO_RCVBUF", v>>)
    <2>1. SetsAfter(r, p2, "SO_RCVBUF", V3)
      BY <1>6, <1>9, PartSets
    <2> QED
      BY <2>1 DEF SetsAfter
  <1> HIDE DEF p3
  <1>11. /\ p4 \in Seq(OptionValues) /\ E(p3) \in OptionRecords
         /\ V4s = {} => E(p4) = E(p3)
         /\ \A v : V4s = {v} => E(p4) = SetOption(E(p3), <<"SO_SNDBUF", v>>)
    <2>1. SetsAfter(r, p3, "SO_SNDBUF", V4s)
      BY <1>6, <1>10, PartSets
    <2> QED
      BY <2>1 DEF SetsAfter
  <1> HIDE DEF p4
  <1>12. /\ p5 \in Seq(OptionValues) /\ E(p4) \in OptionRecords
         /\ V5 = {} => E(p5) = E(p4)
         /\ \A v : V5 = {v} => E(p5) = SetOption(E(p4), <<"SCTP_AUTOCLOSE", v>>)
         /\ \A v : V5 = {v} => Part("SCTP_AUTOCLOSE", V5) = <<<<"SCTP_AUTOCLOSE", v>>>>
    <2>1. SetsAfter(r, p4, "SCTP_AUTOCLOSE", V5)
      BY <1>6, <1>11, PartSets
    <2> QED
      BY <2>1 DEF SetsAfter
  <1>13. E(p5) \in OptionRecords
    <2>1. p5 \in Seq(OptionValues)
      BY <1>12
    <2> HIDE DEF p5
    <2>2. PICK h : Setting(h, r, p5) /\ h[Len(p5)] \in OptionRecords
      BY <2>1, SettingSteps
    <2> QED
      BY <2>2 DEF Setting
  <1>14. c.autoclose_secs # {} => \E i \in DOMAIN p5 : p5[i][1] = "SCTP_AUTOCLOSE"
    <2> SUFFICES ASSUME c.autoclose_secs # {}
                 PROVE  \E i \in DOMAIN p5 : p5[i][1] = "SCTP_AUTOCLOSE"
      OBVIOUS
    <2>1. PICK v : V5 = {v}
      BY <1>4 DEF AtMostOne
    <2>2. p5 = p4 \o <<<<"SCTP_AUTOCLOSE", v>>>>
      BY <1>12, <2>1
    <2>3. Len(p5) = Len(p4) + 1 /\ p5[Len(p4) + 1] = <<"SCTP_AUTOCLOSE", v>> /\ Len(p4) \in Nat
      <3> DEFINE last == <<<<"SCTP_AUTOCLOSE", v>>>>
      <3>1. last \in Seq(OptionValues) /\ Len(last) = 1 /\ last[1] = <<"SCTP_AUTOCLOSE", v>>
        BY <1>3, <2>1
      <3> HIDE DEF last
      <3> QED
        BY <1>11, <2>2, <3>1, ConcatProperties, LenProperties DEF last
    <2>4. DOMAIN p5 = 1..Len(p5)
      BY <1>12, LenProperties
    <2> HIDE DEF p5
    <2>5. Len(p4) + 1 \in DOMAIN p5
      BY <2>3, <2>4
    <2> QED
      BY <2>3, <2>5
  <1> HIDE DEF p5, E
  <1>15. /\ E(p1).nodelay = r.nodelay /\ E(p1).rcvbuf = r.rcvbuf /\ E(p1).sndbuf = r.sndbuf
         /\ E(p1).autoclose = r.autoclose
         /\ c.init = {} => E(p1).init = r.init
         /\ \A q : c.init = {q} => E(p1).init =
              [f \in DOMAIN r.init |-> IF q[f] = 0 THEN r.init[f] ELSE q[f]]
    <2>1. CASE c.init = {}
      BY <1>8, <2>1
    <2>2. CASE c.init # {}
      <3>1. PICK q : c.init = {q}
        BY <2>2 DEF AtMostOne
      <3>2. q \in InitMsgs
        BY <1>1, <3>1
      <3> DEFINE i == [f \in DOMAIN r.init |-> IF q[f] = 0 THEN r.init[f] ELSE q[f]]
      <3>3. E(p1) = [r EXCEPT !.init = i]
        <4>1. E(p1) = SetOption(r, <<"SCTP_INITMSG", q>>)
          BY <1>8, <3>1
        <4> QED
          BY <4>1 DEF SetOption
      <3>4. \A u : c.init = {u} => u = q
        BY <3>1
      <3> HIDE DEF i
      <3>5. /\ E(p1).init = i /\ E(p1).nodelay = r.nodelay /\ E(p1).rcvbuf = r.rcvbuf
            /\ E(p1).sndbuf = r.sndbuf /\ E(p1).autoclose = r.autoclose
        BY <3>3 DEF OptionRecords
      <3> QED
        BY <2>2, <3>4, <3>5 DEF i
    <2> QED
      BY <2>1, <2>2
  <1>16. /\ E(p2).init = E(p1).init /\ E(p2).rcvbuf = E(p1).rcvbuf
         /\ E(p2).sndbuf = E(p1).sndbuf /\ E(p2).autoclose = E(p1).autoclose
         /\ V2 = {} => E(p2).nodelay = E(p1).nodelay
         /\ \A v : V2 = {v} => E(p2).nodelay = v
    <2>1. CASE V2 = {}
      BY <1>9, <2>1
    <2>2. CASE V2 # {}
      <3>1. PICK v : V2 = {v}
        BY <1>5, <2>2 DEF AtMostOne
      <3>2. E(p2) = [E(p1) EXCEPT !.nodelay = v]
        <4>1. E(p2) = SetOption(E(p1), <<"SCTP_NODELAY", v>>)
          BY <1>9, <3>1
        <4> QED
          BY <4>1 DEF SetOption
      <3>3. \A u : V2 = {u} => u = v
        BY <3>1
      <3> QED
        BY <1>9, <2>2, <3>2, <3>3 DEF OptionRecords
    <2> QED
      BY <2>1, <2>2
  <1>17. /\ E(p3).init = E(p2).init /\ E(p3).nodelay = E(p2).nodelay
         /\ E(p3).sndbuf = E(p2).sndbuf /\ E(p3).autoclose = E(p2).autoclose
         /\ V3 = {} => E(p3).rcvbuf = E(p2).rcvbuf
         /\ \A v : V3 = {v} => E(p3).rcvbuf = BufferOf(v)
    <2>1. CASE V3 = {}
      BY <1>10, <2>1
    <2>2. CASE V3 # {}
      <3>1. PICK v : V3 = {v}
        BY <1>5, <2>2 DEF AtMostOne
      <3>2. E(p3) = [E(p2) EXCEPT !.rcvbuf = BufferOf(v)]
        <4>1. E(p3) = SetOption(E(p2), <<"SO_RCVBUF", v>>)
          BY <1>10, <3>1
        <4> QED
          BY <4>1 DEF SetOption
      <3>3. \A u : V3 = {u} => u = v
        BY <3>1
      <3> QED
        BY <1>10, <2>2, <3>2, <3>3 DEF OptionRecords
    <2> QED
      BY <2>1, <2>2
  <1>18. /\ E(p4).init = E(p3).init /\ E(p4).nodelay = E(p3).nodelay
         /\ E(p4).rcvbuf = E(p3).rcvbuf /\ E(p4).autoclose = E(p3).autoclose
         /\ V4s = {} => E(p4).sndbuf = E(p3).sndbuf
         /\ \A v : V4s = {v} => E(p4).sndbuf = BufferOf(v)
    <2>1. CASE V4s = {}
      BY <1>11, <2>1
    <2>2. CASE V4s # {}
      <3>1. PICK v : V4s = {v}
        BY <1>5, <2>2 DEF AtMostOne
      <3>2. E(p4) = [E(p3) EXCEPT !.sndbuf = BufferOf(v)]
        <4>1. E(p4) = SetOption(E(p3), <<"SO_SNDBUF", v>>)
          BY <1>11, <3>1
        <4> QED
          BY <4>1 DEF SetOption
      <3>3. \A u : V4s = {u} => u = v
        BY <3>1
      <3> QED
        BY <1>11, <2>2, <3>2, <3>3 DEF OptionRecords
    <2> QED
      BY <2>1, <2>2
  <1>19. /\ E(p5).init = E(p4).init /\ E(p5).nodelay = E(p4).nodelay
         /\ E(p5).rcvbuf = E(p4).rcvbuf /\ E(p5).sndbuf = E(p4).sndbuf
         /\ V5 = {} => E(p5).autoclose = E(p4).autoclose
         /\ \A v : V5 = {v} => E(p5).autoclose = Min({Unsigned(v), AutocloseLimit})
    <2>1. CASE V5 = {}
      BY <1>12, <2>1
    <2>2. CASE V5 # {}
      <3>1. PICK v : V5 = {v}
        BY <1>5, <2>2 DEF AtMostOne
      <3>2. E(p5) = [E(p4) EXCEPT !.autoclose = Min({Unsigned(v), AutocloseLimit})]
        <4>1. E(p5) = SetOption(E(p4), <<"SCTP_AUTOCLOSE", v>>)
          BY <1>12, <3>1
        <4> QED
          BY <4>1 DEF SetOption
      <3>3. \A u : V5 = {u} => u = v
        BY <3>1
      <3> QED
        BY <1>12, <2>2, <3>2, <3>3 DEF OptionRecords
    <2> QED
      BY <2>1, <2>2
  <1>20. /\ c.nodelay = {} => E(p5).nodelay = r.nodelay
         /\ \A on : c.nodelay = {on} => E(p5).nodelay = IF on THEN 1 ELSE 0
    BY <1>4, <1>15, <1>16, <1>17, <1>18, <1>19
  <1>21. /\ c.recv_buf = {} => E(p5).rcvbuf = r.rcvbuf
         /\ \A b : c.recv_buf = {b} => E(p5).rcvbuf = BufferOf(CInt(b))
         /\ c.send_buf = {} => E(p5).sndbuf = r.sndbuf
         /\ \A b : c.send_buf = {b} => E(p5).sndbuf = BufferOf(CInt(b))
    BY <1>4, <1>15, <1>16, <1>17, <1>18, <1>19
  <1>22. /\ c.autoclose_secs = {} => E(p5).autoclose = r.autoclose
         /\ \A t : c.autoclose_secs = {t} =>
              E(p5).autoclose = Min({Unsigned(CInt(t)), AutocloseLimit})
    BY <1>4, <1>15, <1>16, <1>17, <1>18, <1>19
  <1>23. E(p5).init = E(p1).init
    BY <1>16, <1>17, <1>18, <1>19
  <1> QED
    BY <1>7, <1>13, <1>14, <1>15, <1>20, <1>21, <1>22, <1>23 DEF E, Applied

\* The options a new socket has after a configuration is applied: those of the
\* last calls that set them, and the defaults of the kernel.
LEMMA OptionsInForce ==
  ASSUME NEW calls \in Seq(Calls)
  PROVE  LET e                == FoldLeft(SetOption, DefaultOptions, apply(Build(calls)))
             At(m)          == LastOf(calls, m)
             Asked(m, i)      == calls[At(m)][i]
             InForce(m, i, d) == IF At(m) = 0 \/ Asked(m, i) = 0 THEN d ELSE Asked(m, i)
             BufferFor(m, d)  == IF At(m) = 0 THEN d
                                 ELSE Max({2 * Min({Asked(m, 2), BufLimit}), BufFloor})
             default          == DefaultOptions
         IN  /\ e.init =
                  [out_streams    |-> InForce("streams", 2, default.init.out_streams),
                   max_in_streams |-> InForce("streams", 3, default.init.max_in_streams),
                   max_attempts   |-> InForce("init_retransmit", 2, default.init.max_attempts),
                   max_init_timeo |-> InForce("init_retransmit", 3, default.init.max_init_timeo)]
             /\ e.nodelay = IF At("nodelay") # 0 /\ Asked("nodelay", 2) THEN 1 ELSE 0
             /\ (At("recv_buf") # 0 => Asked("recv_buf", 2) < 2^IntBits)
                  => e.rcvbuf = BufferFor("recv_buf", default.rcvbuf)
             /\ (At("send_buf") # 0 => Asked("send_buf", 2) < 2^IntBits)
                  => e.sndbuf = BufferFor("send_buf", default.sndbuf)
             /\ e.autoclose = IF At("autoclose") = 0 THEN 0
                              ELSE Min({Asked("autoclose", 2), AutocloseLimit})
             /\ At("autoclose") # 0 =>
                  \E i \in DOMAIN apply(Build(calls)) : apply(Build(calls))[i][1] = "SCTP_AUTOCLOSE"
  <1> DEFINE c == Build(calls)
             d == DefaultOptions
             e == FoldLeft(SetOption, d, apply(c))
             At(m) == LastOf(calls, m)
             Asked(m, i) == calls[At(m)][i]
             q == GetOrInsert(c.init)
  <1>1. /\ d \in OptionRecords /\ d.nodelay = 0 /\ d.autoclose = 0 /\ d.init \in InitMsgs
    BY LimitsAssumption DEF DefaultOptions, OptionRecords, InitMsgs
  <1>2. /\ c \in Configs
        /\ c.nodelay = (IF At("nodelay") = 0 THEN {} ELSE {Asked("nodelay", 2)})
        /\ c.recv_buf = (IF At("recv_buf") = 0 THEN {} ELSE {Asked("recv_buf", 2)})
        /\ c.send_buf = (IF At("send_buf") = 0 THEN {} ELSE {Asked("send_buf", 2)})
        /\ c.autoclose_secs = (IF At("autoclose") = 0 THEN {} ELSE {Asked("autoclose", 2)})
        /\ c.init = {} \/ c.init = {q}
        /\ q = [out_streams    |-> IF At("streams") = 0 THEN 0 ELSE Asked("streams", 2),
                max_in_streams |-> IF At("streams") = 0 THEN 0 ELSE Asked("streams", 3),
                max_attempts   |-> IF At("init_retransmit") = 0 THEN 0
                                   ELSE Asked("init_retransmit", 2),
                max_init_timeo |-> IF At("init_retransmit") = 0 THEN 0
                                   ELSE Asked("init_retransmit", 3)]
    BY BuildIs
  <1>3. /\ At("recv_buf") # 0 => Asked("recv_buf", 2) \in Nat
        /\ At("send_buf") # 0 => Asked("send_buf", 2) \in Nat
        /\ At("autoclose") # 0 => Asked("autoclose", 2) \in Nat /\ Asked("autoclose", 2) < 2^IntBits
        /\ At("nodelay") # 0 => Asked("nodelay", 2) \in BOOLEAN
    <2>1. \A m : At(m) # 0 => calls[At(m)] \in Calls /\ calls[At(m)][1] = m
      BY LastOfIs
    <2> DEFINE M == 2^IntBits
    <2>2. M \in Nat
      BY IntBitsAssumption
    <2> HIDE DEF At, M
    <2>3. At("recv_buf") # 0 => Asked("recv_buf", 2) \in Nat
      BY <2>1, CallsAre
    <2>4. At("send_buf") # 0 => Asked("send_buf", 2) \in Nat
      BY <2>1, CallsAre
    <2>5. At("autoclose") # 0 => Asked("autoclose", 2) \in 0..M - 1
      BY <2>1, CallsAre DEF M
    <2>6. At("nodelay") # 0 => Asked("nodelay", 2) \in BOOLEAN
      BY <2>1, CallsAre
    <2>7. \A x \in 0..M - 1 : x \in Nat /\ x < M
      BY <2>2
    <2> QED
      BY <2>3, <2>4, <2>5, <2>6, <2>7 DEF M
  <1> HIDE DEF At, Asked, c, q, d
  <1>4. /\ AtMostOne(c.init) /\ AtMostOne(c.nodelay) /\ AtMostOne(c.recv_buf)
        /\ AtMostOne(c.send_buf) /\ AtMostOne(c.autoclose_secs)
    BY <1>2 DEF AtMostOne
  <1>5. Applied(d, c, e)
    BY <1>1, <1>2, <1>4, ApplyIs
  <1> HIDE DEF e
  <1>6. q \in InitMsgs
    BY <1>2, GetOrInsertIs DEF Configs, q
  <1>7. e.init = [f \in DOMAIN d.init |-> IF q[f] = 0 THEN d.init[f] ELSE q[f]]
    <2>1. CASE c.init = {q}
      BY <1>5, <2>1 DEF Applied
    <2>2. CASE c.init = {}
      <3>1. q = NoInit
        BY <2>2, GetOrInsertIs DEF q
      <3>2. /\ q.out_streams = 0 /\ q.max_in_streams = 0 /\ q.max_attempts = 0
            /\ q.max_init_timeo = 0
        BY <3>1 DEF NoInit
      <3>3. DOMAIN d.init = {"out_streams", "max_in_streams", "max_attempts", "max_init_timeo"}
        BY <1>1 DEF InitMsgs
      <3>4. \A f \in DOMAIN d.init : q[f] = 0
        BY <3>2, <3>3
      <3>5. d.init = [f \in DOMAIN d.init |-> d.init[f]]
        BY <1>1 DEF InitMsgs
      <3> QED
        BY <1>5, <2>2, <3>4, <3>5 DEF Applied
    <2> QED
      BY <1>2, <2>1, <2>2
  <1>8. e.init = [out_streams |-> IF q.out_streams = 0 THEN d.init.out_streams ELSE q.out_streams,
                  max_in_streams |-> IF q.max_in_streams = 0 THEN d.init.max_in_streams
                                     ELSE q.max_in_streams,
                  max_attempts |-> IF q.max_attempts = 0 THEN d.init.max_attempts
                                   ELSE q.max_attempts,
                  max_init_timeo |-> IF q.max_init_timeo = 0 THEN d.init.max_init_timeo
                                     ELSE q.max_init_timeo]
    BY <1>1, <1>6, <1>7 DEF InitMsgs
  <1>9. /\ q.out_streams = (IF At("streams") = 0 THEN 0 ELSE Asked("streams", 2))
        /\ q.max_in_streams = (IF At("streams") = 0 THEN 0 ELSE Asked("streams", 3))
        /\ q.max_attempts = (IF At("init_retransmit") = 0 THEN 0 ELSE Asked("init_retransmit", 2))
        /\ q.max_init_timeo = (IF At("init_retransmit") = 0 THEN 0 ELSE Asked("init_retransmit", 3))
    BY <1>2
  <1> DEFINE InForce(m, i, v) == IF At(m) = 0 \/ Asked(m, i) = 0 THEN v ELSE Asked(m, i)
  <1>10. e.init =
           [out_streams    |-> InForce("streams", 2, d.init.out_streams),
            max_in_streams |-> InForce("streams", 3, d.init.max_in_streams),
            max_attempts   |-> InForce("init_retransmit", 2, d.init.max_attempts),
            max_init_timeo |-> InForce("init_retransmit", 3, d.init.max_init_timeo)]
    <2>1. /\ (IF q.out_streams = 0 THEN d.init.out_streams ELSE q.out_streams)
               = InForce("streams", 2, d.init.out_streams)
          /\ (IF q.max_in_streams = 0 THEN d.init.max_in_streams ELSE q.max_in_streams)
               = InForce("streams", 3, d.init.max_in_streams)
      BY <1>9
    <2>2. /\ (IF q.max_attempts = 0 THEN d.init.max_attempts ELSE q.max_attempts)
               = InForce("init_retransmit", 2, d.init.max_attempts)
          /\ (IF q.max_init_timeo = 0 THEN d.init.max_init_timeo ELSE q.max_init_timeo)
               = InForce("init_retransmit", 3, d.init.max_init_timeo)
      BY <1>9
    <2> HIDE DEF InForce
    <2> QED
      BY <1>8, <2>1, <2>2
  <1>11. e.nodelay = IF At("nodelay") # 0 /\ Asked("nodelay", 2) THEN 1 ELSE 0
    BY <1>1, <1>2, <1>5 DEF Applied
  <1>12. \A n \in Nat : n < 2^IntBits =>
           /\ BufferOf(CInt(n)) = Max({2 * Min({n, BufLimit}), BufFloor})
           /\ Unsigned(CInt(n)) = n
    BY CIntIs DEF BufferOf
  <1>13. (At("recv_buf") # 0 => Asked("recv_buf", 2) < 2^IntBits)
           => e.rcvbuf = IF At("recv_buf") = 0 THEN d.rcvbuf
                         ELSE Max({2 * Min({Asked("recv_buf", 2), BufLimit}), BufFloor})
    <2>1. CASE At("recv_buf") = 0
      BY <1>2, <1>5, <2>1 DEF Applied
    <2>2. CASE At("recv_buf") # 0
      <3>1. c.recv_buf = {Asked("recv_buf", 2)}
        BY <1>2, <2>2
      <3>2. e.rcvbuf = BufferOf(CInt(Asked("recv_buf", 2)))
        BY <1>5, <3>1 DEF Applied
      <3> QED
        BY <1>3, <1>12, <2>2, <3>2
    <2> QED
      BY <2>1, <2>2
  <1>14. (At("send_buf") # 0 => Asked("send_buf", 2) < 2^IntBits)
           => e.sndbuf = IF At("send_buf") = 0 THEN d.sndbuf
                         ELSE Max({2 * Min({Asked("send_buf", 2), BufLimit}), BufFloor})
    <2>1. CASE At("send_buf") = 0
      BY <1>2, <1>5, <2>1 DEF Applied
    <2>2. CASE At("send_buf") # 0
      <3>1. c.send_buf = {Asked("send_buf", 2)}
        BY <1>2, <2>2
      <3>2. e.sndbuf = BufferOf(CInt(Asked("send_buf", 2)))
        BY <1>5, <3>1 DEF Applied
      <3> QED
        BY <1>3, <1>12, <2>2, <3>2
    <2> QED
      BY <2>1, <2>2
  <1>15. e.autoclose = IF At("autoclose") = 0 THEN 0
                       ELSE Min({Asked("autoclose", 2), AutocloseLimit})
    <2>1. CASE At("autoclose") = 0
      BY <1>1, <1>2, <1>5, <2>1 DEF Applied
    <2>2. CASE At("autoclose") # 0
      <3>1. c.autoclose_secs = {Asked("autoclose", 2)}
        BY <1>2, <2>2
      <3>2. e.autoclose = Min({Unsigned(CInt(Asked("autoclose", 2))), AutocloseLimit})
        BY <1>5, <3>1 DEF Applied
      <3>3. Unsigned(CInt(Asked("autoclose", 2))) = Asked("autoclose", 2)
        BY <1>3, <1>12, <2>2
      <3> QED
        BY <2>2, <3>2, <3>3
    <2> QED
      BY <2>1, <2>2
  <1>16. At("autoclose") # 0 => \E i \in DOMAIN apply(c) : apply(c)[i][1] = "SCTP_AUTOCLOSE"
    BY <1>2, <1>5 DEF Applied
  <1> QED
    BY <1>10, <1>11, <1>13, <1>14, <1>15, <1>16 DEF At, Asked, c, d, e

=============================================================================

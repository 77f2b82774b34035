--------------------------- MODULE SequenceProofs ---------------------------
(***************************************************************************)
(* Facts about sequences that the proofs about messages rest on.           *)
(*                                                                         *)
(* The induction theorems of the library take an operator; the provers at  *)
(* hand cannot instantiate it.  Here induction is over sets: a set that    *)
(* holds 0 and is closed under successor holds every number (NatInd),      *)
(* which follows from the fact that every set of numbers has a least one.  *)
(* What a recursive function computes is derived from that, once for the   *)
(* existence of such functions (RecursionExists) and once for each of the  *)
(* two that are used, Only and FlattenSeq; and the existence of the        *)
(* function that FoldLeft is defined by (FoldExists).                      *)
(***************************************************************************)
EXTENDS Subsequences, SequencesExt, SequenceTheorems, WellFoundedInduction, TLAPS

-----------------------------------------------------------------------------
(* Induction.                                                              *)

\* Every set of numbers that has an element has a least one.
LEMMA LeastNumber ==
  ASSUME NEW T \in SUBSET Nat, T # {}
  PROVE  \E m \in T : \A k \in T : m <= k
  <1> DEFINE R == OpToRel(<, Nat)
  <1>1. IsWellFoundedOn(R, Nat)
    BY NatLessThanWellFounded
  <1> HIDE DEF R
  <1>2. PICK m \in T : \A k \in T : ~(<<k, m>> \in R)
    BY <1>1, WFMin
  <1>3. \A k \in T : ~(k < m)
    BY <1>2 DEF R, OpToRel
  <1> QED
    BY <1>3

\* Induction over the numbers.
LEMMA NatInd ==
  ASSUME NEW G, 0 \in G, \A n \in Nat : n \in G => n + 1 \in G
  PROVE  Nat \subseteq G
  <1> SUFFICES ASSUME NEW x \in Nat, x \notin G PROVE FALSE
    OBVIOUS
  <1> DEFINE B == {n \in Nat : n \notin G}
  <1>1. PICK m \in B : \A k \in B : m <= k
    <2>1. B \in SUBSET Nat /\ x \in B
      OBVIOUS
    <2> HIDE DEF B
    <2> QED
      BY <2>1, LeastNumber
  <1>2. m # 0 /\ m \in Nat
    OBVIOUS
  <1>3. m - 1 \in Nat /\ m - 1 \notin B
    BY <1>1, <1>2
  <1>4. m - 1 \in G
    BY <1>3
  <1> QED
    BY <1>3, <1>4, <1>2

\* Induction over sequences, from the front to the back.
LEMMA SeqInd ==
  ASSUME NEW S, NEW G, <<>> \in G,
         \A s \in Seq(S) : \A x \in S : s \in G => Append(s, x) \in G
  PROVE  Seq(S) \subseteq G
  <1> DEFINE N == {n \in Nat : \A s \in Seq(S) : Len(s) = n => s \in G}
  <1>1. 0 \in N
    OBVIOUS
  <1>2. ASSUME NEW n \in Nat, n \in N PROVE n + 1 \in N
    <2> SUFFICES ASSUME NEW s \in Seq(S), Len(s) = n + 1 PROVE s \in G
      OBVIOUS
    <2>1. s # <<>>
      OBVIOUS
    <2>2. PICK t \in Seq(S), x \in S : s = Append(t, x)
      BY <2>1, SequenceEmptyOrAppend
    <2>3. Len(t) = n
      BY <2>2
    <2>4. t \in G
      BY <1>2, <2>3
    <2> QED
      BY <2>2, <2>4
  <1>3. Nat \subseteq N
    <2> HIDE DEF N
    <2> QED
      BY <1>1, <1>2, NatInd
  <1> QED
    BY <1>3

\* Induction up to a bound.
LEMMA UpTo ==
  ASSUME NEW N \in Nat, NEW G, 0 \in G, \A n \in 1 .. N : n - 1 \in G => n \in G
  PROVE  0 .. N \subseteq G
  <1> DEFINE H == {n \in Nat : n <= N => n \in G}
  <1>1. 0 \in H /\ \A n \in Nat : n \in H => n + 1 \in H
    OBVIOUS
  <1>2. Nat \subseteq H
    <2> HIDE DEF H
    <2> QED
      BY <1>1, NatInd
  <1> QED
    BY <1>2

-----------------------------------------------------------------------------
(* Recursive functions.                                                    *)

\* g starts at base and makes the step D[n] at n.
Iterates(g, m, X, base, D) ==
  /\ g \in [0 .. m -> X]
  /\ g[0] = base
  /\ \A n \in 1 .. m : g[n] = D[n][g[n - 1]]

\* A function defined by recursion on a number exists.
LEMMA RecursionExists ==
  ASSUME NEW N \in Nat, NEW X, NEW base \in X, NEW D \in [Nat -> [X -> X]]
  PROVE  \E g : Iterates(g, N, X, base, D)
  <1> DEFINE M == {m \in Nat : \E g : Iterates(g, m, X, base, D)}
  <1>1. 0 \in M
    <2> DEFINE g == [n \in 0 .. 0 |-> base]
    <2>1. Iterates(g, 0, X, base, D)
      BY DEF Iterates
    <2> QED
      BY <2>1
  <1>2. ASSUME NEW m \in Nat, m \in M PROVE m + 1 \in M
    <2>1. PICK g : Iterates(g, m, X, base, D)
      BY <1>2
    <2> DEFINE h == [n \in 0 .. m + 1 |-> IF n = m + 1 THEN D[m + 1][g[m]] ELSE g[n]]
    <2>2. h \in [0 .. m + 1 -> X]
      BY <2>1 DEF Iterates
    <2>3. h[0] = base /\ \A n \in 1 .. m + 1 : h[n] = D[n][h[n - 1]]
      BY <2>1 DEF Iterates
    <2>4. Iterates(h, m + 1, X, base, D)
      BY <2>2, <2>3 DEF Iterates
    <2> HIDE DEF h
    <2> QED
      BY <2>4
  <1>3. Nat \subseteq M
    <2> HIDE DEF M
    <2> QED
      BY <1>1, <1>2, NatInd
  <1> QED
    BY <1>3

-----------------------------------------------------------------------------
(* The part of a sequence in a set.                                        *)

\* One step of the scan of Only.
Keep(T, y, x) == IF x \in T THEN Append(y, x) ELSE y

\* A step of the scan adds nothing but the element it looks at.
LEMMA KeepType ==
  ASSUME NEW S, NEW y \in Seq(S), NEW x \in S, NEW T
  PROVE  Keep(T, y, x) \in Seq(S)
  BY DEF Keep

\* f is the scan of s: what is kept of each prefix.
Scans(f, S, s, T) ==
  /\ f \in [0 .. Len(s) -> Seq(S)]
  /\ f[0] = <<>>
  /\ \A n \in 1 .. Len(s) : f[n] = Keep(T, f[n - 1], s[n])

\* The recursive function in Only is the scan it reads like.
LEMMA OnlyScans ==
  ASSUME NEW S, NEW s \in Seq(S), NEW T
  PROVE  \E f : Scans(f, S, s, T) /\ Only(s, T) = f[Len(s)]
  <1> DEFINE N == Len(s)
             D == [n \in Nat |-> [y \in Seq(S) |-> IF n \in 1 .. N THEN Keep(T, y, s[n]) ELSE y]]
             Def(f) == f = [n \in 0 .. N |-> IF n = 0 THEN <<>> ELSE Keep(T, f[n - 1], s[n])]
  <1>1. N \in Nat /\ <<>> \in Seq(S) /\ \A n \in 1 .. N : s[n] \in S
    OBVIOUS
  <1> DEFINE f == CHOOSE h : Def(h)
  <1>2. Only(s, T) = f[Len(s)]
    BY DEF Only, Keep
  <1> HIDE DEF N
  <1>3. D \in [Nat -> [Seq(S) -> Seq(S)]]
    BY <1>1, KeepType
  <1>4. PICK g : Iterates(g, N, Seq(S), <<>>, D)
    <2> HIDE DEF D
    <2> QED
      BY <1>1, <1>3, RecursionExists
  <1>5. ASSUME NEW n \in 1 .. N PROVE g[n] = Keep(T, g[n - 1], s[n])
    <2>1. n \in Nat /\ n - 1 \in 0 .. N
      BY <1>1
    <2>2. g[n - 1] \in Seq(S) /\ g[n] = D[n][g[n - 1]]
      BY <1>4, <2>1 DEF Iterates
    <2> QED
      BY <2>1, <2>2
  <1>6. Def(g)
    <2> DEFINE h == [n \in 0 .. N |-> IF n = 0 THEN <<>> ELSE Keep(T, g[n - 1], s[n])]
    <2>1. \A n \in 0 .. N : g[n] = h[n]
      BY <1>1, <1>4, <1>5 DEF Iterates
    <2>2. g = [n \in 0 .. N |-> g[n]]
      BY <1>4 DEF Iterates
    <2> QED
      BY <2>1, <2>2
  <1>7. Def(f)
    <2> HIDE DEF Def
    <2> QED
      BY <1>6
  <1> HIDE DEF f
  <1>8. /\ f[0] = <<>>
        /\ \A n \in 1 .. N : f[n] = Keep(T, f[n - 1], s[n])
        /\ f = [n \in 0 .. N |-> f[n]]
    <2> DEFINE h == [n \in 0 .. N |-> IF n = 0 THEN <<>> ELSE Keep(T, f[n - 1], s[n])]
    <2>1. f = h
      BY <1>7
    <2>2. \A n \in 0 .. N : h[n] = IF n = 0 THEN <<>> ELSE Keep(T, f[n - 1], s[n])
      OBVIOUS
    <2>3. h = [n \in 0 .. N |-> h[n]]
      OBVIOUS
    <2> HIDE DEF h
    <2>4. 0 \in 0 .. N /\ \A n \in 1 .. N : n \in 0 .. N /\ n # 0
      BY <1>1
    <2> QED
      BY <2>1, <2>2, <2>3, <2>4
  <1>9. f \in [0 .. N -> Seq(S)]
    <2> DEFINE G == {n \in 0 .. N : f[n] \in Seq(S)}
    <2>1. 0 \in G
      BY <1>1, <1>8
    <2>2. ASSUME NEW n \in 1 .. N, n - 1 \in G PROVE n \in G
      <3>1. f[n - 1] \in Seq(S) /\ s[n] \in S /\ n \in 0 .. N
        BY <1>1, <2>2
      <3>2. Keep(T, f[n - 1], s[n]) \in Seq(S)
        BY <3>1, KeepType
      <3> QED
        BY <1>8, <3>1, <3>2
    <2>3. 0 .. N \subseteq G
      <3> HIDE DEF G
      <3> QED
        BY <1>1, <2>1, <2>2, UpTo
    <2> QED
      BY <1>8, <2>3
  <1>10. Scans(f, S, s, T)
    BY <1>8, <1>9 DEF Scans, N
  <1> QED
    BY <1>2, <1>10

\* Nothing is kept of nothing.
LEMMA OnlyEmpty ==
  ASSUME NEW T PROVE Only(<<>>, T) = <<>>
  <1>1. <<>> \in Seq({}) /\ Len(<<>>) = 0
    OBVIOUS
  <1>2. PICK f : Scans(f, {}, <<>>, T) /\ Only(<<>>, T) = f[Len(<<>>)]
    BY <1>1, OnlyScans
  <1> QED
    BY <1>1, <1>2 DEF Scans

\* What is kept of a sequence with one more element.
LEMMA OnlyAppend ==
  ASSUME NEW S, NEW s \in Seq(S), NEW x \in S, NEW T
  PROVE  Only(Append(s, x), T) = IF x \in T THEN Append(Only(s, T), x) ELSE Only(s, T)
  <1> DEFINE N == Len(s)
             t == Append(s, x)
  <1>1. PICK f : Scans(f, S, s, T) /\ Only(s, T) = f[Len(s)]
    BY OnlyScans
  <1>2. t \in Seq(S) /\ Len(t) = N + 1 /\ N \in Nat /\ t[N + 1] = x
        /\ \A n \in 1 .. N : t[n] = s[n]
    OBVIOUS
  <1> HIDE DEF t, N
  <1>3. PICK g : Scans(g, S, t, T) /\ Only(t, T) = g[Len(t)]
    BY <1>2, OnlyScans
  <1>4. \A n \in 0 .. N : f[n] = g[n]
    <2> DEFINE G == {n \in 0 .. N : f[n] = g[n]}
    <2>1. 0 \in G
      BY <1>1, <1>2, <1>3 DEF Scans
    <2>2. ASSUME NEW n \in 1 .. N, n - 1 \in G PROVE n \in G
      <3>1. n \in 1 .. Len(t) /\ n \in 0 .. N
        BY <1>2
      <3>2. t[n] = s[n] /\ f[n - 1] = g[n - 1]
        BY <1>2, <2>2
      <3> QED
        BY <1>1, <1>3, <3>1, <3>2 DEF Scans, N
    <2>3. 0 .. N \subseteq G
      <3> HIDE DEF G
      <3> QED
        BY <1>2, <2>1, <2>2, UpTo
    <2> QED
      BY <2>3
  <1>5. Only(t, T) = Keep(T, g[N], x)
    <2>1. Len(t) \in 1 .. Len(t) /\ Len(t) - 1 = N /\ t[Len(t)] = x
      BY <1>2
    <2> QED
      BY <1>3, <2>1 DEF Scans
  <1>6. g[N] = Only(s, T)
    BY <1>1, <1>2, <1>4 DEF N
  <1> QED
    BY <1>5, <1>6 DEF t, Keep

\* What is kept are elements of the sequence that are in the set.
LEMMA OnlyType ==
  ASSUME NEW S, NEW T
  PROVE  \A s \in Seq(S) : Only(s, T) \in Seq(S \cap T)
  <1> DEFINE G == {s \in Seq(S) : Only(s, T) \in Seq(S \cap T)}
  <1>1. <<>> \in G
    <2>1. Only(<<>>, T) = <<>>
      BY OnlyEmpty
    <2>2. <<>> \in Seq(S \cap T) /\ <<>> \in Seq(S)
      OBVIOUS
    <2> QED
      BY <2>1, <2>2, Zenon
  <1>2. ASSUME NEW s \in Seq(S), NEW x \in S, s \in G
        PROVE  Append(s, x) \in G
    <2>1. Only(s, T) \in Seq(S \cap T)
      BY <1>2
    <2>2. Only(Append(s, x), T) = IF x \in T THEN Append(Only(s, T), x) ELSE Only(s, T)
      BY OnlyAppend
    <2>3. Only(Append(s, x), T) \in Seq(S \cap T)
      BY <2>1, <2>2
    <2> QED
      BY <2>3
  <1>3. Seq(S) \subseteq G
    <2> HIDE DEF G
    <2> QED
      BY <1>1, <1>2, SeqInd
  <1> QED
    BY <1>3

\* Only distributes over concatenation.
LEMMA OnlyConcat ==
  ASSUME NEW S, NEW s \in Seq(S), NEW T
  PROVE  \A t \in Seq(S) : Only(s \o t, T) = Only(s, T) \o Only(t, T)
  <1> DEFINE G == {t \in Seq(S) : Only(s \o t, T) = Only(s, T) \o Only(t, T)}
  <1>0. Only(s, T) \in Seq(S \cap T)
    BY OnlyType
  <1>1. <<>> \in G
    <2>1. s \o <<>> = s /\ Only(s, T) \o <<>> = Only(s, T)
      BY <1>0, ConcatEmptySeq
    <2>2. Only(<<>>, T) = <<>>
      BY OnlyEmpty
    <2>3. Only(s \o <<>>, T) = Only(s, T) \o Only(<<>>, T)
      BY <2>1, <2>2, Zenon
    <2> QED
      BY <2>3
  <1>2. ASSUME NEW t \in Seq(S), NEW x \in S, t \in G
        PROVE  Append(t, x) \in G
    <2>1. s \o t \in Seq(S) /\ s \o Append(t, x) = Append(s \o t, x)
      OBVIOUS
    <2>2. Only(Append(s \o t, x), T) = Keep(T, Only(s \o t, T), x)
      BY <2>1, OnlyAppend DEF Keep
    <2>3. Only(Append(t, x), T) = Keep(T, Only(t, T), x)
      BY OnlyAppend DEF Keep
    <2>4. Only(t, T) \in Seq(S \cap T)
      BY OnlyType
    <2>5. Keep(T, Only(s, T) \o Only(t, T), x) = Only(s, T) \o Keep(T, Only(t, T), x)
      <3>1. CASE x \in T
        <4>1. Only(s, T) \o Append(Only(t, T), x) = Append(Only(s, T) \o Only(t, T), x)
          BY <1>0, <2>4, <3>1
        <4> QED
          BY <3>1, <4>1 DEF Keep
      <3>2. CASE x \notin T
        BY <3>2 DEF Keep
      <3> QED
        BY <3>1, <3>2
    <2>6. Only(s \o t, T) = Only(s, T) \o Only(t, T)
      BY <1>2
    <2>7. Only(s \o Append(t, x), T) = Only(s, T) \o Only(Append(t, x), T)
      BY <2>1, <2>2, <2>3, <2>5, <2>6, Zenon
    <2> QED
      BY <2>7
  <1>3. Seq(S) \subseteq G
    <2> HIDE DEF G
    <2> QED
      BY <1>1, <1>2, SeqInd
  <1> QED
    BY <1>3

\* Of a sequence in the set everything is kept.
LEMMA OnlyAll ==
  ASSUME NEW S, NEW T, S \subseteq T
  PROVE  \A s \in Seq(S) : Only(s, T) = s
  <1> DEFINE G == {s \in Seq(S) : Only(s, T) = s}
  <1>1. <<>> \in G
    BY OnlyEmpty
  <1>2. ASSUME NEW s \in Seq(S), NEW x \in S, s \in G
        PROVE  Append(s, x) \in G
    BY <1>2, OnlyAppend
  <1>3. Seq(S) \subseteq G
    <2> HIDE DEF G
    <2> QED
      BY <1>1, <1>2, SeqInd
  <1> QED
    BY <1>3

\* Of a sequence outside the set nothing is kept.
LEMMA OnlyNone ==
  ASSUME NEW S, NEW T, S \cap T = {}
  PROVE  \A s \in Seq(S) : Only(s, T) = <<>>
  <1> DEFINE G == {s \in Seq(S) : Only(s, T) = <<>>}
  <1>1. <<>> \in G
    BY OnlyEmpty
  <1>2. ASSUME NEW s \in Seq(S), NEW x \in S, s \in G
        PROVE  Append(s, x) \in G
    BY <1>2, OnlyAppend
  <1>3. Seq(S) \subseteq G
    <2> HIDE DEF G
    <2> QED
      BY <1>1, <1>2, SeqInd
  <1> QED
    BY <1>3

\* Selecting twice, when the second selection is the finer one.
LEMMA OnlyOnly ==
  ASSUME NEW S, NEW T, NEW U, S \cap U \subseteq T
  PROVE  \A s \in Seq(S) : Only(Only(s, T), U) = Only(s, U)
  <1> DEFINE G == {s \in Seq(S) : Only(Only(s, T), U) = Only(s, U)}
  <1>1. <<>> \in G
    <2>1. Only(<<>>, T) = <<>> /\ Only(<<>>, U) = <<>> /\ <<>> \in Seq(S)
      BY OnlyEmpty
    <2> QED
      BY <2>1
  <1>2. ASSUME NEW s \in Seq(S), NEW x \in S, s \in G
        PROVE  Append(s, x) \in G
    <2> DEFINE k == Only(s, T)
    <2>1. k \in Seq(S)
      <3>1. k \in Seq(S \cap T)
        BY OnlyType
      <3> HIDE DEF k
      <3> QED
        BY <3>1
    <2>2. Only(k, U) = Only(s, U)
      BY <1>2
    <2>3. Only(Append(s, x), T) = IF x \in T THEN Append(k, x) ELSE k
      BY OnlyAppend
    <2> HIDE DEF k
    <2>4. Only(Append(k, x), U) = IF x \in U THEN Append(Only(k, U), x) ELSE Only(k, U)
      BY <2>1, OnlyAppend
    <2>5. Only(Append(s, x), U) = IF x \in U THEN Append(Only(s, U), x) ELSE Only(s, U)
      BY OnlyAppend
    <2>6. Only(Only(Append(s, x), T), U) = Only(Append(s, x), U)
      BY <2>2, <2>3, <2>4, <2>5
    <2>7. Append(s, x) \in Seq(S)
      OBVIOUS
    <2> QED
      BY <2>6, <2>7
  <1>3. Seq(S) \subseteq G
    <2> HIDE DEF G
    <2> QED
      BY <1>1, <1>2, SeqInd
  <1> QED
    BY <1>3

-----------------------------------------------------------------------------
(* The elements of a sequence of sequences, one sequence after the other.  *)

\* f holds the concatenation of each prefix of ss.
Flattens(f, S, ss) ==
  /\ f \in [0 .. Len(ss) -> Seq(S)]
  /\ f[0] = <<>>
  /\ \A n \in 1 .. Len(ss) : f[n] = f[n - 1] \o ss[n]

\* Concatenations are typed.
LEMMA ConcatType ==
  ASSUME NEW S, NEW s \in Seq(S), NEW t \in Seq(S)
  PROVE  s \o t \in Seq(S)
  OBVIOUS

\* The recursive function in FlattenSeq concatenates the prefixes.
LEMMA FlattenFlattens ==
  ASSUME NEW S, NEW ss \in Seq(Seq(S))
  PROVE  \E f : Flattens(f, S, ss) /\ FlattenSeq(ss) = f[Len(ss)]
  <1> DEFINE X == Seq(S)
             N == Len(ss)
             D == [n \in Nat |-> [y \in X |-> IF n \in 1 .. N THEN y \o ss[n] ELSE y]]
             Def(h) == h = [i \in 1 .. N |-> IF i = 1 THEN ss[i] ELSE h[i - 1] \o ss[i]]
             h == CHOOSE k : Def(k)
  <1>1. <<>> \in X
    OBVIOUS
  <1>2. FlattenSeq(ss) = IF N = 0 THEN ss ELSE h[N]
    BY DEF FlattenSeq
  <1>3. ss \in Seq(X)
    OBVIOUS
  <1>4. \A y, z \in X : y \o z \in X
    BY ConcatType
  <1>5. \A y \in X : <<>> \o y = y
    BY ConcatEmptySeq
  <1>14. \A f : Flattens(f, S, ss) <=>
           /\ f \in [0 .. N -> X]
           /\ f[0] = <<>>
           /\ \A n \in 1 .. N : f[n] = f[n - 1] \o ss[n]
    BY DEF Flattens
  <1> HIDE DEF X
  <1>6. N \in Nat /\ (\A n \in 1 .. N : ss[n] \in X) /\ (N = 0 => ss = <<>>)
    BY <1>3
  <1> HIDE DEF N
  <1>7. D \in [Nat -> [X -> X]]
    BY <1>4, <1>6
  <1>8. PICK g : Iterates(g, N, X, <<>>, D)
    <2> HIDE DEF D
    <2> QED
      BY <1>1, <1>6, <1>7, RecursionExists
  <1>9. \A n \in 1 .. N : g[n] = g[n - 1] \o ss[n]
    <2> SUFFICES ASSUME NEW n \in 1 .. N PROVE g[n] = g[n - 1] \o ss[n]
      OBVIOUS
    <2>1. n \in Nat /\ n - 1 \in 0 .. N
      BY <1>6
    <2>2. g[n - 1] \in X /\ g[n] = D[n][g[n - 1]]
      BY <1>8, <2>1 DEF Iterates
    <2> QED
      BY <2>1, <2>2
  <1>10. g \in [0 .. N -> X] /\ g[0] = <<>>
    BY <1>8 DEF Iterates
  <1> HIDE DEF D
  <1>15. N # 0 => g[1] = ss[1]
    <2> SUFFICES ASSUME N # 0 PROVE g[1] = ss[1]
      OBVIOUS
    <2>1. 1 \in 1 .. N /\ 1 - 1 = 0
      BY <1>6
    <2>2. g[1] = g[0] \o ss[1] /\ ss[1] \in X
      BY <1>6, <1>9, <2>1
    <2> QED
      BY <1>5, <1>10, <2>2
  <1>11. Flattens(g, S, ss)
    BY <1>9, <1>10, <1>14
  <1>12. CASE N = 0
    BY <1>2, <1>6, <1>10, <1>11, <1>12 DEF N
  <1>13. CASE N # 0
    <2> DEFINE k == [i \in 1 .. N |-> g[i]]
    <2>1. ASSUME NEW i \in 1 .. N
          PROVE  k[i] = IF i = 1 THEN ss[i] ELSE k[i - 1] \o ss[i]
      <3>1. CASE i = 1
        BY <1>15, <1>13, <3>1
      <3>2. CASE i # 1
        <4>1. i - 1 \in 1 .. N
          BY <1>6, <3>2
        <4> QED
          BY <1>9, <3>2, <4>1
      <3> QED
        BY <3>1, <3>2
    <2>2. Def(k)
      <3> DEFINE kk == [i \in 1 .. N |-> IF i = 1 THEN ss[i] ELSE k[i - 1] \o ss[i]]
      <3>1. \A i \in 1 .. N : k[i] = kk[i]
        BY <2>1
      <3>2. k = [i \in 1 .. N |-> k[i]]
        OBVIOUS
      <3> HIDE DEF k
      <3> QED
        BY <3>1, <3>2
    <2>3. Def(h)
      <3> HIDE DEF Def, k
      <3> QED
        BY <2>2
    <2> HIDE DEF h, k
    <2>4. \A i \in 1 .. N : h[i] = IF i = 1 THEN ss[i] ELSE h[i - 1] \o ss[i]
      <3> DEFINE hh == [i \in 1 .. N |-> IF i = 1 THEN ss[i] ELSE h[i - 1] \o ss[i]]
      <3>1. h = hh
        BY <2>3
      <3>2. \A i \in 1 .. N : hh[i] = IF i = 1 THEN ss[i] ELSE h[i - 1] \o ss[i]
        OBVIOUS
      <3> HIDE DEF hh
      <3> QED
        BY <3>1, <3>2
    <2>5. 0 .. N \subseteq {0} \cup {n \in 1 .. N : h[n] = g[n]}
      <3> DEFINE G == {0} \cup {n \in 1 .. N : h[n] = g[n]}
      <3>1. 0 \in G
        OBVIOUS
      <3>2. ASSUME NEW n \in 1 .. N, n - 1 \in G
            PROVE  n \in G
        <4>1. CASE n = 1
          BY <1>15, <1>13, <2>4, <4>1
        <4>2. CASE n # 1
          <5>1. n - 1 \in 1 .. N /\ n - 1 # 0
            BY <1>6, <4>2
          <5>2. h[n - 1] = g[n - 1]
            BY <3>2, <5>1
          <5> QED
            BY <1>9, <2>4, <4>2, <5>2
        <4> QED
          BY <4>1, <4>2
      <3>3. 0 .. N \subseteq G
        <4> HIDE DEF G
        <4> QED
          BY <1>6, <3>1, <3>2, UpTo
      <3> QED
        BY <3>3
    <2>6. h[N] = g[N]
      BY <1>6, <1>13, <2>5
    <2> QED
      BY <1>2, <1>11, <1>13, <2>6 DEF N
  <1> QED
    BY <1>12, <1>13

\* What FlattenSeq returns is typed.
LEMMA FlattenType ==
  ASSUME NEW S, NEW ss \in Seq(Seq(S))
  PROVE  FlattenSeq(ss) \in Seq(S)
  <1>1. PICK f : Flattens(f, S, ss) /\ FlattenSeq(ss) = f[Len(ss)]
    BY FlattenFlattens
  <1> DEFINE X == Seq(S)
  <1>2. Len(ss) \in Nat
    <2>1. ss \in Seq(X)
      OBVIOUS
    <2> HIDE DEF X
    <2> QED
      BY <2>1
  <1> QED
    BY <1>1, <1>2 DEF Flattens

\* Nothing flattens to nothing.
LEMMA FlattenEmpty == FlattenSeq(<<>>) = <<>>
  BY DEF FlattenSeq

\* One more sequence is added at the end.
LEMMA FlattenAppend ==
  ASSUME NEW S, NEW ss \in Seq(Seq(S)), NEW x \in Seq(S)
  PROVE  FlattenSeq(Append(ss, x)) = FlattenSeq(ss) \o x
  <1> DEFINE X == Seq(S)
             tt == Append(ss, x)
             N == Len(ss)
  <1>1. ss \in Seq(X) /\ x \in X
    OBVIOUS
  <1>2. PICK f : Flattens(f, S, ss) /\ FlattenSeq(ss) = f[Len(ss)]
    BY FlattenFlattens
  <1> HIDE DEF X
  <1>3. /\ tt \in Seq(X) /\ Len(tt) = N + 1 /\ N \in Nat
        /\ tt[N + 1] = x
        /\ \A n \in 1 .. N : tt[n] = ss[n]
    BY <1>1
  <1> HIDE DEF tt, N
  <1>4. PICK g : Flattens(g, S, tt) /\ FlattenSeq(tt) = g[Len(tt)]
    BY <1>3, FlattenFlattens DEF X
  <1>5. \A n \in 0 .. N : f[n] = g[n]
    <2> DEFINE G == {n \in 0 .. N : f[n] = g[n]}
    <2>1. 0 \in G
      BY <1>2, <1>3, <1>4 DEF Flattens
    <2>2. ASSUME NEW n \in 1 .. N, n - 1 \in G
          PROVE  n \in G
      <3>1. n \in 1 .. Len(tt) /\ n \in 0 .. N
        BY <1>3
      <3>2. tt[n] = ss[n] /\ f[n - 1] = g[n - 1]
        BY <1>3, <2>2
      <3> QED
        BY <1>2, <1>4, <3>1, <3>2 DEF Flattens, N
    <2>3. 0 .. N \subseteq G
      <3> HIDE DEF G
      <3> QED
        BY <1>3, <2>1, <2>2, UpTo
    <2> QED
      BY <2>3
  <1>6. FlattenSeq(tt) = g[N] \o x
    <2>1. Len(tt) \in 1 .. Len(tt) /\ Len(tt) - 1 = N /\ tt[Len(tt)] = x
      BY <1>3
    <2> QED
      BY <1>4, <2>1 DEF Flattens
  <1>7. g[N] = FlattenSeq(ss)
    BY <1>2, <1>3, <1>5 DEF N
  <1> QED
    BY <1>6, <1>7 DEF tt

-----------------------------------------------------------------------------
(* Folds.                                                                  *)

\* The greatest of some numbers up to N.
LEMMA MaxIs ==
  ASSUME NEW N \in Nat, NEW s \in SUBSET (1..N), s # {}
  PROVE  Max(s) \in s /\ \A x \in s : x <= Max(s)
  <1> DEFINE T == {n \in Nat : \E x \in s : n = N - x}
  <1>1. T \in SUBSET Nat /\ T # {}
    <2>1. PICK x \in s : TRUE
      OBVIOUS
    <2>2. x \in 1..N
      OBVIOUS
    <2>3. N - x \in Nat
      BY <2>2
    <2>4. N - x \in T
      BY <2>1, <2>3
    <2> QED
      BY <2>4
  <1>2. PICK m \in T : \A k \in T : m <= k
    <2> HIDE DEF T
    <2> QED
      BY <1>1, LeastNumber
  <1>3. PICK x \in s : m = N - x
    BY <1>2
  <1>4. \A y \in s : x >= y
    <2> SUFFICES ASSUME NEW y \in s PROVE x >= y
      OBVIOUS
    <2>1. x \in 1..N /\ y \in 1..N /\ N - y \in T
      OBVIOUS
    <2>2. m <= N - y
      BY <1>2, <2>1
    <2> QED
      BY <1>3, <2>1, <2>2
  <1>5. Max(s) \in s /\ \A y \in s : Max(s) >= y
    BY <1>4 DEF Max
  <1> QED
    BY <1>5

\* g folds the steps D over every set of numbers, from the least of them to the
\* greatest; this is the function in the definition of FoldLeft.
FoldsOver(g, N, base, D) ==
  \A s \in SUBSET (1..N) : g[s] = IF s = {} THEN base ELSE D[Max(s)][g[s \ {Max(s)}]]

\* The function in the definition of FoldLeft exists.
LEMMA FoldExists ==
  ASSUME NEW N \in Nat, NEW X, NEW base \in X, NEW D \in [Nat -> [X -> X]]
  PROVE  \E g \in [SUBSET (1..N) -> X] : FoldsOver(g, N, base, D)
  <1> DEFINE P == SUBSET (1..N)
             Y == [P -> X]
             B == [s \in P |-> base]
             E == [n \in Nat |-> [h \in Y |-> [s \in P |-> IF n \in s THEN D[n][h[s]] ELSE h[s]]]]
  <1>1. B \in Y
    OBVIOUS
  <1>2. E \in [Nat -> [Y -> Y]]
    <2> SUFFICES ASSUME NEW n \in Nat, NEW h \in Y, NEW s \in P
                 PROVE  (IF n \in s THEN D[n][h[s]] ELSE h[s]) \in X
      OBVIOUS
    <2>1. h[s] \in X /\ D[n] \in [X -> X]
      OBVIOUS
    <2> HIDE DEF Y, P
    <2> QED
      BY <2>1
  <1>3. PICK R : Iterates(R, N, Y, B, E)
    <2> HIDE DEF Y, B, E
    <2> QED
      BY <1>1, <1>2, RecursionExists
  <1>4. /\ \A n \in 0..N : R[n] \in Y
        /\ \A s \in P : R[0][s] = base
        /\ \A n \in 1..N : \A s \in P :
             R[n][s] = IF n \in s THEN D[n][R[n - 1][s]] ELSE R[n - 1][s]
    <2>1. \A n \in 0..N : R[n] \in Y
      BY <1>3 DEF Iterates
    <2>2. \A s \in P : R[0][s] = base
      BY <1>3 DEF Iterates
    <2>3. ASSUME NEW n \in 1..N, NEW s \in P
          PROVE  R[n][s] = IF n \in s THEN D[n][R[n - 1][s]] ELSE R[n - 1][s]
      <3>1. n \in Nat /\ n - 1 \in 0..N
        OBVIOUS
      <3>2. R[n] = E[n][R[n - 1]] /\ R[n - 1] \in Y
        BY <1>3, <2>1, <3>1 DEF Iterates
      <3>3. E[n][R[n - 1]] = [t \in P |-> IF n \in t THEN D[n][R[n - 1][t]] ELSE R[n - 1][t]]
        BY <3>1, <3>2
      <3> HIDE DEF E, Y, P
      <3> QED
        BY <3>2, <3>3
    <2> QED
      BY <2>1, <2>2, <2>3
  <1> HIDE DEF Y, B, E
  \* Numbers above the greatest of a set change nothing.
  <1>5. ASSUME NEW k \in 0..N, NEW s \in P, \A x \in s : x <= k PROVE R[N][s] = R[k][s]
    <2> DEFINE G == {n \in 0..N : n >= k => R[n][s] = R[k][s]}
    <2>1. 0 \in G
      OBVIOUS
    <2>2. ASSUME NEW n \in 1..N, n - 1 \in G PROVE n \in G
      <3>1. CASE n <= k
        BY <3>1
      <3>2. CASE n > k
        <4>1. n \notin s /\ R[n - 1][s] = R[k][s]
          BY <1>5, <2>2, <3>2
        <4> QED
          BY <1>4, <4>1
      <3> QED
        BY <3>1, <3>2
    <2>3. 0..N \subseteq G
      <3> HIDE DEF G
      <3> QED
        BY <2>1, <2>2, UpTo
    <2> QED
      BY <2>3
  \* Nor does the membership of greater numbers.
  <1>6. ASSUME NEW k \in 0..N, NEW s \in P, NEW t \in P,
               \A x \in 1..k : x \in s <=> x \in t
        PROVE  R[k][s] = R[k][t]
    <2> DEFINE G == {n \in 0..N : n <= k => R[n][s] = R[n][t]}
    <2>1. 0 \in G
      BY <1>4
    <2>2. ASSUME NEW n \in 1..N, n - 1 \in G PROVE n \in G
      <3> SUFFICES ASSUME n <= k PROVE R[n][s] = R[n][t]
        OBVIOUS
      <3>1. (n \in s <=> n \in t) /\ R[n - 1][s] = R[n - 1][t]
        BY <1>6, <2>2
      <3> QED
        BY <1>4, <3>1
    <2>3. 0..N \subseteq G
      <3> HIDE DEF G
      <3> QED
        BY <2>1, <2>2, UpTo
    <2> QED
      BY <2>3
  <1>7. ASSUME NEW s \in P
        PROVE  R[N][s] = IF s = {} THEN base ELSE D[Max(s)][R[N][s \ {Max(s)}]]
    <2>1. CASE s = {}
      <3>1. R[N][s] = R[0][s]
        BY <1>5, <2>1
      <3> QED
        BY <1>4, <2>1, <3>1
    <2>2. CASE s # {}
      <3> DEFINE m == Max(s)
                 t == s \ {m}
      <3>1. m \in s /\ m \in 1..N /\ \A x \in s : x <= m
        BY <2>2, MaxIs
      <3> HIDE DEF m
      <3>2. t \in P /\ (\A x \in t : x <= m - 1) /\ (\A x \in 1..m - 1 : x \in s <=> x \in t)
            /\ m - 1 \in 0..N /\ m \in 0..N
        BY <3>1
      <3> HIDE DEF t
      <3>3. R[N][s] = R[m][s]
        BY <1>5, <3>1, <3>2
      <3>4. R[N][t] = R[m - 1][t]
        BY <1>5, <3>2
      <3>5. R[m - 1][s] = R[m - 1][t]
        BY <1>6, <3>2
      <3>6. R[m][s] = D[m][R[m - 1][s]]
        BY <1>4, <3>1
      <3>7. R[N][s] = D[m][R[N][t]]
        BY <3>3, <3>4, <3>5, <3>6
      <3> QED
        BY <2>2, <3>7 DEF m, t
    <2> QED
      BY <2>1, <2>2
  <1>8. R[N] \in Y
    BY <1>4
  <1> QED
    BY <1>7, <1>8 DEF FoldsOver, Y

\* The first numbers, as a set to fold over.
LEMMA FirstNumbers ==
  ASSUME NEW N \in Nat, NEW k \in 1..N
  PROVE  /\ 1..k \in SUBSET (1..N) /\ 1..k # {}
         /\ Max(1..k) = k
         /\ (1..k) \ {Max(1..k)} = 1..(k - 1)
  <1>1. 1..k \in SUBSET (1..N) /\ k \in 1..k
    OBVIOUS
  <1>2. Max(1..k) \in 1..k /\ \A x \in 1..k : x <= Max(1..k)
    BY <1>1, MaxIs
  <1>3. Max(1..k) = k
    BY <1>1, <1>2
  <1> QED
    BY <1>1, <1>3

=============================================================================

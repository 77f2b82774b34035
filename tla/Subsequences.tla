---------------------------- MODULE Subsequences ----------------------------
(***************************************************************************)
(* The part of a sequence that belongs to a set.  SelectSeq takes an       *)
(* operator and has no definition the prover can use; Only takes a set and *)
(* scans the sequence with a recursive function.                           *)
(***************************************************************************)
EXTENDS Naturals, Sequences

\* The elements of s that are in T, in their order.
Only(s, T) ==
  LET only[n \in 0 .. Len(s)] ==
        IF n = 0 THEN <<>>
        ELSE IF s[n] \in T THEN Append(only[n - 1], s[n])
        ELSE only[n - 1]
  IN only[Len(s)]

=============================================================================

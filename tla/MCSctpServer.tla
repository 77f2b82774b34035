---------------------------- MODULE MCSctpServer ----------------------------
(* Instances of SctpServer for TLC: the tasks are model values.             *)
EXTENDS SctpServer

CONSTANTS r1, r2, s1

OneReceiver  == {r1}
TwoReceivers == {r1, r2}
OneSender    == {s1}
NoSender     == {}
Triple       == {r1, r2, s1}

\* Only is SelectSeq by a set, on every sequence of up to four elements.
ASSUME OnlySelects ==
  \A n \in 0 .. 4 : \A s \in [1 .. n -> 1 .. 3], T \in SUBSET (1 .. 3) :
    Only(s, T) = SelectSeq(s, LAMBDA x : x \in T)

=============================================================================

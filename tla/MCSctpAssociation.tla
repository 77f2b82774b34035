------------------------- MODULE MCSctpAssociation -------------------------
(* Instances of SctpAssociation for TLC: the tasks are model values given   *)
(* by the configuration, all of them receivers or senders.                  *)
EXTENDS SctpAssociation

CONSTANTS r1, r2, s1, s2

OneReceiver  == {r1}
TwoReceivers == {r1, r2}
NoSender     == {}
OneSender    == {s1}
TwoSenders   == {s1, s2}

Pair        == {r1, s1}
ReadersPair == {r1, r2, s1}
SendersPair == {r1, s1, s2}

\* Receivers are interchangeable, and so are senders (safety runs only).
Symmetry == Permutations(Receivers) \cup Permutations(Senders)

=============================================================================

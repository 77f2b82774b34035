--------------------------- MODULE MCSctpListener ---------------------------
(* Instances of SctpListener for TLC: the tasks are model values.           *)
EXTENDS SctpListener

CONSTANTS t1, t2

TwoAcceptors == {t1, t2}

=============================================================================

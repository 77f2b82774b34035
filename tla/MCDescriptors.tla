--------------------------- MODULE MCDescriptors ---------------------------
(* Instances of Descriptors for TLC.                                        *)
EXTENDS Descriptors, TLC

CONSTANTS t1, t2, t3

AllFaults == Constructors \X {"setup", "register"}

\* Every fault but the one whose error path closes twice.
BindRegisters == AllFaults \ {<<"bind", "register">>}

ThreeThreads == {t1, t2, t3}
TwoThreads   == {t1, t2}

Symmetry == Permutations(Threads)

=============================================================================

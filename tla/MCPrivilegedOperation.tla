----------------------- MODULE MCPrivilegedOperation -----------------------
(* Small instances of PrivilegedOperation for TLC.                         *)
EXTENDS PrivilegedOperation, TLC

CONSTANTS o1, o2, w1, w2

Interchangeable == Permutations(Op) \cup Permutations(Worker)
=============================================================================

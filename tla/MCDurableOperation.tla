------------------------- MODULE MCDurableOperation -------------------------
(* Small instances of DurableOperation for TLC.                            *)
EXTENDS DurableOperation, TLC

CONSTANTS w1, w2, bootstrap, restore, promotion, recovery

Kinds == [o \in Op |->
    CASE o = bootstrap -> "bootstrap"
      [] o = restore -> "restore"
      [] o = promotion -> "promotion"
      [] o = recovery -> "rollback"]

(* The failed promotion's recovery has an id derived from it.              *)
Recoveries == [o \in Op \cap {promotion} |-> recovery]

Workers == Permutations(Worker)
=============================================================================

------------------------- MODULE MCOutboxDelivery --------------------------
(* Small instances of OutboxDelivery for TLC.                              *)
EXTENDS OutboxDelivery, TLC

CONSTANTS w1, w2, dispatch1, issue, failure, recovery, email

Kinds == [d \in Delivery |->
    CASE d = dispatch1 -> "dispatch"
      [] d = issue -> "issue"
      [] d \in {failure, recovery} -> "discord"
      [] d = email -> "email"]

(* An incident: one failure notice before the recovery notice.             *)
Incident == [d \in Delivery |->
    CASE d = recovery -> {failure}
      [] OTHER -> {}]

Workers == Permutations(Worker)
=============================================================================

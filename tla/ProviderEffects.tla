-------------------------- MODULE ProviderEffects --------------------------
(***************************************************************************)
(* What the durable provider-operation runner promises its callers: a      *)
(* ledger of non-repeatable effects.  There are no leases, rows, retries   *)
(* or crashes here.  At most one call is under way on a provider target,   *)
(* at most one call of a key takes hold, and each key gets at most one     *)
(* answer, which is true and after which nothing more is sent for the key. *)
(***************************************************************************)
CONSTANTS Proc, Key, TargetOf

VARIABLES
    wants,     \* the key each request carries
    flight,    \* requests whose call is under way
    landed,    \* requests whose call took hold
    answer     \* the recorded answer of each key

vars == <<wants, flight, landed, answer>>

Took(k) == \E p \in landed : wants[p] = k

Init ==
    /\ wants \in [Proc -> Key]
    /\ flight = {}
    /\ landed = {}
    /\ answer = [k \in Key |-> "none"]

(* A call is sent: nothing is under way on the target, nothing took hold   *)
(* for the key and the key has no answer.                                  *)
Send(p) ==
    /\ \A q \in flight : TargetOf[wants[q]] # TargetOf[wants[p]]
    /\ ~ Took(wants[p])
    /\ answer[wants[p]] = "none"
    /\ flight' = flight \cup {p}
    /\ UNCHANGED <<wants, landed, answer>>

TakeHold(p) ==
    /\ p \in flight
    /\ flight' = flight \ {p}
    /\ landed' = landed \cup {p}
    /\ UNCHANGED <<wants, answer>>

Vanish(p) ==
    /\ p \in flight
    /\ flight' = flight \ {p}
    /\ UNCHANGED <<wants, landed, answer>>

(* The key is answered once, truthfully, with nothing of it under way.  A  *)
(* superseded key is closed without a claim about its effect.              *)
Settle(k, a) ==
    /\ answer[k] = "none"
    /\ \A q \in flight : wants[q] # k
    /\ a = "applied" => Took(k)
    /\ a = "unapplied" => ~ Took(k)
    /\ answer' = [answer EXCEPT ![k] = a]
    /\ UNCHANGED <<wants, flight, landed>>

Next ==
    \/ \E p \in Proc : Send(p) \/ TakeHold(p) \/ Vanish(p)
    \/ \E k \in Key, a \in {"applied", "unapplied", "superseded"} : Settle(k, a)

Spec == Init /\ [][Next]_vars

=============================================================================

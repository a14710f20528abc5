------------------------ MODULE MCProviderOperation ------------------------
(* Small instances of ProviderOperation for TLC.                           *)
EXTENDS ProviderOperation, TLC

CONSTANTS p1, p2, p3, k1, k2, t1, f1, f2

Ask(k, f, m, s) == [key |-> k, fp |-> f, mutate |-> m, supersede |-> s]

MCTargetOf == [k \in Key |-> t1]

(* Requests retrying one key, one of them under another fingerprint, one   *)
(* of them forbidden to mutate.                                            *)
SameKeyRequests ==
    {Ask(k1, f1, TRUE, FALSE), Ask(k1, f1, FALSE, FALSE), Ask(k1, f2, TRUE, FALSE)}

(* Requests of two keys that mutate one target and may supersede.          *)
TargetRequests ==
    {Ask(k1, f1, TRUE, TRUE), Ask(k2, f1, TRUE, TRUE)}

(* Both: retries of one key while another key wants the target.            *)
MixedRequests == SameKeyRequests \cup TargetRequests

Requesters == Permutations(Proc)
=============================================================================

----------------------- MODULE ProviderOperationProof -----------------------
(***************************************************************************)
(* Proofs about ProviderOperation for every set of requests, keys and      *)
(* targets, every lease and grace and every clock bound: the invariant Inv *)
(* is inductive and implies the safety properties TLC checks on small      *)
(* instances.                                                              *)
(*                                                                         *)
(* The argument: an owner is written into a row once, when its request     *)
(* acquires it (FreshOwners).  A row leaves "running" for good under that  *)
(* owner, so a record copied from a row that is not running never matches  *)
(* a later running row (CopiedOwnersStopped); an executor's own record     *)
(* matches only while no one took over.  Hence what an observation showed  *)
(* still holds whenever the compare-and-set it justifies succeeds          *)
(* (EvidenceHolds), and a call keeps its owner in the row (EffectsOwned).  *)
(***************************************************************************)
EXTENDS ProviderOperation, TLAPS

-----------------------------------------------------------------------------
(* Records.                                                                *)

(* The placeholder of a missing row is a record filed under its key.       *)
LEMMA NoRowFacts ==
    ASSUME NEW k \in Key
    PROVE  /\ NoRow(k) \in Record
           /\ NoRow(k).key = k
           /\ NoRow(k).state = "none"
           /\ NoRow(k).owner = NoProc
           /\ NoRow(k).response = "none"
BY ConstantsAssumption DEF NoRow, Record, States, Responses

(* What build_launchplane_mutation_reservation returns.                    *)
LEMMA NewReservationFacts ==
    ASSUME TypeOK, NEW p \in Proc
    PROVE  /\ NewReservation(p) \in Record
           /\ NewReservation(p).key = req[p].key
           /\ NewReservation(p).state = "running"
           /\ NewReservation(p).owner = p
           /\ NewReservation(p).started = 0
           /\ NewReservation(p).response = "none"
BY ConstantsAssumption DEF TypeOK, NewReservation, Record, States, Responses, Request

(* What every request can rely on about its own identity.                  *)
LEMMA RequestFacts ==
    ASSUME TypeOK, NEW p \in Proc
    PROVE  /\ req[p].key \in Key
           /\ req[p].fp \in Fingerprint
           /\ res[p].key \in Key
           /\ row[req[p].key] \in Record
           /\ Own(p) \in Record
           /\ row[req[p].key].key = req[p].key
           /\ Own(p).key = res[p].key
BY ConstantsAssumption DEF TypeOK, Request, Own, Record

(* An executor whose record matches the row owns the row.                  *)
LEMMA HolderFacts ==
    ASSUME Inv, NEW p \in Proc, pc[p] \in Holding
    PROVE  /\ res[p].key = req[p].key
           /\ res[p].owner = p
           /\ Own(p) = row[req[p].key]
           /\ Matches(Own(p), res[p]) => row[req[p].key].owner = p
                                         /\ row[req[p].key].started = res[p].started
BY DEF Inv, HeldRecords, Own, Matches

-----------------------------------------------------------------------------
(* Steps that write no row.                                                *)

(* A request moves on without writing: turned away, refused, answered,     *)
(* failed or crashed.                                                      *)
LEMMA ControlInv ==
    ASSUME Inv, NEW p \in Proc, NEW l \in PCs,
           UNCHANGED <<now, row, req, res, call>>,
           pc' = [pc EXCEPT ![p] = l],
           \/ l \in {"done", "crashed"}
           \/ l = "again" /\ pc[p] = "supersede"
           \/ l = "mark" /\ pc[p] \in {"apply", "dispatch", "waiting", "release"}
           \/ l = "release" /\ pc[p] = "apply" /\ res[p].started = 0
           \/ l = "complete" /\ pc[p] = "apply"
           \/ l = "apply" /\ pc[p] = "waiting" /\ call[p] # "flight"
    PROVE  Inv'
<1>a. TypeOK' BY DEF Inv, TypeOK, PCs
<1>b. OneCustodian' BY DEF Inv, OneCustodian
<1>c. ResponseWhenCompleted' BY DEF Inv, ResponseWhenCompleted
<1>d. FreshOwners' BY DEF Inv, TypeOK, FreshOwners, Asking
<1>e. HeldRecords' BY DEF Inv, TypeOK, HeldRecords, Holding
<1>f. CopiedOwnersStopped' BY DEF Inv, TypeOK, CopiedOwnersStopped, Copying, Own
<1>g. CallsInPlace' BY DEF Inv, TypeOK, CallsInPlace
<1>h. EffectsOwned' BY DEF Inv, TypeOK, EffectsOwned, Hot
<1>i. EvidenceHolds'
  BY DEF Inv, TypeOK, EvidenceHolds, Retryable, Own, Landed, Quiescent, Hot
<1>j. ReplayIsTrue' BY DEF Inv, ReplayIsTrue, Landed
<1> QED
  BY <1>a, <1>b, <1>c, <1>d, <1>e, <1>f, <1>g, <1>h, <1>i, <1>j DEF Inv

(* An observation or a quiescence check: the evidence holds when it is     *)
(* taken.  Without a recorded effect, absence alone is evidence enough.    *)
LEMMA ObserveInv ==
    ASSUME Inv, NEW p \in Proc, NEW l \in {"adopt", "retry", "supersede"},
           UNCHANGED <<now, row, req, res, call>>,
           pc' = [pc EXCEPT ![p] = l],
           \/ l = "adopt" /\ pc[p] = "reconcile" /\ Landed(res[p].key)
           \/ /\ l = "retry" /\ pc[p] = "reconcile" /\ Absent(res[p].key)
              /\ res[p].started = 0 \/ Quiescent(res[p].key)
           \/ l = "supersede" /\ pc[p] = "quiesce" /\ Quiescent(res[p].key)
    PROVE  Inv'
<1>a. TypeOK' BY DEF Inv, TypeOK, PCs
<1>b. OneCustodian' BY DEF Inv, OneCustodian
<1>c. ResponseWhenCompleted' BY DEF Inv, ResponseWhenCompleted
<1>d. FreshOwners' BY DEF Inv, TypeOK, FreshOwners, Asking
<1>e. HeldRecords' BY DEF Inv, TypeOK, HeldRecords, Holding
<1>f. CopiedOwnersStopped' BY DEF Inv, TypeOK, CopiedOwnersStopped, Copying, Own
<1>g. CallsInPlace' BY DEF Inv, TypeOK, CallsInPlace
<1>h. EffectsOwned' BY DEF Inv, TypeOK, EffectsOwned, Hot
<1>i. EvidenceHolds'
  <2>1. ASSUME Retryable(p), res[p].started = 0 PROVE Quiescent(res[p].key)
    BY <2>1 DEF Inv, EffectsOwned, Quiescent, Retryable, Matches, Own
  <2>2. Quiescent(res[p].key) = Quiescent(res[p].key)'
    BY DEF Inv, TypeOK, Quiescent, Hot
  <2>3. l \in {"retry", "supersede"} /\ Retryable(p) => Quiescent(res[p].key)'
    BY <2>1, <2>2
  <2>4. \A q \in Proc \ {p} : pc'[q] = pc[q] /\ Retryable(q)' = Retryable(q)
                              /\ Quiescent(res[q].key)' = Quiescent(res[q].key)
    BY DEF Inv, TypeOK, Retryable, Own, Quiescent, Hot
  <2>5. pc'[p] = l /\ Retryable(p)' = Retryable(p)
    BY DEF Inv, TypeOK, Retryable, Own
  <2> QED BY <2>3, <2>4, <2>5 DEF Inv, EvidenceHolds, Landed, Absent
<1>j. ReplayIsTrue' BY DEF Inv, ReplayIsTrue, Landed
<1> QED
  BY <1>a, <1>b, <1>c, <1>d, <1>e, <1>f, <1>g, <1>h, <1>i, <1>j DEF Inv

(* The adapter sends its call, or the provider settles it.                 *)
LEMMA CallInv ==
    ASSUME Inv, NEW p \in Proc, Dispatch(p) \/ Land(p) \/ Drop(p)
    PROVE  Inv'
<1> USE DEF Dispatch, Land, Drop, Goto
<1>a. TypeOK' BY DEF Inv, TypeOK, PCs
<1>b. OneCustodian' BY DEF Inv, OneCustodian
<1>c. ResponseWhenCompleted' BY DEF Inv, ResponseWhenCompleted
<1>d. FreshOwners' BY DEF Inv, TypeOK, FreshOwners, Asking
<1>e. HeldRecords' BY DEF Inv, TypeOK, HeldRecords, Holding
<1>f. CopiedOwnersStopped' BY DEF Inv, TypeOK, CopiedOwnersStopped, Copying, Own
<1>g. CallsInPlace' BY DEF Inv, TypeOK, CallsInPlace
<1>1. \A q \in Proc : /\ Hot(q)' => Hot(q)
                      /\ call'[q] = "landed" => call[q] = "landed" \/ Hot(q)
                      /\ call[q] = "landed" => call'[q] = "landed"
  BY DEF Inv, TypeOK, CallsInPlace, Hot
<1>2. row' = row /\ req' = req /\ res' = res
  OBVIOUS
<1>h. EffectsOwned'
  <2> SUFFICES ASSUME NEW q \in Proc
               PROVE  LET r == row[req[q].key] IN
                      /\ Hot(q)' => Active(r) /\ r.owner = q /\ r.started # 0
                      /\ call'[q] = "landed" =>
                            /\ r.state # "none"
                            /\ Active(r) => r.owner = q /\ r.started # 0
    BY <1>2 DEF EffectsOwned, Active
  <2> QED BY <1>1 DEF Inv, EffectsOwned, Active
<1>i. EvidenceHolds'
  <2> SUFFICES ASSUME NEW q \in Proc
               PROVE  /\ pc'[q] = "adopt" => Landed(res[q].key)'
                      /\ pc'[q] \in {"retry", "supersede"} /\ Retryable(q)'
                            => Quiescent(res[q].key)'
                      /\ pc'[q] = "retry" /\ Retryable(q)' => ~ Landed(res[q].key)'
    BY DEF EvidenceHolds
  <2>1. /\ Quiescent(res[q].key) => Quiescent(res[q].key)'
        /\ Landed(res[q].key) => Landed(res[q].key)'
        /\ Quiescent(res[q].key) /\ Landed(res[q].key)' => Landed(res[q].key)
    BY <1>1, <1>2 DEF Quiescent, Landed
  <2>2. /\ Retryable(q)' = Retryable(q)
        /\ pc'[q] \in {"adopt", "retry", "supersede"} => pc'[q] = pc[q]
    BY <1>2 DEF Inv, TypeOK, Retryable, Own
  <2> QED BY <2>1, <2>2 DEF Inv, EvidenceHolds
<1>j. ReplayIsTrue'
  BY DEF Inv, TypeOK, ReplayIsTrue, EffectsOwned, Active, Landed, Hot
<1> QED
  BY <1>a, <1>b, <1>c, <1>d, <1>e, <1>f, <1>g, <1>h, <1>i, <1>j DEF Inv

(* The passing of time, and a stuttering step, keep the invariant.         *)
LEMMA TickInv == ASSUME Inv, Tick \/ UNCHANGED vars PROVE Inv'
<1> USE DEF Tick, vars
<1>a. TypeOK' BY DEF Inv, TypeOK
<1>b. OneCustodian' BY DEF Inv, OneCustodian
<1>c. ResponseWhenCompleted' BY DEF Inv, ResponseWhenCompleted
<1>d. FreshOwners' BY DEF Inv, FreshOwners
<1>e. HeldRecords' BY DEF Inv, HeldRecords
<1>f. CopiedOwnersStopped' BY DEF Inv, CopiedOwnersStopped, Own
<1>g. CallsInPlace' BY DEF Inv, CallsInPlace
<1>h. EffectsOwned' BY DEF Inv, EffectsOwned, Hot
<1>i. EvidenceHolds' BY DEF Inv, EvidenceHolds, Retryable, Own, Landed, Quiescent, Hot
<1>j. ReplayIsTrue' BY DEF Inv, ReplayIsTrue, Landed
<1> QED
  BY <1>a, <1>b, <1>c, <1>d, <1>e, <1>f, <1>g, <1>h, <1>i, <1>j DEF Inv

-----------------------------------------------------------------------------
(* Steps of an executor on the row it owns.                                *)

(* Renewal and checkpoint, with or without their reply: the row stays      *)
(* running under its owner.                                                *)
LEMMA LeaseWriteInv ==
    ASSUME Inv, NEW p \in Proc, Renew(p) \/ CheckpointEffect(p)
    PROVE  Inv'
<1> DEFINE k == req[p].key
<1>1. /\ pc[p] \in {"apply", "dispatch", "waiting"}
      /\ k \in Key
      /\ res[p].key = k /\ res[p].owner = p
      /\ row[k] \in Record
      /\ row[k].key = k
      /\ row[k].state = "running"
      /\ row[k].owner = p
      /\ Own(p) = row[k]
      /\ now \in Nat \ {0} /\ now + Lease \in Nat
  <2>1. pc[p] \in {"apply", "dispatch", "waiting"} /\ Live(p)
    BY DEF Renew, CheckpointEffect, Executing
  <2>2. pc[p] \in Holding /\ TypeOK
    BY <2>1 DEF Holding, Inv
  <2>3. now \in Nat \ {0} /\ now + Lease \in Nat
    BY <2>2, ConstantsAssumption DEF TypeOK
  <2> QED BY <2>1, <2>2, <2>3, RequestFacts, HolderFacts DEF Live
<1>2. PICK r \in Record :
        /\ r.key = k /\ r.state = "running" /\ r.owner = p
        /\ r.response = row[k].response
        /\ row' = [row EXCEPT ![k] = r]
        /\ \/ /\ pc' = pc
              /\ r.started = row[k].started
              /\ res' = [res EXCEPT ![p] = r] \/ res' = res
           \/ /\ pc[p] = "apply"
              /\ r.started # 0
              /\ \/ /\ pc' = [pc EXCEPT ![p] = IF call[p] = "none" THEN "dispatch" ELSE "apply"]
                    /\ res' = [res EXCEPT ![p] = r]
                 \/ pc' = [pc EXCEPT ![p] = "mark"] /\ res' = res
  <2> HIDE DEF k
  <2>1. CASE Renew(p)
    <3> DEFINE r == [row[k] EXCEPT !.expires = now + Lease]
    <3>1. /\ r \in Record /\ r.key = k /\ r.state = "running" /\ r.owner = p
          /\ r.response = row[k].response /\ r.started = row[k].started
      BY <1>1 DEF Record
    <3> QED BY <1>1, <2>1, <3>1 DEF Renew, Put, Hold
  <2>2. CASE CheckpointEffect(p)
    <3>1. PICK ph \in 1..MaxPhase :
            LET r == [Own(p) EXCEPT !.expires = now + Lease, !.phase = ph, !.started = now]
            IN /\ Put(r)
               /\ \/ Hold(p, r) /\ Goto(p, IF call[p] = "none" THEN "dispatch" ELSE "apply")
                  \/ Goto(p, "mark") /\ UNCHANGED res
      BY <2>2 DEF CheckpointEffect
    <3> DEFINE r == [row[k] EXCEPT !.expires = now + Lease, !.phase = ph, !.started = now]
    <3>2. ph \in 0..MaxPhase
      BY ConstantsAssumption
    <3>3. /\ r \in Record /\ r.key = k /\ r.state = "running" /\ r.owner = p
          /\ r.response = row[k].response /\ r.started # 0
      BY <1>1, <3>2 DEF Record
    <3>4. /\ pc[p] = "apply"
          /\ row' = [row EXCEPT ![k] = r]
          /\ \/ /\ pc' = [pc EXCEPT ![p] = IF call[p] = "none" THEN "dispatch" ELSE "apply"]
                /\ res' = [res EXCEPT ![p] = r]
             \/ pc' = [pc EXCEPT ![p] = "mark"] /\ res' = res
      BY <1>1, <2>2, <3>1, <3>3 DEF CheckpointEffect, Put, Hold, Goto
    <3> HIDE DEF r
    <3> QED BY <3>3, <3>4
  <2> QED BY <2>1, <2>2
<1>3. req' = req /\ call' = call /\ now' = now
  BY DEF Renew, CheckpointEffect
<1> HIDE DEF k
<1> USE <1>1, <1>2, <1>3
<1>a. TypeOK' BY DEF Inv, TypeOK, PCs
<1>b. OneCustodian' BY DEF Inv, TypeOK, OneCustodian, Active
<1>c. ResponseWhenCompleted' BY DEF Inv, TypeOK, ResponseWhenCompleted
<1>d. FreshOwners' BY DEF Inv, TypeOK, FreshOwners, Asking
<1>e. HeldRecords' BY DEF Inv, TypeOK, HeldRecords, Holding, k
<1>f. CopiedOwnersStopped' BY DEF Inv, TypeOK, CopiedOwnersStopped, Copying, Own
<1>g. CallsInPlace' BY DEF Inv, TypeOK, CallsInPlace
<1>h. EffectsOwned' BY DEF Inv, TypeOK, EffectsOwned, Active, Hot, k
<1>i. EvidenceHolds'
  BY DEF Inv, TypeOK, EvidenceHolds, Retryable, Own, Landed, Quiescent, Hot, k
<1>j. ReplayIsTrue' BY DEF Inv, TypeOK, ReplayIsTrue, Landed
<1> QED
  BY <1>a, <1>b, <1>c, <1>d, <1>e, <1>f, <1>g, <1>h, <1>i, <1>j DEF Inv

(* The owner gives its running row up to reconciliation: marked, expired   *)
(* at completion, or handed off.                                           *)
LEMMA GiveUpInv ==
    ASSUME Inv, NEW p \in Proc, NEW r \in Record, NEW l \in {"done", "adopt_own"},
           pc[p] \in Holding,
           l = "adopt_own" => pc[p] = "complete",
           Active(Own(p)), Matches(Own(p), res[p]),
           r.key = Own(p).key, r.state = "reconcile_required", r.owner = Own(p).owner,
           r.started = Own(p).started, r.response = Own(p).response,
           Own(p).state = "reconcile_required" => r = Own(p),
           Put(r), Goto(p, l), UNCHANGED <<now, req, res, call>>
    PROVE  Inv'
<1> DEFINE k == req[p].key
<1>1. /\ k \in Key /\ res[p].key = k /\ res[p].owner = p
      /\ row[k].owner = p /\ Own(p) = row[k] /\ Active(row[k])
      /\ row' = [row EXCEPT ![k] = r]
      /\ pc' = [pc EXCEPT ![p] = l]
      /\ r.key = k
  <2>1. TypeOK
    BY DEF Inv
  <2>2. k \in Key /\ row[k].key = k
    BY <2>1, RequestFacts
  <2>3. res[p].key = k /\ res[p].owner = p /\ Own(p) = row[k] /\ row[k].owner = p
    BY HolderFacts
  <2> QED BY <2>1, <2>2, <2>3 DEF Put, Goto
<1>2. row[k].state = "running" \/ row' = row
  <2>1. row[k].state \in {"running", "reconcile_required"} /\ row \in [Key -> Record]
    BY <1>1 DEF Active, Inv, TypeOK
  <2>2. row[k].state = "reconcile_required" => r = row[k]
    BY <1>1
  <2>3. r = row[k] => row' = row
    BY <1>1, <2>1
  <2> QED BY <2>1, <2>2, <2>3
<1> HIDE DEF k
<1> USE <1>1
<1>a. TypeOK' BY DEF Inv, TypeOK, PCs
<1>b. OneCustodian' BY DEF Inv, TypeOK, OneCustodian, Active
<1>c. ResponseWhenCompleted' BY DEF Inv, TypeOK, ResponseWhenCompleted, Active
<1>d. FreshOwners' BY DEF Inv, TypeOK, FreshOwners, Asking
<1>e. HeldRecords' BY DEF Inv, TypeOK, HeldRecords, Holding, k
<1>f. CopiedOwnersStopped' BY DEF Inv, TypeOK, CopiedOwnersStopped, Copying, Own
<1>g. CallsInPlace' BY DEF Inv, TypeOK, CallsInPlace
<1>h. EffectsOwned' BY DEF Inv, TypeOK, EffectsOwned, Active, Hot, k
<1>i. EvidenceHolds'
  <2>1. \A q \in Proc : pc'[q] \in {"adopt", "retry", "supersede"} =>
            pc'[q] = pc[q] /\ (Retryable(q)' => Retryable(q))
    BY <1>2 DEF Inv, TypeOK, CopiedOwnersStopped, Copying, Retryable, Matches, Own
  <2>2. \A q \in Proc : Hot(q)' => Hot(q)
    BY DEF Inv, TypeOK, Hot
  <2>3. \A j : (Quiescent(j) => Quiescent(j)') /\ Landed(j)' = Landed(j)
    BY <2>2 DEF Quiescent, Landed
  <2> QED BY <2>1, <2>3 DEF Inv, EvidenceHolds
<1>j. ReplayIsTrue' BY DEF Inv, TypeOK, ReplayIsTrue, Landed
<1> QED
  BY <1>a, <1>b, <1>c, <1>d, <1>e, <1>f, <1>g, <1>h, <1>i, <1>j DEF Inv

(* The owner completes its row, or adopts its own outcome, with a true     *)
(* response: any call of the key that took hold is its own.                *)
LEMMA CompleteInv ==
    ASSUME Inv, NEW p \in Proc,
           pc[p] \in {"complete", "adopt_own"},
           Active(Own(p)), Matches(Own(p), res[p]),
           Put(Completed(Own(p), OutcomeOf(p))), Goto(p, "done"),
           UNCHANGED <<now, req, res, call>>
    PROVE  Inv'
<1> DEFINE k == req[p].key
           r == Completed(row[k], OutcomeOf(p))
<1>1. /\ k \in Key /\ res[p].key = k /\ row[k] \in Record /\ row[k].key = k
      /\ row[k].owner = p /\ Own(p) = row[k] /\ Active(row[k])
  BY RequestFacts, HolderFacts DEF Inv, Holding
<1>2. /\ r \in Record /\ r.key = k /\ r.state = "completed" /\ r.owner = p
      /\ r.response \in {"applied", "unapplied"}
      /\ r.response = "applied" <=> call[p] = "landed"
  <2> HIDE DEF k
  <2> QED BY <1>1 DEF Completed, OutcomeOf, Record, States, Responses
<1> HIDE DEF r
<1>3. row' = [row EXCEPT ![k] = r] /\ pc' = [pc EXCEPT ![p] = "done"]
  BY <1>1, <1>2 DEF Put, Goto, r
<1>4. \A q \in Proc : req[q].key = k /\ (Hot(q) \/ call[q] = "landed") => q = p
  BY <1>1 DEF Inv, EffectsOwned
<1>5. ~ Hot(p)
  BY DEF Inv, CallsInPlace, Hot
<1> HIDE DEF k
<1> USE <1>1, <1>2, <1>3, <1>4, <1>5
<1>a. TypeOK' BY DEF Inv, TypeOK, PCs
<1>b. OneCustodian' BY DEF Inv, TypeOK, OneCustodian, Active
<1>c. ResponseWhenCompleted' BY DEF Inv, TypeOK, ResponseWhenCompleted, Active
<1>d. FreshOwners' BY DEF Inv, TypeOK, FreshOwners, Asking
<1>e. HeldRecords' BY DEF Inv, TypeOK, HeldRecords, Holding, k
<1>f. CopiedOwnersStopped' BY DEF Inv, TypeOK, CopiedOwnersStopped, Copying, Own
<1>g. CallsInPlace' BY DEF Inv, TypeOK, CallsInPlace
<1>h. EffectsOwned' BY DEF Inv, TypeOK, EffectsOwned, Active, Hot, k
<1>i. EvidenceHolds'
  BY DEF Inv, TypeOK, EvidenceHolds, Retryable, Own, Landed, Quiescent, Hot, k
<1>j. ReplayIsTrue' BY DEF Inv, TypeOK, ReplayIsTrue, Landed, k
<1> QED
  BY <1>a, <1>b, <1>c, <1>d, <1>e, <1>f, <1>g, <1>h, <1>i, <1>j DEF Inv

(* A request adopts what it observed.  The observed call is the owner's,   *)
(* so the owner is not about to act.                                       *)
LEMMA AdoptObservedInv ==
    ASSUME Inv, NEW p \in Proc, AdoptObserved(p) PROVE Inv'
<1> DEFINE k == req[p].key
           r == Completed(row[k], "applied")
<1>1. /\ pc[p] = "adopt" /\ k \in Key /\ res[p].key = k
      /\ row[k] \in Record /\ row[k].key = k
      /\ Own(p) = row[k] /\ Active(row[k]) /\ Landed(k)
  BY RequestFacts DEF Inv, AdoptObserved, HeldRecords, EvidenceHolds, Own, Active
<1>2. /\ r \in Record /\ r.key = k /\ r.state = "completed"
      /\ r.owner = row[k].owner /\ r.response = "applied"
  <2> HIDE DEF k
  <2> QED BY <1>1 DEF Completed, Record, States, Responses
<1> HIDE DEF r
<1>3. /\ row' = [row EXCEPT ![k] = r] /\ pc' = [pc EXCEPT ![p] = "done"]
      /\ UNCHANGED <<now, req, res, call>>
  BY <1>1, <1>2 DEF AdoptObserved, Put, Goto, r
<1>4. PICK o \in Proc : req[o].key = k /\ call[o] = "landed"
  BY <1>1 DEF Landed
<1>5. \A q \in Proc : req[q].key = k => ~ Hot(q)
  <2>1. \A q \in Proc : req[q].key = k /\ Hot(q) => q = o
    BY <1>1, <1>4 DEF Inv, EffectsOwned
  <2>2. ~ Hot(o)
    BY <1>4 DEF Inv, CallsInPlace, Hot
  <2> QED BY <2>1, <2>2
<1> HIDE DEF k
<1> USE <1>1, <1>2, <1>3, <1>5
<1>a. TypeOK' BY DEF Inv, TypeOK, PCs
<1>b. OneCustodian' BY DEF Inv, TypeOK, OneCustodian, Active
<1>c. ResponseWhenCompleted' BY DEF Inv, TypeOK, ResponseWhenCompleted, Active
<1>d. FreshOwners' BY DEF Inv, TypeOK, FreshOwners, Asking
<1>e. HeldRecords' BY DEF Inv, TypeOK, HeldRecords, Holding, k
<1>f. CopiedOwnersStopped' BY DEF Inv, TypeOK, CopiedOwnersStopped, Copying, Own
<1>g. CallsInPlace' BY DEF Inv, TypeOK, CallsInPlace
<1>h. EffectsOwned' BY DEF Inv, TypeOK, EffectsOwned, Active, Hot, k
<1>i. EvidenceHolds'
  BY DEF Inv, TypeOK, EvidenceHolds, Retryable, Own, Landed, Quiescent, Hot, k
<1>j. ReplayIsTrue' BY <1>4 DEF Inv, TypeOK, ReplayIsTrue, Landed, k
<1> QED
  BY <1>a, <1>b, <1>c, <1>d, <1>e, <1>f, <1>g, <1>h, <1>i, <1>j DEF Inv

(* The owner gives a reservation back.  Its record shows no effect and     *)
(* matches the row, so nothing of the key is possible or took hold.        *)
LEMMA ReleaseInv ==
    ASSUME Inv, NEW p \in Proc, pc[p] = "release",
           Own(p).state = "running", Matches(Own(p), res[p]),
           Put(NoRow(res[p].key)), Goto(p, "done"), UNCHANGED <<now, req, res, call>>
    PROVE  Inv'
<1> DEFINE k == req[p].key
           r == NoRow(k)
<1>1. /\ k \in Key /\ res[p].key = k /\ row[k].owner = p
      /\ row[k].started = 0 /\ Own(p) = row[k] /\ row[k].state = "running"
  BY RequestFacts, HolderFacts DEF Inv, Holding, HeldRecords
<1>2. /\ r \in Record /\ r.key = k /\ r.state = "none"
      /\ r.owner = NoProc /\ r.response = "none"
  BY <1>1, NoRowFacts, RequestFacts DEF Inv
<1> HIDE DEF r
<1>3. row' = [row EXCEPT ![k] = r] /\ pc' = [pc EXCEPT ![p] = "done"]
  BY <1>1, <1>2 DEF Put, Goto, r
<1>4. \A q \in Proc : req[q].key = k => ~ Hot(q) /\ call[q] # "landed"
  BY <1>1 DEF Inv, EffectsOwned, Active
<1> HIDE DEF k
<1> USE <1>1, <1>2, <1>3, <1>4, ConstantsAssumption
<1>a. TypeOK' BY DEF Inv, TypeOK, PCs
<1>b. OneCustodian' BY DEF Inv, TypeOK, OneCustodian, Active
<1>c. ResponseWhenCompleted' BY DEF Inv, TypeOK, ResponseWhenCompleted, Active
<1>d. FreshOwners' BY DEF Inv, TypeOK, FreshOwners, Asking
<1>e. HeldRecords' BY DEF Inv, TypeOK, HeldRecords, Holding, k
<1>f. CopiedOwnersStopped' BY DEF Inv, TypeOK, CopiedOwnersStopped, Copying, Own
<1>g. CallsInPlace' BY DEF Inv, TypeOK, CallsInPlace
<1>h. EffectsOwned' BY DEF Inv, TypeOK, EffectsOwned, Active, Hot, k
<1>i. EvidenceHolds'
  BY DEF Inv, TypeOK, EvidenceHolds, Retryable, Own, Landed, Quiescent, Hot, k
<1>j. ReplayIsTrue' BY DEF Inv, TypeOK, ReplayIsTrue, Landed, k
<1> QED
  BY <1>a, <1>b, <1>c, <1>d, <1>e, <1>f, <1>g, <1>h, <1>i, <1>j DEF Inv

-----------------------------------------------------------------------------
(* Steps of a request that holds no lease.                                 *)

(* reserve_mutation finds an active row, moves it to reconcile_required    *)
(* when its lease expired, and hands the request a copy.                   *)
LEMMA CopyInv ==
    ASSUME Inv, NEW p \in Proc, NEW k \in Key, NEW l \in {"quiesce", "reconcile", "done"},
           NEW r \in Record,
           pc[p] \in {"idle", "again"},
           Active(row[k]),
           r = row[k] \/ r = Reconciled(row[k]),
           l = "quiesce" => r.state = "reconcile_required" /\ TargetOf[k] = TargetOf[req[p].key],
           l = "reconcile" => r.state = "reconcile_required" /\ k = req[p].key,
           Put(r), Hold(p, r), Goto(p, l), UNCHANGED <<now, req, call>>
    PROVE  Inv'
<1>1. /\ row[k] \in Record /\ row[k].key = k
      /\ r.key = k /\ r.owner = row[k].owner /\ r.started = row[k].started
      /\ r.response = row[k].response
      /\ r.state \in {row[k].state, "reconcile_required"}
  BY DEF Inv, TypeOK, Reconciled, Record
<1>2. /\ row' = [row EXCEPT ![k] = r]
      /\ pc' = [pc EXCEPT ![p] = l]
      /\ res' = [res EXCEPT ![p] = r]
  BY <1>1 DEF Put, Hold, Goto
<1>3. r = row[k] \/ row[k].state = "running"
  BY <1>1 DEF Reconciled, Active, Record
<1> USE <1>1, <1>2
<1>a. TypeOK' BY DEF Inv, TypeOK, PCs
<1>b. OneCustodian' BY DEF Inv, TypeOK, OneCustodian, Active
<1>c. ResponseWhenCompleted' BY DEF Inv, TypeOK, ResponseWhenCompleted, Active
<1>d. FreshOwners' BY DEF Inv, TypeOK, FreshOwners, Asking
<1>e. HeldRecords' BY DEF Inv, TypeOK, HeldRecords, Holding
<1>f. CopiedOwnersStopped'
  BY DEF Inv, TypeOK, CopiedOwnersStopped, FreshOwners, Asking, Copying, Own
<1>g. CallsInPlace' BY DEF Inv, TypeOK, CallsInPlace
<1>h. EffectsOwned' BY DEF Inv, TypeOK, EffectsOwned, Active, Hot
<1>i. EvidenceHolds'
  <2> SUFFICES ASSUME NEW q \in Proc
               PROVE  /\ pc'[q] = "adopt" => Landed(res[q].key)'
                      /\ pc'[q] \in {"retry", "supersede"} /\ Retryable(q)'
                            => Quiescent(res[q].key)'
                      /\ pc'[q] = "retry" /\ Retryable(q)' => ~ Landed(res[q].key)'
    BY DEF EvidenceHolds
  <2>1. pc'[q] \in {"adopt", "retry", "supersede"} =>
            /\ pc'[q] = pc[q] /\ res'[q] = res[q]
            /\ Retryable(q)' => Retryable(q)
    BY <1>3 DEF Inv, TypeOK, CopiedOwnersStopped, Copying, Retryable, Matches, Own
  <2>2. res'[q] = res[q] => /\ Quiescent(res[q].key) => Quiescent(res[q].key)'
                            /\ Landed(res[q].key)' = Landed(res[q].key)
    BY DEF Inv, TypeOK, Quiescent, Landed, Hot
  <2> QED BY <2>1, <2>2 DEF Inv, EvidenceHolds
<1>j. ReplayIsTrue' BY DEF Inv, TypeOK, ReplayIsTrue, Landed
<1> QED
  BY <1>a, <1>b, <1>c, <1>d, <1>e, <1>f, <1>g, <1>h, <1>i, <1>j DEF Inv

(* The key and the target are free: nothing of the key was ever sent.      *)
LEMMA ReserveAcquiredInv ==
    ASSUME Inv, NEW p \in Proc, ReserveAcquired(p) PROVE Inv'
<1> DEFINE k == req[p].key
           r == NewReservation(p)
           l == IF req[p].mutate THEN "apply" ELSE "release"
<1>1. /\ k \in Key /\ row[k].state = "none" /\ pc[p] \in {"idle", "again"}
      /\ \A j \in Key : TargetOf[j] = TargetOf[k] => ~ Active(row[j])
  BY RequestFacts DEF Inv, ReserveAcquired, TargetHolder
<1>2. /\ r \in Record /\ r.key = k /\ r.state = "running" /\ r.owner = p
      /\ r.started = 0 /\ r.response = "none"
  BY NewReservationFacts DEF Inv
<1> HIDE DEF r
<1>3. /\ row' = [row EXCEPT ![k] = r] /\ res' = [res EXCEPT ![p] = r]
      /\ pc' = [pc EXCEPT ![p] = l] /\ l \in {"apply", "release"}
      /\ UNCHANGED <<now, req, call>>
  BY <1>2 DEF ReserveAcquired, Put, Hold, Goto, r
<1> HIDE DEF k, l
<1>4. \A q \in Proc : req[q].key = k => ~ Hot(q) /\ call[q] # "landed"
  BY <1>1 DEF Inv, EffectsOwned, Active, k
<1> USE <1>1, <1>2, <1>3, <1>4
<1>a. TypeOK' BY DEF Inv, TypeOK, PCs
<1>b. OneCustodian' BY DEF Inv, TypeOK, OneCustodian, Active
<1>c. ResponseWhenCompleted' BY DEF Inv, TypeOK, ResponseWhenCompleted, Active
<1>d. FreshOwners' BY DEF Inv, TypeOK, FreshOwners, Asking
<1>e. HeldRecords' BY DEF Inv, TypeOK, HeldRecords, Holding, k
<1>f. CopiedOwnersStopped'
  BY DEF Inv, TypeOK, CopiedOwnersStopped, FreshOwners, Asking, Copying, Own
<1>g. CallsInPlace' BY DEF Inv, TypeOK, CallsInPlace, FreshOwners, Asking
<1>h. EffectsOwned' BY DEF Inv, TypeOK, EffectsOwned, Active, Hot, k
<1>i. EvidenceHolds'
  BY DEF Inv, TypeOK, EvidenceHolds, Retryable, Own, Landed, Quiescent, Hot, k
<1>j. ReplayIsTrue' BY DEF Inv, TypeOK, ReplayIsTrue, Landed, k
<1> QED
  BY <1>a, <1>b, <1>c, <1>d, <1>e, <1>f, <1>g, <1>h, <1>i, <1>j DEF Inv

(* A retry: the evidence it rests on still holds, so the new owner takes   *)
(* over a row nothing of which is possible or took hold.                   *)
LEMMA RetryInv ==
    ASSUME Inv, NEW p \in Proc, RetryReconciled(p) PROVE Inv'
<1> DEFINE k == req[p].key
<1>1. /\ pc[p] = "retry" /\ k \in Key /\ res[p].key = k
      /\ row[k] \in Record /\ row[k].key = k
      /\ Own(p) = row[k] /\ row[k].state = "reconcile_required"
      /\ Quiescent(k) /\ ~ Landed(k)
      /\ now + Lease \in Nat
  <2>1. now + Lease \in Nat BY ConstantsAssumption DEF Inv, TypeOK
  <2> QED BY <2>1, RequestFacts
             DEF Inv, RetryReconciled, Retryable, HeldRecords, EvidenceHolds, Own
<1>2. PICK r \in Record :
        /\ r.key = k /\ r.state = "running" /\ r.owner = p
        /\ r.response = row[k].response
        /\ row' = [row EXCEPT ![k] = r] /\ res' = [res EXCEPT ![p] = r]
  <2>1. PICK preserve \in BOOLEAN :
          LET r == [Own(p) EXCEPT !.state = "running", !.owner = p,
                                  !.expires = now + Lease, !.attempt = @ + 1,
                                  !.phase = IF preserve THEN @ ELSE 0,
                                  !.started = IF preserve THEN @ ELSE 0]
          IN Put(r) /\ Hold(p, r)
    BY DEF RetryReconciled
  <2> HIDE DEF k
  <2> DEFINE at == row[k].attempt + 1
             ph == IF preserve THEN row[k].phase ELSE 0
             st == IF preserve THEN row[k].started ELSE 0
             r  == [row[k] EXCEPT !.state = "running", !.owner = p,
                                  !.expires = now + Lease, !.attempt = at,
                                  !.phase = ph, !.started = st]
  <2>2. at \in Nat /\ ph \in 0..MaxPhase /\ st \in Nat
    BY <1>1, ConstantsAssumption DEF Record
  <2>3. Put(r) /\ Hold(p, r)
    BY <1>1, <2>1
  <2> HIDE DEF at, ph, st
  <2>4. /\ r \in Record /\ r.key = k /\ r.state = "running" /\ r.owner = p
        /\ r.response = row[k].response
    BY <1>1, <2>2 DEF Record, States
  <2> QED BY <2>3, <2>4 DEF Put, Hold
<1>3. pc' = [pc EXCEPT ![p] = "apply"] /\ UNCHANGED <<now, req, call>>
  BY DEF RetryReconciled, Goto
<1>4. \A q \in Proc : req[q].key = k => ~ Hot(q) /\ call[q] # "landed"
  BY <1>1 DEF Quiescent, Landed
<1> HIDE DEF k
<1> USE <1>1, <1>2, <1>3, <1>4
<1>a. TypeOK' BY DEF Inv, TypeOK, PCs
<1>b. OneCustodian' BY DEF Inv, TypeOK, OneCustodian, Active
<1>c. ResponseWhenCompleted' BY DEF Inv, TypeOK, ResponseWhenCompleted, Active
<1>d. FreshOwners' BY DEF Inv, TypeOK, FreshOwners, Asking
<1>e. HeldRecords' BY DEF Inv, TypeOK, HeldRecords, Holding, k
<1>f. CopiedOwnersStopped'
  BY DEF Inv, TypeOK, CopiedOwnersStopped, FreshOwners, Asking, Copying, Own
<1>g. CallsInPlace' BY DEF Inv, TypeOK, CallsInPlace, FreshOwners, Asking
<1>h. EffectsOwned' BY DEF Inv, TypeOK, EffectsOwned, Active, Hot, k
<1>i. EvidenceHolds'
  BY DEF Inv, TypeOK, EvidenceHolds, Retryable, Own, Landed, Quiescent, Hot, k
<1>j. ReplayIsTrue' BY DEF Inv, TypeOK, ReplayIsTrue, Landed, k
<1> QED
  BY <1>a, <1>b, <1>c, <1>d, <1>e, <1>f, <1>g, <1>h, <1>i, <1>j DEF Inv

(* A supersession: the old holder is quiescent and its row closes; the     *)
(* new key had no row, so nothing of it was ever sent.                     *)
LEMMA SupersedeInv ==
    ASSUME Inv, NEW p \in Proc, Supersede(p) PROVE Inv'
<1> DEFINE k == req[p].key
           o == res[p].key
           c == Completed(row[o], "superseded")
<1>1. /\ pc[p] = "supersede" /\ k \in Key /\ o \in Key /\ k # o
      /\ row[o] \in Record /\ row[o].key = o
      /\ row[o].state = "reconcile_required" /\ row[k].state = "none"
      /\ Quiescent(o) /\ TargetOf[o] = TargetOf[k]
  <2>1. /\ pc[p] = "supersede" /\ Own(p).state = "reconcile_required"
        /\ Matches(Own(p), res[p]) /\ row[k].state = "none"
    BY DEF Supersede, SupersessionAdmitted, Matches
  <2> QED BY <2>1, RequestFacts DEF Inv, HeldRecords, EvidenceHolds, Retryable, Own
<1>2. /\ c \in Record /\ c.key = o /\ c.state = "completed"
      /\ c.owner = row[o].owner /\ c.response = "superseded"
  <2> HIDE DEF o
  <2> QED BY <1>1 DEF Completed, Record, States, Responses
<1>3. PICK r \in Record :
        /\ r.key = k /\ r.state = "running" /\ r.owner = p /\ r.response = "none"
        /\ row' = [row EXCEPT ![o] = c, ![k] = r]
        /\ res' = [res EXCEPT ![p] = r]
  <2>1. PICK retain \in BOOLEAN :
          LET r == IF retain
                   THEN [NewReservation(p) EXCEPT !.phase = 1, !.started = now]
                   ELSE NewReservation(p)
          IN row' = [row EXCEPT ![o] = c, ![k] = r] /\ Hold(p, r)
    BY DEF Supersede
  <2> DEFINE n == NewReservation(p)
             e == [n EXCEPT !.phase = 1, !.started = now]
  <2>2. /\ n \in Record /\ n.key = k /\ n.state = "running" /\ n.owner = p
        /\ n.response = "none"
    BY NewReservationFacts DEF Inv
  <2>3. 1 \in 0..MaxPhase /\ now \in Nat
    BY ConstantsAssumption DEF Inv, TypeOK
  <2> HIDE DEF n
  <2>4. /\ e \in Record /\ e.key = k /\ e.state = "running" /\ e.owner = p
        /\ e.response = "none"
    BY <2>2, <2>3 DEF Record
  <2> QED BY <2>1, <2>2, <2>4 DEF Hold, n
<1>4. pc' = [pc EXCEPT ![p] = "apply"] /\ UNCHANGED <<now, req, call>>
  BY DEF Supersede, Goto
<1>5. /\ \A q \in Proc : req[q].key = k => ~ Hot(q) /\ call[q] # "landed"
      /\ \A q \in Proc : req[q].key = o => ~ Hot(q)
  BY <1>1 DEF Inv, EffectsOwned, Active, Quiescent
<1>6. \A j \in Key : TargetOf[j] = TargetOf[k] /\ Active(row[j]) => j = o
  BY <1>1 DEF Inv, OneCustodian, Active
<1> HIDE DEF k, o, c
<1>7. \A j \in Key : row'[j] = IF j = k THEN r ELSE IF j = o THEN c ELSE row[j]
  BY <1>1, <1>3 DEF Inv, TypeOK
<1>8. \A q \in Proc : q # p => pc'[q] = pc[q] /\ res'[q] = res[q] /\ res[q].owner # p
  BY <1>1, <1>3, <1>4 DEF Inv, TypeOK, FreshOwners, Asking
<1>9. pc'[p] = "apply" /\ res'[p] = r
  BY <1>3, <1>4 DEF Inv, TypeOK
<1>10. \A q \in Proc : req'[q].key = req[q].key /\ call'[q] = call[q] /\ req[q].key \in Key
                        /\ res[q].key \in Key
  BY <1>4, RequestFacts DEF Inv
<1>f. CopiedOwnersStopped'
  <2> SUFFICES ASSUME NEW q \in Proc \ {p}, pc[q] \in Copying,
                      row'[res[q].key].state = "running"
               PROVE  row'[res[q].key].owner # res[q].owner
    BY <1>8, <1>9 DEF CopiedOwnersStopped, Copying, Own
  <2>1. CASE res[q].key = k
    <3>1. row'[k] = r BY <1>1, <1>7
    <3>2. r.owner = p BY <1>3
    <3>3. res[q].owner # p BY <1>8
    <3> QED BY <2>1, <3>1, <3>2, <3>3
  <2>2. CASE res[q].key # k
    BY <1>2, <1>7, <1>10, <2>2 DEF Inv, CopiedOwnersStopped, Own
  <2> QED BY <2>1, <2>2
<1>h. EffectsOwned'
  <2> SUFFICES ASSUME NEW q \in Proc
               PROVE  /\ Hot(q)' => /\ Active(row'[req[q].key])
                                    /\ row'[req[q].key].owner = q
                                    /\ row'[req[q].key].started # 0
                      /\ call[q] = "landed" =>
                            /\ row'[req[q].key].state # "none"
                            /\ Active(row'[req[q].key]) =>
                                  /\ row'[req[q].key].owner = q
                                  /\ row'[req[q].key].started # 0
    BY <1>10 DEF EffectsOwned, Active
  <2>1. Hot(q)' => Hot(q)
    BY <1>8, <1>9, <1>10 DEF Hot
  <2>2. CASE req[q].key = k
    BY <1>5, <2>1, <2>2
  <2>3. CASE req[q].key = o
    BY <1>1, <1>2, <1>5, <1>7, <2>1, <2>3 DEF Active
  <2>4. CASE req[q].key # k /\ req[q].key # o
    BY <1>7, <1>10, <2>1, <2>4 DEF Inv, EffectsOwned, Active
  <2> QED BY <2>2, <2>3, <2>4
<1>i. EvidenceHolds'
  <2> SUFFICES ASSUME NEW q \in Proc \ {p}
               PROVE  /\ pc'[q] = "adopt" => Landed(res[q].key)'
                      /\ pc'[q] \in {"retry", "supersede"} /\ Retryable(q)'
                            => Quiescent(res[q].key)'
                      /\ pc'[q] = "retry" /\ Retryable(q)' => ~ Landed(res[q].key)'
    BY <1>9 DEF EvidenceHolds
  <2>1. Retryable(q)' => Retryable(q)
    BY <1>1, <1>2, <1>3, <1>7, <1>8, <1>10 DEF Retryable, Own, Matches
  <2>2. /\ Quiescent(res[q].key) => Quiescent(res[q].key)'
        /\ Landed(res[q].key)' = Landed(res[q].key)
    BY <1>8, <1>9, <1>10 DEF Quiescent, Landed, Hot
  <2> QED BY <1>8, <2>1, <2>2 DEF Inv, EvidenceHolds
<1> USE <1>1, <1>2, <1>3, <1>4, <1>5
<1>a. TypeOK' BY DEF Inv, TypeOK, PCs
<1>b. OneCustodian' BY <1>6 DEF Inv, TypeOK, OneCustodian, Active
<1>c. ResponseWhenCompleted' BY DEF Inv, TypeOK, ResponseWhenCompleted
<1>d. FreshOwners' BY DEF Inv, TypeOK, FreshOwners, Asking
<1>e. HeldRecords' BY DEF Inv, TypeOK, HeldRecords, Holding, k
<1>g. CallsInPlace' BY DEF Inv, TypeOK, CallsInPlace, FreshOwners, Asking
<1>j. ReplayIsTrue' BY DEF Inv, TypeOK, ReplayIsTrue, Landed, k
<1> QED
  BY <1>a, <1>b, <1>c, <1>d, <1>e, <1>f, <1>g, <1>h, <1>i, <1>j DEF Inv

-----------------------------------------------------------------------------
(* The invariant is inductive.                                             *)

(* No request has reserved, sent or copied anything yet.                   *)
LEMMA InitInv == Init => Inv
<1> SUFFICES ASSUME Init PROVE Inv
  OBVIOUS
<1>1. \A k \in Key : /\ NoRow(k) \in Record /\ NoRow(k).key = k /\ NoRow(k).state = "none"
                     /\ NoRow(k).owner = NoProc /\ NoRow(k).response = "none"
  BY NoRowFacts
<1>2. \A p \in Proc : req[p].key \in Key
  <2>1. req \in [Proc -> Requests] BY DEF Init
  <2> QED BY <2>1, ConstantsAssumption DEF Request
<1> USE <1>1, <1>2 DEF Init
<1>a. TypeOK BY DEF TypeOK, PCs
<1>b. OneCustodian BY DEF OneCustodian, Active
<1>c. ResponseWhenCompleted BY DEF ResponseWhenCompleted
<1>d. FreshOwners BY ConstantsAssumption DEF FreshOwners
<1>e. HeldRecords BY DEF HeldRecords, Holding
<1>f. CopiedOwnersStopped BY DEF CopiedOwnersStopped, Copying
<1>g. CallsInPlace BY DEF CallsInPlace
<1>h. EffectsOwned BY DEF EffectsOwned, Hot
<1>i. EvidenceHolds BY DEF EvidenceHolds
<1>j. ReplayIsTrue BY DEF ReplayIsTrue
<1> QED
  BY <1>a, <1>b, <1>c, <1>d, <1>e, <1>f, <1>g, <1>h, <1>i, <1>j DEF Inv

(* Every step preserves the invariant: each action is an instance of one   *)
(* of the lemmas above.                                                    *)
LEMMA NextInv == Inv /\ [Next]_vars => Inv'
<1> SUFFICES ASSUME Inv, [Next]_vars PROVE Inv'
  OBVIOUS
<1>1. CASE Tick \/ UNCHANGED vars
  BY <1>1, TickInv
<1>2. CASE \E p \in Proc : Step(p) \/ Renew(p) \/ CheckpointEffect(p) \/ Handoff(p)
                           \/ Crash(p) \/ Land(p) \/ Drop(p)
  <2> PICK p \in Proc : Step(p) \/ Renew(p) \/ CheckpointEffect(p) \/ Handoff(p)
                           \/ Crash(p) \/ Land(p) \/ Drop(p)
    BY <1>2
  <2>1. CASE ReserveAcquired(p) BY <2>1, ReserveAcquiredInv
  <2>2. CASE ReserveTargetBusy(p)
    <3>1. PICK k \in Key :
            /\ TargetHolder(k, TargetOf[req[p].key])
            /\ LET r == IF row[k].state = "running" /\ Expired(row[k])
                        THEN Reconciled(row[k]) ELSE row[k]
               IN /\ Put(r)
                  /\ Hold(p, r)
                  /\ Goto(p, IF /\ pc[p] = "idle"
                                /\ req[p].mutate
                                /\ req[p].supersede
                                /\ r.state = "reconcile_required"
                             THEN "quiesce" ELSE "done")
      BY <2>2 DEF ReserveTargetBusy
    <3> DEFINE r == IF row[k].state = "running" /\ Expired(row[k])
                    THEN Reconciled(row[k]) ELSE row[k]
               l == IF /\ pc[p] = "idle"
                       /\ req[p].mutate
                       /\ req[p].supersede
                       /\ r.state = "reconcile_required"
                    THEN "quiesce" ELSE "done"
    <3>2. r \in Record
      <4>1. row[k] \in Record BY DEF Inv, TypeOK
      <4>2. Reconciled(row[k]) \in Record BY <4>1 DEF Reconciled, Record, States
      <4> QED BY <4>1, <4>2
    <3>3. /\ pc[p] \in {"idle", "again"} /\ Active(row[k])
          /\ r = row[k] \/ r = Reconciled(row[k])
          /\ l \in {"quiesce", "reconcile", "done"} /\ l # "reconcile"
          /\ l = "quiesce" => r.state = "reconcile_required" /\ TargetOf[k] = TargetOf[req[p].key]
          /\ Put(r) /\ Hold(p, r) /\ Goto(p, l) /\ UNCHANGED <<now, req, call>>
      BY <2>2, <3>1 DEF ReserveTargetBusy, TargetHolder
    <3> HIDE DEF r, l
    <3> QED BY <3>2, <3>3, CopyInv
  <2>3. CASE ReserveReconcile(p)
    <3> DEFINE k == req[p].key
    <3>1. k \in Key /\ Reconciled(row[k]) \in Record /\ Reconciled(row[k]).state = "reconcile_required"
      <4>1. k \in Key /\ row[k] \in Record BY RequestFacts DEF Inv
      <4> HIDE DEF k
      <4> QED BY <4>1 DEF Reconciled, Record, States
    <3>2. /\ pc[p] \in {"idle", "again"} /\ Active(row[k])
          /\ Put(Reconciled(row[k])) /\ Hold(p, Reconciled(row[k])) /\ Goto(p, "reconcile")
          /\ UNCHANGED <<now, req, call>>
      BY <2>3 DEF ReserveReconcile, Active
    <3> QED BY <3>1, <3>2, CopyInv
  <2>4. CASE ReserveTurnedAway(p) \/ SupersedeRefused(p) \/ ReconcileRaceLost(p) \/ Crash(p)
             \/ Answer(p) \/ ApplyUnknown(p) \/ ApplyRejected(p) \/ ApplyReturned(p)
    BY <2>4, ControlInv
       DEF ReserveTurnedAway, SupersedeRefused, ReconcileRaceLost, Crash, Answer,
           ApplyUnknown, ApplyRejected, ApplyReturned, Goto, Executing, PCs
  <2>5. CASE CheckQuiescence(p)
    BY <2>5, ControlInv, ObserveInv DEF CheckQuiescence, Goto, PCs
  <2>6. CASE Observe(p)
    BY <2>6, ControlInv, ObserveInv
       DEF Observe, DefinitelyAbsent, Absent, Quiescent, Goto, PCs
  <2>7. CASE Supersede(p) BY <2>7, SupersedeInv
  <2>8. CASE RetryReconciled(p) BY <2>8, RetryInv
  <2>9. CASE AdoptObserved(p) BY <2>9, AdoptObservedInv
  <2>10. CASE Renew(p) \/ CheckpointEffect(p) BY <2>10, LeaseWriteInv
  <2>11. CASE Dispatch(p) \/ Land(p) \/ Drop(p) BY <2>11, CallInv
  <2> DEFINE g == Reconciled(Own(p))
  <2>g. /\ g \in Record /\ g.key = Own(p).key /\ g.state = "reconcile_required"
        /\ g.owner = Own(p).owner /\ g.started = Own(p).started
        /\ g.response = Own(p).response
        /\ Own(p).state = "reconcile_required" => g = Own(p)
    <3>1. Own(p) \in Record BY RequestFacts DEF Inv
    <3> QED BY <3>1 DEF Reconciled, Record, States
  <2>12. CASE Handoff(p)
    <3>1. CASE Live(p)
      <4> DEFINE h == [g EXCEPT !.expires = now]
      <4>1. now \in Nat BY DEF Inv, TypeOK
      <4> HIDE DEF g
      <4>2. /\ h \in Record /\ h.key = Own(p).key /\ h.state = "reconcile_required"
            /\ h.owner = Own(p).owner /\ h.started = Own(p).started
            /\ h.response = Own(p).response
        BY <2>g, <4>1 DEF Record
      <4>3. /\ pc[p] \in Holding /\ Active(Own(p)) /\ Matches(Own(p), res[p])
            /\ Own(p).state # "reconcile_required"
            /\ Put(h) /\ Goto(p, "done") /\ UNCHANGED <<now, req, res, call>>
        BY <2>12, <3>1 DEF Handoff, Live, Holding, Active, g
      <4> HIDE DEF h
      <4> QED BY <4>2, <4>3, GiveUpInv
    <3>2. CASE ~ Live(p)
      BY <2>12, <3>2, ControlInv DEF Handoff, Goto, PCs
    <3> QED BY <3>1, <3>2
  <2>13. CASE ReleaseReserved(p)
    BY <2>13, ReleaseInv, ControlInv DEF ReleaseReserved, Goto, PCs
  <2>14. CASE MarkReconcileRequired(p)
    <3>1. CASE Own(p).state = "running" /\ Matches(Own(p), res[p])
      <4>1. /\ pc[p] \in Holding /\ Active(Own(p)) /\ Matches(Own(p), res[p])
            /\ Put(g) /\ Goto(p, "done") /\ UNCHANGED <<now, req, res, call>>
        BY <2>14, <3>1 DEF MarkReconcileRequired, Holding, Active
      <4> HIDE DEF g
      <4> QED BY <2>g, <4>1, GiveUpInv
    <3>2. CASE ~ (Own(p).state = "running" /\ Matches(Own(p), res[p]))
      BY <2>14, <3>2, ControlInv DEF MarkReconcileRequired, Goto, PCs
    <3> QED BY <3>1, <3>2
  <2>15. CASE CompleteReservation(p)
    <3>1. CASE Active(Own(p)) /\ Matches(Own(p), res[p]) /\ Live(p)
      BY <2>15, <3>1, CompleteInv DEF CompleteReservation
    <3>2. CASE Active(Own(p)) /\ Matches(Own(p), res[p]) /\ ~ Live(p)
      <4>1. /\ pc[p] = "complete" /\ pc[p] \in Holding
            /\ Put(g) /\ Goto(p, "adopt_own") /\ UNCHANGED <<now, req, res, call>>
        BY <2>15, <3>2 DEF CompleteReservation, Holding
      <4> HIDE DEF g
      <4> QED BY <2>g, <3>2, <4>1, GiveUpInv
    <3>3. CASE ~ (Active(Own(p)) /\ Matches(Own(p), res[p]))
      BY <2>15, <3>3, ControlInv DEF CompleteReservation, Goto, PCs
    <3> QED BY <3>1, <3>2, <3>3
  <2>16. CASE AdoptOwnOutcome(p)
    <3>1. CASE /\ Own(p).state = "reconcile_required"
               /\ res[p].key \notin IntentKeys
               /\ Matches(Own(p), res[p])
      BY <2>16, <3>1, CompleteInv DEF AdoptOwnOutcome, Active
    <3>2. CASE ~ (/\ Own(p).state = "reconcile_required"
                  /\ res[p].key \notin IntentKeys
                  /\ Matches(Own(p), res[p]))
      BY <2>16, <3>2, ControlInv DEF AdoptOwnOutcome, Goto, PCs
    <3> QED BY <3>1, <3>2
  <2> QED
    BY <2>1, <2>2, <2>3, <2>4, <2>5, <2>6, <2>7, <2>8, <2>9, <2>10, <2>11, <2>12,
       <2>13, <2>14, <2>15, <2>16 DEF Step
<1> QED BY <1>1, <1>2 DEF Next

(* The inductive invariant holds in every reachable state.                 *)
THEOREM Invariance == Spec => []Inv
BY InitInv, NextInv, PTL DEF Spec

(* Type correctness of the runner and the store.                           *)
THEOREM TypeCorrect == Spec => []TypeOK
<1>1. Inv => TypeOK BY DEF Inv
<1> QED BY Invariance, <1>1, PTL

(* On one provider target, one executor at a time can act: the two rows    *)
(* would both be active, hence one row, which has one owner.               *)
THEOREM Exclusion == Spec => []ExclusiveEffect
<1>1. Inv => ExclusiveEffect
  <2> SUFFICES ASSUME Inv, NEW p \in Proc, NEW q \in Proc, Hot(p), Hot(q),
                      TargetOf[req[p].key] = TargetOf[req[q].key]
               PROVE  p = q
    BY DEF ExclusiveEffect
  <2>1. req[p].key \in Key /\ req[q].key \in Key
    BY RequestFacts DEF Inv
  <2>2. req[p].key = req[q].key
    BY <2>1 DEF Inv, OneCustodian, EffectsOwned
  <2> QED BY <2>2 DEF Inv, EffectsOwned
<1> QED BY Invariance, <1>1, PTL

(* A call that is possible, under way or took hold keeps its row, and the  *)
(* row shows it until the call is settled.                                 *)
THEOREM Custody == Spec => []EffectCustody
<1>1. Inv => EffectCustody
  BY DEF Inv, EffectCustody, EffectsOwned, Active
<1> QED BY Invariance, <1>1, PTL

(* A replayed answer is true.                                              *)
THEOREM TrueReplay == Spec => []ReplayIsTrue
<1>1. Inv => ReplayIsTrue BY DEF Inv
<1> QED BY Invariance, <1>1, PTL

-----------------------------------------------------------------------------
(* Calls change only when they are sent or settled, and then nothing else  *)
(* the ledger shows changes.                                               *)
LEMMA CallSteps ==
    ASSUME Next
    PROVE  /\ req' = req
           /\ \/ call' = call
              \/ \E p \in Proc : (Dispatch(p) \/ Land(p) \/ Drop(p)) /\ row' = row
<1>1. ASSUME NEW p \in Proc, Step(p), ~ Dispatch(p)
      PROVE  UNCHANGED <<req, call>>
  BY <1>1 DEF Step, ReserveAcquired, ReserveTargetBusy, ReserveReconcile,
     ReserveTurnedAway, CheckQuiescence, Supersede, SupersedeRefused, Observe,
     RetryReconciled, AdoptObserved, ReconcileRaceLost, Answer, ApplyUnknown, ApplyRejected,
     ApplyReturned, ReleaseReserved, MarkReconcileRequired, CompleteReservation, AdoptOwnOutcome
<1>2. ASSUME NEW p \in Proc, Renew(p) \/ CheckpointEffect(p) \/ Handoff(p) \/ Crash(p)
      PROVE  UNCHANGED <<req, call>>
  BY <1>2 DEF Renew, CheckpointEffect, Handoff, Crash
<1>3. ASSUME NEW p \in Proc, Dispatch(p) \/ Land(p) \/ Drop(p)
      PROVE  UNCHANGED <<req, row>>
  BY <1>3 DEF Dispatch, Land, Drop
<1>4. Tick => UNCHANGED <<req, call>>
  BY DEF Tick
<1> QED BY <1>1, <1>2, <1>3, <1>4 DEF Next

(* No duplicate effects: that nothing landed for the key before a call     *)
(* lands needs the step, so the property joins the invariant.              *)
LEMMA NextNoDuplicate == Inv /\ NoDuplicateEffect /\ [Next]_vars => NoDuplicateEffect'
<1> SUFFICES ASSUME Inv, NoDuplicateEffect, [Next]_vars PROVE NoDuplicateEffect'
  OBVIOUS
<1>1. req' = req /\ \A p \in Proc :
          call'[p] = "landed" => call[p] = "landed" \/ Land(p)
  <2>1. CASE UNCHANGED <<req, call>>
    BY <2>1
  <2>2. CASE \E q \in Proc : Dispatch(q) \/ Land(q) \/ Drop(q)
    BY <2>2 DEF Dispatch, Land, Drop, Inv, TypeOK
  <2>3. CASE UNCHANGED vars
    BY <2>1, <2>3 DEF vars
  <2>4. CASE Next
    BY <2>1, <2>2, <2>4, CallSteps
  <2> QED BY <2>3, <2>4
<1>2. \A p, q \in Proc : Land(p) /\ call[q] = "landed" /\ req[p].key = req[q].key => p = q
  BY DEF Inv, EffectsOwned, Land, Hot
<1>3. \A p, q \in Proc : Land(p) /\ Land(q) => p = q
  BY DEF Inv, TypeOK, Land
<1> QED BY <1>1, <1>2, <1>3 DEF NoDuplicateEffect

(* "can never produce a blind duplicate effect": for any number of         *)
(* requests, retries, crashes and lost replies.                            *)
THEOREM NoDuplicate == Spec => []NoDuplicateEffect
<1>1. Init => NoDuplicateEffect BY DEF Init, NoDuplicateEffect
<1> QED BY Invariance, NextNoDuplicate, <1>1, PTL DEF Spec

-----------------------------------------------------------------------------
(* What no step may do.                                                    *)

(* How a step may change a row: it never touches a completed one.          *)
LEMMA NextKeepsCompleted ==
    ASSUME Inv, Next PROVE \A k \in Key : row[k].state = "completed" => row'[k] = row[k]
<1> SUFFICES ASSUME NEW k \in Key, row[k].state = "completed", row' # row
             PROVE  row'[k] = row[k]
  OBVIOUS
<1> USE DEF Inv, TypeOK
<1>1. PICK p \in Proc : Step(p) \/ Renew(p) \/ CheckpointEffect(p) \/ Handoff(p)
  BY DEF Next, Crash, Land, Drop, Tick
<1>2. /\ req[p].key \in Key /\ res[p].key \in Key
      /\ Own(p).key = res[p].key /\ row[req[p].key].key = req[p].key
      /\ Own(p) \in Record
  BY RequestFacts
<1>a. \A r \in Record : Reconciled(r).key = r.key /\ \A x : Completed(r, x).key = r.key
  BY DEF Reconciled, Completed, Record
<1>3. \A r : Put(r) /\ r.key \in Key => row'[r.key] = r /\ (r.key # k => row'[k] = row[k])
  BY DEF Put
<1>4. CASE ReserveAcquired(p)
  BY <1>2, <1>3, <1>4, NewReservationFacts DEF ReserveAcquired
<1>5. CASE ReserveTargetBusy(p)
  <2>1. PICK j \in Key : Active(row[j]) /\ (Put(row[j]) \/ Put(Reconciled(row[j])))
    BY <1>5 DEF ReserveTargetBusy, TargetHolder
  <2>2. row[j].key = j /\ Reconciled(row[j]).key = j
    BY <1>a
  <2> QED BY <1>3, <2>1, <2>2 DEF Active
<1>6. CASE ReserveReconcile(p)
  BY <1>2, <1>3, <1>6, <1>a DEF ReserveReconcile
<1>7. CASE Supersede(p)
  BY <1>2, <1>7 DEF Supersede, SupersessionAdmitted, Own
<1>8. CASE ReleaseReserved(p)
  BY <1>2, <1>3, <1>8, NoRowFacts DEF ReleaseReserved, Own
<1>9. CASE Own(p).state # "completed" /\ \E r : Put(r) /\ r.key = Own(p).key
  BY <1>2, <1>3, <1>9 DEF Own
<1>10. CASE RetryReconciled(p) \/ AdoptObserved(p) \/ Renew(p) \/ CheckpointEffect(p) \/ Handoff(p)
            \/ MarkReconcileRequired(p) \/ CompleteReservation(p) \/ AdoptOwnOutcome(p)
  <2>1. Own(p).state # "completed"
    BY <1>10 DEF RetryReconciled, Retryable, AdoptObserved, Renew, CheckpointEffect, Handoff,
         MarkReconcileRequired, CompleteReservation, AdoptOwnOutcome, Live, Active
  <2>2. \E r : Put(r) /\ r.key = Own(p).key
    <3>1. CASE RetryReconciled(p)
      <4>1. \A r \in Record, preserve \in BOOLEAN :
              [r EXCEPT !.state = "running", !.owner = p,
                        !.expires = now + Lease, !.attempt = @ + 1,
                        !.phase = IF preserve THEN @ ELSE 0,
                        !.started = IF preserve THEN @ ELSE 0].key = r.key
        BY DEF Record
      <4> QED BY <1>2, <3>1, <4>1 DEF RetryReconciled
    <3>2. CASE Renew(p) BY <1>2, <3>2 DEF Renew, Record
    <3>3. CASE CheckpointEffect(p)
      <4>1. \A r \in Record, ph \in 1..MaxPhase :
              [r EXCEPT !.expires = now + Lease, !.phase = ph, !.started = now].key = r.key
        BY DEF Record
      <4> QED BY <1>2, <3>3, <4>1 DEF CheckpointEffect
    <3>4. CASE Handoff(p)
      <4>1. \A r \in Record : [Reconciled(r) EXCEPT !.expires = now].key = r.key
        BY DEF Reconciled, Record
      <4> QED BY <1>2, <3>4, <4>1 DEF Handoff
    <3>5. CASE AdoptObserved(p) \/ MarkReconcileRequired(p) \/ CompleteReservation(p)
               \/ AdoptOwnOutcome(p)
      BY <1>2, <1>a, <3>5
         DEF AdoptObserved, MarkReconcileRequired, CompleteReservation, AdoptOwnOutcome
    <3> QED BY <1>10, <3>1, <3>2, <3>3, <3>4, <3>5
  <2> QED BY <1>9, <2>1, <2>2
<1> QED
  BY <1>1, <1>4, <1>5, <1>6, <1>7, <1>8, <1>10
     DEF Step, ReserveTurnedAway, CheckQuiescence, SupersedeRefused, Observe,
         ReconcileRaceLost, Dispatch, Answer, ApplyUnknown, ApplyRejected, ApplyReturned

(* A completed row is never written again: every later request replays     *)
(* the same answer.                                                        *)
THEOREM CompletedFinal == Spec => CompletedIsFinal
<1>1. Inv /\ [Next]_vars => [\A k \in Key : row[k].state = "completed" => row'[k] = row[k]]_vars
  BY NextKeepsCompleted
<1> QED BY Invariance, <1>1, PTL DEF Spec, CompletedIsFinal

(* A request leaves a row running only under its own name.                 *)
LEMMA WritersRun ==
    ASSUME Inv, NEW q \in Proc, NEW k \in Key,
           Step(q) \/ Renew(q) \/ CheckpointEffect(q) \/ Handoff(q)
    PROVE  row'[k] = row[k] \/ row'[k].state # "running" \/ row'[k].owner = q
<1> USE DEF Inv, TypeOK
<1>1. /\ req[q].key \in Key /\ res[q].key \in Key
      /\ Own(q) \in Record /\ row[req[q].key] \in Record
      /\ NewReservation(q).owner = q /\ NewReservation(q) \in Record
      /\ NoRow(res[q].key).state = "none"
  BY RequestFacts, NewReservationFacts, NoRowFacts
<1>2. \A r \in Record : /\ Reconciled(r).state = "reconcile_required"
                        /\ \A x : Completed(r, x).state = "completed"
  BY DEF Reconciled, Completed, Record
<1>3. CASE \E r : Put(r) /\ (r.state # "running" \/ r.owner = q)
  <2>1. PICK r : Put(r) /\ (r.state # "running" \/ r.owner = q)
    BY <1>3
  <2>2. row'[k] = IF r.key = k THEN r ELSE row[k]
    BY <2>1 DEF Put
  <2> QED BY <2>1, <2>2
<1>4. CASE ReserveTargetBusy(q)
  <2>1. PICK j \in Key : Put(row[j]) \/ Put(Reconciled(row[j]))
    BY <1>4 DEF ReserveTargetBusy
  <2>2. CASE Put(row[j])
    BY <2>2 DEF Put
  <2>3. CASE Put(Reconciled(row[j]))
    <3>1. Reconciled(row[j]).state # "running"
      BY <1>2
    <3> QED BY <1>3, <2>3, <3>1
  <2> QED BY <2>1, <2>2, <2>3
<1>5. CASE Supersede(q)
  <2>1. \A e \in Record : [e EXCEPT !.phase = 1, !.started = now].owner = e.owner
    BY DEF Record
  <2>2. \E r : /\ row' = [row EXCEPT ![res[q].key] = Completed(row[res[q].key], "superseded"),
                                    ![req[q].key] = r]
               /\ r.owner = q
    <3>1. PICK retain \in BOOLEAN :
            LET r == IF retain
                     THEN [NewReservation(q) EXCEPT !.phase = 1, !.started = now]
                     ELSE NewReservation(q)
            IN row' = [row EXCEPT ![res[q].key] = Completed(row[res[q].key], "superseded"),
                                  ![req[q].key] = r]
      BY <1>5 DEF Supersede
    <3> DEFINE r == IF retain
                    THEN [NewReservation(q) EXCEPT !.phase = 1, !.started = now]
                    ELSE NewReservation(q)
    <3>2. r.owner = q BY <1>1, <2>1
    <3> HIDE DEF r
    <3> QED BY <3>1, <3>2 DEF r
  <2>3. Completed(row[res[q].key], "superseded").state # "running"
    BY <1>1, <1>2
  <2> QED BY <1>1, <2>2, <2>3
<1>6. CASE ReserveAcquired(q)
  BY <1>1, <1>3, <1>6 DEF ReserveAcquired
<1>7. CASE ReserveReconcile(q)
  BY <1>1, <1>2, <1>3, <1>7 DEF ReserveReconcile
<1>8. CASE ReleaseReserved(q)
  BY <1>1, <1>3, <1>8 DEF ReleaseReserved
<1>9. CASE RetryReconciled(q)
  <2>1. \A r \in Record, preserve \in BOOLEAN :
          [r EXCEPT !.state = "running", !.owner = q,
                    !.expires = now + Lease, !.attempt = @ + 1,
                    !.phase = IF preserve THEN @ ELSE 0,
                    !.started = IF preserve THEN @ ELSE 0].owner = q
    BY DEF Record
  <2>2. \E r : Put(r) /\ r.owner = q
    BY <1>1, <1>9, <2>1 DEF RetryReconciled
  <2> QED BY <1>3, <2>2
<1>10. CASE Renew(q) \/ CheckpointEffect(q)
  <2>1. pc[q] \in Holding /\ Live(q)
    BY <1>10 DEF Renew, CheckpointEffect, Executing, Holding
  <2>2. Own(q).owner = q
    BY <2>1, HolderFacts DEF Live
  <2>3. CASE Renew(q)
    <3>1. [Own(q) EXCEPT !.expires = now + Lease].owner = q
      BY <1>1, <2>2 DEF Record
    <3> QED BY <1>3, <2>3, <3>1 DEF Renew
  <2>4. CASE CheckpointEffect(q)
    <3>1. \A ph \in 1..MaxPhase :
            [Own(q) EXCEPT !.expires = now + Lease, !.phase = ph, !.started = now].owner = q
      BY <1>1, <2>2 DEF Record
    <3> QED BY <1>3, <2>4, <3>1 DEF CheckpointEffect
  <2> QED BY <1>10, <2>3, <2>4
<1>11. CASE Handoff(q)
  <2>1. \A r \in Record : [Reconciled(r) EXCEPT !.expires = now].state = "reconcile_required"
    BY DEF Reconciled, Record
  <2> QED BY <1>1, <1>3, <1>11, <2>1 DEF Handoff
<1>12. CASE AdoptObserved(q) \/ MarkReconcileRequired(q) \/ CompleteReservation(q)
            \/ AdoptOwnOutcome(q)
  BY <1>1, <1>2, <1>3, <1>12
     DEF AdoptObserved, MarkReconcileRequired, CompleteReservation, AdoptOwnOutcome
<1>13. CASE row' = row
  BY <1>13
<1> QED
  BY <1>4, <1>5, <1>6, <1>7, <1>8, <1>9, <1>10, <1>11, <1>12, <1>13
     DEF Step, ReserveTurnedAway, CheckQuiescence, SupersedeRefused, Observe,
         ReconcileRaceLost, Dispatch, Answer, ApplyUnknown, ApplyRejected, ApplyReturned

(* A step leaves the place and the record of every other request alone.    *)
LEMMA OthersUntouched ==
    ASSUME Inv, NEW p \in Proc, NEW q \in Proc, p # q,
           \/ Step(q) \/ Renew(q) \/ CheckpointEffect(q) \/ Handoff(q)
           \/ Crash(q) \/ Land(q) \/ Drop(q)
    PROVE  now' = now /\ pc'[p] = pc[p] /\ res'[p] = res[p]
BY DEF Inv, TypeOK, Step, ReserveAcquired, ReserveTargetBusy, ReserveReconcile,
       ReserveTurnedAway, CheckQuiescence, Supersede, SupersedeRefused, Observe,
       RetryReconciled, AdoptObserved, ReconcileRaceLost, Renew, CheckpointEffect,
       Dispatch, Answer, ApplyUnknown, ApplyRejected, ApplyReturned, Handoff,
       ReleaseReserved, MarkReconcileRequired, CompleteReservation, AdoptOwnOutcome,
       Crash, Land, Drop, Goto, Hold

(* An executor that stays one either proves its lease as it writes, or     *)
(* touches neither its record nor a row.                                   *)
LEMMA ExecutorsOwnStep ==
    ASSUME Inv, NEW p \in Proc, pc[p] \in Executing, pc'[p] \in Executing,
           \/ Step(p) \/ Renew(p) \/ CheckpointEffect(p) \/ Handoff(p)
           \/ Crash(p) \/ Land(p) \/ Drop(p)
    PROVE  Live(p) \/ UNCHANGED <<now, row, res>>
BY DEF Inv, TypeOK, Executing, Step, ReserveAcquired, ReserveTargetBusy, ReserveReconcile,
       ReserveTurnedAway, CheckQuiescence, Supersede, SupersedeRefused, Observe,
       RetryReconciled, AdoptObserved, ReconcileRaceLost, Renew, CheckpointEffect,
       Dispatch, Answer, ApplyUnknown, ApplyRejected, ApplyReturned, Handoff,
       ReleaseReserved, MarkReconcileRequired, CompleteReservation, AdoptOwnOutcome,
       Crash, Land, Drop, Goto

(* A lease that is not live does not come back to life under its executor. *)
LEMMA NextKeepsLeaseLost ==
    ASSUME Inv, [Next]_vars, NEW p \in Proc,
           pc[p] \in Executing, pc'[p] \in Executing, Live(p)'
    PROVE  Live(p)
<1> DEFINE Same == res'[p] = res[p] /\ row'[res[p].key] = row[res[p].key] /\ now <= now'
<1>1. res[p].key \in Key /\ res[p] \in Record /\ Own(p) \in Record /\ now \in Nat
  BY RequestFacts DEF Inv, TypeOK
<1>2. pc[p] \in Holding /\ res[p].owner = p
  BY HolderFacts DEF Executing, Holding
<1>3. ASSUME Same, now' \in Nat PROVE Live(p)
  BY <1>1, <1>3 DEF Live, Own, Expired, Matches, Record
<1>4. CASE Tick
  BY <1>1, <1>3, <1>4 DEF Tick
<1>5. CASE UNCHANGED vars
  BY <1>1, <1>3, <1>5 DEF vars
<1>6. ASSUME NEW q \in Proc,
             \/ Step(q) \/ Renew(q) \/ CheckpointEffect(q) \/ Handoff(q)
             \/ Crash(q) \/ Land(q) \/ Drop(q)
      PROVE  Live(p)
  <2>1. CASE q = p
    <3>1. Live(p) \/ UNCHANGED <<now, row, res>>
      BY <1>6, <2>1, ExecutorsOwnStep
    <3> QED BY <1>1, <1>3, <3>1
  <2>2. CASE q # p
    <3>1. now' = now /\ res'[p] = res[p]
      BY <1>6, <2>2, OthersUntouched
    <3>2. row'[res[p].key].state = "running" /\ row'[res[p].key].owner = p
      BY <1>2, <3>1 DEF Live, Matches, Own
    <3>3. \/ row'[res[p].key] = row[res[p].key]
          \/ row'[res[p].key].state # "running"
          \/ row'[res[p].key].owner = q
      <4>1. CASE Crash(q) \/ Land(q) \/ Drop(q)
        BY <4>1 DEF Crash, Land, Drop
      <4>2. CASE Step(q) \/ Renew(q) \/ CheckpointEffect(q) \/ Handoff(q)
        BY <1>1, <4>2, WritersRun
      <4> QED BY <1>6, <4>1, <4>2
    <3> QED BY <1>1, <1>3, <2>2, <3>1, <3>2, <3>3
  <2> QED BY <2>1, <2>2
<1> QED BY <1>4, <1>5, <1>6 DEF Next

(* Once an executor's copy of its reservation is not the live lease it     *)
(* never is again: a row runs only under the name its last writer put      *)
(* there, and no request writes another's name.  The heartbeat thread may  *)
(* stop after its first refused renewal.                                   *)
THEOREM LostLeasesStayLost == Spec => LeaseLossIsFinal
<1>1. Inv /\ [Next]_vars
      => [\A p \in Proc :
            pc[p] \in Executing /\ pc'[p] \in Executing /\ Live(p)' => Live(p)]_vars
  BY NextKeepsLeaseLost
<1> QED BY Invariance, <1>1, PTL DEF Spec, LeaseLossIsFinal

-----------------------------------------------------------------------------
(* The runner implements the abstract ledger of effects.                   *)

(* A step that touches no call stores at most one response.                *)
LEMMA OneResponse ==
    ASSUME Inv, Next
    PROVE  \/ \A j \in Key : row'[j].response = row[j].response
           \/ \E k \in Key : \A j \in Key \ {k} : row'[j].response = row[j].response
<1> SUFFICES ASSUME row' # row
             PROVE  \E k \in Key : \A j \in Key \ {k} : row'[j].response = row[j].response
  OBVIOUS
<1> USE DEF Inv, TypeOK
<1>1. PICK p \in Proc : Step(p) \/ Renew(p) \/ CheckpointEffect(p) \/ Handoff(p)
  BY DEF Next, Crash, Land, Drop, Tick
<1>2. CASE \E r : Put(r)
  <2>1. PICK r : Put(r) BY <1>2
  <2>2. r.key \in Key \/ row' = row BY <2>1 DEF Put
  <2> QED BY <2>1, <2>2 DEF Put
<1>3. CASE Supersede(p)
  <2>1. /\ res[p].key \in Key /\ req[p].key \in Key
        /\ NewReservation(p) \in Record /\ NewReservation(p).response = "none"
    BY RequestFacts, NewReservationFacts
  <2>2. row[req[p].key].response = "none"
    BY <1>3, <2>1 DEF Supersede, ResponseWhenCompleted
  <2>3. \A e \in Record : [e EXCEPT !.phase = 1, !.started = now].response = e.response
    BY DEF Record
  <2>4. \E r : /\ row' = [row EXCEPT ![res[p].key] = Completed(row[res[p].key], "superseded"),
                                    ![req[p].key] = r]
               /\ r.response = "none"
    <3>1. PICK retain \in BOOLEAN :
            LET r == IF retain
                     THEN [NewReservation(p) EXCEPT !.phase = 1, !.started = now]
                     ELSE NewReservation(p)
            IN row' = [row EXCEPT ![res[p].key] = Completed(row[res[p].key], "superseded"),
                                  ![req[p].key] = r]
      BY <1>3 DEF Supersede
    <3> DEFINE r == IF retain
                    THEN [NewReservation(p) EXCEPT !.phase = 1, !.started = now]
                    ELSE NewReservation(p)
    <3>2. r.response = "none" BY <2>1, <2>3
    <3> HIDE DEF r
    <3> QED BY <3>1, <3>2 DEF r
  <2>5. \A j \in Key \ {res[p].key} : row'[j].response = row[j].response
    BY <2>1, <2>2, <2>4
  <2> QED BY <2>1, <2>5
<1> QED
  BY <1>1, <1>2, <1>3
     DEF Step, ReserveAcquired, ReserveTargetBusy, ReserveReconcile, ReserveTurnedAway,
         CheckQuiescence, SupersedeRefused, Observe, RetryReconciled, AdoptObserved,
         ReconcileRaceLost, Renew, CheckpointEffect, Dispatch, Answer, ApplyUnknown,
         ApplyRejected, ApplyReturned, Handoff, ReleaseReserved, MarkReconcileRequired,
         CompleteReservation, AdoptOwnOutcome

(* Sending, landing and dropping a call are the ledger's steps.            *)
LEMMA CallRefines ==
    ASSUME Inv, NEW p \in Proc, Dispatch(p) \/ Land(p) \/ Drop(p), row' = row, req' = req
    PROVE  Effects!Next
<1> DEFINE wants == [q \in Proc |-> req[q].key]
           flight == {q \in Proc : call[q] = "flight"}
           landed == {q \in Proc : call[q] = "landed"}
           answer == [k \in Key |-> row[k].response]
<1>1. wants' = wants /\ answer' = answer
  OBVIOUS
<1>2. CASE Dispatch(p)
  <2>1. /\ pc[p] = "dispatch" /\ call[p] = "none" /\ Hot(p)
        /\ call' = [call EXCEPT ![p] = "flight"]
    BY <1>2 DEF Dispatch, Inv, CallsInPlace, Hot
  <2>2. req[p].key \in Key /\ wants[p] = req[p].key
    BY RequestFacts DEF Inv
  <2>3. \A q \in flight : TargetOf[wants[q]] # TargetOf[wants[p]]
    <3> SUFFICES ASSUME NEW q \in Proc, call[q] = "flight",
                        TargetOf[req[q].key] = TargetOf[req[p].key]
                 PROVE  FALSE
      OBVIOUS
    <3>1. Hot(q) /\ req[q].key \in Key
      BY RequestFacts DEF Hot, Inv
    <3>2. req[p].key = req[q].key
      BY <2>1, <2>2, <3>1 DEF Inv, EffectsOwned, OneCustodian
    <3> QED BY <2>1, <3>1, <3>2 DEF Inv, EffectsOwned
  <2>4. ~ \E q \in landed : wants[q] = wants[p]
    BY <2>1 DEF Inv, EffectsOwned
  <2>5. answer[wants[p]] = "none"
    BY <2>1, <2>2 DEF Inv, EffectsOwned, Active, ResponseWhenCompleted
  <2>6. flight' = flight \cup {p} /\ landed' = landed
    BY <2>1 DEF Inv, TypeOK
  <2> QED BY <1>1, <2>3, <2>4, <2>5, <2>6 DEF Effects!Next, Effects!Send, Effects!Took
<1>3. CASE Land(p)
  <2>1. p \in flight /\ flight' = flight \ {p} /\ landed' = landed \cup {p}
    BY <1>3 DEF Land, Inv, TypeOK
  <2> QED BY <1>1, <2>1 DEF Effects!Next, Effects!TakeHold
<1>4. CASE Drop(p)
  <2>1. p \in flight /\ flight' = flight \ {p} /\ landed' = landed
    BY <1>4 DEF Drop, Inv, TypeOK
  <2> QED BY <1>1, <2>1 DEF Effects!Next, Effects!Vanish
<1> QED BY <1>2, <1>3, <1>4

(* A stored response is the ledger's answer: the row was not completed     *)
(* before, and after the step the invariant makes the answer true and      *)
(* excludes a call under way.                                              *)
LEMMA ResponseRefines ==
    ASSUME Inv, Inv', Next, call' = call, req' = req, NEW k \in Key,
           \A j \in Key \ {k} : row'[j].response = row[j].response,
           row'[k].response # row[k].response
    PROVE  Effects!Next
<1> DEFINE a == row'[k].response
           wants == [q \in Proc |-> req[q].key]
           flight == {q \in Proc : call[q] = "flight"}
           landed == {q \in Proc : call[q] = "landed"}
           answer == [j \in Key |-> row[j].response]
<1>1. row[k].response = "none"
  BY NextKeepsCompleted DEF Inv, ResponseWhenCompleted
<1>2. row'[k].state = "completed" /\ a \in {"applied", "unapplied", "superseded"}
  BY <1>1 DEF Inv, TypeOK, Record, Responses, ResponseWhenCompleted
<1>3. \A q \in flight : wants[q] # k
  <2>1. \A q \in Proc : call'[q] = "flight" => row'[req'[q].key].state # "completed"
    BY DEF Inv, EffectsOwned, Hot, Active
  <2> QED BY <1>2, <2>1
<1>4. /\ a = "applied" => \E q \in landed : wants[q] = k
      /\ a = "unapplied" => ~ \E q \in landed : wants[q] = k
  BY <1>2 DEF Inv, ReplayIsTrue, Landed
<1>5. answer' = [answer EXCEPT ![k] = a]
  <2>1. \A j \in Key : row'[j].response = IF j = k THEN a ELSE row[j].response
    OBVIOUS
  <2>2. answer' = [j \in Key |-> row'[j].response]
    OBVIOUS
  <2> HIDE DEF a
  <2> QED BY <2>1, <2>2
<1> QED BY <1>1, <1>2, <1>3, <1>4, <1>5 DEF Effects!Next, Effects!Settle, Effects!Took

(* The detailed specification implements the abstract one: every run of    *)
(* the runner is a run of the at-most-once effect ledger.                  *)
THEOREM Refinement == Spec => ImplementsEffects
<1>1. Init => Effects!Init
  <2> SUFFICES ASSUME Init PROVE Effects!Init
    OBVIOUS
  <2>1. req \in [Proc -> Requests] BY DEF Init
  <2>2. [p \in Proc |-> req[p].key] \in [Proc -> Key]
    BY <2>1, ConstantsAssumption DEF Request
  <2>3. [k \in Key |-> row[k].response] = [k \in Key |-> "none"]
    BY DEF Init, NoRow
  <2> QED BY <2>2, <2>3 DEF Init, Effects!Init
<1>2. Inv /\ Inv' /\ [Next]_vars => [Effects!Next]_(Effects!vars)
  <2> SUFFICES ASSUME Inv, Inv', [Next]_vars
               PROVE  Effects!Next \/ UNCHANGED Effects!vars
    OBVIOUS
  <2>1. CASE UNCHANGED vars
    BY <2>1 DEF vars, Effects!vars
  <2>2. CASE Next
    <3>1. CASE \E p \in Proc : (Dispatch(p) \/ Land(p) \/ Drop(p)) /\ row' = row
      BY <2>2, <3>1, CallSteps, CallRefines
    <3>2. CASE call' = call
      <4>1. CASE \A j \in Key : row'[j].response = row[j].response
        BY <2>2, <3>2, <4>1, CallSteps DEF Effects!vars
      <4>2. CASE \E k \in Key : /\ \A j \in Key \ {k} : row'[j].response = row[j].response
                                /\ row'[k].response # row[k].response
        BY <2>2, <3>2, <4>2, CallSteps, ResponseRefines
      <4> QED BY <2>2, <4>1, <4>2, OneResponse
    <3> QED BY <2>2, <3>1, <3>2, CallSteps
  <2> QED BY <2>1, <2>2
<1> QED BY <1>1, <1>2, Invariance, PTL DEF Spec, ImplementsEffects, Effects!Spec

=============================================================================

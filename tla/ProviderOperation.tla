------------------------- MODULE ProviderOperation -------------------------
(***************************************************************************)
(* The durable provider-operation runner and the mutation-reservation      *)
(* store behind it (control_plane/provider_operations.py and the           *)
(* reservation methods of control_plane/storage/postgres.py).              *)
(*                                                                         *)
(* A request (a member of Proc) is one HTTP request: its trace id is the   *)
(* lease owner it writes, so an owner is never reused.  Requests carrying  *)
(* the same idempotency key share one reservation row; keys that mutate    *)
(* the same provider target share the target's partial unique index.       *)
(* Every store method is one serialized database transaction, hence one    *)
(* action; everything a request does between two transactions (calling     *)
(* the provider, observing it, waiting) may interleave with every other    *)
(* request, with the provider and with the database clock.                 *)
(***************************************************************************)
EXTENDS Integers

CONSTANTS
    Proc,          \* requests; also the lease owners they write
    Key,           \* (scope, route, idempotency key) identities
    Target,        \* provider target keys
    TargetOf,      \* the provider target each key mutates
    Fingerprint,   \* request fingerprints
    Requests,      \* what a request may be
    IntentKeys,    \* keys whose adapter retains an original intent
    Lease,         \* lease_seconds
    Grace,         \* minimum_expired_seconds of a target supersession
    MaxPhase,      \* effect phases an adapter may checkpoint
    MaxNow,        \* bound: the database clock stops here
    NoProc         \* no lease owner

Request == [key : Key, fp : Fingerprint, mutate : BOOLEAN, supersede : BOOLEAN]

ASSUME ConstantsAssumption ==
    /\ TargetOf \in [Key -> Target]
    /\ Requests \subseteq Request
    /\ IntentKeys \subseteq Key
    /\ Fingerprint # {}
    /\ Lease \in Nat \ {0}
    /\ Grace \in Nat
    /\ MaxPhase \in Nat \ {0}
    /\ MaxNow \in Nat \ {0}
    /\ NoProc \notin Proc

VARIABLES
    now,     \* the database clock, in whole seconds
    row,     \* the reservation row of each key; state "none" when there is none
    req,     \* what each request asks for
    pc,      \* where each request is
    res,     \* the reservation record each request holds
    call     \* the provider call of each request

vars == <<now, row, req, pc, res, call>>

-----------------------------------------------------------------------------
(* Reservation records.                                                    *)

States == {"none", "running", "reconcile_required", "completed"}
Responses == {"none", "applied", "unapplied", "superseded"}

Record == [key : Key, state : States, fp : Fingerprint, owner : Proc \cup {NoProc},
           expires : Nat, attempt : Nat, phase : 0..MaxPhase, started : Nat,
           response : Responses]

(* phase and started are set together, so started = 0 means no effect yet. *)
NoRow(k) == [key |-> k, state |-> "none", fp |-> CHOOSE f \in Fingerprint : TRUE,
             owner |-> NoProc, expires |-> 0, attempt |-> 0, phase |-> 0,
             started |-> 0, response |-> "none"]

NewReservation(p) ==
    [key |-> req[p].key, state |-> "running", fp |-> req[p].fp, owner |-> p,
     expires |-> now + Lease, attempt |-> 1, phase |-> 0, started |-> 0,
     response |-> "none"]

Active(r) == r.state \in {"running", "reconcile_required"}

Expired(r) == r.expires <= now

(* Mutated: a compare-and-set on the key and fingerprint alone.            *)
MatchesRequestOnly(r, s) == r.key = s.key /\ r.fp = s.fp

(* The compare half of every compare-and-set: state, updated_at and the    *)
(* response are not part of the identity.                                  *)
Matches(r, s) ==
    /\ r.key = s.key
    /\ r.fp = s.fp
    /\ r.owner = s.owner
    /\ r.expires = s.expires
    /\ r.attempt = s.attempt
    /\ r.phase = s.phase
    /\ r.started = s.started

Own(p) == row[res[p].key]

(* Mutated: the state name the durable operation tables use.               *)
ReconciledOtherVocabulary(r) == [r EXCEPT !.state = "reconciliation_required"]

Reconciled(r) == [r EXCEPT !.state = "reconcile_required"]

Completed(r, response) == [r EXCEPT !.state = "completed", !.response = response]

TargetHolder(k, t) == TargetOf[k] = t /\ Active(row[k])

-----------------------------------------------------------------------------
(* The provider and what an adapter can learn from it (external).          *)

(* p may still reach the provider, or its call is under way.               *)
Hot(p) == pc[p] = "dispatch" \/ call[p] = "flight"

Landed(k) == \E p \in Proc : req[p].key = k /\ call[p] = "landed"

(* An adapter asserts retry_safe only on proof that no executor of the key *)
(* can still act and that nothing it sent took or can still take hold.     *)
Absent(k) == ~ Landed(k)
DefinitelyAbsent(k) ==
    Absent(k) /\ \A p \in Proc : req[p].key = k => ~ Hot(p)

(* quiescence_check: no executor of the key can still act.                 *)
Quiescent(k) == \A p \in Proc : req[p].key = k => ~ Hot(p)

-----------------------------------------------------------------------------
Init ==
    /\ now = 1
    /\ row = [k \in Key |-> NoRow(k)]
    /\ req \in [Proc -> Requests]
    /\ pc = [p \in Proc |-> "idle"]
    /\ res = [p \in Proc |-> NoRow(req[p].key)]
    /\ call = [p \in Proc |-> "none"]

Goto(p, label) == pc' = [pc EXCEPT ![p] = label]
Put(r) == row' = [row EXCEPT ![r.key] = r]
Hold(p, r) == res' = [res EXCEPT ![p] = r]

(* Mutated: no unique index on active provider targets.                    *)
ReserveAcquiredUnindexed(p) ==
    /\ pc[p] \in {"idle", "again"}
    /\ row[req[p].key].state = "none"
    /\ Put(NewReservation(p))
    /\ Hold(p, NewReservation(p))
    /\ Goto(p, IF req[p].mutate THEN "apply" ELSE "release")
    /\ UNCHANGED <<now, req, call>>

(* reserve_mutation: the key and its target are free; the insert commits.  *)
(* A request that may not mutate gives the reservation straight back.      *)
ReserveAcquired(p) ==
    /\ pc[p] \in {"idle", "again"}
    /\ row[req[p].key].state = "none"
    /\ \A k \in Key : ~ TargetHolder(k, TargetOf[req[p].key])
    /\ Put(NewReservation(p))
    /\ Hold(p, NewReservation(p))
    /\ Goto(p, IF req[p].mutate THEN "apply" ELSE "release")
    /\ UNCHANGED <<now, req, call>>

(* Another key holds the target.  An expired running holder is moved to    *)
(* reconcile_required; a superseding request goes on to check quiescence.  *)
ReserveTargetBusy(p) ==
    /\ pc[p] \in {"idle", "again"}
    /\ row[req[p].key].state = "none"
    /\ \E k \in Key :
          /\ TargetHolder(k, TargetOf[req[p].key])
          /\ LET r == IF row[k].state = "running" /\ Expired(row[k])
                      THEN Reconciled(row[k]) ELSE row[k]
             IN /\ Put(r)
                /\ Hold(p, r)
                /\ Goto(p, IF /\ pc[p] = "idle"
                              /\ req[p].mutate
                              /\ req[p].supersede
                              /\ r.state = "reconcile_required"
                           THEN "quiesce" ELSE "done")
    /\ UNCHANGED <<now, req, call>>

(* Same key and same fingerprint, outcome unknown: either already          *)
(* reconcile_required, or running with an expired lease.                   *)
ReserveReconcile(p) ==
    LET r == row[req[p].key] IN
    /\ pc[p] \in {"idle", "again"}
    /\ r.fp = req[p].fp
    /\ \/ r.state = "reconcile_required"
       \/ r.state = "running" /\ Expired(r)
    /\ Put(Reconciled(r))
    /\ Hold(p, Reconciled(r))
    /\ Goto(p, "reconcile")
    /\ UNCHANGED <<now, req, call>>

(* conflict, replayed or in_progress: nothing is written.                  *)
ReserveTurnedAway(p) ==
    LET r == row[req[p].key] IN
    /\ pc[p] \in {"idle", "again"}
    /\ r.state # "none"
    /\ \/ r.fp # req[p].fp
       \/ r.state = "completed"
       \/ r.state = "running" /\ ~ Expired(r)
    /\ Goto(p, "done")
    /\ UNCHANGED <<now, row, req, res, call>>

(* Mutated: the quiescence check is skipped.                               *)
CheckQuiescenceSkipped(p) ==
    /\ pc[p] = "quiesce"
    /\ Goto(p, "supersede")
    /\ UNCHANGED <<now, row, req, res, call>>

(* The quiescence check reads the provider before the supersession writes. *)
CheckQuiescence(p) ==
    /\ pc[p] = "quiesce"
    /\ \/ Quiescent(res[p].key) /\ Goto(p, "supersede")
       \/ Goto(p, "done")
    /\ UNCHANGED <<now, row, req, res, call>>

SupersessionAdmitted(p) ==
    /\ Own(p).state = "reconcile_required"
    /\ IF res[p].key \in IntentKeys THEN Own(p) = res[p] ELSE Matches(Own(p), res[p])
    /\ Own(p).expires + Grace <= now

(* supersede_expired_reconciled_mutation_and_reserve: the old row answers  *)
(* "superseded" and the new key takes the target over in one transaction.  *)
(* With retain_effect_custody the new row starts with an effect recorded.  *)
Supersede(p) ==
    LET old == res[p].key
        new == req[p].key
    IN
    /\ pc[p] = "supersede"
    /\ SupersessionAdmitted(p)
    /\ row[new].state = "none"
    /\ \E retain \in BOOLEAN :
          LET r == IF retain
                   THEN [NewReservation(p) EXCEPT !.phase = 1, !.started = now]
                   ELSE NewReservation(p)
          IN /\ row' = [row EXCEPT ![old] = Completed(row[old], "superseded"),
                                   ![new] = r]
             /\ Hold(p, r)
    /\ Goto(p, "apply")
    /\ UNCHANGED <<now, req, call>>

(* The holder settled first (or the new key was inserted): reserve again.  *)
(* Any other refusal leaves the target_busy decision standing.             *)
SupersedeRefused(p) ==
    /\ pc[p] = "supersede"
    /\ ~ (SupersessionAdmitted(p) /\ row[req[p].key].state = "none")
    /\ Goto(p, IF Own(p).state = "completed" \/ SupersessionAdmitted(p)
               THEN "again" ELSE "done")
    /\ UNCHANGED <<now, row, req, res, call>>

-----------------------------------------------------------------------------
(* _reconcile: observe the provider, then retry or adopt by compare-and-   *)
(* set against the record the observation was made for.                    *)

(* Mutated: any absent observation allows a retry.                         *)
ObserveAbsentRetries(p) ==
    /\ pc[p] = "reconcile"
    /\ \/ Landed(res[p].key) /\ Goto(p, "adopt")
       \/ req[p].mutate /\ Absent(res[p].key) /\ Goto(p, "retry")
       \/ Goto(p, "done")
    /\ UNCHANGED <<now, row, req, res, call>>

Observe(p) ==
    LET k == res[p].key IN
    /\ pc[p] = "reconcile"
    /\ \/ Landed(k) /\ Goto(p, "adopt")
       \/ /\ req[p].mutate
          /\ \/ Absent(k) /\ res[p].started = 0
             \/ DefinitelyAbsent(k)
          /\ Goto(p, "retry")
       \/ Goto(p, "done")
    /\ UNCHANGED <<now, row, req, res, call>>

Retryable(p) == Own(p).state = "reconcile_required" /\ Matches(Own(p), res[p])

(* retry_reconciled_mutation: a new owner and attempt; the effect          *)
(* checkpoint is cleared unless the observation asks to preserve it.       *)
RetryReconciled(p) ==
    /\ pc[p] = "retry"
    /\ Retryable(p)
    /\ \E preserve \in BOOLEAN :
          LET r == [Own(p) EXCEPT !.state = "running", !.owner = p,
                                  !.expires = now + Lease, !.attempt = @ + 1,
                                  !.phase = IF preserve THEN @ ELSE 0,
                                  !.started = IF preserve THEN @ ELSE 0]
          IN Put(r) /\ Hold(p, r)
    /\ Goto(p, "apply")
    /\ UNCHANGED <<now, req, call>>

(* adopt_reconciled_mutation with the observed result.                     *)
AdoptObserved(p) ==
    /\ pc[p] = "adopt"
    /\ Own(p).state = "reconcile_required"
    /\ IF res[p].key \in IntentKeys THEN Own(p) = res[p] ELSE Matches(Own(p), res[p])
    /\ Put(Completed(Own(p), "applied"))
    /\ Goto(p, "done")
    /\ UNCHANGED <<now, req, res, call>>

(* A retry or an adoption that lost its race writes nothing.               *)
ReconcileRaceLost(p) ==
    /\ \/ pc[p] \in {"retry", "adopt"} /\ ~ Retryable(p)
       \/ pc[p] = "adopt" /\ res[p].key \in IntentKeys /\ Own(p) # res[p]
    /\ Goto(p, "done")
    /\ UNCHANGED <<now, row, req, res, call>>

-----------------------------------------------------------------------------
(* _apply_acquired and the heartbeat.                                      *)

Executing == {"apply", "dispatch", "waiting"}

(* The checks renew and checkpoint share before they write.                *)
Live(p) ==
    /\ Own(p).state = "running"
    /\ Matches(Own(p), res[p])
    /\ ~ Expired(Own(p))

(* Mutated: an expired lease can still be renewed.                         *)
RenewExpired(p) ==
    /\ pc[p] \in Executing
    /\ Own(p).state = "running"
    /\ Matches(Own(p), res[p])
    /\ LET r == [Own(p) EXCEPT !.expires = now + Lease] IN Put(r) /\ Hold(p, r)
    /\ UNCHANGED <<now, req, pc, call>>

(* _renew_locked, from the heartbeat thread or from assert_current.  When  *)
(* the reply is lost the row is renewed and the local record is not.  A    *)
(* refused heartbeat only stops its thread: by LeaseLossIsFinal the next   *)
(* renewals would be refused as well.                                      *)
Renew(p) ==
    /\ pc[p] \in Executing
    /\ Live(p)
    /\ LET r == [Own(p) EXCEPT !.expires = now + Lease] IN
          /\ Put(r)
          /\ Hold(p, r) \/ UNCHANGED res
    /\ UNCHANGED <<now, req, pc, call>>

(* checkpoint_effect: fence and persist the phase before dispatch.  A lost *)
(* reply commits the phase and surfaces as a lost lease.                   *)
CheckpointEffect(p) ==
    /\ pc[p] = "apply"
    /\ Live(p)
    /\ \E ph \in 1..MaxPhase :
          LET r == [Own(p) EXCEPT !.expires = now + Lease, !.phase = ph,
                                  !.started = now]
          IN /\ Put(r)
             /\ \/ Hold(p, r) /\ Goto(p, IF call[p] = "none" THEN "dispatch" ELSE "apply")
                \/ Goto(p, "mark") /\ UNCHANGED res
    /\ UNCHANGED <<now, req, call>>

(* The adapter sends its provider call, however late.                      *)
Dispatch(p) ==
    /\ pc[p] = "dispatch"
    /\ call' = [call EXCEPT ![p] = "flight"]
    /\ Goto(p, "waiting")
    /\ UNCHANGED <<now, row, req, res>>

(* The provider's answer reaches the adapter.                              *)
Answer(p) ==
    /\ pc[p] = "waiting"
    /\ call[p] # "flight"
    /\ Goto(p, "apply")
    /\ UNCHANGED <<now, row, req, res, call>>

(* Mutated: a call that is not answered never times out.                   *)
ApplyUnknownNoTimeout(p) ==
    /\ pc[p] = "apply"
    /\ Goto(p, "mark")
    /\ UNCHANGED <<now, row, req, res, call>>

(* An ambiguous outcome, a lost lease (assert_current, a refused           *)
(* checkpoint), an effect the record does not show or any other exception. *)
ApplyUnknown(p) ==
    /\ pc[p] \in Executing
    /\ Goto(p, "mark")
    /\ UNCHANGED <<now, row, req, res, call>>

(* Mutated: a refusal always gives the reservation back.                   *)
ApplyRejectedReleases(p) ==
    /\ pc[p] = "apply"
    /\ Goto(p, "release")
    /\ UNCHANGED <<now, row, req, res, call>>

(* The adapter refuses, or its outcome is not durable: only a reservation  *)
(* whose record shows no effect is given back.                             *)
ApplyRejected(p) ==
    /\ pc[p] = "apply"
    /\ Goto(p, IF res[p].started # 0 THEN "mark" ELSE "release")
    /\ UNCHANGED <<now, row, req, res, call>>

ApplyReturned(p) ==
    /\ pc[p] = "apply"
    /\ Goto(p, "complete")
    /\ UNCHANGED <<now, row, req, res, call>>

(* ProviderMutationCheckpoint: hand the running job over for a service     *)
(* replacement; the lease ends now and the row waits for reconciliation.   *)
Handoff(p) ==
    /\ pc[p] = "waiting"
    /\ res[p].started # 0
    /\ IF Live(p)
       THEN Put([Reconciled(Own(p)) EXCEPT !.expires = now]) /\ Goto(p, "done")
       ELSE Goto(p, "mark") /\ UNCHANGED row
    /\ UNCHANGED <<now, req, res, call>>

-----------------------------------------------------------------------------
(* Settling the reservation.                                               *)

(* release_reserved_mutation, falling back to reconcile_required.          *)
ReleaseReserved(p) ==
    /\ pc[p] = "release"
    /\ IF Own(p).state = "running" /\ Matches(Own(p), res[p])
       THEN Put(NoRow(res[p].key)) /\ Goto(p, "done")
       ELSE Goto(p, "mark") /\ UNCHANGED row
    /\ UNCHANGED <<now, req, res, call>>

(* Mutated: marking does not look at the row's state.                      *)
MarkAnyState(p) ==
    /\ pc[p] = "mark"
    /\ IF Own(p).state # "none" /\ Matches(Own(p), res[p])
       THEN Put(Reconciled(Own(p)))
       ELSE UNCHANGED row
    /\ Goto(p, "done")
    /\ UNCHANGED <<now, req, res, call>>

(* mark_mutation_reconcile_required: no lease check; a mismatch, a settled *)
(* or a missing row is left alone.                                         *)
MarkReconcileRequired(p) ==
    /\ pc[p] = "mark"
    /\ IF Own(p).state = "running" /\ Matches(Own(p), res[p])
       THEN Put(Reconciled(Own(p)))
       ELSE UNCHANGED row
    /\ Goto(p, "done")
    /\ UNCHANGED <<now, req, res, call>>

OutcomeOf(p) == IF call[p] = "landed" THEN "applied" ELSE "unapplied"

(* Mutated: completion does not compare the reservation.                   *)
CompleteUnmatched(p) ==
    /\ pc[p] = "complete"
    /\ IF Active(Own(p))
       THEN Put(Completed(Own(p), OutcomeOf(p)))
       ELSE UNCHANGED row
    /\ Goto(p, "done")
    /\ UNCHANGED <<now, req, res, call>>

(* complete_mutation_reservation.  An expired lease is a reconciliation,   *)
(* which the executor then answers with its own outcome.                   *)
CompleteReservation(p) ==
    /\ pc[p] = "complete"
    /\ IF Active(Own(p)) /\ Matches(Own(p), res[p])
       THEN IF Live(p)
            THEN Put(Completed(Own(p), OutcomeOf(p))) /\ Goto(p, "done")
            ELSE Put(Reconciled(Own(p))) /\ Goto(p, "adopt_own")
       ELSE Goto(p, "done") /\ UNCHANGED row
    /\ UNCHANGED <<now, req, res, call>>

(* adopt_reconciled_mutation with the executor's own outcome.  The record  *)
(* it holds still says "running", so a retained intent refuses it.         *)
AdoptOwnOutcome(p) ==
    /\ pc[p] = "adopt_own"
    /\ IF /\ Own(p).state = "reconcile_required"
          /\ res[p].key \notin IntentKeys
          /\ Matches(Own(p), res[p])
       THEN Put(Completed(Own(p), OutcomeOf(p)))
       ELSE UNCHANGED row
    /\ Goto(p, "done")
    /\ UNCHANGED <<now, req, res, call>>

-----------------------------------------------------------------------------
(* The environment.                                                        *)

(* The process dies, or the request is abandoned, between two steps.       *)
Crash(p) ==
    /\ pc[p] \notin {"idle", "done", "crashed"}
    /\ Goto(p, "crashed")
    /\ UNCHANGED <<now, row, req, res, call>>

(* A sent call takes hold, or never will, whether or not anyone waits.     *)
Land(p) ==
    /\ call[p] = "flight"
    /\ call' = [call EXCEPT ![p] = "landed"]
    /\ UNCHANGED <<now, row, req, pc, res>>

Drop(p) ==
    /\ call[p] = "flight"
    /\ call' = [call EXCEPT ![p] = "dropped"]
    /\ UNCHANGED <<now, row, req, pc, res>>

Tick ==
    /\ now < MaxNow
    /\ now' = now + 1
    /\ UNCHANGED <<row, req, pc, res, call>>

(* The steps a request owes as long as its process lives.                  *)
Step(p) ==
    \/ ReserveAcquired(p)
    \/ ReserveTargetBusy(p)
    \/ ReserveReconcile(p)
    \/ ReserveTurnedAway(p)
    \/ CheckQuiescence(p)
    \/ Supersede(p)
    \/ SupersedeRefused(p)
    \/ Observe(p)
    \/ RetryReconciled(p)
    \/ AdoptObserved(p)
    \/ ReconcileRaceLost(p)
    \/ Dispatch(p)
    \/ Answer(p)
    \/ ApplyUnknown(p)
    \/ ApplyRejected(p)
    \/ ApplyReturned(p)
    \/ ReleaseReserved(p)
    \/ MarkReconcileRequired(p)
    \/ CompleteReservation(p)
    \/ AdoptOwnOutcome(p)

Next ==
    \/ \E p \in Proc :
          \/ Step(p)
          \/ Renew(p)
          \/ CheckpointEffect(p)
          \/ Handoff(p)
          \/ Crash(p)
          \/ Land(p)
          \/ Drop(p)
    \/ Tick

Spec == Init /\ [][Next]_vars

(* A request that is not abandoned keeps going: its adapter call returns   *)
(* or times out and the runner takes its next step.  Renewing, starting an *)
(* effect and handing the job over are the adapter's choice, not owed.     *)
FairSpec == Spec /\ \A p \in Proc : WF_vars(Step(p))

-----------------------------------------------------------------------------
(* Properties.                                                             *)

PCs == {"idle", "again", "quiesce", "supersede", "reconcile", "retry", "adopt",
        "apply", "dispatch", "waiting", "release", "mark", "complete",
        "adopt_own", "done", "crashed"}

(* Type invariant: every variable of the model keeps its shape, and each   *)
(* row is filed under its own key.                                         *)
TypeOK ==
    /\ now \in Nat \ {0}
    /\ row \in [Key -> Record]
    /\ \A k \in Key : row[k].key = k
    /\ req \in [Proc -> Requests]
    /\ pc \in [Proc -> PCs]
    /\ res \in [Proc -> Record]
    /\ call \in [Proc -> {"none", "flight", "landed", "dropped"}]

(* No two executors can act on one provider target: while a request is     *)
(* poised to send its call, or the call is under way, every other request  *)
(* on that target is neither, although leases expire under slow executors  *)
(* and a reply to a renewal or a checkpoint may be lost                    *)
(* (checkpoint_effect, provider_operations.py:404).                        *)
ExclusiveEffect ==
    \A p, q \in Proc :
        /\ Hot(p)
        /\ Hot(q)
        /\ TargetOf[req[p].key] = TargetOf[req[q].key]
        => p = q

(* "can never produce a blind duplicate effect" (provider_operations.py:6):*)
(* however many requests, retries and crashes, at most one call of a key   *)
(* takes hold.                                                             *)
NoDuplicateEffect ==
    \A p, q \in Proc :
        /\ call[p] = "landed"
        /\ call[q] = "landed"
        /\ req[p].key = req[q].key
        => p = q

(* Custody: a call that is possible, under way or took hold is never       *)
(* forgotten.  Its row exists; until the call is settled the row is active *)
(* and shows that an effect was started, so no release can delete it.      *)
EffectCustody ==
    \A p \in Proc :
        /\ Hot(p) \/ call[p] = "landed" => row[req[p].key].state # "none"
        /\ Hot(p) => Active(row[req[p].key]) /\ row[req[p].key].started # 0

(* What a replay answers is true: a key completed with an effect has one,  *)
(* a key completed without one never gets one (complete_mutation_          *)
(* reservation, adopt_reconciled_mutation).                                *)
ReplayIsTrue ==
    \A k \in Key :
        row[k].state = "completed" /\ row[k].response # "superseded"
        => (row[k].response = "applied" <=> Landed(k))

(* A completed row is final: every later request replays the same answer   *)
(* (postgres.py, the completed branches of every transition).              *)
CompletedIsFinal ==
    [][\A k \in Key : row[k].state = "completed" => row'[k] = row[k]]_vars

(* Once an executor's copy of its reservation is not the live lease any    *)
(* more it never is again, whatever other requests, lost replies and the   *)
(* clock do.  The heartbeat thread relies on it when it stops after the    *)
(* first refused renewal (_run, provider_operations.py:454).               *)
LeaseLossIsFinal ==
    [][\A p \in Proc :
          pc[p] \in Executing /\ pc'[p] \in Executing /\ Live(p)' => Live(p)]_vars

(* Every request ends, unless its process dies: no state of the runner     *)
(* waits on an answer, a lease or another request for ever.                *)
RequestsEnd == \A p \in Proc : <>(pc[p] \in {"done", "crashed"})

(* The runner implements the abstract ledger of ProviderEffects: flight    *)
(* and landed are the provider calls, an answer is a completed row's       *)
(* response, and every other step of a request leaves the ledger alone.    *)
Effects == INSTANCE ProviderEffects WITH
    wants  <- [p \in Proc |-> req[p].key],
    flight <- {p \in Proc : call[p] = "flight"},
    landed <- {p \in Proc : call[p] = "landed"},
    answer <- [k \in Key |-> row[k].response]

ImplementsEffects == Effects!Spec

-----------------------------------------------------------------------------
(* The inductive invariant behind the safety properties, part by part.     *)

Asking  == {"idle", "again", "quiesce", "supersede", "reconcile", "retry", "adopt"}
Copying == {"quiesce", "supersede", "reconcile", "retry", "adopt"}
Holding == {"apply", "dispatch", "waiting", "release", "mark", "complete", "adopt_own"}

(* The unique index on active provider targets.                            *)
OneCustodian ==
    \A k, l \in Key :
        TargetOf[k] = TargetOf[l] /\ Active(row[k]) /\ Active(row[l]) => k = l

(* A response is stored exactly when a row completes.                      *)
ResponseWhenCompleted ==
    \A k \in Key : row[k].state = "completed" <=> row[k].response # "none"

(* A request that holds no lease is named by no record and sent nothing.   *)
FreshOwners ==
    \A p \in Proc : pc[p] \in Asking =>
        /\ call[p] = "none"
        /\ \A k \in Key : row[k].owner # p
        /\ \A q \in Proc : res[q].owner # p

(* What a request holds: its own reservation, or a copy of its own key's   *)
(* row, or of the row of another key on its target.                        *)
HeldRecords ==
    \A p \in Proc :
        /\ pc[p] \in Holding => res[p].key = req[p].key /\ res[p].owner = p
        /\ pc[p] \in {"reconcile", "retry", "adopt"} => res[p].key = req[p].key
        /\ pc[p] \in {"quiesce", "supersede"} =>
                TargetOf[res[p].key] = TargetOf[req[p].key]
        /\ pc[p] = "release" => res[p].started = 0

(* A copied record was not running, so the owner it names never runs again.*)
CopiedOwnersStopped ==
    \A p \in Proc :
        pc[p] \in Copying /\ Own(p).state = "running" => Own(p).owner # res[p].owner

(* Where a request can be while its call is or is not under way.           *)
CallsInPlace ==
    \A p \in Proc :
        /\ pc[p] = "dispatch" => call[p] = "none"
        /\ pc[p] \in {"apply", "release", "complete", "adopt_own"} => call[p] # "flight"

(* A call that is possible, under way or took hold keeps its owner in the  *)
(* row for as long as the row is active.                                   *)
EffectsOwned ==
    \A p \in Proc :
        LET r == row[req[p].key] IN
        /\ Hot(p) => Active(r) /\ r.owner = p /\ r.started # 0
        /\ call[p] = "landed" =>
              /\ r.state # "none"
              /\ Active(r) => r.owner = p /\ r.started # 0

(* What an observation showed still holds when it is acted on, as long as  *)
(* the compare-and-set would succeed.                                      *)
EvidenceHolds ==
    \A p \in Proc :
        /\ pc[p] = "adopt" => Landed(res[p].key)
        /\ pc[p] \in {"retry", "supersede"} /\ Retryable(p) => Quiescent(res[p].key)
        /\ pc[p] = "retry" /\ Retryable(p) => ~ Landed(res[p].key)

Inv ==
    /\ TypeOK
    /\ OneCustodian
    /\ ResponseWhenCompleted
    /\ FreshOwners
    /\ HeldRecords
    /\ CopiedOwnersStopped
    /\ CallsInPlace
    /\ EffectsOwned
    /\ EvidenceHolds
    /\ ReplayIsTrue

=============================================================================

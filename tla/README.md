# Launchplane in TLA+

Launchplane is a control plane: it deploys products, runs multi-step provider
operations, lands merge trains, sends notices, and replaces itself. Most of it is
Python code (`src/control_plane`) around one PostgreSQL store. What makes the
system hard is not any single record but the time between two transactions: a
request, worker or process reads a row, does something slow and irreversible at a
provider (Dokploy, GitHub, Discord, SMTP), and comes back to write what it
believes happened. Meanwhile leases expire, other workers take over, answers get
lost and containers are replaced. This project models the six protocols that carry
the system through those moments:

| protocol | code | module |
|---|---|---|
| durable provider operations | `provider_operations.py`, mutation reservations in `storage/postgres.py` | `ProviderOperation` (+ `ProviderEffects`, `ProviderOperationProof`) |
| the transactional outbox | `outbox_worker.py`, outbox rows in `storage/postgres.py`, the delivery adapters | `OutboxDelivery` (+ `OutboxDeliveryProof`) |
| the self-deploy drain and admission fence | `service_deploy_drain.py`, `workflows/launchplane_self_deploy.py` | `ServiceDeployDrain` (+ `ServiceDeployDrainProof`) |
| durable operations of a lane | `workflows/odoo_stable_operation_worker.py`, the operation and lane methods of `storage/postgres.py` | `DurableOperation` (+ `DurableOperationProof`) |
| privileged operations | `privileged_operation_service.py`, `privileged_operation_worker.py` | `PrivilegedOperation` (+ `PrivilegedOperationProof`) |
| landing of a merge-train batch | `merge_train_controller_run_once.py`, `merge_train_github.py`, `merge_admission.py` | `MergeTrainLanding` (+ `MergeTrainLandingProof`) |

`PROJECT.json` lists, for every definition, the source lines it stands for, and
every run, mutant, theorem, finding and hazard.

Every safety property and every action property that a passing run checks is also proved, for
all values of the constants; the refinement of the effect ledger too. The liveness properties
(`RequestsEnd`, `DeliveriesSettle`, `OperationsSettle`, `ClaimsAreDecided`, `LandingSettles`) rest
on fairness, which the prover cannot handle, and are model-checked only.

## 1. Inventory

State, operations and interactions of the parts of the system. "Shared" is what
other parts read or write.

**Durable provider operations** (`provider_operations.py`). State: one mutation
reservation per (scope, route, idempotency key) with lease owner, lease expiry,
attempt, effect phase, stored response. Operations: reserve, renew (heartbeat
thread), checkpoint an effect, complete, mark for reconciliation, observe and
adopt, retry, supersede the holder of a target, release, hand over to a rehearsal
checkpoint. Shared: the unique index on active provider targets; the deploy fence
admits reservations and looks at them as blockers. Hard: an executor outlives its
lease, replies to renewals and checkpoints are lost, crashes between call and
completion, observation-then-write races. Correct when: no two executors act on
one target, one effect per key, no effect forgotten, replayed answers true.

**Transactional outbox** (`outbox_worker.py`, outbox methods of the store). State:
delivery rows with owner, lease, attempt, due time, provider marker, delivery
attempts. Operations: enqueue, claim, exhaust, mark provider started, send,
reconcile, complete. Shared: the fence withholds unmarked dispatches; recoveries
read their failures' rows. Hard: stalled and restarted workers under one name,
uncertain sends, notices that depend on notices. Correct when: a non-repeatable
send happens at most once, stale holders cannot write, a recovery follows a
delivered failure, everything settles.

**Self-deploy drain** (`service_deploy_drain.py`). State: one fence row, a receipt
and a budget row per request, executor-exit receipts. Operations: prepare (drain,
own the dispatch, time out), env update and trigger at Dokploy, record dispatch,
record pre-effect refusal, confirm startup, admission. Shared: reservations and
outbox claims ask for admission and are its blockers. Hard: a lease that expired
under a running executor, overlapping containers, lost Dokploy answers, repairs of
a dispatch in doubt. Correct when: no replacement interrupts an effect, no request
is dispatched twice, "pre-effect" is true, a dispatch in doubt stays fenced.

**Rehearsal checkpoints across a deploy** (`rehearsal_deploy_resume.py`). State:
checkpoint rows that carry a reservation from the old container to the new.
Hard: the hand-over itself. Only the hand-over is modelled (`Handoff`).

**Durable operation workers** (`workflows/odoo_stable_operation_worker.py`, the lane
and operation methods of the store). State: operation rows with status, phase,
checkpoints, attempt and lease; the lane, held by at most one operation; an advisory
lock for synchronous releases. Operations: create, claim, checkpoint, complete, recover
an expired lease, hold, inspect and cancel, queue the recovery of a failed release,
queue a failed restore again, take up a held cutover. Shared: the drain withholds claims and counts running rows as
blockers. Hard: a worker that outlives its lease, a crash between a checkpoint and the
end of its effect, recovery racing a slow worker. Correct when: a lane has one holder
and one executor, nothing that wrote production is requeued, an effect nobody saw the
end of keeps the lane, every operation ends or is held.

**Privileged operations** (`privileged_operation_service.py`, `_worker.py`). State: the
record of each operation (plan, approval, execution), the reservation of its execution,
the things it changes (managed secrets, authorization policy, merge-train policy, backup
policy). Operations: plan, approve, cancel, revoke, execute, reconcile. Shared: the
mutation reservations; the authorization policy is both changed by operations and read
to authorize them. Hard: approval of a plan that has become stale, a right taken away
between check and write or between guard and commit, a worker that dies at any point. Correct when: what is written
is what was reviewed, withdrawn operations stay inert, the record tells the truth, every
claimed operation is decided.

**Merge train controller** (`merge_train_controller_run_once.py`,
`merge_train_github.py`, `merge_admission*.py`). State: the controller row with lease and
active phase, landing records, merge admissions and their outcomes; pull requests and the
base branch live at GitHub. Operations: acquire, checkpoint, release; land a batch entry
by entry; reconcile, resume, retire, clean up. Shared: nothing with the other models.
Hard: GitHub changes between reading and merging, a merge whose answer is lost, a pass
that outlives its lease. Correct when: what is recorded as landed is on the base as it
was tested, an attempt in doubt has no rival, every batch ends.

**Client release** (`client_release.py`). State: releases, client decisions. Its effects
run through durable operations and durable provider operations. Not modelled.

**Product reconciliation, tenant admission, authorization grants**
(`product_reconcile.py`, `tenant_admission_controller.py`,
`authz_grant_service.py`). Rules over records, largely sequential. Not modelled.

**Record stores** (`storage/postgres.py`, `storage/filesystem.py`). PostgreSQL is
modelled where the six protocols use it: each store method is one transaction.
The filesystem store is a development store without reservations and claims.

**Dokploy client and drivers, runner host hygiene, HTTP service, frontend**. I/O,
parsing, wiring and presentation; the providers appear as the environment of the
models, the HTTP handlers as the requests.

Hazards, each at the line where it bites, are listed under `hazards` in
`PROJECT.json`.

## 2. ProviderOperation

A member of `Proc` is one HTTP request running `run_durable_provider_operation`; its
trace id is the lease owner, so owners are never reused. `row[k]` is the reservation
row of an idempotency key, `res[p]` the copy a request holds (the code passes
immutable records and compares them with the row in every transaction), `pc[p]` its
place in the runner, `call[p]` its provider call: none, in flight, landed or dropped.
`now` is the database clock.

| code | actions |
|---|---|
| `reserve_mutation` and its decisions | `ReserveAcquired`, `ReserveTargetBusy`, `ReserveReconcile`, `ReserveTurnedAway` |
| supersession of a target's holder | `CheckQuiescence`, `Supersede`, `SupersedeRefused` |
| `_reconcile` | `Observe`, `RetryReconciled`, `AdoptObserved`, `ReconcileRaceLost` |
| lease, heartbeat, checkpoint | `Renew`, `CheckpointEffect`, `Dispatch`, `Handoff` |
| `_apply_acquired` | `Answer`, `ApplyUnknown`, `ApplyRejected`, `ApplyReturned`, `ReleaseReserved` |
| settlement | `MarkReconcileRequired`, `CompleteReservation`, `AdoptOwnOutcome` |
| environment | `Crash`, `Land`, `Drop`, `Tick` |

`Matches` is the compare half of every compare-and-set, field by field. A lost reply
is a disjunct of its action: the row is written and the local copy is not.

Abstractions. An attempt makes one abstract provider call; an adapter may checkpoint
further phases. Adapters are external: `retry_safe` and the quiescence check are
assumed to be sound (`DefinitelyAbsent`, `Quiescent`), an "observed" answer to be true,
and "absent" to say only that nothing has landed yet. Keys of one target share a
reconciliation key. A mismatch of the retained intent is folded into the fingerprint
conflict. The two transactions of a colliding reserve are one step. Left out:
admission (that is `ServiceDeployDrain`), `resume_acquired_provider_operation`,
executor-exit receipts (modelled in `ServiceDeployDrain`), rows without a
reconciliation key, `release_mutation_reservation`,
`bind_mutation_reconciliation_key`.

`ProviderEffects` is the abstract specification: a ledger with four variables and no
leases, rows or crashes, in which at most one call is under way per target, at most
one takes hold per key, and each key gets one true answer. `ImplementsEffects` states
the refinement.

### Runs

| run | instance | states | shows |
|---|---|---|---|
| `provider_key` | 2 requests, 2 keys on 1 target, 2 fingerprints, with and without mutation and supersession, clock to 4, lease 2, fair | 0.60 M | `NoDuplicateEffect`, `EffectCustody`, `ReplayIsTrue`, `LeaseLossIsFinal`, `RequestsEnd` |
| `provider_target` | 3 requests, 2 keys on 1 target, supersession, retained intents, grace 1 | 1.7 M | `Inv` (with `TypeOK`), `ExclusiveEffect`, `ImplementsEffects` |

Three requests are what the races for a target need: an executor that lost its lease, one
that took over, one that observes between them. `Inv` of `provider_target`
contains `TypeOK` and `ReplayIsTrue` and implies `EffectCustody`; `provider_key` adds the mixed
requests (another fingerprint, no mutation) and liveness. A lease of 2 in a clock of 4 lets a lease be renewed, expire and be
replaced by one that also expires. With one target the exclusion property is at its
tightest. Requests are symmetric except in the fair run.

Fairness: weak fairness of `Step(p)`, the steps the runner itself takes. The code
justifies it because adapter calls have timeouts and the store's transactions do not
wait on other requests' leases. Renewing, starting an effect and handing over are the
adapter's choice and are not assumed; neither is the clock.

### Proofs

`ProviderOperationProof` proves, for any sets of requests,
keys, targets and fingerprints and any lease, grace and clock bound, from
`ConstantsAssumption` alone (the constants are of their kinds, `Lease`, `MaxPhase` and
`MaxNow` positive):

| theorem | states |
|---|---|
| `Invariance` | `Spec => []Inv` |
| `TypeCorrect`, `Exclusion`, `Custody`, `TrueReplay` | `TypeOK`, `ExclusiveEffect`, `EffectCustody`, `ReplayIsTrue` are invariants |
| `NoDuplicate` | `NoDuplicateEffect` is an invariant |
| `CompletedFinal`, `LostLeasesStayLost` | the action properties `CompletedIsFinal` and `LeaseLossIsFinal` |
| `Refinement` | `Spec => ImplementsEffects`: the runner implements the ledger |

The argument. `ExclusiveEffect` alone is not inductive, because a lease says nothing
about its executor: expired leases are reassigned while the old executor lives. What
carries the proof is ownership recorded in the row. `EffectsOwned`: whoever may act, is
acting, or has acted is named as owner by its row as long as the row is active, and
the row shows an effect. `OneCustodian`: one active row per target. So two executors
on one target would be two owners of one row. To keep this across a retry or a
supersession, which change the owner, `EvidenceHolds` says that what the observation
showed still holds whenever the compare-and-set would succeed; that in turn needs
`CopiedOwnersStopped` (a row copied for reconciliation never runs again under the owner
the copy names) and `FreshOwners` (owners are not reused). `HeldRecords` and
`CallsInPlace` tie records and calls to the program counter. `NoDuplicateEffect` joins
the invariant in a second induction. The preservation proof has one lemma per group of
actions that write alike, each with one step per conjunct. `LeaseLossIsFinal` follows from
the same invariant: a request leaves a row running only under its own name (`WritersRun`), so
what is live for an executor after a step of somebody else was live before, and the executor's
own writes ask for a live lease first.

Only model-checked: the liveness property `RequestsEnd`.

## 3. OutboxDelivery

`box[d]` is a delivery row, `rec[w]` the record a worker claimed, `out[w]` the result it
will store, `flight` and `taken` the provider calls under way and those that took hold.
Time is reduced to what the store asks of it: a row is due or not; a lease is live, at
its exact end (where the store will neither complete nor reclaim it) or past. A worker is
a lease owner; a restarted process may come back under its name.

| code | actions |
|---|---|
| `enqueue_outbox_delivery_with_idempotency` | `Enqueue` |
| `claim_next_outbox_delivery_record` | `Claim`, `Exhaust` |
| provider marker | `Prepare`, `MarkProviderStarted` |
| workflow dispatch | `Send`, `NotSent`, `DispatchAnswered`, `ReconcileDispatch` |
| issue notice | `IssueAnswered`, `ReconcileIssue` |
| Discord, e-mail | `DirectAnswered` (with `DiscordResults`, `EmailResults`), `ReconcileDirect`, `Skip` |
| failures before a send | `FailBeforeSend` |
| `complete_outbox_delivery_record` | `Complete` |
| environment | `Crash`, `Land`, `Drop`, `LeaseRuns`, `BecomesDue` |

| run | instance | states | shows |
|---|---|---|---|
| `outbox_dispatch` | 2 workers, a dispatch and an issue notice, 2 attempts | 0.45 M | `Inv` (with `TypeOK`), `DispatchedOnce`, `StaleHolderFenced` |
| `outbox_notices` | 2 workers, a Discord failure and its recovery, 3 attempts, fair | 85 k | `DiscordSentOnce`, `DeliveredIsReal`, `RecoveryFollowsFailure`, `DeliveriesSettle` |
| `outbox_email` | 1 e-mail notice | - | violated: see Findings |

Two workers give every pair of holders of a row; two attempts (three where a definite
refusal clears the marker and starts over) let a stale holder meet its successor and the
attempt limit. `StaleHolderFenced` deserves attention: the store compares only the owner's
name, and the property shows that the lease check makes that enough.

Fairness: workers loop and the clock runs (weak fairness of `Deliver` and `Clock`); a
claimable row is taken though workers are often busy (strong fairness of `Take`), which
the claim query's oldest-due-first order justifies; admission is withheld only during a
replacement.

Not modelled: the one-off e-mail backlog summary beyond its skips, alerts that a failed
reminder enqueues, the monitor that opens and closes incidents.

### Proofs

`OutboxDeliveryProof` proves, for any workers, deliveries and predecessors and any limit of
attempts, from `OutboxAssumption`: constants are of their kinds, no dispatch waits for
predecessors, and a notice waits only for failures of its own destination kind, because the
query that withholds a recovery compares the destinations' kinds
(`storage/postgres.py:8813-8835`).

| theorem | states |
|---|---|
| `InvHolds`, `TypesHold` | `Inv` and `TypeOK` are invariants |
| `SentAtMostOnce` | `DispatchedOnce` and `DiscordSentOnce` |
| `NoticesAreTrue` | `DeliveredIsReal` and `RecoveryFollowsFailure` |
| `StaleHoldersAreFenced` | `Spec => StaleHolderFenced` |

The argument. "Sent at most once" speaks of calls under way and calls a worker may still send;
what prevents a second one is a flag on a row. `AttemptsInOrder` connects them: attempts are
numbered, each has one worker, and whoever passes the owner check is at the last of them. This
alone gives `StaleHolderFenced`. `RecordsShowMarker` says that the copy a worker claimed shows
the row's marker as long as it counts, and `MarkersCover` that the marker of a dispatch or a
Discord notice is set while any call of it was attempted and is not known to have failed, so
the next worker reconciles instead of sending. The notices need `ResultsAreReal`: what a worker
is about to store, and the failure a recovery relies on, is true when it is stored. E-mail is
outside `MarkersCover`, see Findings. Only model-checked: `DeliveriesSettle`.

## 4. ServiceDeployDrain

`fence` is the "service" row, `receipt`, `deadline` and `timedOut` the per-request rows,
`caller` the process that holds the dispatch lock and its place in
`launchplane_self_deploy`, `calls` and `env` what Dokploy has done, `procs` the containers
that are up, `row` the rows of admitted work, `exec` who is at work on them.

| code | actions |
|---|---|
| `prepare` | `Drain`, `OwnDispatch`, `DrainTimesOut` |
| `launchplane_self_deploy` | `UpdateEnv`, `TriggerDeployment`, `Answered`, `OutcomeUnknown` |
| `record_dispatch`, `record_pre_effect_refusal` | `RecordDispatch`, `RecordPreEffectRefusal` |
| `confirm_startup` | `ConfirmStartup` |
| `admission_allowed` at reservations and claims | `Admit`, `ClaimMarked` |
| executors and their rows | `BeginEffect`, `FinishDispatch`, `CompleteReservation`, `GiveUp`, `MarkReconcileRequired`, `RecordExecutorExit` |
| `adopt_reconciled_mutation` for another request | `Adopt` |
| environment | `Land`, `Drop`, `Startup`, `Crash`, `LeaseExpires`, `Tick` |

| run | instance | states | shows |
|---|---|---|---|
| `drain_work` | a deploy and its repair, a client release and a preview with 2 attempts each, no clock | 0.86 M | `Inv` (with `TypeOK`), `ReplacementWaits`, by executor-exit receipts and by execution locks |
| `drain_requests` | a deploy, its repair, a copy of its marker, a workflow dispatch, clock to 3 | 0.87 M | `DispatchedOnce`, `ReceiptsAreTrue`, `InDoubtIsFenced`, `PauseIsBounded`, `NobodyBegins` |

A pause shorter than the absolute budget keeps the order of the code's two minutes and its
timeout; a clock of 3 reaches a pause that lapses, one that is renewed and the deadline. In
`drain_work` a drain does not lapse, to keep the run short: with `MaxNow = 1`,
where a lapsed drain admits work again, it has 3.5 M states, takes three minutes and finds no
error either, and the theorems hold for any clock. Two attempts
suffice for the receipt of one attempt to meet the executor of the next. A generic-web deploy
(`web`) starts under a lock as a preview does, is adopted without one as a release is, and meets a
stricter condition for counting as excluded than either; the proofs cover it.

A drain waits for rows, not for executors. Another request of a key that finds the effect at
the provider completes the row while the executor may still be in its call
(`provider_operations.py:1037`), and a completed row blocks nobody
(`service_deploy_drain.py:287`). A slow client-release or generic-web executor can therefore be cut short after
its outcome was adopted, and only then; previews are reconciled under their execution lock.
`ReplacementWaits` says exactly this.

Abstractions. There is one service target. A request stands for its image and marker and
a process for the request that brought it up. The leases of admitted work are live or past.
A reservation is retried only when nobody is at its effect, which is what
`ProviderOperation!ExclusiveEffect` proves of the runner; dispatch ownership is compared by
attempt, which is what `OutboxDelivery!StaleHolderFenced` shows of the owner comparison. An
execution lock is held from before the reservation until the executor is gone. An adopted or
completed row counts as past its lease: nothing reads its lease again. Supersession, which
completes the row of an earlier preview, is an `Adopt` of it. A deleted row keeps its attempt
number, which stands for the owner tokens that tell executors apart. Not modelled:
`read_status`, resuming a rehearsal. The durable operations among the blockers are in
`DurableOperation` (`DrainPauses`, `Replace`).

### Proofs

`ServiceDeployDrainProof` proves, for any requests, markers, images and admitted work, any pause
and budget, from `DrainAssumption` (constants are of their kinds, the process that was booted
before any request has a marker of its own, and processes have markers):

| theorem | states |
|---|---|
| `InvHolds`, `TypesHold` | `Inv` and `TypeOK` are invariants |
| `NothingIsCutShort` | `ReplacementWaits`, and `Spec => NobodyBegins` |
| `SentAtMostOnce` | `DispatchedOnce` |
| `ReceiptsHold` | `ReceiptsAreTrue` and `InDoubtIsFenced` |
| `DrainsEnd` | `PauseIsBounded` |

The argument has three parts, and each step of the system disturbs at most two of them. The
fence: it is always the receipt of its request, and a receipt in doubt that is no longer the
fence has a repair that names its marker and was not refused (`ReceiptsAgree`,
`DoubtIsRepaired`, `DrainsAreBounded`). The calls: a request that only drains has none, and the
calls of one that owns its dispatch are sent in turn, one after the other (`CallsInTurn`). The
work: one executor per attempt, at the current attempt when it acts for a reservation, with a row
that blocks unless somebody adopted it (`ExecutorsAgree`), and while a dispatch is in doubt nobody is in time to begin an effect
(`DoubtIsQuiet`). The last one is what makes `ReplacementWaits` inductive: `prepare` looks at
rows and receipts only once, and a worker that was admitted earlier could begin later.
Everything here is safety; nothing is left to TLC alone.

## 5. DurableOperation

One stable lane and its operations. `row[o]` is the row of an operation, `job[w]` what a
worker process is doing with the operation it claimed, `sync` the synchronous release route
with its advisory lock, `admission` what the drain tells a claim. `wrote`, `doubt` and
`released` are history: a production effect has begun, its end was seen by nobody, an admin
attested the provider or a held cutover was taken up again. A lease is live, due (at the
second it ends the row is neither current nor expired, so nobody may write or recover it) or
expired; there is no clock. Owner names are unique to a process, as `cli_service.py` makes
them. The counters of a terminal row that nothing reads again are reset; those of an unverified restore
are kept.

| code | actions |
|---|---|
| `create_*_if_no_active_lane`, cancellation after inspection | `Create`, `Inspect`, `Cancel` |
| `requeue_terminal_failed_odoo_prod_backup_restore_operation_record` | `Requeue` |
| `odoo_synchronous_lane_reservation` | `SyncLock`, `SyncCheck`, `SyncEnd` |
| `claim_next_*` | `Claim` (`ClaimBootstrap`, `ClaimRestore`, `ClaimRelease`), `ClaimReconciliation` |
| a run: checkpoints, guards, provider effects | `Checkpoint`, `Unrecorded`, `LeaseLost`, `Denied`, `Deferred`, `HeartbeatLost`, `EffectDone`, `EffectFails`, `EffectUncertain` |
| `complete_*`, queueing the recovery of a failed release | `Complete` |
| `recover_expired_*` | `Recover` (`RecoverBootstrap`, `RecoverRestore`, `RecoverRelease`) |
| drain | `DrainPauses`, `DrainEnds`, `Replace` |
| environment | `LeaseRunsOut`, `DelayElapses`, `Crash` |

The kinds differ in how effects are fenced: a bootstrap has no checkpoint and is never run
again once claimed; a restore (a retained-volume import runs alike) checkpoints before every
effect; a promotion records its production write once, after a logical backup; a rollback
records it once.

A restore whose first attempt did everything and failed only its final verification ends as
"fail" with its result on the row (`unverified`). When its request is sent again with the same
key it goes back to the queue with its checkpoints (`Requeue`), if the lane is free. A claim of a
row with a result is a replay (`ReplaySteps`): it reads the live target, runs post-deploy and
verifies, and restores nothing. It is replayable once, because only attempt 1 is eligible
(`odoo_prod_backup_restore_operation.py:266`); a replay that fails keeps the result and is
terminal for good, one whose worker dies is held. An import runs like a restore but is never
queued again in the code, so `Requeue` covers it with a behaviour it does not have.

| run | instance | states | shows |
|---|---|---|---|
| `durable_lane` | 2 workers, a bootstrap and a restore, 2 attempts, 1 synchronous release or drain, fair | 0.20 M | `Inv` (with `TypeOK`), `OneHolder`, `OneExecutor`, `TerminalIsFinal`, `OperationsSettle` |
| `durable_release` | 2 workers, a two-slot Client promotion and its recovering rollback, 2 attempts, 1 deferral, 1 interrupt | 0.87 M | `DoubtHoldsLane`, `RequeuedIsUntouched`, `FailedReleaseKeepsLane` |

Two workers give a late one and its successor; two attempts let an operation be requeued
once and then reach its limit, and a restore run once and replayed once; one deferral and one interrupt (a drain or a synchronous
release) suffice to interleave each with everything else, because each is over before the
next may start.

Fairness: a worker that runs goes on or crashes (a crash is always possible and never
assumed), leases and delays run out, the worker loop recovers and claims, and drains and
synchronous releases end. The loop (`run_odoo_stable_operation_worker_loop`) recovers every
kind before it claims, which justifies weak fairness of `Recover` and `Claim`. What an admin
does is not assumed.

### Proofs

`DurableOperationProof` proves, for any workers and operations of the four kinds, any releases
and recoveries and any number of attempts, deferrals and interruptions, from `DurableAssumption`:
constants are of their kinds, only promotions have recoveries, these are rollbacks, and no two
releases share one, because the identity of a recovery is derived from its release
(`odoo_release_recovery.py:188`).

| theorem | states |
|---|---|
| `InvHolds`, `TypesHold` | `Inv` and `TypeOK` are invariants |
| `LaneIsExclusive` | `OneHolder` |
| `EffectsAreExclusive` | `OneExecutor` |
| `DoubtIsHeld` | `DoubtHoldsLane` |
| `RequeuesAreUntouched`, `TerminalRecordsStay`, `FailedReleasesKeepTheLane` | the action properties `RequeuedIsUntouched`, `TerminalIsFinal`, `FailedReleaseKeepsLane` |

The argument. A worker checks its lease before it enters a production effect, not while it is at
it, so `OneExecutor` must survive the loss of the lease. `Working` carries it: a worker that is
committed to an effect (`Committed`) has marked the row (`Touched`: a bootstrap by being
claimed, a restore by its phase, a release by its production write), and the row is either its
own or held. Recovery never requeues a marked row, and `Requeue` finds the lane without a holder,
so without a committed worker, hence at most one worker is committed to
an operation (`OneCommitted`), and by `OneHolder` to the lane. `Doubted` follows an effect
nobody saw the end of: the row stays held, or is running under a worker that died or is about to
hold it (`Carried`). `Accounted` counts attempts, which the type invariant bounds (a restore has
one more, for its replay). `Replays` says that only a restore has a result that failed its
verification and that whoever owns the lease of such a row replays it; with it `TerminalIsFinal`
holds, in which the replay is the one way out of a terminal record. `Inv` is `LaneInv /\ Replays`.
`RecoveriesFollow` (a recovery is queued when its release fails, never before) gives
`FailedReleaseKeepsLane`. Attested operations and cutovers taken up again (`released`) are
excepted where the code excepts them. Only model-checked: `OperationsSettle`.

## 6. PrivilegedOperation

`op[o]` is the record of an operation, `res[o]` the reservation of its execution, `inner`
the operations whose write carries its own completed reservation, `version` the current
version of the four things that operations change, `granted` whether the active policy lets
the approver approve, `wk[w]` what a worker is doing. `effects` and `lost` are history: which
operation wrote over which version, and whose answer was lost.

| code | actions |
|---|---|
| service: plan, approve (checks, then write), cancel, revoke | `Plan`, `View`, `Approve`, `Cancel`, `Revoke` |
| `execute_approved_privileged_operations_once` | `PickApproved`, `Reserve`, `Claim`, `Release`, `Authorize`, `Replan`, `Apply`, `Guard`, `Commit`, `ReadBackFails`, `RecordExecuted`, `CompleteExecuted` |
| its failure paths | `Settle`, `Mark`, `Distrust`, `Fail` |
| `reconcile_stale_privileged_operations` | `PickExecuting`, `Prepare`, `Reauthorize`, `Recover`, `Guard`, `Recommit`, `AdoptRecord`, `Adopt`, `GiveUp` |
| environment | `Drift` (other writers), `LeaseRunsOut`, `Crash` |

A plan is the version it was made from; a plan without a change, the retired
delivery-activation descriptor and the planning rules are left out. The status `expired` of
the contract is written nowhere in the code and has no action.

Every write but one compares and writes in one transaction, hence in one action (`Apply`). The
write of a backup policy asks for the approver's right in its `revision_guard`
(`privileged_operation_worker.py:899`), which reads the authorization policy in a second session
while the transaction holds the locks of the backup policies and not that of the authorization
policy. So it has two: `Guard` (the locks, the right, the plan) and `Commit`, or `Recommit` when a
reconciler runs it. Between them no other backup policy is written (`BackupsLocked`), and the
right may go. An import asks for a current reservation only when it changes provider
expectations (`expects`, chosen with the plan).

| run | instance | states | shows |
|---|---|---|---|
| `privileged_work` | 2 operations of merge-train policies and backup policies, 2 workers, 1 foreign write, 1 crash | 3.3 M | `AppliedAsReviewed`, `RecordIsTrue`, `DoubtHoldsTarget` |
| `privileged_live` | 1 operation of any of the four kinds, 2 workers, 1 foreign write, 2 crashes, fair | 0.13 M | `Inv` (with `TypeOK`), `AuthorizedAtEffect`, `ClaimsAreDecided` |

Two operations of one kind compete for its target. The import has the denial that settles a
reservation past its lease, the backup the guard with a later commit; the same run with the
authorization policy as a third kind has 7.2 M states, takes three minutes and finds no error
either. In both runs the foreign write makes a reviewed plan stale or takes the right away at any
point; with a second one in the live run, which may give the right back, it has 0.49 M states and
the same result. The second crash of the live run kills the reconciler of the first.

Fairness: a worker at an operation goes on (weak), leases run out (weak), and an executing
operation is picked up although workers are often busy elsewhere (strong), because every
poll begins with all executing operations (`privileged_operation_worker.py:1402`).

The properties name what the code leaves open. A worker that dies between the reservation and
the claim leaves an approved operation that no poll executes (`reserve_mutation` answers
"reconcile_required" from then on). One that dies between settling its reservation as failed and
the transition of the record leaves it "executing" (hence the second half of
`ClaimsAreDecided`). One that dies between "executed" and the completion of its reservation
leaves the descriptor's target taken. `effect_completed` is set when the store call returns, so
a committed write whose answer is lost is recorded as "failed before a provider effect"
(`lost` in `RecordIsTrue` and `DoubtHoldsTarget`). Secrets and imports check
the approver's right once, not again under the lock of their write; a backup policy may be
written after the right was withdrawn between its guard and its commit. `AuthorizedAtEffect`
states what holds: the authorization policy is written only under the right, a backup policy
written without it is that of a transaction whose guard found it in a policy replaced since.

### Proofs

`PrivilegedOperationProof` proves, for any finite set of operations of any kinds, any workers and
any number of foreign writes and crashes, from `PrivilegedAssumption`:

| theorem | states |
|---|---|
| `InvHolds`, `TypesHold` | `Inv` and `TypeOK` are invariants |
| `WritesAreReviewed` | `AppliedAsReviewed` |
| `RecordsAreTrue` | `RecordIsTrue` |
| `DoubtHolds` | `DoubtHoldsTarget` |
| `WritesAreAuthorized` | `Spec => AuthorizedAtEffect` |

The argument. A reservation is acquired once for an operation, so it has at most one executor,
and a worker recovers an operation only after its reservation stopped running. `Knows` states
what a worker may rely on at each place: whose reservation it is, how far the record is, what was
written and, between the check of the right and the write, that the right stands as long as
the policy has the version that was read. For a backup policy it also carries the guard to the
commit: the plan stays fresh because `OneCommits` (one transaction holds the locks) keeps other
writers out, and a right that is gone at the commit is gone because the policy was replaced after
the version the guard read. `Settled` describes reservations; its core is that
nobody may write any more (`MayWrite`) once one is settled as failed. `Truthful` relates the
record to what was written: a write not yet on record holds its reservation, unless its answer
was lost. `VersionsBounded` (each write and each drift adds one version) is what the type
invariant needs, and the reason for the finite set of operations. The liveness run checks `Inv`
too, where the crash of a reconciler is in reach. Only model-checked: `ClaimsAreDecided`.

## 7. MergeTrainLanding

The batch is the pull requests `1..N` in landing order, each at its tested head. `base` is the
sequence of commits on the base branch since the batch was tested, so the first parent of commit
`i` is commit `i - 1`, and the batch has landed as it was tested when commit `i` merges pull
request `i` at its tested head (`Placed(i)`). `pr` are the pull requests at GitHub, `att[i]` the
admissions of an entry with their latest outcome and, as ghost of GitHub's side, what became of the
merge request, `rec` the landing record that the selection prefers, `row` the controller row with
lease and active phase, `job[p]` what a pass is doing.

| code | actions |
|---|---|
| lease | `Acquire`, `Checkpoint` (the steps that write a phase), `Release`, `Fail` |
| start of a pass, resumption | `Select`, `Resume`, `ResumeRetire`, `Begin` |
| `land_batch_candidate` | `ReadBase`, `FindMerged`, `CheckOpen`, `ReconcileNoEffect`, `Admit`, `Evaluate`, `NotReady`, `Persist`, `ProviderCheckpoint`, `Put`, `Refused`, `TimesOut`, `Answered`, `CheckCommit`, `Progress`, `WriteProgress`, `WriteStale` |
| `_retire_changed_policy_landing` | `Verify`, `Hold`, `Renounce`, `Retire`, `WriteRetired`, `FinishRetired` |
| clean-up | `Finish`, `Cleanup`, `CleanupFails` |
| GitHub and people | `Handle`, `Refuse`, `PushHead`, `ClosePullRequest`, `OutsideMerge`, `OutsideCommit` |
| time and faults | `Stall`, `Expire`, `Crash` |

`merge_landing` checks 2 entries, 2 passes, 2 faults (crash, stall, lost answer, failed
clean-up) and 1 outside change, fair, 0.74 M states: `LandedIsTested`, `OneOpenAttempt`,
`Inv` (which adds `TypeOK`, `LandedOutcomeIsReal`, `MergedInOrder` and what the induction
needs) and `LandingSettles`. Two entries
have a rolling base between them, two passes a stalled one and its successor, two faults a
failure during the recovery from the first. All safety properties are proved without these
bounds.

Fairness: passes are started again and again (the scheduler calls `run_once` on every wake-up
and every interval), a pass goes on unless it crashes, an abandoned lease runs out, and GitHub
takes up every request in the end. `LandingSettles` says that the batch is then landed in full
or put aside, unless `NeedsOperator`: a merge that no admission explains, a later entry that
cannot be part of the plan any more, or an interrupted retirement whose repository moved.

### Proofs

`MergeTrainLandingProof` proves from `LandingAssumption` (at least one
entry, bounds are naturals, `NoPass` is no pass), for any batch, any set of passes and any number
of faults and outside changes:

| theorem | states |
|---|---|
| `InvHolds` | `Spec => []Inv` |
| `TypesHold`, `RecordsAreTrue`, `OutcomesAreTrue`, `AttemptsAreExclusive`, `RequestsAreOrdered` | `TypeOK`, `LandedIsTested`, `LandedOutcomeIsReal`, `OneOpenAttempt`, `MergedInOrder` are invariants |

The argument. Several writes of the code check no lease (outcomes, the stale record), so the
lease cannot carry it. Two other things do. First, the base branch only grows, so what is in
place stays in place (`PlacedStays`); a pass that has ever seen the entries behind it in place is
right about them for good, however late it wakes up (`Sound`). Every claim of "landed" rests on
such knowledge. Second, an admission is added only by the owner of the lease (`Fenced`), and
between its own reconciliation of the entry and the new admission the owner is the only one who
could add one, so the latest admission stays resolved (`Quiet`); a pass that lost the lease can
only resolve admissions further. The proof has one lemma for the shape of steps that touch
neither base nor attempts, and one per group of actions otherwise.

Liveness is only model-checked.

## 8. Mutants

Every property of a passing run is paired with a plausible bug, written as an operator
directly before the definition it changes and marked "Mutant" or "Mutated" (a dropped guard, a
comparison that forgets a field, a missing unique index, a receipt for the wrong attempt).
Each one violates its property under the run's own configuration.

## 9. Findings

`outbox_email` is expected to be violated: an e-mail whose SMTP exchange fails after the server
accepted the message is sent again, while `docs/records.md:1708` says that an uncertain direct
send is never replayed.

Other places where the code and a sentence of the repository differ, met while modelling. They
have no run of their own; where a property would fail because of one, its definition names the
exception.

- A repair that meets a blocker replaces a requested fence, which never expires, by a drain,
  which does (`service_deploy_drain.py:530`); `http_app.py:11701` says that the fence remains
  until the matching startup.
- After a confirmed replacement, a later drain that lapses admits work on the replaced image
  (`service_deploy_drain.py:179`); the docstring (lines 6-7) says that old workers remain fenced.
- A held two-slot release is claimed again by a worker after thirty seconds
  (`storage/postgres.py:17907`); `docs/records.md:2326-2330` says that the worker never re-runs
  such an operation, `docs/odoo-two-slot-releases.md:152` describes that it does. `OneExecutor`
  and `DoubtHoldsLane` except operations in `released`.
- A privileged write whose answer is lost is recorded as failed "before a provider effect"
  (`privileged_operation_worker.py:1588`).
- `docs/production-backup-provider.md:448` says that the approver's membership is rechecked "inside
  the atomic authority write". The recheck reads the active policy in another session
  without its lock (`privileged_operation_worker.py:900`, `storage/postgres.py:8092`), so a
  withdrawal may commit before the backup policy does; `AuthorizedAtEffect` names it.
- When the head of a later entry moves before anything landed, the plan is not retired but each
  pass fails again (`merge_train_controller_run_once.py:2266` allows moved heads only in another
  case); `docs/merge-train-policy.md:353-357` says that it is retired instead of blocking on
  every pass. `NeedsOperator` names it.
- A timed-out merge request can land after the next pass saw the pull request open and recorded
  that the attempt had no effect; `docs/merge-admission.md:87-88` calls that observation
  conclusive. The merged entry is then left to an operator (`NeedsOperator`); nothing is repeated
  or misreported (`OneOpenAttempt`, `LandedOutcomeIsReal`).
- A dispatch whose own POST was lost adopts the run of another dispatch of the same workflow and
  ref, because a run is found by elimination (`generic_web_promotion_workflow.py:269`).

Further things a reader of the models will meet, about which no document says otherwise. A stale executor of a key can find its row
released by a later attempt that had no effect, and the runner then raises ("Provider operation
state disappeared during reconciliation."): no effect is lost, as `EffectCustody` shows. And a
slow worker whose dispatch another worker put in doubt may still be about to call GitHub when the
replacement is dispatched: the dispatch stays at-most-once, as `DispatchedOnce` of
`OutboxDelivery` shows. Issue notices are at-least-once: a slow worker's call may land after the
next worker searched for its marker. An exception after a bootstrap's or a restore's effect ends
the operation as failed and frees the lane; only releases keep an uncertain effect
(`DoubtHoldsLane`). Nothing fences a call in flight from an admin's attestation, which is why
`OneExecutor` excepts attested operations. A merge-train pass that lost its lease can write a
stale record and so end a batch its successor was still landing; what the record calls landed
stays true. A pass that dies between the stale record and the release of its lease leaves a phase
that later passes refuse to clean up.

## 10. Not modelled

- `DurableOperation`: the steps of a target replacement, the backup gate worker (the same scheme on another table), the filesystem
  variant. The lane is one; lanes do not interact except through provider targets.
- `PrivilegedOperation`: plans without a change, the retired descriptor, the planning rules.
- `MergeTrainLanding`: everything before a tested batch (queue, candidates, their observation),
  the protected batch pull request, entries without a change, stack collapse and its recovery
  from external landings, ordinary-agent jobs, retirement because of a policy change.
- `ProviderOperation`: `resume_acquired_provider_operation`, rows without a reconciliation key.
- `OutboxDelivery`: the monitor that opens and closes incidents, the e-mail backlog summary.
- Client release, product reconciliation, tenant admission, authorization grants: rules over
  records that one request reads and writes; their effects go through the modelled protocols.
- HTTP routes, Dokploy client, runner hygiene, frontend, filesystem store: parsing, I/O and
  presentation. They are most of the repository's lines.

## 11. Plan

What would add most next, in this order.

1. The inner reservation of a privileged write as an instance of `ProviderOperation`, and the
   reservations `ServiceDeployDrain` admits: abstract specifications that two models share, with
   the refinements proved.
2. A composition of the fence with the outbox, so that claims and admission share one state;
   `OutboxDelivery` has the answer of the admission as an input today.
3. An abstract lane (one holder, effects one at a time, doubt held until it is released) that
   `DurableOperation` implements, in the manner of `ProviderEffects`.
4. The protected batch pull request and the candidate pipeline of the merge train.
5. Further action properties: attempts and versions never go back,
   a receipt never leaves "confirmed".

Liveness stays with TLC throughout. No model uses recursion over data that a proof would need
induction for.

## Running

    tlc -workers 2 -config ProviderOperation_key.cfg MCProviderOperation
    tlc -workers 2 -config MergeTrainLanding_land.cfg MergeTrainLanding
    tlapm ProviderOperationProof.tla
    tlapm OutboxDeliveryProof.tla
    tlapm ServiceDeployDrainProof.tla
    tlapm DurableOperationProof.tla
    tlapm PrivilegedOperationProof.tla
    tlapm MergeTrainLandingProof.tla

Deadlock checking is off in all configurations: requests end, deliveries and operations
settle, batches are landed and bounded clocks stop.

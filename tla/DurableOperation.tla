-------------------------- MODULE DurableOperation --------------------------
(***************************************************************************)
(* The durable Odoo operations of one stable lane: the queue, leases,      *)
(* phase checkpoints and recovery of control_plane/storage/postgres.py and *)
(* the worker of                                                           *)
(* control_plane/workflows/odoo_stable_operation_worker.py.                *)
(*                                                                         *)
(* A lane is one product/context/instance.  At most one operation holds it *)
(* (pending, running or reconciliation_required).  A worker claims the     *)
(* holder under a lease, writes a phase checkpoint before each provider    *)
(* effect, and writes the terminal record only under its lease.  An        *)
(* expired lease is requeued when no effect can have begun and held for    *)
(* reconciliation otherwise.  A restore that failed nothing but its final  *)
(* verification may be queued once more, to replay only its end.  Every    *)
(* store method is one transaction on a locked row or a locked lane, hence *)
(* one action.                                                             *)
(*                                                                         *)
(* Kinds of operation, by how their effects are fenced:                    *)
(*   bootstrap  no checkpoint: once claimed it is never run again;         *)
(*   restore    a phase checkpoint before every effect (a retained-volume  *)
(*              import is run the same way, and never queued once more);   *)
(*   promotion  a logical backup, then the production write, recorded once *)
(*              before it; later effects only look at the heartbeat;       *)
(*   rollback   the production write, recorded once before it.             *)
(*                                                                         *)
(* A lease is live, due (it ends this very second: neither current nor     *)
(* expired) or expired, without a clock.                                   *)
(***************************************************************************)
EXTENDS Integers, Sequences, FiniteSets

CONSTANTS
    Worker,         \* worker processes; each has a lease owner name of its own
    NoWorker,
    Op,             \* the operations of the lane
    KindOf,         \* what each of them is
    ClientRelease,  \* those granted by a Client's release decision
    TwoSlot,        \* those that run as a two-slot cutover
    RecoveryOf,     \* the rollback that recovers a failed promotion, if any
    MaxAttempts,    \* DEFAULT_ODOO_STABLE_WORKER_MAX_ATTEMPTS
    MaxDeferrals,   \* bound on runs put off before their first write
    MaxInterrupts   \* bound on synchronous releases and drains

ASSUME DurableAssumption ==
    /\ NoWorker \notin Worker
    /\ KindOf \in [Op -> {"bootstrap", "restore", "promotion", "rollback"}]
    /\ ClientRelease \subseteq Op /\ TwoSlot \subseteq Op
    /\ DOMAIN RecoveryOf \subseteq {o \in Op : KindOf[o] = "promotion"}
    /\ \A o \in DOMAIN RecoveryOf : RecoveryOf[o] \in Op /\ KindOf[RecoveryOf[o]] = "rollback"
    /\ \A o, p \in DOMAIN RecoveryOf : RecoveryOf[o] = RecoveryOf[p] => o = p
    /\ MaxAttempts \in Nat \ {0} /\ MaxDeferrals \in Nat /\ MaxInterrupts \in Nat

VARIABLES
    row,        \* the operation rows
    job,        \* what each worker is doing
    sync,       \* the synchronous release route and its advisory lock
    admission,  \* the self-deploy drain admits claims
    deferrals,  \* runs put off so far
    interrupts, \* synchronous releases and drains so far
    wrote,      \* history: a production effect of the operation has begun
    doubt,      \* history: an effect has begun whose end nobody saw
    released    \* history: operations an admin attested or a worker resumed

history == <<wrote, doubt, released>>
vars == <<row, job, sync, admission, deferrals, interrupts, history>>

Blocking == {"pending", "running", "reconciliation_required"}

PhaseRank == [created |-> 0, running |-> 1, validated |-> 2, backup |-> 3, started |-> 4]

SafePhases == {"created", "running", "validated"}

Row == [status    : Blocking \cup {"none", "pass", "fail", "cancelled"},
        phase     : DOMAIN PhaseRank,
        marks     : SUBSET (DOMAIN PhaseRank),  \* the phases of its checkpoints
        written   : BOOLEAN,                    \* PRODUCTION_WRITE_KEY is recorded
        attempt   : 0..(MaxAttempts + MaxDeferrals + 1),
        owner     : Worker \cup {NoWorker},
        lease     : {"none", "live", "due", "expired"},
        unverified : BOOLEAN,                   \* its result failed only the verification
        settled   : BOOLEAN,                    \* the delay since updated_at is over
        inspected : BOOLEAN]                    \* an admin looked after updated_at

NoRow == [status |-> "none", phase |-> "created", marks |-> {}, written |-> FALSE,
          attempt |-> 0, owner |-> NoWorker, lease |-> "none", unverified |-> FALSE,
          settled |-> TRUE, inspected |-> FALSE]

(* A worker runs the steps of its operation; an effect is in flight while  *)
(* at = "effect".  out is how the run ended; replays is set for a run that *)
(* found a result on the row it claimed.                                   *)
Outcome == {"pass", "fail", "unverified", "raised", "denied", "held", "unordered", "refused", "aborted"}

Job == [at : {"idle"}] \cup
       [at : {"step", "effect", "ended"}, op : Op, step : 1..5, out : Outcome,
        lost : BOOLEAN, began : BOOLEAN, resumes : BOOLEAN, replays : BOOLEAN,
        charged : BOOLEAN]

Idle == [at |-> "idle"]

Init ==
    /\ row = [o \in Op |-> NoRow]
    /\ job = [w \in Worker |-> Idle]
    /\ sync = "free"
    /\ admission = TRUE
    /\ deferrals = 0 /\ interrupts = 0
    /\ wrote = [o \in Op |-> FALSE]
    /\ doubt = [o \in Op |-> FALSE]
    /\ released = {}

-----------------------------------------------------------------------------
(* The lane.                                                               *)

Release(o) == KindOf[o] \in {"promotion", "rollback"}

Recovers(o) == \E p \in DOMAIN RecoveryOf : RecoveryOf[p] = o

Holders == {o \in Op : row[o].status \in Blocking}

StatusRank == [reconciliation_required |-> 0, running |-> 1, pending |-> 2]

(* The holder a claim must find itself to be.                              *)
ActiveOwner(o) ==
    /\ sync = "free"
    /\ o \in Holders
    /\ \A p \in Holders : StatusRank[row[o].status] <= StatusRank[row[p].status]

LaneFree == sync = "free" /\ Holders = {}

(* Mutated: only an operation of the same kind is in the way.              *)
CreateOwnKind(o) ==
    /\ row[o].status = "none"
    /\ ~ Recovers(o)
    /\ sync = "free"
    /\ \A p \in Holders : KindOf[p] # KindOf[o]
    /\ row' = [row EXCEPT ![o].status = "pending"]
    /\ UNCHANGED <<job, sync, admission, deferrals, interrupts, history>>

Create(o) ==
    /\ row[o].status = "none"
    /\ ~ Recovers(o)
    /\ LaneFree
    /\ row' = [row EXCEPT ![o].status = "pending"]
    /\ UNCHANGED <<job, sync, admission, deferrals, interrupts, history>>

(* An admin looks at the provider while the operation is held.             *)
Inspect(o) ==
    /\ row[o].status = "reconciliation_required" /\ ~ row[o].inspected
    /\ row' = [row EXCEPT ![o].inspected = TRUE]
    /\ UNCHANGED <<job, sync, admission, deferrals, interrupts, history>>

Cancellable(o) ==
    \/ row[o].status = "pending"
    \/ row[o].status = "reconciliation_required" /\ row[o].inspected

(* Of a finished operation only its status matters.                        *)
Terminal(r, status) == [NoRow EXCEPT !.status = status]

Cancel(o) ==
    /\ Cancellable(o)
    /\ row' = [row EXCEPT ![o] = Terminal(row[o], "cancelled")]
    /\ released' = IF row[o].status = "pending" THEN released ELSE released \cup {o}
    /\ UNCHANGED <<job, sync, admission, deferrals, interrupts, wrote, doubt>>

(* Mutated: a replay that failed is tried again.                           *)
ReplayableAgain(r) == r.unverified /\ "started" \in r.marks

(* A failed restore whose request is sent again, with the same key, goes   *)
(* back to the queue with its evidence when its first attempt did all but  *)
(* pass the verification.                                                  *)
Replayable(r) == r.unverified /\ r.attempt = 1 /\ "started" \in r.marks

Requeue(o) ==
    /\ KindOf[o] = "restore" /\ row[o].status = "fail"
    /\ Replayable(row[o])
    /\ LaneFree
    /\ row' = [row EXCEPT ![o] = [row[o] EXCEPT !.status = "pending", !.phase = "started"]]
    /\ UNCHANGED <<job, sync, admission, deferrals, interrupts, history>>

(* A synchronous release route takes the lock, then looks for a durable    *)
(* operation, then runs.                                                   *)
SyncLock ==
    /\ sync = "free" /\ interrupts < MaxInterrupts
    /\ sync' = "locked"
    /\ interrupts' = interrupts + 1
    /\ UNCHANGED <<row, job, admission, deferrals, history>>

SyncCheck ==
    /\ sync = "locked"
    /\ sync' = IF Holders = {} THEN "running" ELSE "free"
    /\ UNCHANGED <<row, job, admission, deferrals, interrupts, history>>

SyncEnd ==
    /\ sync = "running"
    /\ sync' = "free"
    /\ UNCHANGED <<row, job, admission, deferrals, interrupts, history>>

-----------------------------------------------------------------------------
(* Claims.                                                                 *)

Leased(r, w) ==
    [r EXCEPT !.status = "running", !.owner = w, !.lease = "live",
              !.settled = FALSE, !.inspected = FALSE]

NewJob(o, resumes, charged) ==
    [at |-> "step", op |-> o, step |-> 1, out |-> "pass", lost |-> FALSE,
     began |-> FALSE, resumes |-> resumes, replays |-> row[o].unverified,
     charged |-> charged]

Claimable(o) ==
    /\ admission
    /\ row[o].status = "pending"
    /\ ActiveOwner(o)

ClaimBootstrap(w, o) ==
    /\ KindOf[o] = "bootstrap" /\ Claimable(o)
    /\ row' = [row EXCEPT ![o] = [Leased(row[o], w) EXCEPT
                   !.phase = "running",
                   !.attempt = row[o].attempt + 1]]

ClaimRestore(w, o) ==
    /\ KindOf[o] = "restore" /\ Claimable(o)
    /\ row' = [row EXCEPT ![o] = [Leased(row[o], w) EXCEPT
                   !.phase = IF row[o].marks = {} THEN "running" ELSE row[o].phase,
                   !.attempt = row[o].attempt + 1]]

ClaimRelease(w, o) ==
    /\ Release(o) /\ Claimable(o)
    /\ row[o].settled
    /\ row' = [row EXCEPT ![o] = [Leased(row[o], w) EXCEPT
                   !.phase = "running",
                   !.marks = IF row[o].marks = {} THEN {} ELSE row[o].marks \cup {"running"},
                   !.attempt = row[o].attempt + 1]]

Claim(w, o) ==
    /\ job[w] = Idle
    /\ ClaimBootstrap(w, o) \/ ClaimRestore(w, o) \/ ClaimRelease(w, o)
    /\ job' = [job EXCEPT ![w] = NewJob(o, FALSE, TRUE)]
    /\ UNCHANGED <<sync, admission, deferrals, interrupts, history>>

(* A held two-slot cutover is taken up again by its original operation.    *)
(* Whether it is eligible, and whether going on uses the attempt budget,   *)
(* depends on how far the cutover got.                                     *)
ClaimReconciliation(w, o, charge) ==
    /\ job[w] = Idle
    /\ Release(o) /\ o \in TwoSlot /\ row[o].written
    /\ admission
    /\ row[o].status = "reconciliation_required" /\ row[o].settled
    /\ charge => row[o].attempt < MaxAttempts
    /\ ActiveOwner(o)
    /\ row' = [row EXCEPT ![o] = [Leased(row[o], w) EXCEPT
                   !.attempt = row[o].attempt + (IF charge THEN 1 ELSE 0)]]
    /\ job' = [job EXCEPT ![w] = NewJob(o, TRUE, charge)]
    /\ released' = released \cup {o}
    /\ UNCHANGED <<sync, admission, deferrals, interrupts, wrote, doubt>>

-----------------------------------------------------------------------------
(* The steps of a run.  by is how a step is admitted: "phase" writes a     *)
(* checkpoint, "write" the production-write checkpoint, "flag" looks at    *)
(* the heartbeat, "row" reads the lease, "none" looks at neither.  effect  *)
(* is what the step does to the provider: "read" and "verify" only look.   *)

Step(by, phase, effect) == [by |-> by, phase |-> phase, effect |-> effect]

BootstrapSteps == << Step("none", "running", "prod"), Step("none", "running", "prod") >>

RestoreSteps == << Step("phase", "validated", "none"), Step("phase", "started", "prod"),
                   Step("phase", "started", "prod"), Step("phase", "started", "verify") >>

(* The live target is read, post-deploy runs again, then the verification. *)
ReplaySteps == << Step("none", "started", "read"), Step("phase", "started", "prod"),
                  Step("phase", "started", "verify") >>

PromotionSteps == << Step("phase", "validated", "none"), Step("phase", "backup", "backup"),
                     Step("phase", "started", "none"), Step("write", "started", "prod"),
                     Step("flag", "started", "prod") >>

RollbackSteps == << Step("phase", "validated", "none"), Step("write", "started", "prod"),
                    Step("flag", "started", "prod") >>

ResumeSteps == << Step("row", "started", "prod"), Step("row", "started", "prod") >>

Steps(w) ==
    IF job[w].resumes THEN ResumeSteps
    ELSE CASE KindOf[job[w].op] = "bootstrap" -> BootstrapSteps
           [] KindOf[job[w].op] = "restore" ->
                 IF job[w].replays THEN ReplaySteps ELSE RestoreSteps
           [] KindOf[job[w].op] = "promotion" -> PromotionSteps
           [] KindOf[job[w].op] = "rollback" -> RollbackSteps

AtStep(w) == job[w].at = "step" /\ job[w].step <= Len(Steps(w))

This(w) == Steps(w)[job[w].step]

(* Mutated: the name of the holder is not compared.                        *)
LeaseIsCurrentForAnyone(w) ==
    LET r == row[job[w].op] IN r.status = "running" /\ r.lease = "live"

LeaseIsCurrent(w) ==
    LET r == row[job[w].op] IN r.status = "running" /\ r.owner = w /\ r.lease = "live"

(* What a step writes before its effect: nothing may go back in phase, and *)
(* a production write that is recorded stays recorded as it is.            *)
Recorded(r, s) ==
    IF s.by = "write" /\ r.written THEN r
    ELSE [r EXCEPT !.phase = s.phase, !.marks = r.marks \cup {s.phase},
                   !.written = r.written \/ s.by = "write"]

Backwards(w) ==
    /\ ~ (This(w).by = "write" /\ row[job[w].op].written)
    /\ PhaseRank[This(w).phase] < PhaseRank[row[job[w].op].phase]

Proceed(w) ==
    /\ job' = [job EXCEPT ![w] =
                   IF This(w).effect = "none" THEN [job[w] EXCEPT !.step = job[w].step + 1]
                   ELSE [job[w] EXCEPT !.at = "effect",
                                       !.began = @ \/ This(w).effect # "read"]]
    /\ wrote' = [wrote EXCEPT ![job[w].op] = @ \/ This(w).effect = "prod"]

(* Of a run that is over only how it ended matters.                        *)
End(w, out) ==
    job' = [job EXCEPT ![w] = [job[w] EXCEPT !.at = "ended", !.out = out, !.step = 1,
                                             !.lost = FALSE, !.began = FALSE]]

Checkpoint(w) ==
    /\ AtStep(w) /\ This(w).by \in {"phase", "write"} /\ ~ job[w].lost
    /\ LeaseIsCurrent(w) /\ ~ Backwards(w)
    /\ row' = [row EXCEPT ![job[w].op] = [Recorded(row[job[w].op], This(w)) EXCEPT
                                              !.settled = FALSE, !.inspected = FALSE]]
    /\ Proceed(w)
    /\ UNCHANGED <<sync, admission, deferrals, interrupts, doubt, released>>

(* A step that writes nothing.                                             *)
Unrecorded(w) ==
    /\ AtStep(w)
    /\ \/ This(w).by = "none"
       \/ This(w).by = "flag" /\ ~ job[w].lost
       \/ This(w).by = "row" /\ ~ job[w].lost /\ LeaseIsCurrent(w)
    /\ Proceed(w)
    /\ UNCHANGED <<row, sync, admission, deferrals, interrupts, doubt, released>>

LeaseLost(w) ==
    /\ AtStep(w) /\ This(w).by # "none"
    /\ \/ job[w].lost
       \/ This(w).by # "flag" /\ ~ LeaseIsCurrent(w)
       \/ This(w).by \in {"phase", "write"} /\ Backwards(w)
    /\ End(w, "raised")
    /\ UNCHANGED <<row, sync, admission, deferrals, interrupts, history>>

(* Authority is read before the run and before its first effect; a         *)
(* promotion reads it again at each boundary, a resumed cutover always.    *)
Denied(w) ==
    /\ AtStep(w) /\ ~ job[w].lost
    /\ \/ ~ job[w].began
       \/ KindOf[job[w].op] = "promotion" /\ This(w).by \in {"phase", "write"}
       \/ job[w].resumes
    /\ End(w, "denied")
    /\ UNCHANGED <<row, sync, admission, deferrals, interrupts, history>>

(* Business hours hold a Client release before its first effect; a source  *)
(* order that cannot be read puts a release off before its first write.    *)
Deferred(w) ==
    /\ AtStep(w) /\ Release(job[w].op) /\ ~ job[w].resumes
    /\ deferrals < MaxDeferrals
    /\ \/ /\ job[w].op \in ClientRelease /\ ~ job[w].began /\ This(w).effect # "none"
          /\ ~ row[job[w].op].written
          /\ End(w, "held")
       \/ This(w).by = "write" /\ End(w, "unordered")
    /\ deferrals' = deferrals + 1
    /\ UNCHANGED <<row, sync, admission, interrupts, history>>

EffectDone(w) ==
    /\ job[w].at = "effect"
    /\ IF job[w].step = Len(Steps(w)) THEN End(w, job[w].out)
       ELSE job' = [job EXCEPT ![w] = [job[w] EXCEPT !.at = "step", !.step = job[w].step + 1]]
    /\ doubt' = IF job[w].resumes THEN [doubt EXCEPT ![job[w].op] = FALSE] ELSE doubt
    /\ UNCHANGED <<row, sync, admission, deferrals, interrupts, wrote, released>>

(* The provider reports a definite failure, or a cutover is refused before *)
(* its entry, or a resumed one is back at its old slot.                    *)
EffectFails(w) ==
    /\ job[w].at = "effect"
    /\ \/ End(w, "fail")
       \/ This(w).effect = "verify" /\ End(w, "unverified")
       \/ /\ job[w].op \in TwoSlot /\ ~ job[w].resumes /\ This(w).by = "write"
          /\ End(w, "refused")
       \/ job[w].resumes /\ KindOf[job[w].op] = "promotion" /\ End(w, "aborted")
    /\ doubt' = IF job[w].resumes THEN [doubt EXCEPT ![job[w].op] = FALSE] ELSE doubt
    /\ UNCHANGED <<row, sync, admission, deferrals, interrupts, wrote, released>>

(* A lost answer: the outcome of a release's effect is unknown.            *)
EffectUncertain(w) ==
    /\ job[w].at = "effect"
    /\ End(w, "raised")
    /\ doubt' = [doubt EXCEPT ![job[w].op] =
                     @ \/ (Release(job[w].op) /\ This(w).effect = "prod")]
    /\ UNCHANGED <<row, sync, admission, deferrals, interrupts, wrote, released>>

(* The heartbeat thread finds the lease gone.                              *)
HeartbeatLost(w) ==
    /\ job[w].at \in {"step", "effect"} /\ ~ job[w].lost
    /\ ~ LeaseIsCurrent(w)
    /\ job' = [job EXCEPT ![w].lost = TRUE]
    /\ UNCHANGED <<row, sync, admission, deferrals, interrupts, history>>

-----------------------------------------------------------------------------
(* The end of a run.                                                       *)

Unleased(r) == [r EXCEPT !.owner = NoWorker, !.lease = "none",
                         !.settled = FALSE, !.inspected = FALSE]

(* Mutated: an uncertain production write counts as a failure.             *)
ReleaseEndingForgets(r, j) ==
    CASE j.out = "pass" -> "pass"
      [] j.out = "denied" -> IF j.resumes THEN "hold" ELSE "fail"
      [] j.out \in {"held", "unordered"} -> "retry"
      [] OTHER -> "fail"

ReleaseEnding(r, j) ==
    CASE j.out = "pass" -> "pass"
      [] j.out \in {"fail", "refused", "aborted"} -> "fail"
      [] j.out = "denied" ->
            IF \/ j.resumes
               \/ j.op \in TwoSlot /\ (r.written \/ Recovers(j.op))
            THEN "hold" ELSE "fail"
      [] j.out = "held" -> IF j.resumes THEN "hold" ELSE "retry"
      [] j.out = "unordered" -> IF j.resumes \/ r.written THEN "hold" ELSE "retry"
      [] j.out = "raised" -> IF j.resumes \/ r.written THEN "hold" ELSE "fail"

Ending(r, j) ==
    IF Release(j.op) THEN ReleaseEnding(r, j)
    ELSE IF j.out = "pass" THEN "pass" ELSE "fail"

(* A refused or held run gives its attempt back.                           *)
Refunded(r, j) ==
    IF j.out \in {"denied", "held"} /\ j.charged /\ r.attempt > 0
    THEN r.attempt - 1 ELSE r.attempt

Held(r, j) ==
    [Unleased(r) EXCEPT !.status = "reconciliation_required", !.attempt = Refunded(r, j)]

Retried(r, j) ==
    [Unleased(r) EXCEPT !.status = "pending", !.attempt = Refunded(r, j),
                        !.phase = IF r.marks = {} THEN "created" ELSE r.phase]

(* Of a failed restore the result is kept, and stays when a replay of it   *)
(* ends without a result of its own.                                       *)
Finished(r, j) ==
    IF j.out = "unverified" \/ (r.unverified /\ j.out \in {"raised", "denied"})
    THEN [Terminal(r, "fail") EXCEPT !.marks = r.marks, !.attempt = r.attempt,
                                     !.unverified = TRUE]
    ELSE Terminal(r, Ending(r, j))

(* A failed Client release that wrote production needs a recovery.         *)
NeedsRecovery(r, j) ==
    /\ KindOf[j.op] = "promotion" /\ j.op \in ClientRelease /\ r.written
    /\ Ending(r, j) = "fail"
    /\ j.out \notin {"refused", "aborted"}

(* Mutated: the recovery is left to be queued later.                       *)
RecoveryQueuedLater(w) ==
    LET o == job[w].op IN
    /\ o \in DOMAIN RecoveryOf /\ job[w].out = "fail"
    /\ row' = [row EXCEPT ![o] = Terminal(row[o], "fail")]

(* The recovery rollback is queued in the transaction that fails the       *)
(* release.                                                                *)
RecoveryQueued(w) ==
    LET o == job[w].op IN
    /\ o \in DOMAIN RecoveryOf /\ job[w].out = "fail"
    /\ row' = [row EXCEPT ![o] = Terminal(row[o], "fail"),
                          ![RecoveryOf[o]] = [NoRow EXCEPT !.status = "pending",
                                                           !.marks = {"created"}]]

WriteEnding(w) ==
    LET o == job[w].op  r == row[o] IN
    IF NeedsRecovery(r, job[w])
    THEN \/ RecoveryQueued(w)
         \/ row' = [row EXCEPT ![o] = [Unleased(r) EXCEPT
                                           !.status = "reconciliation_required"]]
    ELSE row' = [row EXCEPT ![o] =
             CASE Ending(r, job[w]) = "hold" -> Held(r, job[w])
               [] Ending(r, job[w]) = "retry" -> Retried(r, job[w])
               [] OTHER -> Finished(r, job[w])]

(* Mutated: the lease is not checked again.                                *)
CompleteAnyway(w) ==
    /\ job[w].at = "ended"
    /\ WriteEnding(w)
    /\ job' = [job EXCEPT ![w] = Idle]
    /\ UNCHANGED <<sync, admission, deferrals, interrupts, history>>

Complete(w) ==
    /\ job[w].at = "ended"
    /\ IF LeaseIsCurrent(w) THEN WriteEnding(w) ELSE UNCHANGED row
    /\ job' = [job EXCEPT ![w] = Idle]
    /\ UNCHANGED <<sync, admission, deferrals, interrupts, history>>

-----------------------------------------------------------------------------
(* Expired leases.                                                         *)

Requeued(r, marks) ==
    [Unleased(r) EXCEPT !.status = "pending", !.phase = "created", !.marks = marks,
                        !.settled = TRUE]

(* Mutated: the attempts are not counted.                                  *)
RecoveredForever(r, safe, marks) ==
    IF safe THEN Requeued(r, marks)
    ELSE [Unleased(r) EXCEPT !.status = "reconciliation_required", !.unverified = FALSE]

Recovered(r, safe, marks) ==
    IF safe /\ r.attempt < MaxAttempts THEN Requeued(r, marks)
    ELSE IF safe THEN Terminal(r, "fail")
    ELSE [Unleased(r) EXCEPT !.status = "reconciliation_required", !.unverified = FALSE]

RecoverBootstrap(o) ==
    /\ KindOf[o] = "bootstrap"
    /\ row' = [row EXCEPT ![o] = Recovered(row[o], row[o].phase = "created", row[o].marks)]

(* Mutated: a restore past its safe phases is left to its worker.          *)
RecoverRestoreWhenSafe(o) ==
    /\ KindOf[o] = "restore" /\ row[o].phase \in SafePhases
    /\ row' = [row EXCEPT ![o] = Recovered(row[o], TRUE, {})]

RecoverRestore(o) ==
    /\ KindOf[o] = "restore"
    /\ row' = [row EXCEPT ![o] = Recovered(row[o], row[o].phase \in SafePhases, {})]

(* Mutated: any expired lease is tried again.                              *)
RecoverReleaseInAnyPhase(o) ==
    /\ Release(o)
    /\ row' = [row EXCEPT ![o] = Recovered(row[o], TRUE, row[o].marks \cap {"created"})]

RecoverRelease(o) ==
    /\ Release(o)
    /\ row' = [row EXCEPT ![o] =
                   Recovered(row[o], /\ row[o].phase \in SafePhases
                                     /\ row[o].marks \subseteq SafePhases
                                     /\ ~ row[o].written,
                             row[o].marks \cap {"created"})]

Recover(o) ==
    /\ row[o].status = "running" /\ row[o].lease = "expired"
    /\ RecoverBootstrap(o) \/ RecoverRestore(o) \/ RecoverRelease(o)
    /\ UNCHANGED <<job, sync, admission, deferrals, interrupts, history>>

-----------------------------------------------------------------------------
(* Time, crashes and the replacement of the service.                       *)

(* No heartbeat in time.                                                   *)
LeaseRunsOut(o) ==
    /\ row[o].status = "running" /\ row[o].lease \in {"live", "due"}
    /\ row' = [row EXCEPT ![o].lease = IF @ = "live" THEN "due" ELSE "expired"]
    /\ UNCHANGED <<job, sync, admission, deferrals, interrupts, history>>

DelayElapses(o) ==
    /\ row[o].status \in {"pending", "reconciliation_required"} /\ ~ row[o].settled
    /\ row' = [row EXCEPT ![o].settled = TRUE]
    /\ UNCHANGED <<job, sync, admission, deferrals, interrupts, history>>

LeavesDoubt(W) ==
    doubt' = [o \in Op |->
                  \/ doubt[o]
                  \/ \E w \in W : /\ job[w].at = "effect" /\ job[w].op = o
                                  /\ This(w).effect = "prod"]

(* A worker process dies; the next one has a name of its own.              *)
Crash(w) ==
    /\ job[w] # Idle
    /\ job' = [job EXCEPT ![w] = Idle]
    /\ LeavesDoubt({w})
    /\ UNCHANGED <<row, sync, admission, deferrals, interrupts, wrote, released>>

(* The drain waits until no row is running, then every process is          *)
(* replaced, whatever it is doing.                                         *)
DrainPauses ==
    /\ admission /\ interrupts < MaxInterrupts
    /\ admission' = FALSE
    /\ interrupts' = interrupts + 1
    /\ UNCHANGED <<row, job, sync, deferrals, history>>

DrainEnds ==
    /\ ~ admission
    /\ admission' = TRUE
    /\ UNCHANGED <<row, job, sync, deferrals, interrupts, history>>

Replace ==
    /\ ~ admission
    /\ \A o \in Op : row[o].status # "running"
    /\ admission' = TRUE
    /\ job' = [w \in Worker |-> Idle]
    /\ LeavesDoubt(Worker)
    /\ UNCHANGED <<row, sync, deferrals, interrupts, wrote, released>>

WorkerNext(w) ==
    \/ Checkpoint(w) \/ Unrecorded(w) \/ LeaseLost(w) \/ Denied(w) \/ Deferred(w)
    \/ EffectDone(w) \/ EffectFails(w) \/ EffectUncertain(w) \/ HeartbeatLost(w)
    \/ Complete(w) \/ Crash(w)
    \/ \E o \in Op : Claim(w, o) \/ \E charge \in BOOLEAN : ClaimReconciliation(w, o, charge)

OpNext(o) ==
    \/ Create(o) \/ Inspect(o) \/ Cancel(o) \/ Requeue(o) \/ Recover(o)
    \/ LeaseRunsOut(o) \/ DelayElapses(o)

Next ==
    \/ \E w \in Worker : WorkerNext(w)
    \/ \E o \in Op : OpNext(o)
    \/ SyncLock \/ SyncCheck \/ SyncEnd
    \/ DrainPauses \/ DrainEnds \/ Replace

Spec == Init /\ [][Next]_vars

(* Runs go on or are cut short by a crash; time passes; a loop that        *)
(* recovers and claims keeps running; drains and synchronous releases end. *)
Runs(w) ==
    Checkpoint(w) \/ Unrecorded(w) \/ LeaseLost(w) \/ EffectDone(w) \/ Complete(w)

Fairness ==
    /\ \A w \in Worker : WF_vars(Runs(w))
    /\ \A o \in Op : WF_vars(LeaseRunsOut(o)) /\ WF_vars(DelayElapses(o)) /\ WF_vars(Recover(o))
    /\ \A o \in Op : WF_vars(\E w \in Worker : Claim(w, o))
    /\ WF_vars(SyncCheck) /\ WF_vars(SyncEnd) /\ WF_vars(DrainEnds)

FairSpec == Spec /\ Fairness

-----------------------------------------------------------------------------
(* Properties.                                                             *)

(* Type invariant: every variable keeps its shape.                         *)
TypeOK ==
    /\ row \in [Op -> Row]
    /\ job \in [Worker -> Job]
    /\ sync \in {"free", "locked", "running"}
    /\ admission \in BOOLEAN
    /\ deferrals \in 0..MaxDeferrals /\ interrupts \in 0..MaxInterrupts
    /\ wrote \in [Op -> BOOLEAN] /\ doubt \in [Op -> BOOLEAN]
    /\ released \subseteq Op

AtEffect(w) == job[w].at = "effect" /\ This(w).effect = "prod"

(* "Every create and claim tries the same lock ... so the two sides        *)
(* exclude each other" (docs/records.md:2337): the lane has one holder, be *)
(* it a durable operation, whoever queued it, or a synchronous release.    *)
OneHolder ==
    /\ \A o, p \in Holders : o = p
    /\ sync = "running" => Holders = {}

(* Two workers are never at effects on the lane together, however late one *)
(* of them is, unless an admin attested the provider's state or a held     *)
(* cutover was taken up again; nor is one with a synchronous release.      *)
OneExecutor ==
    \A w \in Worker :
        AtEffect(w) /\ job[w].op \notin released
        => /\ sync # "running"
           /\ \A v \in Worker : AtEffect(v) /\ v # w => job[v].op \in released

(* "A lost response, ... interrupted recovery or expired lease after       *)
(* effects remains reconciliation_required" (docs/release-review.md:1244): *)
(* an effect nobody saw the end of keeps the lane, through crashes, lease  *)
(* recovery and replacement of the service, until an admin attested or its *)
(* cutover was taken up again.                                             *)
DoubtHoldsLane ==
    \A o \in Op :
        /\ o \notin released
        /\ doubt[o] \/ \E w \in Worker : AtEffect(w) /\ job[w].op = o
        => o \in Holders

(* "Expired work may be recovered only before a provider-effect phase"     *)
(* (docs/records.md:2284): what goes from a worker back to the queue has   *)
(* not begun a production effect, in this or any earlier attempt.          *)
RequeuedIsUntouched ==
    [][\A o \in Op : row[o].status = "running" /\ row'[o].status = "pending"
                     => ~ wrote'[o]]_vars

(* A worker at a production effect of a restore that is done but for its   *)
(* verification only replays its end: it claimed it after the failure.     *)
RestoredOnce ==
    \A w \in Worker : AtEffect(w) /\ row[job[w].op].unverified => job[w].replays

(* A terminal record stays what it is: no worker that lost its lease,      *)
(* whatever it found, writes over it.  Only a restore that failed its      *)
(* verification is queued again, with its evidence, once, on a free lane   *)
(* where no worker is still at an effect of it (docs/operations.md:4594),  *)
(* and nothing it restored is restored again.                              *)
TerminalIsFinal ==
    [][/\ RestoredOnce
       /\ \A o \in Op :
             row[o].status \in {"pass", "fail", "cancelled"} /\ row'[o] # row[o]
             => /\ KindOf[o] = "restore" /\ row[o].attempt = 1
                /\ row[o].status = "fail" /\ row'[o].status = "pending"
                /\ row'[o].unverified /\ row'[o].marks = row[o].marks
                /\ Holders = {} /\ sync # "running"
                /\ \A w \in Worker : ~ (AtEffect(w) /\ job[w].op = o)]_vars

(* A Client release that failed after its production write never frees the *)
(* lane (postgres.py:18116, odoo_release_recovery.py:142): its recovery    *)
(* holds it from then on, unless the cutover was refused or aborted.       *)
FailedReleaseKeepsLane ==
    [][\A o \in ClientRelease :
           /\ KindOf[o] = "promotion" /\ row[o].written
           /\ row[o].status = "running" /\ row'[o].status = "fail"
           => \/ Holders' # {}
              \/ \E w \in Worker : /\ job[w].at = "ended" /\ job[w].op = o
                                  /\ job[w].out \in {"refused", "aborted"}]_vars

(* Whatever crashes, a queued operation ends or is held for an admin.      *)
OperationsSettle ==
    \A o \in Op : row[o].status \in {"pending", "running"}
                  ~> row[o].status \in {"pass", "fail", "cancelled", "reconciliation_required"}

-----------------------------------------------------------------------------
(* Why they hold: the inductive invariant of DurableOperationProof.        *)

Owns(w, o) == row[o].status = "running" /\ row[o].owner = w

(* The row shows that a production effect may have begun.                  *)
Touched(o) ==
    CASE KindOf[o] = "bootstrap" -> row[o].phase # "created"
      [] KindOf[o] = "restore" -> row[o].phase \notin SafePhases /\ row[o].marks # {}
      [] OTHER -> row[o].written

(* A worker that is at a production effect, or goes to one without asking  *)
(* for its lease, in its first run of the operation.                       *)
Committed(w) ==
    /\ job[w].at \in {"step", "effect"} /\ ~ job[w].resumes
    /\ \/ KindOf[job[w].op] = "bootstrap"
       \/ AtStep(w) /\ This(w).by = "flag"
       \/ AtEffect(w)

(* What holds of the operation a worker is at.                             *)
Working(w) ==
    LET j == job[w]  r == row[j.op] IN
    j # Idle =>
        /\ r.status # "none"
        /\ j.at # "ended" => j.step <= Len(Steps(w)) /\ j.out = "pass"
        /\ j.at = "effect" => This(w).effect # "none"
        /\ KindOf[j.op] = "bootstrap" => r.status # "pending"
        /\ j.resumes =>
             /\ j.op \in released /\ Release(j.op)
             /\ Owns(w, j.op) => r.written
        /\ Committed(w) =>
             /\ Release(j.op) => wrote[j.op]
             /\ j.op \notin released =>
                  /\ r.status = "reconciliation_required" \/ Owns(w, j.op)
                  /\ Touched(j.op)
        /\ j.at = "ended" /\ j.out = "unverified" => KindOf[j.op] = "restore"
        /\ j.at = "ended" /\ j.out \in {"held", "unordered"} =>
             /\ ~ j.resumes
             /\ Owns(w, j.op) => r.attempt < MaxAttempts + deferrals
             /\ Owns(w, j.op) /\ j.out = "held" => ~ r.written

(* How often an operation is run: a restore once more for its replay.      *)
Budget(o) == MaxAttempts + deferrals + (IF KindOf[o] = "restore" THEN 1 ELSE 0)

(* What holds of an operation: how often it was tried, whose lease it is,  *)
(* and that its row shows what happened.                                   *)
Accounted(o) ==
    /\ IF row[o].status \in {"none", "pending"}
       THEN row[o].attempt < Budget(o)
       ELSE row[o].attempt <= Budget(o)
    /\ row[o].status = "running" =>
         /\ row[o].owner \in Worker
         /\ job[row[o].owner] = Idle \/ job[row[o].owner].op = o
    /\ row[o].status \in {"running", "reconciliation_required"} /\ KindOf[o] = "bootstrap"
       => row[o].phase = "running"
    /\ wrote[o] => /\ row[o].status # "none"
                   /\ row[o].status = "pending" => KindOf[o] = "restore"
                   /\ o \in Holders => Touched(o)

(* The operation is held, or it is running under a worker that died or is  *)
(* about to hold it, and its row shows why.                                *)
Carried(o) ==
    /\ Touched(o)
    /\ \/ row[o].status = "reconciliation_required"
       \/ /\ row[o].status = "running"
          /\ LET j == job[row[o].owner] IN
             \/ j = Idle
             \/ Release(o) /\ j.at = "ended" /\ j.out = "raised"

(* An effect nobody saw the end of.                                        *)
Doubted(o) == doubt[o] /\ o \notin released => Carried(o)

OneCommitted ==
    \A v, w \in Worker :
        /\ Committed(v) /\ Committed(w)
        /\ job[v].op = job[w].op /\ job[v].op \notin released
        => v = w

(* A recovery is queued when its release fails, and never before.          *)
RecoveriesFollow ==
    \A o \in DOMAIN RecoveryOf : row[RecoveryOf[o]].status # "none" => row[o].status = "fail"

(* A result that failed its verification is that of a restore, and whoever *)
(* owns the lease of a restore with one replays it.                        *)
Replays ==
    /\ \A o \in Op :
          /\ row[o].unverified => /\ KindOf[o] = "restore"
                                 /\ row[o].status \in {"fail", "pending", "running"}
          /\ o \in released => Release(o) \/ row[o].status = "cancelled"
    /\ \A w \in Worker :
          LET o == job[w].op IN
          job[w] # Idle /\ Owns(w, o) => (job[w].replays <=> row[o].unverified)

LaneInv ==
    /\ TypeOK /\ OneHolder /\ OneCommitted /\ RecoveriesFollow
    /\ \A w \in Worker : Working(w)
    /\ \A o \in Op : Accounted(o) /\ Doubted(o)

(* The inductive invariant.                                                *)
Inv == LaneInv /\ Replays

=============================================================================
